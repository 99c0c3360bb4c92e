-------------------------- MODULE PanelFiles_proof ---------------------------
(***************************************************************************)
(* What holds of the file manager and of its editor, for every tree of     *)
(* files, every confined or free account, and every number of requests;    *)
(* and of the LuckPerms tab, for every number of groups, of weights and of *)
(* requests.                                                               *)
(***************************************************************************)
EXTENDS PanelFiles, SequenceTheorems, FiniteSetTheorems, WellFoundedInduction, TLAPS

-----------------------------------------------------------------------------
(* A step of a tab, or none. *)

ManagerStep == Manager!Next \/ UNCHANGED vars
PermsStep == Perms!Next \/ UNCHANGED vars

FileFixed == page' = page /\ calm' = calm

LEMMA ManagerFixed == Manager!Next => FileFixed
<1> SUFFICES ASSUME Manager!Next PROVE FileFixed
  OBVIOUS
<1>1. \A call, v : Manager!Send(call) \/ Manager!Shows(v) => FileFixed
  BY DEF Manager!Send, Manager!Shows, FileFixed
<1>2. \A call : Manager!Begins(call) => FileFixed
  BY <1>1 DEF Manager!Begins
<1>3. \A s, ok, doc : Manager!Answer(s, ok, doc) \/ Manager!Arrives(s) => FileFixed
  BY DEF Manager!Answer, Manager!Arrives, FileFixed
<1>4. CASE Manager!Navigate \/ Manager!OpenFile \/ Manager!Answered \/ Manager!Drag \/ Manager!MoveTo
           \/ Manager!Upload
  BY <1>4, <1>1, <1>2 DEF FileFixed, Manager!Navigate, Manager!OpenFile, Manager!Answered, Manager!Drag,
     Manager!MoveTo, Manager!Upload
<1>5. CASE Manager!AskMkdir \/ Manager!AskRename \/ Manager!AskDelete \/ Manager!Type \/ Manager!Save
           \/ Manager!Close
  BY <1>5, <1>1 DEF Manager!AskMkdir, Manager!AskRename, Manager!AskDelete, Manager!AskAbout, Manager!Type,
     Manager!Save, Manager!Close, FileFixed
<1>6. CASE Manager!Elsewhere
  BY <1>6 DEF Manager!Elsewhere, FileFixed
<1>7. ASSUME NEW s \in Slots, Manager!Serve(s) \/ Manager!Uploads(s) \/ Manager!Deliver(s)
      PROVE  FileFixed
  BY <1>7, <1>3 DEF Manager!Serve, Manager!Uploads, Manager!Deliver, FileFixed
<1> QED
  BY <1>4, <1>5, <1>6, <1>7 DEF Manager!Next

LEMMA PermsFixed == Perms!Next => FileFixed
<1> SUFFICES ASSUME Perms!Next PROVE FileFixed
  OBVIOUS
<1>1. \A call, v : Perms!Send(call) \/ Perms!Shows(v) => FileFixed
  BY DEF Perms!Send, Perms!Shows, FileFixed
<1>2. \A call : Perms!Begins(call) => FileFixed
  BY <1>1 DEF Perms!Begins
<1>3. \A s, ok, doc : Perms!Answer(s, ok, doc) \/ Perms!Arrives(s) => FileFixed
  BY DEF Perms!Answer, Perms!Arrives, FileFixed
<1>4. CASE Perms!EditNodes
  <2>1. \A n : Perms!AddNode(n) \/ Perms!RemoveNode(n) => FileFixed
    BY <1>2 DEF Perms!AddNode, Perms!RemoveNode
  <2> QED
    BY <1>4, <2>1 DEF Perms!EditNodes, Perms!PermissionsPanel, Perms!ChatMetaPanel, Perms!MetaPanel,
       Perms!ParentsPanel
<1>5. CASE Perms!SaveWeight \/ Perms!SaveDisplayName \/ Perms!EditTrack \/ Perms!MoveUser \/ Perms!Lookup
           \/ Perms!Search
  BY <1>5, <1>2 DEF Perms!SaveWeight, Perms!SaveDisplayName, Perms!SaveInfo, Perms!EditTrack,
     Perms!MoveUser, Perms!Lookup, Perms!Search
<1>6. CASE Perms!AskName \/ Perms!DeleteGroup \/ Perms!DeleteTrack \/ Perms!Answered \/ Perms!Retry
  BY <1>6, <1>1 DEF Perms!AskName, Perms!DeleteGroup, Perms!DeleteTrack, Perms!AskDelete, Perms!Answered,
     Perms!Retry
<1>7. CASE Perms!Select \/ Perms!Elsewhere
  BY <1>7 DEF Perms!Select, Perms!Elsewhere, FileFixed
<1>8. ASSUME NEW s \in Slots, Perms!Change(s) \/ Perms!Serve(s) \/ Perms!Fail(s) \/ Perms!Deliver(s)
      PROVE  FileFixed
  BY <1>8, <1>3 DEF Perms!Change, Perms!Serve, Perms!Fail, Perms!Deliver, FileFixed
<1> QED
  BY <1>4, <1>5, <1>6, <1>7, <1>8 DEF Perms!Next

-----------------------------------------------------------------------------
(***************************************************************************)
(* What is not true of every natural number has a first exception.  (As in *)
(* PanelLists_proof: each of the two is proved with the tabs it is about   *)
(* in sight, and no other.)                                                *)
(***************************************************************************)
LEMMA FileLeastNumber ==
    ASSUME NEW T, T \subseteq Nat, T # {}
    PROVE  \E n \in T : \A m \in T : n <= m
<1>1. PICK n \in T : \A m \in T : ~ (<<m, n>> \in OpToRel(<, Nat))
  BY WFMin, NatLessThanWellFounded, Zenon
<1>2. \A m \in T : ~ (m < n)
  BY <1>1, Zenon DEF OpToRel
<1> QED
  BY <1>2

(***************************************************************************)
(* The answers under way when calm: every answered request stands in the   *)
(* queue once.  A step adds an answer, takes the first one, or leaves the  *)
(* queue and the answers in it alone.                                      *)
(***************************************************************************)
FileQueued ==
    calm =>
        /\ order \in Seq(Slots)
        /\ \A i, j \in 1..Len(order) : order[i] = order[j] => i = j
        /\ \A i \in 1..Len(order) : calls[order[i]].at = "answered"
        /\ \A s \in Slots : calls[s].at = "answered" => \E i \in 1..Len(order) : order[i] = s

FileWaiting(i) == calls[order[i]]

FileAppended(s) ==
    /\ order' = Append(order, s)
    /\ calls' = [calls EXCEPT ![s] = calls'[s]] /\ calls[s].at # "answered" /\ calls'[s].at = "answered"

FileTaken(s) ==
    /\ Head(order) = s /\ order' = Tail(order)
    /\ calls' = [calls EXCEPT ![s] = calls'[s]] /\ calls[s].at = "answered" /\ calls'[s].at # "answered"

FileShifted(s) ==
    /\ Head(order) = s /\ order' = Tail(order) /\ calls[s].at = "answered" /\ calls'[s].at # "answered"
    /\ \A t \in Slots : t # s => calls'[t].at = calls[t].at

FileUntouched ==
    /\ order' = order
    /\ \A t \in Slots : calls'[t] = calls[t] \/ (calls[t].at # "answered" /\ calls'[t].at # "answered")

LEMMA FileQueueIs ==
    ASSUME FileQueued, calm
    PROVE  /\ order \in Seq(Slots) /\ Len(order) \in Nat
           /\ \A i \in 1..Len(order) : order[i] \in Slots /\ calls[order[i]].at = "answered"
  BY LenProperties, ElementOfSeq DEF FileQueued

LEMMA FileAnswerQueued ==
    ASSUME FileQueued, calm' = calm, calm, NEW s \in Slots, FileAppended(s), calls = [t \in Slots |-> calls[t]]
    PROVE  /\ FileQueued'
           /\ Len(order') = Len(order) + 1
           /\ \A i \in 1..Len(order) : order'[i] = order[i] /\ FileWaiting(i)' = FileWaiting(i)
           /\ \A i \in 1..Len(order') : i \in 1..Len(order)
                \/ (i = Len(order) + 1 /\ FileWaiting(i)' = calls'[s])
<1>1. /\ order \in Seq(Slots) /\ Len(order) \in Nat
      /\ \A i \in 1..Len(order) : order[i] \in Slots /\ calls[order[i]].at = "answered"
  BY FileQueueIs
<1>2. /\ order' \in Seq(Slots) /\ Len(order') = Len(order) + 1
      /\ \A i \in 1..Len(order) : order'[i] = order[i]
      /\ order'[Len(order) + 1] = s
  BY <1>1, AppendProperties DEF FileAppended
<1>3. \A t \in Slots : t # s => calls'[t] = calls[t]
  BY DEF FileAppended
<1>4. \A i \in 1..Len(order) : order[i] # s
  BY <1>1 DEF FileAppended
<1>5. \A i \in 1..Len(order) : calls'[order'[i]] = calls[order[i]]
  BY <1>1, <1>2, <1>3, <1>4
<1>6. \A i \in 1..Len(order') : i \in 1..Len(order) \/ i = Len(order) + 1
  BY <1>1, <1>2
<1>7. \A i \in 1..Len(order') : calls'[order'[i]].at = "answered"
  BY <1>1, <1>2, <1>5, <1>6 DEF FileAppended
<1>8. ASSUME NEW i \in 1..Len(order'), NEW j \in 1..Len(order'), order'[i] = order'[j]
      PROVE  i = j
  <2>1. CASE i \in 1..Len(order) /\ j \in 1..Len(order)
    BY <1>2, <1>8, <2>1 DEF FileQueued
  <2>2. CASE i = Len(order) + 1 /\ j \in 1..Len(order)
    BY <1>2, <1>4, <1>8, <2>2
  <2>3. CASE i \in 1..Len(order) /\ j = Len(order) + 1
    BY <1>2, <1>4, <1>8, <2>3
  <2> QED
    BY <1>6, <2>1, <2>2, <2>3
<1>9. ASSUME NEW t \in Slots, calls'[t].at = "answered"
      PROVE  \E i \in 1..Len(order') : order'[i] = t
  <2>1. CASE t = s
    BY <1>1, <1>2, <2>1
  <2>2. CASE t # s
    <3>1. PICK i \in 1..Len(order) : order[i] = t
      BY <1>3, <1>9, <2>2 DEF FileQueued
    <3>2. i \in 1..Len(order') /\ order'[i] = t
      BY <1>1, <1>2, <3>1
    <3> QED
      BY <3>2
  <2> QED
    BY <2>1, <2>2
<1>10. FileQueued'
  BY <1>2, <1>7, <1>8, <1>9 DEF FileQueued
<1>11. ASSUME NEW i \in 1..Len(order'), i \notin 1..Len(order)
       PROVE  i = Len(order) + 1 /\ FileWaiting(i)' = calls'[s]
  BY <1>2, <1>6, <1>11 DEF FileWaiting
<1>12. \A i \in 1..Len(order) : order'[i] = order[i] /\ FileWaiting(i)' = FileWaiting(i)
  BY <1>2, <1>5 DEF FileWaiting
<1> QED
  BY <1>2, <1>10, <1>11, <1>12

LEMMA FileQueueShifts ==
    ASSUME FileQueued, calm' = calm, calm, NEW s \in Slots, FileShifted(s)
    PROVE  /\ FileQueued'
           /\ Len(order) # 0 /\ order[1] = s /\ FileWaiting(1) = calls[s]
           /\ Len(order') = Len(order) - 1
           /\ \A i \in 1..Len(order') : /\ i + 1 \in 1..Len(order)
                                        /\ order'[i] = order[i + 1] /\ order'[i] \in Slots \ {s}
<1>1. /\ order \in Seq(Slots) /\ Len(order) \in Nat
      /\ \A i \in 1..Len(order) : order[i] \in Slots /\ calls[order[i]].at = "answered"
  BY FileQueueIs
<1>2. PICK n \in 1..Len(order) : order[n] = s
  BY DEF FileQueued, FileShifted
<1>3. Len(order) # 0 /\ order # <<>>
  BY <1>1, <1>2, EmptySeq
<1>4. order[1] = s
  BY <1>3 DEF FileShifted
<1>5. /\ order' \in Seq(Slots) /\ Len(order') = Len(order) - 1
      /\ \A i \in 1..Len(order') : order'[i] = order[i + 1]
  BY <1>1, <1>3, HeadTailProperties DEF FileShifted
<1>6. \A i \in 1..Len(order') : i + 1 \in 1..Len(order) /\ i + 1 # 1 /\ 1 \in 1..Len(order)
  BY <1>1, <1>3, <1>5
<1>7. \A i \in 1..Len(order') : order'[i] \in Slots \ {s}
  BY <1>1, <1>4, <1>5, <1>6 DEF FileQueued
<1>8. \A t \in Slots : t # s => calls'[t].at = calls[t].at
  BY DEF FileShifted
<1>9. \A i \in 1..Len(order') : calls'[order'[i]].at = calls[order[i + 1]].at
  BY <1>1, <1>5, <1>6, <1>7, <1>8
<1>10. \A i \in 1..Len(order') : calls'[order'[i]].at = "answered"
  BY <1>1, <1>6, <1>9
<1>11. ASSUME NEW i \in 1..Len(order'), NEW j \in 1..Len(order'), order'[i] = order'[j]
       PROVE  i = j
  <2>1. order[i + 1] = order[j + 1]
    BY <1>5, <1>11
  <2>2. i + 1 = j + 1
    BY <1>6, <2>1 DEF FileQueued
  <2> QED
    BY <1>1, <1>5, <2>2
<1>12. ASSUME NEW t \in Slots, calls'[t].at = "answered"
       PROVE  \E i \in 1..Len(order') : order'[i] = t
  <2>1. t # s
    BY <1>12 DEF FileShifted
  <2>2. PICK i \in 1..Len(order) : order[i] = t
    BY <1>8, <1>12, <2>1 DEF FileQueued
  <2>3. i # 1
    BY <1>4, <2>1, <2>2
  <2>4. i - 1 \in 1..Len(order') /\ order'[i - 1] = order[i - 1 + 1]
    BY <1>1, <1>5, <2>3
  <2>5. i - 1 + 1 = i
    BY <1>1
  <2> QED
    BY <2>2, <2>4, <2>5
<1>13. FileWaiting(1) = calls[s]
  BY <1>4 DEF FileWaiting
<1>14. FileQueued'
  BY <1>5, <1>10, <1>11, <1>12 DEF FileQueued
<1> QED
  BY <1>3, <1>4, <1>5, <1>6, <1>7, <1>13, <1>14

LEMMA FileArrivalQueued ==
    ASSUME FileQueued, calm' = calm, calm, NEW s \in Slots, FileTaken(s), calls = [t \in Slots |-> calls[t]]
    PROVE  /\ FileQueued'
           /\ Len(order) # 0 /\ order[1] = s /\ FileWaiting(1) = calls[s]
           /\ Len(order') = Len(order) - 1
           /\ \A i \in 1..Len(order') : /\ i + 1 \in 1..Len(order)
                                        /\ order'[i] = order[i + 1] /\ FileWaiting(i)' = FileWaiting(i + 1)
<1>1. \A t \in Slots : t # s => calls'[t] = calls[t]
  BY DEF FileTaken
<1>2. FileShifted(s)
  BY <1>1 DEF FileTaken, FileShifted
<1> QED
  BY <1>1, <1>2, FileQueueShifts DEF FileWaiting

LEMMA FileRestQueued ==
    ASSUME FileQueued, calm' = calm, FileUntouched
    PROVE  /\ FileQueued'
           /\ calm => \A i \in 1..Len(order) : order'[i] = order[i] /\ FileWaiting(i)' = FileWaiting(i)
<1>1. CASE ~calm
  BY <1>1 DEF FileQueued
<1>2. CASE calm
  <2>1. \A i \in 1..Len(order) : order[i] \in Slots /\ calls[order[i]].at = "answered"
    BY <1>2, FileQueueIs
  <2>2. \A i \in 1..Len(order) : order'[i] = order[i] /\ calls'[order'[i]] = calls[order[i]]
    BY <2>1 DEF FileUntouched
  <2>3. \A t \in Slots : calls'[t].at = "answered" => calls[t].at = "answered"
    BY DEF FileUntouched
  <2> QED
    BY <1>2, <2>1, <2>2, <2>3 DEF FileQueued, FileWaiting, FileUntouched
<1> QED
  BY <1>1, <1>2

-----------------------------------------------------------------------------
(***************************************************************************)
(* Paths.                                                                  *)
(***************************************************************************)
FilePart == Names \union {Up}
FilePath == Seq(FilePart)

LEMMA FileEnterPath ==
    ASSUME NEW q \in FilePath, NEW n \in FilePart
    PROVE  Manager!Enter(q, n) \in FilePath
<1>1. CASE n # Up
  BY <1>1, AppendProperties DEF Manager!Enter, FilePath
<1>2. CASE n = Up /\ q # <<>>
  <2>1. Len(q) \in Nat /\ \A i \in 1..Len(q) - 1 : q[i] \in FilePart
    BY LenProperties, ElementOfSeq DEF FilePath
  <2>2. SubSeq(q, 1, Len(q) - 1) \in Seq(FilePart)
    BY <2>1, SubSeqProperties
  <2> QED
    BY <1>2, <2>2 DEF Manager!Enter, FilePath, Manager!Parent
<1> QED
  BY <1>1, <1>2 DEF Manager!Enter

(***************************************************************************)
(* Normalizing is a recursion on the length of a path: it is defined, and  *)
(* its result is a path.                                                   *)
(***************************************************************************)
LEMMA FileNormalizedIs ==
    ASSUME NEW p \in FilePath
    PROVE  \E upTo : /\ \A n \in 0..Len(p) : upTo[n] = IF n = 0 THEN <<>> ELSE Manager!Enter(upTo[n - 1], p[n])
                     /\ Manager!Normalized(p) = upTo[Len(p)]
<1> DEFINE Body(g, n) == IF n = 0 THEN <<>> ELSE Manager!Enter(g[n - 1], p[n])
           upTo == CHOOSE g : g = [n \in 0..Len(p) |-> Body(g, n)]
<1>1. Len(p) \in Nat /\ \A n \in 1..Len(p) : p[n] \in FilePart
  BY LenProperties, ElementOfSeq DEF FilePath
<1>2. \A m \in 0..Len(p) : \E g : g = [n \in 0..m |-> Body(g, n)]
  <2> DEFINE T == {m \in 0..Len(p) : ~ \E g : g = [n \in 0..m |-> Body(g, n)]}
  <2> SUFFICES ASSUME T # {} PROVE FALSE
    OBVIOUS
  <2>1. PICK m \in T : \A k \in T : m <= k
    <3>1. T \subseteq Nat
      BY <1>1
    <3> QED
      BY <3>1, FileLeastNumber
  <2>2. m # 0
    <3>1. [n \in 0..0 |-> <<>>] = [n \in 0..0 |-> Body([k \in 0..0 |-> <<>>], n)]
      OBVIOUS
    <3> QED
      BY <2>1, <3>1
  <2>3. m - 1 \in 0..Len(p) /\ m - 1 \notin T
    BY <1>1, <2>1, <2>2
  <2>4. PICK g : g = [n \in 0..m - 1 |-> Body(g, n)]
    BY <2>3
  <2> DEFINE h == [n \in 0..m |-> IF n < m THEN g[n] ELSE Manager!Enter(g[m - 1], p[m])]
  <2>5. ASSUME NEW n \in 0..m
        PROVE  h[n] = Body(h, n)
    <3>1. CASE n = m
      BY <1>1, <2>1, <2>2, <3>1
    <3>2. CASE n < m
      <4>1. h[n] = Body(g, n)
        BY <1>1, <2>1, <2>4, <3>2
      <4>2. n # 0 => h[n - 1] = g[n - 1]
        BY <1>1, <2>1, <3>2
      <4> QED
        BY <4>1, <4>2
    <3> QED
      BY <1>1, <2>1, <3>1, <3>2
  <2>6. h = [n \in 0..m |-> Body(h, n)]
    <3> HIDE DEF Body
    <3> QED
      BY <2>5
  <2> QED
    BY <2>1, <2>6
<1>3. upTo = [n \in 0..Len(p) |-> Body(upTo, n)]
  <2> HIDE DEF Body
  <2>1. \E g : g = [n \in 0..Len(p) |-> Body(g, n)]
    BY <1>1, <1>2
  <2> QED
    BY <2>1
<1>4. Manager!Normalized(p) = upTo[Len(p)]
  BY DEF Manager!Normalized
<1> HIDE DEF upTo
<1>5. \A n \in 0..Len(p) : upTo[n] = IF n = 0 THEN <<>> ELSE Manager!Enter(upTo[n - 1], p[n])
  BY <1>3
<1> HIDE DEF Body
<1> QED
  BY <1>4, <1>5

LEMMA FileNormalizedPath ==
    ASSUME NEW p \in FilePath
    PROVE  Manager!Normalized(p) \in FilePath
<1>1. Len(p) \in Nat /\ \A n \in 1..Len(p) : p[n] \in FilePart
  BY LenProperties, ElementOfSeq DEF FilePath
<1>2. PICK upTo : /\ \A n \in 0..Len(p) : upTo[n] = IF n = 0 THEN <<>> ELSE Manager!Enter(upTo[n - 1], p[n])
                  /\ Manager!Normalized(p) = upTo[Len(p)]
  BY FileNormalizedIs
<1>4. \A n \in 0..Len(p) : upTo[n] \in FilePath
  <2> DEFINE T == {n \in 0..Len(p) : upTo[n] \notin FilePath}
  <2> SUFFICES ASSUME T # {} PROVE FALSE
    OBVIOUS
  <2>1. PICK n \in T : \A k \in T : n <= k
    <3>1. T \subseteq Nat
      BY <1>1
    <3> QED
      BY <3>1, FileLeastNumber
  <2>2. upTo[n] = IF n = 0 THEN <<>> ELSE Manager!Enter(upTo[n - 1], p[n])
    BY <1>2, <2>1
  <2>3. n # 0
    BY <2>1, <2>2, EmptySeq DEF FilePath
  <2>4. upTo[n - 1] \in FilePath /\ p[n] \in FilePart
    BY <1>1, <2>1, <2>3
  <2> QED
    BY <2>1, <2>2, <2>3, <2>4, FileEnterPath
<1>5. upTo[Len(p)] \in FilePath
  BY <1>1, <1>4
<1> QED
  BY <1>2, <1>5

LEMMA FilePrefix ==
    ASSUME NEW p \in FilePath, NEW q \in FilePath
    PROVE  Manager!IsPrefix(p, q) <=> /\ Len(p) <= Len(q)
                                      /\ \A i \in 1..Len(p) : p[i] = q[i]
<1>1. /\ Len(p) \in Nat /\ Len(q) \in Nat
      /\ \A i \in 1..Len(p) : p[i] \in FilePart
      /\ \A i \in 1..Len(q) : q[i] \in FilePart
  BY LenProperties, ElementOfSeq DEF FilePath
<1>2. SubSeq(p, 1, Len(p)) = p
  BY SubSeqFull DEF FilePath
<1>3. ASSUME Len(p) <= Len(q)
      PROVE  /\ SubSeq(q, 1, Len(p)) \in Seq(FilePart)
             /\ Len(SubSeq(q, 1, Len(p))) = Len(p)
             /\ \A i \in 1..Len(p) : SubSeq(q, 1, Len(p))[i] = q[i]
  <2>1. \A i \in 1..Len(p) : q[i] \in FilePart
    BY <1>1, <1>3
  <2>2. /\ SubSeq(q, 1, Len(p)) \in Seq(FilePart)
        /\ Len(SubSeq(q, 1, Len(p))) = IF 1 <= Len(p) THEN Len(p) - 1 + 1 ELSE 0
        /\ \A i \in 1..Len(p) - 1 + 1 : SubSeq(q, 1, Len(p))[i] = q[1 + i - 1]
    BY <1>1, <2>1, SubSeqProperties
  <2> QED
    BY <1>1, <2>2
<1>4. ASSUME Len(p) <= Len(q), \A i \in 1..Len(p) : p[i] = q[i]
      PROVE  p = SubSeq(q, 1, Len(p))
  BY <1>3, <1>4, SeqEqual DEF FilePath
<1> QED
  BY <1>2, <1>3, <1>4 DEF Manager!IsPrefix

LEMMA FilePrefixTransitive ==
    ASSUME NEW p \in FilePath, NEW q \in FilePath, NEW r \in FilePath, Manager!IsPrefix(p, q),
           Manager!IsPrefix(q, r)
    PROVE  Manager!IsPrefix(p, r)
<1>1. Len(p) \in Nat /\ Len(q) \in Nat /\ Len(r) \in Nat
  BY LenProperties DEF FilePath
<1> QED
  BY <1>1, FilePrefix

LEMMA FilePrefixOfConcat ==
    ASSUME NEW p \in FilePath, NEW q \in FilePath
    PROVE  /\ p \o q \in FilePath /\ Manager!IsPrefix(p, p \o q)
           /\ Len(p \o q) = Len(p) + Len(q)
           /\ \A i \in 1..Len(p) + Len(q) : (p \o q)[i] = IF i <= Len(p) THEN p[i] ELSE q[i - Len(p)]
<1>1. /\ Len(p) \in Nat /\ Len(q) \in Nat /\ p \o q \in FilePath
      /\ Len(p \o q) = Len(p) + Len(q)
      /\ \A i \in 1..Len(p) + Len(q) : (p \o q)[i] = IF i <= Len(p) THEN p[i] ELSE q[i - Len(p)]
  BY LenProperties, ConcatProperties DEF FilePath
<1>2. \A i \in 1..Len(p) : (p \o q)[i] = p[i]
  BY <1>1
<1>3. Len(p) <= Len(p \o q)
  BY <1>1
<1> QED
  BY <1>1, <1>2, <1>3, FilePrefix

LEMMA FilePathFacts ==
    ASSUME NEW p \in FilePath
    PROVE  /\ Len(p) \in Nat
           /\ p = <<>> <=> Len(p) = 0
           /\ \A i \in 1..Len(p) : p[i] \in FilePart
           /\ <<>> \in FilePath
           /\ Manager!IsPrefix(p, p) /\ Manager!IsPrefix(<<>>, p)
<1>1. /\ Len(p) \in Nat
      /\ \A i \in 1..Len(p) : p[i] \in FilePart
      /\ <<>> \in FilePath /\ Len(<<>>) = 0
  BY LenProperties, ElementOfSeq, EmptySeq DEF FilePath
<1>2. p = <<>> <=> Len(p) = 0
  BY EmptySeq DEF FilePath
<1> QED
  BY <1>1, <1>2, FilePrefix

LEMMA FileSamePath ==
    ASSUME NEW p \in FilePath, NEW q \in FilePath, Len(p) = Len(q), Manager!IsPrefix(p, q)
    PROVE  p = q
  BY FilePrefix, SeqEqual DEF FilePath

LEMMA FileSlice ==
    ASSUME NEW p \in FilePath, NEW m \in 1..Len(p) + 1, NEW n \in m - 1..Len(p)
    PROVE  /\ SubSeq(p, m, n) \in FilePath
           /\ Len(SubSeq(p, m, n)) = n - m + 1
           /\ \A i \in 1..n - m + 1 : SubSeq(p, m, n)[i] = p[m + i - 1]
<1>1. Len(p) \in Nat /\ \A i \in m..n : p[i] \in FilePart
  BY FilePathFacts
<1>2. m \in Int /\ n \in Int
  BY <1>1
<1>3. /\ SubSeq(p, m, n) \in FilePath
      /\ Len(SubSeq(p, m, n)) = IF m <= n THEN n - m + 1 ELSE 0
      /\ \A i \in 1..n - m + 1 : SubSeq(p, m, n)[i] = p[m + i - 1]
  BY <1>1, <1>2, SubSeqProperties DEF FilePath
<1> QED
  BY <1>1, <1>3

LEMMA FileParentPrefix ==
    ASSUME NEW p \in FilePath, p # <<>>
    PROVE  /\ Manager!Parent(p) \in FilePath /\ Len(Manager!Parent(p)) = Len(p) - 1
           /\ Manager!IsPrefix(Manager!Parent(p), p) /\ Manager!Parent(p) # p
           /\ \A q \in FilePath : Manager!IsPrefix(q, p) /\ q # p => Manager!IsPrefix(q, Manager!Parent(p))
<1>1. Len(p) \in Nat /\ Len(p) # 0
  BY FilePathFacts
<1>2. /\ Manager!Parent(p) \in FilePath /\ Len(Manager!Parent(p)) = Len(p) - 1
      /\ \A i \in 1..Len(p) - 1 : Manager!Parent(p)[i] = p[i]
  <2>1. 1 \in 1..Len(p) + 1 /\ Len(p) - 1 \in 1 - 1..Len(p)
    BY <1>1
  <2>2. /\ SubSeq(p, 1, Len(p) - 1) \in FilePath
        /\ Len(SubSeq(p, 1, Len(p) - 1)) = Len(p) - 1 - 1 + 1
        /\ \A i \in 1..Len(p) - 1 - 1 + 1 : SubSeq(p, 1, Len(p) - 1)[i] = p[1 + i - 1]
    BY <2>1, FileSlice
  <2> QED
    BY <1>1, <2>2 DEF Manager!Parent
<1>3. Manager!IsPrefix(Manager!Parent(p), p) /\ Manager!Parent(p) # p
  BY <1>1, <1>2, FilePrefix
<1>4. ASSUME NEW q \in FilePath, Manager!IsPrefix(q, p), q # p
      PROVE  Manager!IsPrefix(q, Manager!Parent(p))
  <2>1. Len(q) \in Nat /\ Len(q) <= Len(p) /\ \A i \in 1..Len(q) : q[i] = p[i]
    BY <1>4, FilePrefix, FilePathFacts
  <2>2. Len(q) # Len(p)
    BY <1>4, FileSamePath
  <2> QED
    BY <1>1, <1>2, <2>1, <2>2, FilePrefix
<1> QED
  BY <1>2, <1>3, <1>4

(***************************************************************************)
(* What lies under p, moved under q.                                       *)
(***************************************************************************)
FileGraft(p, q, y) == q \o SubSeq(y, Len(p) + 1, Len(y))

LEMMA FileGrafted ==
    ASSUME NEW p \in FilePath, NEW q \in FilePath, NEW y \in FilePath, Manager!IsPrefix(p, y)
    PROVE  /\ FileGraft(p, q, y) \in FilePath /\ Manager!IsPrefix(q, FileGraft(p, q, y))
           /\ Len(FileGraft(p, q, y)) = Len(q) + Len(y) - Len(p)
           /\ \A i \in 1..Len(q) : FileGraft(p, q, y)[i] = q[i]
           /\ \A i \in 1..Len(y) - Len(p) : FileGraft(p, q, y)[Len(q) + i] = y[Len(p) + i]
<1> DEFINE rest == SubSeq(y, Len(p) + 1, Len(y))
<1>1. Len(p) \in Nat /\ Len(q) \in Nat /\ Len(y) \in Nat /\ Len(p) <= Len(y)
  BY FilePathFacts, FilePrefix
<1>2. /\ rest \in FilePath /\ Len(rest) = Len(y) - Len(p)
      /\ \A i \in 1..Len(y) - Len(p) : rest[i] = y[Len(p) + i]
  <2>1. Len(p) + 1 \in 1..Len(y) + 1 /\ Len(y) \in Len(p) + 1 - 1..Len(y)
    BY <1>1
  <2>2. /\ rest \in FilePath
        /\ Len(rest) = Len(y) - (Len(p) + 1) + 1
        /\ \A i \in 1..Len(y) - (Len(p) + 1) + 1 : rest[i] = y[Len(p) + 1 + i - 1]
    BY <2>1, FileSlice
  <2> QED
    BY <1>1, <2>2
<1> HIDE DEF rest
<1>3. /\ q \o rest \in FilePath /\ Manager!IsPrefix(q, q \o rest)
      /\ Len(q \o rest) = Len(q) + Len(rest)
      /\ \A i \in 1..Len(q) + Len(rest) :
           (q \o rest)[i] = IF i <= Len(q) THEN q[i] ELSE rest[i - Len(q)]
  BY <1>2, FilePrefixOfConcat
<1>4. \A i \in 1..Len(q) : (q \o rest)[i] = q[i]
  BY <1>1, <1>2, <1>3
<1>5. ASSUME NEW i \in 1..Len(y) - Len(p)
      PROVE  (q \o rest)[Len(q) + i] = y[Len(p) + i]
  <2>1. Len(q) + i \in 1..Len(q) + Len(rest) /\ ~(Len(q) + i <= Len(q)) /\ Len(q) + i - Len(q) = i
    BY <1>1, <1>2
  <2> QED
    BY <1>2, <1>3, <2>1
<1>6. FileGraft(p, q, y) = q \o rest
  BY DEF FileGraft, rest
<1> QED
  BY <1>1, <1>2, <1>3, <1>4, <1>5, <1>6

LEMMA FileGraftBack ==
    ASSUME NEW p \in FilePath, NEW q \in FilePath, NEW y \in FilePath, Manager!IsPrefix(p, y)
    PROVE  FileGraft(q, p, FileGraft(p, q, y)) = y
<1> DEFINE x == FileGraft(p, q, y)
           z == FileGraft(q, p, x)
<1>1. Len(p) \in Nat /\ Len(q) \in Nat /\ Len(y) \in Nat /\ Len(p) <= Len(y)
  BY FilePathFacts, FilePrefix
<1>2. /\ x \in FilePath /\ Manager!IsPrefix(q, x)
      /\ Len(x) = Len(q) + Len(y) - Len(p)
      /\ \A i \in 1..Len(y) - Len(p) : x[Len(q) + i] = y[Len(p) + i]
  BY FileGrafted
<1> HIDE DEF x
<1>3. /\ z \in FilePath
      /\ Len(z) = Len(p) + Len(x) - Len(q)
      /\ \A i \in 1..Len(p) : z[i] = p[i]
      /\ \A i \in 1..Len(x) - Len(q) : z[Len(p) + i] = x[Len(q) + i]
  BY <1>2, FileGrafted
<1> HIDE DEF z
<1>4. Len(z) = Len(y)
  BY <1>1, <1>2, <1>3
<1>5. ASSUME NEW i \in 1..Len(z)
      PROVE  z[i] = y[i]
  <2>1. CASE i <= Len(p)
    <3>1. i \in 1..Len(p)
      BY <1>1, <2>1
    <3> QED
      BY <1>3, <3>1, FilePrefix
  <2>2. CASE i > Len(p)
    <3>1. PICK j \in 1..Len(y) - Len(p) : i = Len(p) + j
      <4>1. i - Len(p) \in 1..Len(y) - Len(p) /\ i = Len(p) + (i - Len(p))
        BY <1>1, <1>4, <2>2
      <4> QED
        BY <4>1
    <3>2. Len(x) - Len(q) = Len(y) - Len(p)
      BY <1>1, <1>2
    <3> QED
      BY <1>2, <1>3, <3>1, <3>2
  <2> QED
    BY <1>1, <1>4, <2>1, <2>2
<1>6. z = y
  BY <1>3, <1>4, <1>5, SeqEqual DEF FilePath
<1> QED
  BY <1>6 DEF x, z

LEMMA FileGraftPrefix ==
    ASSUME NEW p \in FilePath, NEW q \in FilePath, NEW w \in FilePath, NEW y \in FilePath,
           Manager!IsPrefix(p, w), Manager!IsPrefix(w, y)
    PROVE  Manager!IsPrefix(FileGraft(p, q, w), FileGraft(p, q, y))
<1> DEFINE v == FileGraft(p, q, w)
           x == FileGraft(p, q, y)
<1>1. /\ Len(p) \in Nat /\ Len(q) \in Nat /\ Len(w) \in Nat /\ Len(y) \in Nat
      /\ Len(p) <= Len(w) /\ Len(w) <= Len(y) /\ Manager!IsPrefix(p, y)
      /\ \A i \in 1..Len(w) : w[i] = y[i]
  BY FilePathFacts, FilePrefix, FilePrefixTransitive
<1>2. /\ v \in FilePath
      /\ Len(v) = Len(q) + Len(w) - Len(p)
      /\ \A i \in 1..Len(q) : v[i] = q[i]
      /\ \A i \in 1..Len(w) - Len(p) : v[Len(q) + i] = w[Len(p) + i]
  BY FileGrafted
<1>3. /\ x \in FilePath
      /\ Len(x) = Len(q) + Len(y) - Len(p)
      /\ \A i \in 1..Len(q) : x[i] = q[i]
      /\ \A i \in 1..Len(y) - Len(p) : x[Len(q) + i] = y[Len(p) + i]
  BY <1>1, FileGrafted
<1> HIDE DEF v, x
<1>4. ASSUME NEW i \in 1..Len(v)
      PROVE  v[i] = x[i]
  <2>1. CASE i <= Len(q)
    <3>1. i \in 1..Len(q)
      BY <1>1, <2>1
    <3> QED
      BY <1>2, <1>3, <3>1
  <2>2. CASE i > Len(q)
    <3>1. PICK j \in 1..Len(w) - Len(p) : i = Len(q) + j
      <4>1. i - Len(q) \in 1..Len(w) - Len(p) /\ i = Len(q) + (i - Len(q))
        BY <1>1, <1>2, <2>2
      <4> QED
        BY <4>1
    <3>2. j \in 1..Len(y) - Len(p) /\ Len(p) + j \in 1..Len(w)
      BY <1>1
    <3> QED
      BY <1>1, <1>2, <1>3, <3>1, <3>2
  <2> QED
    BY <1>1, <1>2, <2>1, <2>2
<1>5. Len(v) <= Len(x)
  BY <1>1, <1>2, <1>3
<1>6. Manager!IsPrefix(v, x)
  BY <1>2, <1>3, <1>4, <1>5, FilePrefix
<1> QED
  BY <1>6 DEF v, x

(***************************************************************************)
(* The files: whatever a path leads through is a directory.                *)
(***************************************************************************)
FileContents == Texts \union {Manager!Torn, Manager!Dir}

FileDisk(fs) ==
    /\ fs \in [DOMAIN fs -> FileContents]
    /\ DOMAIN fs \subseteq FilePath
    /\ <<>> \in DOMAIN fs
    /\ \A p \in DOMAIN fs : \A q \in FilePath : Manager!IsPrefix(q, p) /\ q # p => Manager!IsDir(fs, q)

LEMMA FileDiskParent ==
    ASSUME NEW fs, FileDisk(fs), NEW p \in DOMAIN fs, p # <<>>
    PROVE  Manager!IsDir(fs, Manager!Parent(p))
  BY FileParentPrefix DEF FileDisk

LEMMA FileDiskWith ==
    ASSUME NEW fs, FileDisk(fs), NEW p \in FilePath, NEW what \in FileContents,
           p \in DOMAIN fs \/ (p # <<>> /\ Manager!IsDir(fs, Manager!Parent(p))),
           what = Manager!Dir \/ ~Manager!IsDir(fs, p)
    PROVE  FileDisk(Manager!With(fs, p, what))
<1> DEFINE new == Manager!With(fs, p, what)
<1>1. DOMAIN new = DOMAIN fs \union {p}
  BY DEF Manager!With
<1>2. new[p] = what /\ \A x \in DOMAIN fs : x # p => new[x] = fs[x]
  BY DEF Manager!With
<1>3. \A x \in DOMAIN new : new[x] \in FileContents
  BY <1>1, <1>2 DEF FileDisk
<1>4. new \in [DOMAIN new -> FileContents]
  BY <1>3 DEF Manager!With
<1>5. ASSUME NEW q \in FilePath, Manager!IsDir(fs, q)
      PROVE  Manager!IsDir(new, q)
  BY <1>1, <1>2, <1>5 DEF Manager!IsDir
<1> HIDE DEF new
<1>6. ASSUME NEW x \in DOMAIN new, NEW q \in FilePath, Manager!IsPrefix(q, x), q # x
      PROVE  Manager!IsDir(fs, q)
  <2>1. CASE x \in DOMAIN fs
    BY <1>6, <2>1 DEF FileDisk
  <2>2. CASE x \notin DOMAIN fs
    <3>1. x = p /\ p # <<>> /\ Manager!IsDir(fs, Manager!Parent(p))
      BY <1>1, <1>6, <2>2
    <3>2. Manager!IsPrefix(q, Manager!Parent(p)) /\ Manager!Parent(p) \in DOMAIN fs
      BY <1>6, <3>1, FileParentPrefix DEF Manager!IsDir
    <3> QED
      BY <3>1, <3>2 DEF FileDisk
  <2> QED
    BY <2>1, <2>2
<1>7. FileDisk(new)
  BY <1>1, <1>4, <1>5, <1>6 DEF FileDisk
<1> QED
  BY <1>7 DEF new

LEMMA FileDiskWithout ==
    ASSUME NEW fs, FileDisk(fs), NEW gone \in SUBSET DOMAIN fs, <<>> \notin gone,
           \A x \in gone : \A y \in DOMAIN fs : Manager!IsPrefix(x, y) => y \in gone
    PROVE  FileDisk(Manager!Without(fs, gone))
<1> DEFINE new == Manager!Without(fs, gone)
<1>1. DOMAIN new = DOMAIN fs \ gone /\ \A x \in DOMAIN fs \ gone : new[x] = fs[x]
  BY DEF Manager!Without
<1>2. new \in [DOMAIN new -> FileContents]
  BY DEF Manager!Without, FileDisk
<1> HIDE DEF new
<1>3. ASSUME NEW x \in DOMAIN new, NEW q \in FilePath, Manager!IsPrefix(q, x), q # x
      PROVE  Manager!IsDir(new, q)
  <2>1. Manager!IsDir(fs, q)
    BY <1>1, <1>3 DEF FileDisk
  <2>2. q \notin gone
    BY <1>1, <1>3
  <2> QED
    BY <1>1, <2>1, <2>2 DEF Manager!IsDir
<1>4. FileDisk(new)
  BY <1>1, <1>2, <1>3 DEF FileDisk
<1> QED
  BY <1>4 DEF new

LEMMA FileUnderClosed ==
    ASSUME NEW fs, FileDisk(fs), NEW p \in FilePath
    PROVE  /\ Manager!Under(fs, p) \subseteq DOMAIN fs
           /\ p # <<>> => <<>> \notin Manager!Under(fs, p)
           /\ \A x \in Manager!Under(fs, p) : \A y \in DOMAIN fs : Manager!IsPrefix(x, y) =>
                y \in Manager!Under(fs, p)
<1>1. ASSUME p # <<>>, Manager!IsPrefix(p, <<>>) PROVE FALSE
  <2>1. <<>> \in FilePath /\ Len(<<>>) = 0 /\ Len(p) \in Nat /\ Len(p) # 0
    BY <1>1, FilePathFacts
  <2>2. Len(p) <= Len(<<>>)
    BY <1>1, <2>1, FilePrefix
  <2> QED
    BY <2>1, <2>2
<1> QED
  BY <1>1, FilePrefixTransitive DEF Manager!Under, FileDisk

(***************************************************************************)
(* A move: what was under p is under q, and nothing else changes.          *)
(***************************************************************************)
FileMovable(fs, p, q) ==
    /\ p \in DOMAIN fs /\ p # <<>> /\ q # <<>> /\ ~Manager!IsPrefix(p, q)
    /\ Manager!IsDir(fs, Manager!Parent(q))
    /\ q \notin DOMAIN fs \/ Manager!Under(fs, q) = {q}

FileKept(fs, p, q) == {x \in DOMAIN fs : ~Manager!IsPrefix(p, x) /\ ~Manager!IsPrefix(q, x)}

FileGrafts(fs, p, q) == {FileGraft(p, q, y) : y \in Manager!Under(fs, p)}

FileIsMoved(new, fs, p, q) ==
    /\ DOMAIN new = FileKept(fs, p, q) \union FileGrafts(fs, p, q)
    /\ \A x \in FileKept(fs, p, q) : new[x] = fs[x]
    /\ \A y \in Manager!Under(fs, p) : new[FileGraft(p, q, y)] = fs[y]
    /\ new = [x \in DOMAIN new |-> new[x]]

LEMMA FileMovedIs ==
    ASSUME NEW fs, FileDisk(fs), NEW p \in FilePath, NEW q \in FilePath, FileMovable(fs, p, q)
    PROVE  FileIsMoved(Manager!Moved(fs, p, q), fs, p, q)
<1> USE DEF FileKept, FileGrafts, FileIsMoved
<1> DEFINE new == Manager!Moved(fs, p, q)
           kept == FileKept(fs, p, q)
           moved == {FileGraft(p, q, y) : y \in Manager!Under(fs, p)}
<1>1. DOMAIN fs \subseteq FilePath
  BY DEF FileDisk
<1>2. p \in Manager!Under(fs, p) /\ FileGraft(p, q, p) = q
  <2>1. p \in Manager!Under(fs, p)
    BY FilePathFacts DEF Manager!Under, FileMovable
  <2>2. /\ FileGraft(p, q, p) \in FilePath /\ Manager!IsPrefix(q, FileGraft(p, q, p))
        /\ Len(FileGraft(p, q, p)) = Len(q) + Len(p) - Len(p)
    BY FilePathFacts, FileGrafted
  <2>3. Len(FileGraft(p, q, p)) = Len(q)
    BY <2>2, FilePathFacts
  <2> QED
    BY <2>1, <2>2, <2>3, FileSamePath
<1>3. \A x \in DOMAIN fs : Manager!IsPrefix(q, x) => x = q
  BY <1>1 DEF FileDisk, FileMovable, Manager!IsDir, Manager!Under
<1>4. DOMAIN new = (DOMAIN fs \ Manager!Under(fs, p)) \union moved
  BY DEF Manager!Moved, FileGraft
<1>5. DOMAIN new = kept \union moved
  <2>1. \A x \in DOMAIN fs : ~Manager!IsPrefix(p, x) /\ x \notin kept => x \in moved
    BY <1>2, <1>3
  <2>2. kept \subseteq DOMAIN fs \ Manager!Under(fs, p)
    BY DEF Manager!Under
  <2>3. \A x \in DOMAIN fs \ Manager!Under(fs, p) : ~Manager!IsPrefix(p, x)
    BY DEF Manager!Under
  <2> QED
    BY <1>4, <2>1, <2>2, <2>3
<1>6. \A x \in DOMAIN new : new[x] = IF Manager!IsPrefix(q, x) THEN fs[FileGraft(q, p, x)] ELSE fs[x]
  BY <1>4 DEF Manager!Moved, FileGraft
<1>7. \A x \in kept : new[x] = fs[x]
  BY <1>5, <1>6
<1>8. \A y \in Manager!Under(fs, p) : new[FileGraft(p, q, y)] = fs[y]
  <2> TAKE y \in Manager!Under(fs, p)
  <2>1. y \in FilePath /\ Manager!IsPrefix(p, y)
    BY <1>1 DEF Manager!Under
  <2>2. Manager!IsPrefix(q, FileGraft(p, q, y)) /\ FileGraft(q, p, FileGraft(p, q, y)) = y
    BY <2>1, FileGrafted, FileGraftBack
  <2>3. FileGraft(p, q, y) \in DOMAIN new
    BY <1>5
  <2> HIDE DEF new
  <2> QED
    BY <1>6, <2>2, <2>3
<1>9. new = [x \in DOMAIN new |-> new[x]]
  BY DEF Manager!Moved
<1> QED
  BY <1>5, <1>7, <1>8, <1>9

LEMMA FileMovedSame ==
    ASSUME NEW fs, FileDisk(fs), NEW p \in FilePath, NEW q \in FilePath, FileMovable(fs, p, q)
    PROVE  /\ DOMAIN Manager!Moved(fs, p, q) = FileKept(fs, p, q) \union FileGrafts(fs, p, q)
           /\ \A x \in FileKept(fs, p, q) : Manager!Moved(fs, p, q)[x] = fs[x]
  BY FileMovedIs DEF FileIsMoved

LEMMA FileDiskMoved ==
    ASSUME NEW fs, FileDisk(fs), NEW p \in FilePath, NEW q \in FilePath, FileMovable(fs, p, q)
    PROVE  FileDisk(Manager!Moved(fs, p, q))
<1> DEFINE new == Manager!Moved(fs, p, q)
           kept == FileKept(fs, p, q)
<1>0. FileIsMoved(new, fs, p, q)
  BY FileMovedIs
<1> HIDE DEF new
<1>1. /\ DOMAIN new = kept \union FileGrafts(fs, p, q)
      /\ \A x \in kept : new[x] = fs[x]
      /\ \A y \in Manager!Under(fs, p) : new[FileGraft(p, q, y)] = fs[y]
      /\ new = [x \in DOMAIN new |-> new[x]]
  BY <1>0 DEF FileIsMoved
<1> USE DEF FileKept, FileGrafts
<1>2. \A y \in Manager!Under(fs, p) : /\ y \in DOMAIN fs /\ y \in FilePath /\ Manager!IsPrefix(p, y)
                                      /\ FileGraft(p, q, y) \in FilePath
                                      /\ Manager!IsPrefix(q, FileGraft(p, q, y))
  BY FileGrafted DEF Manager!Under, FileDisk
<1>3. DOMAIN new \subseteq FilePath
  BY <1>1, <1>2 DEF FileDisk
<1>4. new \in [DOMAIN new -> FileContents]
  <2>1. \A x \in DOMAIN new : new[x] \in FileContents
    BY <1>1, <1>2 DEF FileDisk
  <2> QED
    BY <1>1, <2>1
<1>5. <<>> \in DOMAIN new
  <2>1. ~Manager!IsPrefix(p, <<>>) /\ ~Manager!IsPrefix(q, <<>>)
    <3>1. Len(p) \in Nat /\ Len(p) # 0 /\ Len(q) \in Nat /\ Len(q) # 0 /\ <<>> \in FilePath /\ Len(<<>>) = 0
      BY FilePathFacts DEF FileMovable
    <3> QED
      BY <3>1, FilePrefix
  <2> QED
    BY <1>1, <2>1 DEF FileDisk
<1>6. ASSUME NEW z \in FilePath, Manager!IsDir(fs, z), ~Manager!IsPrefix(p, z), ~Manager!IsPrefix(q, z)
      PROVE  Manager!IsDir(new, z)
  BY <1>1, <1>6 DEF Manager!IsDir
<1>7. ASSUME NEW x \in kept, NEW z \in FilePath, Manager!IsPrefix(z, x), z # x
      PROVE  Manager!IsDir(new, z)
  <2>1. x \in DOMAIN fs /\ ~Manager!IsPrefix(p, x) /\ ~Manager!IsPrefix(q, x) /\ x \in FilePath
    BY <1>7 DEF FileDisk
  <2>2. ~Manager!IsPrefix(p, z) /\ ~Manager!IsPrefix(q, z)
    BY <1>7, <2>1, FilePrefixTransitive
  <2>3. Manager!IsDir(fs, z)
    BY <1>7, <2>1 DEF FileDisk
  <2> QED
    BY <1>6, <2>2, <2>3
<1>8. ASSUME NEW y \in Manager!Under(fs, p), NEW z \in FilePath, Manager!IsPrefix(z, FileGraft(p, q, y)),
             z # FileGraft(p, q, y),
             Manager!IsPrefix(q, z)
      PROVE  Manager!IsDir(new, z)
  <2> DEFINE w == FileGraft(q, p, z)
  <2>1. /\ w \in FilePath /\ Manager!IsPrefix(p, w) /\ FileGraft(p, q, w) = z
    BY <1>8, FileGrafted, FileGraftBack
  <2>2. Manager!IsPrefix(w, y)
    <3>1. Manager!IsPrefix(w, FileGraft(q, p, FileGraft(p, q, y)))
      BY <1>2, <1>8, FileGraftPrefix
    <3> QED
      BY <1>2, <3>1, FileGraftBack
  <2> HIDE DEF w
  <2>3. w # y
    BY <1>8, <2>1
  <2>4. Manager!IsDir(fs, w)
    BY <1>2, <2>1, <2>2, <2>3 DEF FileDisk
  <2>5. w \in Manager!Under(fs, p)
    BY <2>1, <2>4 DEF Manager!Under, Manager!IsDir
  <2>6. z \in DOMAIN new /\ new[z] = fs[w]
    BY <1>1, <2>1, <2>5
  <2> QED
    BY <2>4, <2>6 DEF Manager!IsDir
<1>9. ASSUME NEW y \in Manager!Under(fs, p), NEW z \in FilePath, Manager!IsPrefix(z, FileGraft(p, q, y)),
             z # FileGraft(p, q, y),
             ~Manager!IsPrefix(q, z)
      PROVE  Manager!IsDir(new, z)
  <2> DEFINE x == FileGraft(p, q, y)
  <2>1. x \in FilePath /\ Manager!IsPrefix(q, x)
    BY <1>2
  <2> HIDE DEF x
  <2>2. Manager!IsPrefix(z, q) /\ z # q
    <3>1. Manager!IsPrefix(z, x) /\ Len(z) \in Nat /\ Len(q) \in Nat /\ Len(x) \in Nat
      BY <1>9, <2>1, FilePathFacts DEF x
    <3>2. /\ Len(z) <= Len(x) /\ \A i \in 1..Len(z) : z[i] = x[i]
          /\ Len(q) <= Len(x) /\ \A i \in 1..Len(q) : q[i] = x[i]
      BY <2>1, <3>1, FilePrefix
    <3>3. Len(z) < Len(q)
      <4>1. SUFFICES ASSUME Len(q) <= Len(z) PROVE FALSE
        BY <3>1
      <4>2. \A i \in 1..Len(q) : q[i] = z[i]
        BY <3>1, <3>2, <4>1
      <4>3. Manager!IsPrefix(q, z)
        BY <4>1, <4>2, FilePrefix
      <4> QED
        BY <1>9, <4>3
    <3>4. \A i \in 1..Len(z) : z[i] = q[i]
      BY <3>1, <3>2, <3>3
    <3> QED
      BY <3>1, <3>3, <3>4, FilePrefix
  <2>3. Manager!IsPrefix(z, Manager!Parent(q)) /\ Manager!Parent(q) \in FilePath
          /\ Manager!IsPrefix(Manager!Parent(q), q)
    BY <2>2, FileParentPrefix DEF FileMovable
  <2>4. Manager!IsDir(fs, z)
    BY <2>3 DEF FileDisk, FileMovable, Manager!IsDir
  <2>5. ~Manager!IsPrefix(p, z)
    BY <2>2, FilePrefixTransitive DEF FileMovable
  <2> QED
    BY <1>6, <1>9, <2>4, <2>5
<1>10. ASSUME NEW x \in DOMAIN new, NEW z \in FilePath, Manager!IsPrefix(z, x), z # x
       PROVE  Manager!IsDir(new, z)
  BY <1>1, <1>7, <1>8, <1>9, <1>10
<1>11. FileDisk(new)
  BY <1>3, <1>4, <1>5, <1>10 DEF FileDisk
<1> QED
  BY <1>11 DEF new

-----------------------------------------------------------------------------
(***************************************************************************)
(* What the tab and the requests hold are paths: of rows in the directory  *)
(* that is shown, of names given in it.                                    *)
(***************************************************************************)
FileText == Texts \union {Manager!Torn}
FileKinds == {"default", "list", "read", "mkdir", "rename", "move", "delete", "upload", "write"}
FileEntry == [path : FilePath \ {<<>>}, dir : BOOLEAN]
FileListed(p) == {e \in FileEntry : Manager!Parent(e.path) = p}

FileIsCall(c) ==
    /\ c \in [at : {"sent", "answered"}, kind : FileKinds, path : FilePath, to : FilePath, dir : FilePath,
              key : {c.key}, text : {c.text}, of : {c.of}, ok : BOOLEAN, doc : {c.doc}]
    /\ c.ok /\ c.kind = "default" => c.doc \in FilePath
    /\ c.ok /\ c.kind = "list" => c.doc \subseteq FileListed(Manager!Normalized(c.path))
    /\ c.ok /\ c.kind = "read" => c.doc \in FileText
    /\ c.kind \in {"upload", "write"} => c.text \in FileText

\* What a slot, a dialog or an editor holds.
FileSlotRight(c) ==
    \/ c = Manager!NoCall
    \/ FileIsCall(c) /\ (c.kind = "rename" => c.to \in {Manager!Parent(c.path) \o name : name \in Given})
FileDialogRight(c) ==
    \/ c = Manager!NoDialog
    \/ /\ FileIsCall(c) /\ c.at = "sent" /\ c.kind \in {"mkdir", "rename", "delete"}
       /\ c.kind = "rename" => Manager!Parent(c.path) = c.dir
FileEditorRight(e) ==
    \/ e = Manager!NoEditor
    \/ e \in [path : FilePath, of : {e.of}, text : FileText, dirty : BOOLEAN, saving : BOOLEAN]

FileViewRight(v) ==
    /\ v \in [path : FilePath, entries : SUBSET FileListed(v.path), loading : BOOLEAN, failed : BOOLEAN,
              busy : {v.busy}, selected : SUBSET (FilePath \ {<<>>}), dialog : {v.dialog},
              editor : {v.editor}, half : BOOLEAN]
    /\ FileDialogRight(v.dialog)
    /\ FileEditorRight(v.editor)

FileServerRight(sv) ==
    /\ sv \in [fs : {sv.fs}, root : FilePath, sudo : BOOLEAN]
    /\ [root |-> sv.root, sudo |-> sv.sudo] \in Setups
    /\ FileDisk(sv.fs)

Pathed ==
    /\ FileServerRight(server)
    /\ FileViewRight(view)
    /\ calls = [s \in Slots |-> calls[s]]
    /\ \A s \in Slots : FileSlotRight(calls[s])

LEMMA FileACall == \A c : FileIsCall(c) => c # Manager!NoCall /\ c # Manager!NoDialog
  BY DEF FileIsCall, Manager!NoCall, Manager!NoDialog

LEMMA FileNewCall ==
    ASSUME NEW kind \in FileKinds, NEW path \in FilePath, NEW to \in FilePath, NEW dir \in FilePath, NEW key
    PROVE  /\ kind \in {"default", "list", "read", "move"} => FileSlotRight(Manager!Call(kind, path, to, dir, key))
           /\ kind \in {"mkdir", "delete"} => FileDialogRight(Manager!Call(kind, path, to, dir, key))
           /\ kind = "rename" /\ Manager!Parent(path) = dir =>
                FileDialogRight(Manager!Call(kind, path, to, dir, key))
<1> DEFINE c == Manager!Call(kind, path, to, dir, key)
<1>1. FileIsCall(c) /\ c.at = "sent" /\ c.kind = kind /\ c.path = path /\ c.dir = dir
  BY DEF Manager!Call, FileIsCall, FileText
<1> HIDE DEF c
<1>2. /\ kind \in {"default", "list", "read", "move"} => FileSlotRight(c)
      /\ kind \in {"mkdir", "delete"} => FileDialogRight(c)
      /\ kind = "rename" /\ Manager!Parent(path) = dir => FileDialogRight(c)
  BY <1>1 DEF FileSlotRight, FileDialogRight
<1> QED
  BY <1>2 DEF c

LEMMA FileFree ==
    ASSUME NEW call, Manager!Send(call)
    PROVE  /\ Manager!FreeSlot \in Slots /\ calls[Manager!FreeSlot] = Manager!NoCall
           /\ calls' = [calls EXCEPT ![Manager!FreeSlot] = call]
           /\ server' = server
  BY DEF Manager!Send, Manager!FreeSlot

\* A step changes one slot at most.
LEMMA FileSlotKeeps ==
    ASSUME Pathed, FileServerRight(server'), FileViewRight(view'), NEW s \in Slots, NEW next,
           FileSlotRight(next),
           calls' = [calls EXCEPT ![s] = next]
    PROVE  Pathed'
<1>1. calls' = [t \in Slots |-> calls'[t]]
  BY DEF Pathed
<1>2. \A t \in Slots : FileSlotRight(calls'[t])
  BY DEF Pathed
<1> QED
  BY <1>1, <1>2 DEF Pathed

LEMMA FileSendKeeps ==
    ASSUME Pathed, NEW call, Manager!Send(call), FileSlotRight(call), FileViewRight(view')
    PROVE  Pathed'
<1>1. FileServerRight(server')
  BY FileFree DEF Pathed
<1> QED
  BY <1>1, FileFree, FileSlotKeeps

LEMMA FileShowsKeeps ==
    ASSUME Pathed, NEW v, Manager!Shows(v), FileViewRight(v)
    PROVE  Pathed'
  BY DEF Pathed, Manager!Shows

\* Changes of the view that concern no path.
LEMMA FileViewKeeps ==
    ASSUME NEW v, FileViewRight(v)
    PROVE  /\ \A busy : FileViewRight([v EXCEPT !.busy = busy])
           /\ FileViewRight([v EXCEPT !.dialog = Manager!NoDialog])
           /\ FileViewRight([v EXCEPT !.editor = Manager!NoEditor])
           /\ \A busy : FileViewRight([v EXCEPT !.dialog = Manager!NoDialog, !.busy = busy])
           /\ FileViewRight([v EXCEPT !.loading = TRUE, !.failed = FALSE])
           /\ \A c : FileDialogRight(c) => FileViewRight([v EXCEPT !.dialog = c])
           /\ \A e : FileEditorRight(e) => FileViewRight([v EXCEPT !.editor = e])
           /\ \A busy, e : FileEditorRight(e) => FileViewRight([v EXCEPT !.busy = busy, !.editor = e])
           /\ \A sel \in SUBSET (FilePath \ {<<>>}) : FileViewRight([v EXCEPT !.selected = sel])
<1>1. FileDialogRight(Manager!NoDialog) /\ FileEditorRight(Manager!NoEditor)
  BY DEF FileDialogRight, FileEditorRight
<1>2. /\ \A busy : FileViewRight([v EXCEPT !.busy = busy])
      /\ FileViewRight([v EXCEPT !.dialog = Manager!NoDialog])
      /\ FileViewRight([v EXCEPT !.editor = Manager!NoEditor])
  BY <1>1 DEF FileViewRight
<1>3. \A busy : FileViewRight([v EXCEPT !.dialog = Manager!NoDialog, !.busy = busy])
  BY <1>1 DEF FileViewRight
<1>4. FileViewRight([v EXCEPT !.loading = TRUE, !.failed = FALSE])
  BY <1>1 DEF FileViewRight
<1>5. \A c : FileDialogRight(c) => FileViewRight([v EXCEPT !.dialog = c])
  BY <1>1 DEF FileViewRight
<1>6. \A e : FileEditorRight(e) => FileViewRight([v EXCEPT !.editor = e])
  BY <1>1 DEF FileViewRight
<1>7. \A busy, e : FileEditorRight(e) => FileViewRight([v EXCEPT !.busy = busy, !.editor = e])
  BY <1>1 DEF FileViewRight
<1>8. \A sel \in SUBSET (FilePath \ {<<>>}) : FileViewRight([v EXCEPT !.selected = sel])
  BY <1>1 DEF FileViewRight
<1> QED
  BY <1>2, <1>3, <1>4, <1>5, <1>6, <1>7, <1>8

LEMMA FileShownPaths ==
    ASSUME Pathed
    PROVE  /\ \A e \in view.entries : e.path \in FilePath /\ e.path # <<>> /\ Manager!Parent(e.path) = view.path
           /\ view.path \in FilePath /\ server.root \in FilePath
           /\ Manager!ShownDirs \subseteq FilePath
           /\ Manager!Crumbs \subseteq FilePath
           /\ <<>> \in FilePath
<1>1. /\ \A e \in view.entries : e.path \in FilePath /\ e.path # <<>> /\ Manager!Parent(e.path) = view.path
      /\ view.path \in FilePath /\ server.root \in FilePath
  BY DEF Pathed, FileViewRight, FileServerRight, FileListed, FileEntry
<1>2. ASSUME NEW n \in Len(server.root) + 1 .. Len(view.path)
      PROVE  SubSeq(view.path, 1, n) \in FilePath
  <2>1. Len(server.root) \in Nat /\ Len(view.path) \in Nat
    BY <1>1, FilePathFacts
  <2>2. 1 \in 1..Len(view.path) + 1 /\ n \in 1 - 1..Len(view.path)
    BY <2>1
  <2> QED
    BY <1>1, <2>2, FileSlice
<1>3. Manager!Crumbs \subseteq FilePath
  BY <1>1, <1>2 DEF Manager!Crumbs
<1>4. Manager!ShownDirs \subseteq FilePath
  BY <1>1 DEF Manager!ShownDirs
<1> QED
  BY <1>1, <1>3, <1>4, FilePathFacts

LEMMA FileNavigateKeeps ==
    ASSUME Pathed, Manager!Navigate
    PROVE  Pathed'
<1>1. PICK path \in Manager!ShownDirs \union Manager!Crumbs \union {view.path} : Manager!Send(Manager!List(path, Manager!NoKey))
  BY DEF Manager!Navigate
<1>2. path \in FilePath /\ <<>> \in FilePath
  BY FileShownPaths
<1>3. FileSlotRight(Manager!List(path, Manager!NoKey))
  BY <1>2, FileNewCall DEF Manager!List, FileKinds
<1>4. FileViewRight(view')
  BY FileViewKeeps DEF Pathed, Manager!Navigate, Manager!Leaves
<1> QED
  BY <1>1, <1>3, <1>4, FileSendKeeps

LEMMA FileOpenFileKeeps ==
    ASSUME Pathed, Manager!OpenFile
    PROVE  Pathed'
<1>1. PICK e \in view.entries :
        Manager!Send(Manager!Call("read", e.path, <<>>, view.path, e.path)) /\ view' = Manager!Opening(e)
  BY DEF Manager!OpenFile
<1>2. FileSlotRight(Manager!Call("read", e.path, <<>>, view.path, e.path))
  BY FileShownPaths, FileNewCall DEF FileKinds
<1>3. FileViewRight(view')
  BY <1>1, FileViewKeeps DEF Pathed, Manager!Opening
<1> QED
  BY <1>1, <1>2, <1>3, FileSendKeeps

LEMMA FileAsksKeeps ==
    ASSUME Pathed, Manager!AskMkdir \/ Manager!AskRename \/ Manager!AskDelete
    PROVE  Pathed'
<1>1. CASE Manager!AskMkdir
  <2>1. FileDialogRight(Manager!Call("mkdir", view.path, <<>>, view.path, Manager!MkdirKey))
    BY FileShownPaths, FileNewCall DEF FileKinds
  <2>2. FileViewRight([view EXCEPT !.dialog = Manager!Call("mkdir", view.path, <<>>, view.path, Manager!MkdirKey)])
    BY <2>1, FileViewKeeps DEF Pathed
  <2> QED
    BY <1>1, <2>2, FileShowsKeeps DEF Manager!AskMkdir
<1>2. ASSUME NEW kind \in {"rename", "delete"}, Manager!AskAbout(kind)
      PROVE  Pathed'
  <2>1. PICK e \in view.entries : Manager!Shows([view EXCEPT !.dialog = Manager!Call(kind, e.path, <<>>, view.path, e.path)])
    BY <1>2 DEF Manager!AskAbout
  <2>2. FileDialogRight(Manager!Call(kind, e.path, <<>>, view.path, e.path))
    BY FileShownPaths, FileNewCall DEF FileKinds
  <2>3. FileViewRight([view EXCEPT !.dialog = Manager!Call(kind, e.path, <<>>, view.path, e.path)])
    BY <2>2, FileViewKeeps DEF Pathed
  <2> QED
    BY <2>1, <2>3, FileShowsKeeps
<1> QED
  BY <1>1, <1>2 DEF Manager!AskRename, Manager!AskDelete

LEMMA FileAnsweredKeeps ==
    ASSUME Pathed, Manager!Answered, Given \subseteq FilePath
    PROVE  Pathed'
<1> DEFINE c == view.dialog
<1>1. /\ FileIsCall(c) /\ c.kind \in {"mkdir", "rename", "delete"}
      /\ c.kind = "rename" => Manager!Parent(c.path) = c.dir
  BY DEF Manager!Answered, Pathed, FileViewRight, FileDialogRight
<1>2. CASE Manager!Shows([view EXCEPT !.dialog = Manager!NoDialog])
  BY <1>2, FileViewKeeps, FileShowsKeeps DEF Pathed
<1>3. ASSUME NEW call, Manager!Send(call),
             view' = [view EXCEPT !.dialog = Manager!NoDialog, !.busy = @ \union {call.key}],
             FileSlotRight(call)
      PROVE  Pathed'
  <2>1. FileViewRight(view')
    BY <1>3, FileViewKeeps DEF Pathed
  <2> QED
    BY <1>3, <2>1, FileSendKeeps
<1>4. c.kind = "delete" => FileSlotRight(c)
  BY <1>1 DEF FileSlotRight
<1>5. ASSUME NEW name \in Given
      PROVE  /\ c.kind = "mkdir" => FileSlotRight([c EXCEPT !.path = c.dir \o name])
             /\ c.kind = "rename" => FileSlotRight([c EXCEPT !.to = c.dir \o name])
  <2>1. c.dir \in FilePath /\ name \in FilePath
    BY <1>1 DEF FileIsCall
  <2>2. c.dir \o name \in FilePath
    BY <2>1, FilePrefixOfConcat
  <2> HIDE DEF c
  <2>3. CASE c.kind = "mkdir"
    BY <1>1, <2>2, <2>3 DEF FileSlotRight, FileIsCall
  <2>4. CASE c.kind = "rename"
    <3>1. FileIsCall([c EXCEPT !.to = c.dir \o name])
      BY <1>1, <2>2, <2>4 DEF FileIsCall
    <3>2. [c EXCEPT !.to = c.dir \o name].to = c.dir \o name /\ [c EXCEPT !.to = c.dir \o name].path = c.path
      BY <1>1 DEF FileIsCall
    <3> QED
      BY <1>1, <2>4, <3>1, <3>2 DEF FileSlotRight
  <2> QED
    BY <1>1, <2>3, <2>4
<1> QED
  BY <1>2, <1>3, <1>4, <1>5 DEF Manager!Answered

LEMMA FileDragKeeps ==
    ASSUME Pathed, Manager!Drag
    PROVE  Pathed'
<1>1. PICK e \in view.entries : view' = [view EXCEPT !.selected = {e.path}]
  BY DEF Manager!Drag
<1>2. {e.path} \in SUBSET (FilePath \ {<<>>})
  BY FileShownPaths
<1>3. FileViewRight([view EXCEPT !.selected = {e.path}])
  BY <1>2, FileViewKeeps DEF Pathed
<1>4. calls' = calls /\ server' = server
  BY DEF Manager!Drag
<1> QED
  BY <1>1, <1>3, <1>4 DEF Pathed

LEMMA FileBeginsKeeps ==
    ASSUME Pathed, NEW call, Manager!Begins(call), FileSlotRight(call)
    PROVE  Pathed'
<1>1. FileViewRight(view')
  BY FileViewKeeps DEF Pathed, Manager!Begins
<1> QED
  BY <1>1, FileSendKeeps DEF Manager!Begins

LEMMA FileMoveToKeeps ==
    ASSUME Pathed, Manager!MoveTo
    PROVE  Pathed'
<1>1. PICK from \in view.selected, dir \in Manager!ShownDirs \union Manager!Crumbs :
        Manager!Begins(Manager!Call("move", from, Append(dir, Manager!Last(from)), view.path, from))
  BY DEF Manager!MoveTo
<1>2. from \in FilePath /\ from # <<>> /\ dir \in FilePath /\ view.path \in FilePath
  BY FileShownPaths DEF Pathed, FileViewRight
<1>3. Manager!Last(from) \in FilePart
  <2>1. Len(from) \in Nat /\ Len(from) # 0 /\ \A i \in 1..Len(from) : from[i] \in FilePart
    BY <1>2, FilePathFacts
  <2> QED
    BY <2>1 DEF Manager!Last
<1>4. Append(dir, Manager!Last(from)) \in FilePath
  BY <1>2, <1>3, AppendProperties DEF FilePath
<1>5. FileSlotRight(Manager!Call("move", from, Append(dir, Manager!Last(from)), view.path, from))
  BY <1>2, <1>4, FileShownPaths, FileNewCall DEF FileKinds
<1> QED
  BY <1>1, <1>5, FileBeginsKeeps

LEMMA FileUploadKeeps ==
    ASSUME Pathed, Manager!Upload
    PROVE  Pathed'
<1>1. PICK name \in Names, rest \in {<<>>} \union {<<n>> : n \in Names}, text \in Texts :
        Manager!Begins([Manager!Call("upload", Append(view.path, name), rest, view.path, Manager!NoKey) EXCEPT !.text = text])
  BY DEF Manager!Upload
<1>2. view.path \in FilePath /\ rest \in FilePath /\ name \in FilePart
  <2>1. view.path \in FilePath /\ <<>> \in FilePath /\ Names \subseteq FilePart
    BY FileShownPaths DEF FilePart
  <2>2. \A n \in FilePart : <<n>> \in FilePath
    BY DEF FilePath
  <2> QED
    BY <2>1, <2>2
<1>3. Append(view.path, name) \in FilePath
  BY <1>2, AppendProperties DEF FilePath
<1>4. FileSlotRight([Manager!Call("upload", Append(view.path, name), rest, view.path, Manager!NoKey) EXCEPT !.text = text])
  BY <1>2, <1>3 DEF Manager!Call, FileKinds, FileSlotRight, FileIsCall, FileText
<1> QED
  BY <1>1, <1>4, FileBeginsKeeps

LEMMA FileEditorKeeps ==
    ASSUME Pathed, Manager!Type \/ Manager!Save \/ Manager!Close
    PROVE  Pathed'
<1> DEFINE e == view.editor
<1>1. e \in [path : FilePath, of : {e.of}, text : FileText, dirty : BOOLEAN, saving : BOOLEAN]
  BY DEF Pathed, FileViewRight, FileEditorRight, Manager!Type, Manager!Save, Manager!Close
<1> HIDE DEF e
<1>2. CASE Manager!Type
  <2>1. PICK text \in Texts : Manager!Shows([view EXCEPT !.editor.text = text, !.editor.dirty = TRUE])
    BY <1>2 DEF Manager!Type
  <2>2. FileEditorRight([e EXCEPT !.text = text, !.dirty = TRUE])
    BY <1>1 DEF FileEditorRight, FileText
  <2>3. [view EXCEPT !.editor.text = text, !.editor.dirty = TRUE]
          = [view EXCEPT !.editor = [e EXCEPT !.text = text, !.dirty = TRUE]]
    BY DEF Pathed, FileViewRight, e
  <2> QED
    BY <2>1, <2>2, <2>3, FileViewKeeps, FileShowsKeeps DEF Pathed
<1>3. CASE Manager!Save
  <2>1. /\ Manager!Send([Manager!Call("write", e.path, <<>>, view.path, Manager!EditorKey) EXCEPT !.text = e.text, !.of = e.of])
        /\ view' = [view EXCEPT !.editor.saving = TRUE]
    BY <1>3 DEF Manager!Save, e
  <2>2. FileSlotRight([Manager!Call("write", e.path, <<>>, view.path, Manager!EditorKey) EXCEPT !.text = e.text, !.of = e.of])
    BY <1>1, FileShownPaths DEF FileSlotRight, FileIsCall, Manager!Call, FileKinds
  <2>3. FileEditorRight([e EXCEPT !.saving = TRUE])
    BY <1>1 DEF FileEditorRight
  <2>4. view' = [view EXCEPT !.editor = [e EXCEPT !.saving = TRUE]]
    BY <2>1 DEF e
  <2>5. FileViewRight(view')
    BY <2>3, <2>4, FileViewKeeps DEF Pathed
  <2> QED
    BY <2>1, <2>2, <2>5, FileSendKeeps
<1>4. CASE Manager!Close
  <2>1. calls' = [s \in Slots |-> IF calls[s] # Manager!NoCall /\ calls[s].key = Manager!EditorKey
                                  THEN [calls[s] EXCEPT !.key = Manager!NoKey] ELSE calls[s]]
    BY <1>4 DEF Manager!Close
  <2>2. \A c : FileSlotRight(c) /\ c # Manager!NoCall => FileSlotRight([c EXCEPT !.key = Manager!NoKey])
    BY DEF FileSlotRight, FileIsCall
  <2>3. \A s \in Slots : FileSlotRight(calls'[s])
    BY <2>1, <2>2 DEF Pathed
  <2>4. calls' = [s \in Slots |-> calls'[s]]
    BY <2>1
  <2>5. FileServerRight(server') /\ FileViewRight(view')
    BY <1>4, FileViewKeeps DEF Pathed, Manager!Close
  <2> QED
    BY <2>3, <2>4, <2>5 DEF Pathed
<1> QED
  BY <1>2, <1>3, <1>4
LEMMA FileEntriesListed ==
    ASSUME NEW fs, FileDisk(fs), NEW p \in FilePath
    PROVE  Manager!Entries(fs, p) \subseteq FileListed(p)
<1>1. ASSUME NEW x \in Manager!Under(fs, p), Len(x) = Len(p) + 1
      PROVE  x \in FilePath /\ x # <<>> /\ Manager!Parent(x) = p
  <2>1. x \in FilePath /\ Manager!IsPrefix(p, x)
    BY DEF Manager!Under, FileDisk
  <2>2. Len(p) \in Nat /\ x # <<>> /\ x # p
    BY <1>1, <2>1, FilePathFacts
  <2>3. Manager!Parent(x) \in FilePath /\ Len(Manager!Parent(x)) = Len(x) - 1
          /\ Manager!IsPrefix(p, Manager!Parent(x))
    BY <2>1, <2>2, FileParentPrefix
  <2>4. Len(p) = Len(Manager!Parent(x))
    BY <1>1, <2>2, <2>3
  <2> QED
    BY <2>1, <2>2, <2>3, <2>4, FileSamePath
<1>2. ASSUME NEW e \in Manager!Entries(fs, p)
      PROVE  e \in FileListed(p)
  <2>1. PICK x \in Manager!Under(fs, p) : Len(x) = Len(p) + 1 /\ e = [path |-> x, dir |-> fs[x] = Manager!Dir]
    BY DEF Manager!Entries
  <2>2. (fs[x] = Manager!Dir) \in BOOLEAN
    OBVIOUS
  <2>3. e.path = x /\ e \in FileEntry
    BY <1>1, <2>1, <2>2 DEF FileEntry
  <2> QED
    BY <1>1, <2>1, <2>3 DEF FileListed
<1> QED
  BY <1>2

\* What the routes change is still a disk.
LEMMA FileAfterDisk ==
    ASSUME NEW c, FileIsCall(c), NEW p \in FilePath, NEW q \in FilePath, FileDisk(server.fs),
           Manager!Possible(c, p, q)
    PROVE  FileDisk(Manager!After(c, p, q))
<1> DEFINE fs == server.fs
<1>1. CASE c.kind = "mkdir"
  <2>1. p \in DOMAIN fs \/ (p # <<>> /\ Manager!IsDir(fs, Manager!Parent(p)))
    BY <1>1 DEF Manager!Possible, FileDisk
  <2>2. Manager!Dir \in FileContents
    BY DEF FileContents
  <2>3. FileDisk(Manager!With(fs, p, Manager!Dir))
    BY <2>1, <2>2, FileDiskWith
  <2> QED
    BY <1>1, <2>3 DEF Manager!After
<1>2. CASE c.kind \in {"rename", "move"}
  <2>1. FileMovable(fs, p, q)
    BY <1>2 DEF Manager!Possible, FileMovable
  <2>2. FileDisk(Manager!Moved(fs, p, q))
    BY <2>1, FileDiskMoved
  <2> QED
    BY <1>2, <2>2 DEF Manager!After
<1>3. CASE c.kind = "delete"
  <2>1. p # <<>>
    BY <1>3 DEF Manager!Possible
  <2>2. FileDisk(Manager!Without(fs, Manager!Under(fs, p)))
    BY <2>1, FileUnderClosed, FileDiskWithout
  <2> QED
    BY <1>3, <2>2 DEF Manager!After
<1>4. CASE c.kind \in {"write", "upload"}
  <2>1. p # <<>> /\ ~Manager!IsDir(fs, p) /\ Manager!IsDir(fs, Manager!Parent(p))
    BY <1>4 DEF Manager!Possible
  <2>2. c.text \in FileContents
    BY <1>4 DEF FileIsCall, FileText, FileContents
  <2>3. FileDisk(Manager!With(fs, p, c.text))
    BY <2>1, <2>2, FileDiskWith
  <2> QED
    BY <1>4, <2>3 DEF Manager!After
<1>5. CASE c.kind \in {"default", "list", "read"}
  BY <1>5 DEF Manager!After
<1> QED
  BY <1>1, <1>2, <1>3, <1>4, <1>5 DEF FileIsCall, FileKinds

LEMMA FileHalfwayDisk ==
    ASSUME NEW c, FileIsCall(c), NEW p \in FilePath, NEW q \in FilePath, FileDisk(server.fs),
           Manager!Possible(c, p, q),
           NEW fs \in Manager!Halfway(c, p)
    PROVE  FileDisk(fs)
<1>1. CASE c.kind = "delete"
  <2>1. PICK x \in Manager!Under(server.fs, p) : Manager!Under(server.fs, x) = {x} /\ x # <<>>
          /\ fs = Manager!Without(server.fs, {x})
    BY <1>1 DEF Manager!Halfway
  <2>2. x \in FilePath /\ x \in DOMAIN server.fs
    BY DEF Manager!Under, FileDisk
  <2>3. FileDisk(Manager!Without(server.fs, {x}))
    <3>1. \A y \in DOMAIN server.fs : Manager!IsPrefix(x, y) => y \in {x}
      BY <2>1 DEF Manager!Under
    <3> QED
      BY <2>1, <2>2, <3>1, FileDiskWithout
  <2> QED
    BY <2>1, <2>3
<1>2. CASE c.kind \in {"write", "upload"}
  <2>1. p # <<>> /\ ~Manager!IsDir(server.fs, p) /\ Manager!IsDir(server.fs, Manager!Parent(p))
    BY <1>2 DEF Manager!Possible
  <2>2. Manager!Torn \in FileContents
    BY DEF FileContents
  <2>3. FileDisk(Manager!With(server.fs, p, Manager!Torn))
    BY <2>1, <2>2, FileDiskWith
  <2> QED
    BY <1>2, <2>3 DEF Manager!Halfway
<1> QED
  BY <1>1, <1>2 DEF Manager!Halfway

LEMMA FileServeKeeps ==
    ASSUME Pathed, NEW s \in Slots, Manager!Serve(s)
    PROVE  Pathed'
<1> DEFINE c == calls[s]
           p == Manager!Normalized(c.path)
           q == Manager!Normalized(c.to)
<1>1. FileIsCall(c) /\ (c.kind = "rename" => c.to \in {Manager!Parent(c.path) \o name : name \in Given})
  BY DEF Manager!Serve, Pathed, FileSlotRight, Manager!NoCall
<1>2. p \in FilePath /\ q \in FilePath
  BY <1>1, FileNormalizedPath DEF FileIsCall
<1>3. FileServerRight(server)
  BY DEF Pathed
<1> HIDE DEF c, p, q
<1>4. ASSUME NEW fs, server' = [server EXCEPT !.fs = fs], FileDisk(fs)
      PROVE  FileServerRight(server')
  BY <1>3, <1>4 DEF FileServerRight
<1>5. ASSUME NEW ok \in BOOLEAN, NEW doc, Manager!Answer(s, ok, doc), FileServerRight(server'),
             ok => /\ c.kind = "default" => doc \in FilePath
                   /\ c.kind = "list" => doc \subseteq FileListed(p)
                   /\ c.kind = "read" => doc \in FileText
      PROVE  Pathed'
  <2>1. calls' = [calls EXCEPT ![s] = [c EXCEPT !.at = "answered", !.ok = ok, !.doc = doc]] /\ view' = view
    BY <1>5 DEF Manager!Answer, c
  <2>2. FileSlotRight([c EXCEPT !.at = "answered", !.ok = ok, !.doc = doc])
    <3>1. FileIsCall([c EXCEPT !.at = "answered", !.ok = ok, !.doc = doc])
      BY <1>1, <1>5 DEF FileIsCall, p
    <3>2. /\ [c EXCEPT !.at = "answered", !.ok = ok, !.doc = doc].kind = c.kind
          /\ [c EXCEPT !.at = "answered", !.ok = ok, !.doc = doc].path = c.path
          /\ [c EXCEPT !.at = "answered", !.ok = ok, !.doc = doc].to = c.to
      BY <1>1 DEF FileIsCall
    <3> QED
      BY <1>1, <3>1, <3>2 DEF FileSlotRight
  <2>3. FileViewRight(view')
    BY <2>1 DEF Pathed
  <2> QED
    BY <1>5, <2>1, <2>2, <2>3, FileSlotKeeps
<1>6. CASE UNCHANGED server /\ Manager!Answer(s, FALSE, {})
  BY <1>3, <1>5, <1>6
<1>7. CASE /\ Manager!Possible(c, p, q)
           /\ \E fs \in Manager!Halfway(c, p) : server' = [server EXCEPT !.fs = fs]
           /\ Manager!Answer(s, FALSE, {})
  <2>1. FileServerRight(server')
    BY <1>1, <1>2, <1>3, <1>4, <1>7, FileHalfwayDisk DEF FileServerRight
  <2> QED
    BY <1>5, <1>7, <2>1
<1>8. CASE /\ Manager!Possible(c, p, q)
           /\ server' = [server EXCEPT !.fs = Manager!After(c, p, q)]
           /\ Manager!Answer(s, TRUE, Manager!Found(c, p))
  <2>1. FileServerRight(server')
    BY <1>1, <1>2, <1>3, <1>4, <1>8, FileAfterDisk DEF FileServerRight
  <2>2. c.kind = "default" => Manager!Found(c, p) \in FilePath
    BY <1>3 DEF Manager!Found, FileServerRight
  <2>3. c.kind = "list" => Manager!Found(c, p) \subseteq FileListed(p)
    BY <1>2, <1>3, FileEntriesListed DEF Manager!Found, FileServerRight
  <2>4. c.kind = "read" => Manager!Found(c, p) \in FileText
    BY <1>3, <1>8 DEF Manager!Found, Manager!Possible, Manager!IsDir, FileServerRight, FileDisk,
       FileContents, FileText
  <2> QED
    BY <1>5, <1>8, <2>1, <2>2, <2>3, <2>4
<1> QED
  BY <1>6, <1>7, <1>8 DEF Manager!Serve, c, p, q

\* One file of several is written: its successor is next.
LEMMA FileUploadsIs ==
    ASSUME Pathed, NEW s \in Slots, Manager!Uploads(s)
    PROVE  LET c == calls[s]
               p == Manager!Normalized(c.path)
               next == [c EXCEPT !.path = Append(c.dir, Head(c.to)), !.to = Tail(c.to)]
           IN /\ FileIsCall(c) /\ c.kind = "upload" /\ c.at = "sent" /\ p \in FilePath
              /\ Manager!Allowed(c) /\ Manager!Possible(c, p, p)
              /\ FileIsCall(next) /\ next.kind = "upload" /\ next.at = "sent"
              /\ calls' = [calls EXCEPT ![s] = next] /\ calls'[s] = next
              /\ server' = [server EXCEPT !.fs = Manager!After(c, p, p)] /\ server'.fs = Manager!After(c, p, p)
              /\ view' = view /\ order' = order /\ calm' = calm /\ page' = page
<1> DEFINE c == calls[s]
           p == Manager!Normalized(c.path)
           next == [c EXCEPT !.path = Append(c.dir, Head(c.to)), !.to = Tail(c.to)]
<1>1. FileIsCall(c) /\ c.kind = "upload" /\ c.at = "sent"
  BY DEF Manager!Uploads, Pathed, FileSlotRight, Manager!NoCall
<1>2. p \in FilePath
  BY <1>1, FileNormalizedPath DEF FileIsCall
<1>3. Manager!Allowed(c) /\ Manager!Possible(c, p, p) /\ c.to # <<>>
  BY DEF Manager!Uploads
<1>4. Manager!After(c, p, p) = Manager!With(server.fs, p, c.text)
  BY <1>1 DEF Manager!After
<1>5. server' = [server EXCEPT !.fs = Manager!With(@, p, c.text)]
  BY DEF Manager!Uploads
<1>6. server' = [server EXCEPT !.fs = Manager!After(c, p, p)] /\ server'.fs = Manager!After(c, p, p)
  BY <1>4, <1>5 DEF Pathed, FileServerRight
<1>7. calls' = [calls EXCEPT ![s] = next] /\ calls'[s] = next
  BY DEF Manager!Uploads, Pathed
<1>8. view' = view /\ order' = order /\ calm' = calm /\ page' = page
  BY DEF Manager!Uploads
<1> HIDE DEF c, p
<1>9. Head(c.to) \in FilePart /\ Tail(c.to) \in FilePath
  BY <1>1, <1>3, HeadTailProperties DEF FileIsCall, FilePath
<1>10. Append(c.dir, Head(c.to)) \in FilePath
  BY <1>1, <1>9, AppendProperties DEF FileIsCall, FilePath
<1>11. FileIsCall(next) /\ next.kind = "upload" /\ next.at = "sent"
  BY <1>1, <1>9, <1>10 DEF FileIsCall
<1> HIDE DEF next
<1> QED
  BY <1>1, <1>2, <1>3, <1>6, <1>7, <1>8, <1>11 DEF c, p, next

LEMMA FileUploadsKeeps ==
    ASSUME Pathed, NEW s \in Slots, Manager!Uploads(s)
    PROVE  Pathed'
<1> DEFINE c == calls[s]
           p == Manager!Normalized(c.path)
<1>1. /\ FileIsCall(c) /\ p \in FilePath /\ Manager!Possible(c, p, p)
      /\ FileIsCall(calls'[s]) /\ calls'[s].kind = "upload" /\ calls' = [calls EXCEPT ![s] = calls'[s]]
      /\ server' = [server EXCEPT !.fs = Manager!After(c, p, p)] /\ view' = view
  BY FileUploadsIs, Zenon
<1> HIDE DEF c, p
<1>2. FileDisk(Manager!After(c, p, p))
  BY <1>1, FileAfterDisk DEF Pathed, FileServerRight
<1>3. FileServerRight(server')
  BY <1>1, <1>2 DEF Pathed, FileServerRight
<1>4. FileSlotRight(calls'[s]) /\ FileViewRight(view')
  BY <1>1 DEF FileSlotRight, Pathed
<1> QED
  BY <1>1, <1>3, <1>4, FileSlotKeeps

LEMMA FileDeliverKeeps ==
    ASSUME Pathed, NEW s \in Slots, Manager!Deliver(s)
    PROVE  Pathed'
<1> DEFINE c == calls[s]
<1>1. FileIsCall(c)
  BY DEF Manager!Deliver, Manager!Arrives, Pathed, FileSlotRight, Manager!NoCall
<1>2. server' = server /\ FileServerRight(server')
  BY DEF Manager!Deliver, Manager!Arrives, Pathed
<1>3. FileViewRight(view) /\ FileSlotRight(Manager!NoCall)
  BY DEF Pathed, FileSlotRight
<1>4. ASSUME NEW next, Manager!Continues(s, next) \/ (Manager!Ends(s) /\ next = Manager!NoCall),
             FileSlotRight(next), FileViewRight(view')
      PROVE  Pathed'
  BY <1>2, <1>4, FileSlotKeeps DEF Manager!Continues, Manager!Ends
<1>5. FileViewRight(Manager!Released(c)) /\ FileViewRight(Manager!Leaves)
  BY <1>3, FileViewKeeps DEF Manager!Released, Manager!Leaves
<1> HIDE DEF c
<1>6. ASSUME NEW path \in FilePath, NEW key, NEW text
      PROVE  FileSlotRight(Manager!List(path, key)) /\ FileSlotRight([Manager!List(path, key) EXCEPT !.text = text])
  <2>1. <<>> \in FilePath
    BY <1>6, FilePathFacts
  <2>2. FileSlotRight(Manager!List(path, key))
    BY <1>6, <2>1, FileNewCall DEF Manager!List, FileKinds
  <2>3. FileSlotRight([Manager!List(path, key) EXCEPT !.text = text])
    BY <1>6, <2>1 DEF FileSlotRight, FileIsCall, Manager!List, Manager!Call, FileKinds
  <2> QED
    BY <2>2, <2>3
<1>7. CASE Manager!ListArrives(s)
  <2>1. /\ c.kind = "list" /\ Manager!Ends(s)
        /\ view' = [Manager!Released(c) EXCEPT !.loading = FALSE, !.failed = @ \/ ~c.ok,
                                       !.entries = IF c.ok THEN c.doc ELSE @,
                                       !.path = IF c.ok THEN Manager!Normalized(c.path) ELSE @,
                                       !.half = @ /\ ~c.ok,
                                       !.selected = IF c.text = "move" THEN {} ELSE @]
    BY <1>7 DEF Manager!ListArrives, Manager!Arrived, c
  <2> DEFINE r == Manager!Released(c)
  <2> HIDE DEF r
  <2>2. FileViewRight(r) /\ r \in [path : {r.path}, entries : {r.entries}, loading : {r.loading}, failed : BOOLEAN,
                                   busy : {r.busy}, selected : {r.selected}, dialog : {r.dialog},
                                   editor : {r.editor}, half : BOOLEAN]
    BY <1>5 DEF r, FileViewRight
  <2>3. c.ok \in BOOLEAN /\ Manager!Normalized(c.path) \in FilePath
          /\ (c.ok => c.doc \subseteq FileListed(Manager!Normalized(c.path)))
    BY <1>1, <2>1, FileNormalizedPath DEF FileIsCall
  <2>4. PICK failed, half, sel :
          /\ failed \in BOOLEAN /\ half \in BOOLEAN /\ sel \in {r.selected, {}}
          /\ view' = [r EXCEPT !.loading = FALSE, !.failed = failed,
                               !.entries = IF c.ok THEN c.doc ELSE @,
                               !.path = IF c.ok THEN Manager!Normalized(c.path) ELSE @,
                               !.half = half, !.selected = sel]
    BY <2>1, <2>2, <2>3 DEF r
  <2>5. FileViewRight(view')
    BY <2>2, <2>3, <2>4 DEF FileViewRight
  <2> QED
    BY <1>3, <1>4, <2>1, <2>5
<1>8. CASE Manager!DefaultArrives(s)
  <2>1. (IF c.ok THEN c.doc ELSE <<>>) \in FilePath
    BY <1>1, <1>8, FilePathFacts DEF FileIsCall, Manager!DefaultArrives, c
  <2> QED
    BY <1>4, <1>5, <1>6, <1>8, <2>1 DEF Manager!DefaultArrives, c
<1>9. CASE Manager!ReadArrives(s)
  <2>1. /\ Manager!Ends(s) /\ c.kind = "read"
        /\ view' = IF c.ok THEN [Manager!Released(c) EXCEPT !.editor = Manager!Opened(c)] ELSE Manager!Released(c)
    BY <1>9 DEF Manager!ReadArrives, c
  <2>2. c.ok => FileEditorRight(Manager!Opened(c))
    <3>1. c.path \in FilePath /\ (c.ok => c.doc \in FileText)
      BY <1>1, <2>1 DEF FileIsCall
    <3>2. FileEditorRight(view.editor)
      BY <1>3 DEF FileViewRight
    <3> QED
      BY <3>1, <3>2 DEF Manager!Opened, FileEditorRight
  <2>3. FileViewRight(view')
    BY <1>5, <2>1, <2>2, FileViewKeeps
  <2> QED
    BY <1>3, <1>4, <2>1, <2>3
<1>10. CASE Manager!WriteArrives(s)
  <2>1. FileViewRight(view')
    <3>1. CASE view' = view
      BY <1>3, <3>1
    <3>2. CASE view' # view
      <4> DEFINE e == view.editor
      <4>1. view' = [view EXCEPT !.editor.saving = FALSE, !.editor.dirty = @ /\ ~c.ok,
                                 !.half = @ \/ Manager!Unlisted(c.path)]
        BY <1>10, <3>2 DEF Manager!WriteArrives, c
      <4> HIDE DEF e
      <4>2. \E dirty, half \in BOOLEAN :
              view' = [view EXCEPT !.editor = [e EXCEPT !.saving = FALSE, !.dirty = dirty], !.half = half]
        <5>1. (view.editor.dirty /\ ~c.ok) \in BOOLEAN /\ (view.half \/ Manager!Unlisted(c.path)) \in BOOLEAN
          OBVIOUS
        <5>2. view' = [view EXCEPT !.editor = [e EXCEPT !.saving = FALSE, !.dirty = view.editor.dirty /\ ~c.ok],
                                   !.half = view.half \/ Manager!Unlisted(c.path)]
          BY <1>3, <4>1 DEF e, FileViewRight
        <5> QED
          BY <5>1, <5>2
      <4>3. PICK dirty, half \in BOOLEAN :
              view' = [view EXCEPT !.editor = [e EXCEPT !.saving = FALSE, !.dirty = dirty], !.half = half]
        BY <4>2
      <4>4. FileEditorRight([e EXCEPT !.saving = FALSE, !.dirty = dirty])
        <5>1. FileEditorRight(e)
          BY <1>3 DEF e, FileViewRight
        <5>2. CASE e = Manager!NoEditor
          <6>1. [e EXCEPT !.saving = FALSE, !.dirty = dirty] = Manager!NoEditor
            BY <5>2 DEF Manager!NoEditor
          <6> QED
            BY <6>1 DEF FileEditorRight
        <5>3. CASE e # Manager!NoEditor
          BY <5>1, <5>3 DEF FileEditorRight
        <5> QED
          BY <5>2, <5>3
      <4>5. FileViewRight([view EXCEPT !.half = half])
        BY <1>3 DEF FileViewRight
      <4>6. view' = [[view EXCEPT !.half = half] EXCEPT !.editor = [e EXCEPT !.saving = FALSE, !.dirty = dirty]]
        BY <1>3, <4>3 DEF FileViewRight
      <4> QED
        BY <4>4, <4>5, <4>6, FileViewKeeps
    <3> QED
      BY <3>1, <3>2
  <2> QED
    BY <1>3, <1>4, <1>10, <2>1 DEF Manager!WriteArrives
<1>11. CASE Manager!EffectArrives(s)
  <2>1. CASE c.ok
    <3>1. c.dir \in FilePath
      BY <1>1 DEF FileIsCall
    <3>2. Manager!Continues(s, [Manager!List(c.dir, c.key) EXCEPT !.text = c.kind]) /\ view' = Manager!Leaves
      BY <1>11, <2>1 DEF Manager!EffectArrives, c
    <3> QED
      BY <1>4, <1>5, <1>6, <3>1, <3>2
  <2>2. CASE ~c.ok
    <3>1. /\ Manager!Ends(s)
          /\ view' = [Manager!Released(c) EXCEPT !.selected = IF c.kind = "move" THEN {} ELSE @, !.half = TRUE]
      BY <1>11, <2>2 DEF Manager!EffectArrives, c
    <3>2. FileViewRight(view')
      BY <1>5, <3>1 DEF FileViewRight
    <3> QED
      BY <1>3, <1>4, <3>1, <3>2
  <2> QED
    BY <2>1, <2>2
<1> QED
  BY <1>7, <1>8, <1>9, <1>10, <1>11 DEF Manager!Deliver

LEMMA FileInitPathed == Manager!Init => Pathed
<1> SUFFICES ASSUME Manager!Init PROVE Pathed
  OBVIOUS
<1> USE FilesAssumption DEF FilesOK
<1>1. Seq(Names) \subseteq FilePath /\ <<>> \in FilePath
  <2>1. \A p \in Seq(Names) : p \in Seq(FilePart)
    BY SeqMonotonic DEF FilePart
  <2> QED
    BY <2>1, EmptySeq DEF FilePath
<1>2. FileDisk(Tree)
  <2>1. Tree \in [DOMAIN Tree -> FileContents]
    BY DEF FileContents, Manager!Dir
  <2>2. ASSUME NEW p \in DOMAIN Tree, NEW q \in FilePath, Manager!IsPrefix(q, p), q # p
        PROVE  Manager!IsDir(Tree, q)
    <3>1. p \in FilePath /\ Len(p) \in Nat /\ Len(q) \in Nat
      BY <1>1, FilePathFacts
    <3>2. Len(q) <= Len(p) /\ \A i \in 1..Len(q) : q[i] = p[i]
      BY <2>2, <3>1, FilePrefix
    <3>3. Len(q) # Len(p)
      BY <2>2, <3>1, FileSamePath
    <3>4. q = SubSeq(p, 1, Len(q))
      <4>1. 1 \in 1..Len(p) + 1 /\ Len(q) \in 1 - 1..Len(p)
        BY <3>1, <3>2
      <4>2. /\ SubSeq(p, 1, Len(q)) \in FilePath /\ Len(SubSeq(p, 1, Len(q))) = Len(q) - 1 + 1
            /\ \A i \in 1..Len(q) - 1 + 1 : SubSeq(p, 1, Len(q))[i] = p[1 + i - 1]
        BY <3>1, <4>1, FileSlice
      <4>3. Len(SubSeq(p, 1, Len(q))) = Len(q) /\ \A i \in 1..Len(q) : q[i] = SubSeq(p, 1, Len(q))[i]
        BY <3>1, <3>2, <4>2
      <4> QED
        BY <4>2, <4>3, SeqEqual DEF FilePath
    <3>5. Len(q) \in 0..Len(p) - 1
      BY <3>1, <3>2, <3>3
    <3>6. SubSeq(p, 1, Len(q)) \in DOMAIN Tree /\ Tree[SubSeq(p, 1, Len(q))] = "dir"
      BY <3>5
    <3> QED
      BY <3>4, <3>6 DEF Manager!IsDir, Manager!Dir
  <2> QED
    BY <1>1, <2>1, <2>2 DEF FileDisk
<1>3. FileServerRight(server)
  <2>1. PICK setup \in Setups : server = [fs |-> Tree, root |-> setup.root, sudo |-> setup.sudo]
    BY DEF Manager!Init
  <2>2. setup \in [root : FilePath, sudo : BOOLEAN]
    BY <1>1
  <2>3. [root |-> server.root, sudo |-> server.sudo] = setup
    BY <2>1, <2>2
  <2> QED
    BY <1>2, <2>1, <2>2, <2>3 DEF FileServerRight
<1>4. FileViewRight(view)
  BY <1>1 DEF Manager!Init, FileViewRight, FileDialogRight, FileEditorRight
<1>5. calls = [s \in Slots |-> calls[s]] /\ \A s \in Slots : FileSlotRight(calls[s])
  <2>1. FileSlotRight(Manager!Call("default", <<>>, <<>>, <<>>, Manager!NoKey))
    BY <1>1, FileNewCall DEF FileKinds
  <2>2. PICK s : calls = [t \in Slots |-> IF t = s THEN Manager!Call("default", <<>>, <<>>, <<>>, Manager!NoKey) ELSE Manager!NoCall]
    BY DEF Manager!Init
  <2>3. FileSlotRight(Manager!NoCall)
    BY DEF FileSlotRight
  <2> QED
    BY <2>1, <2>2, <2>3
<1> QED
  BY <1>3, <1>4, <1>5 DEF Pathed

LEMMA FileNextPathed ==
    ASSUME Pathed, ManagerStep
    PROVE  Pathed'
<1>1. CASE Manager!Elsewhere
  <2>1. PICK p \in DOMAIN server.fs \ {<<>>} :
          server' = [server EXCEPT !.fs = Manager!Without(@, Manager!Under(@, p))]
    BY <1>1 DEF Manager!Elsewhere
  <2>2. FileDisk(Manager!Without(server.fs, Manager!Under(server.fs, p)))
    BY FileUnderClosed, FileDiskWithout DEF Pathed, FileServerRight, FileDisk
  <2>3. FileServerRight(server')
    BY <2>1, <2>2 DEF Pathed, FileServerRight
  <2> QED
    BY <1>1, <2>3 DEF Manager!Elsewhere, Pathed
<1>2. CASE UNCHANGED vars
  BY <1>2 DEF vars, Pathed
<1>3. Given \subseteq FilePath
  BY FilesAssumption DEF FilesOK, FilePath, FilePart
<1>4. CASE Manager!Navigate \/ Manager!OpenFile \/ Manager!AskMkdir \/ Manager!AskRename \/ Manager!AskDelete
           \/ Manager!Answered \/ Manager!Drag \/ Manager!MoveTo \/ Manager!Upload
  BY <1>3, <1>4, FileNavigateKeeps, FileOpenFileKeeps, FileAsksKeeps, FileAnsweredKeeps, FileDragKeeps,
     FileMoveToKeeps, FileUploadKeeps
<1>5. CASE Manager!Type \/ Manager!Save \/ Manager!Close
  BY <1>5, FileEditorKeeps
<1>6. ASSUME NEW s \in Slots, Manager!Serve(s) \/ Manager!Uploads(s) \/ Manager!Deliver(s)
      PROVE  Pathed'
  BY <1>6, FileServeKeeps, FileUploadsKeeps, FileDeliverKeeps
<1> QED
  BY <1>1, <1>2, <1>4, <1>5, <1>6 DEF Manager!Next, ManagerStep
LEMMA PathedTypes == Pathed => Manager!TypeOK
<1> SUFFICES ASSUME Pathed PROVE Manager!TypeOK
  OBVIOUS
<1>1. <<>> \in DOMAIN server.fs /\ \A p \in DOMAIN server.fs : p # <<>> =>
        Manager!IsDir(server.fs, Manager!Parent(p))
  BY FileDiskParent DEF Pathed, FileServerRight, FileDisk
<1>2. [root |-> server.root, sudo |-> server.sudo] \in Setups
  BY DEF Pathed, FileServerRight
<1>3. {view.loading, view.failed, view.half} \subseteq BOOLEAN
  BY DEF Pathed, FileViewRight
<1>4. view.editor # Manager!NoEditor => view.editor.text \in Texts \union {Manager!Torn}
  BY DEF Pathed, FileViewRight, FileEditorRight, FileText
<1> QED
  BY <1>1, <1>2, <1>3, <1>4 DEF Manager!TypeOK

LEMMA PathedRenames == Pathed => Manager!RenamesStayInDirectory
  BY DEF Pathed, FileSlotRight, Manager!RenamesStayInDirectory

-----------------------------------------------------------------------------
(***************************************************************************)
(* Nothing outside the root changes: what a request changes lies under one *)
(* of its paths, and those are checked once they are normalized.           *)
(***************************************************************************)
FileSame(old, new, x) ==
    \/ x \notin DOMAIN old /\ x \notin DOMAIN new
    \/ x \in DOMAIN old /\ x \in DOMAIN new /\ old[x] = new[x]

LEMMA FileAfterSame ==
    ASSUME NEW c, FileIsCall(c), NEW p \in FilePath, NEW q \in FilePath, FileDisk(server.fs),
           Manager!Possible(c, p, q),
           NEW x \in FilePath, ~Manager!IsPrefix(p, x), c.kind \in {"rename", "move"} => ~Manager!IsPrefix(q, x)
    PROVE  FileSame(server.fs, Manager!After(c, p, q), x)
<1>1. x # p
  BY FilePathFacts
<1>2. CASE c.kind = "mkdir"
  BY <1>1, <1>2 DEF Manager!After, Manager!With, FileSame
<1>3. CASE c.kind \in {"rename", "move"}
  <2>1. FileMovable(server.fs, p, q)
    BY <1>3 DEF Manager!Possible, FileMovable
  <2>2. /\ DOMAIN Manager!Moved(server.fs, p, q) = FileKept(server.fs, p, q) \union FileGrafts(server.fs, p, q)
        /\ \A y \in FileKept(server.fs, p, q) : Manager!Moved(server.fs, p, q)[y] = server.fs[y]
    BY <2>1, FileMovedSame
  <2>3. \A y \in Manager!Under(server.fs, p) : Manager!IsPrefix(q, FileGraft(p, q, y))
    BY FileGrafted DEF Manager!Under, FileDisk
  <2>4. ~Manager!IsPrefix(q, x)
    BY <1>3
  <2>5. FileSame(server.fs, Manager!Moved(server.fs, p, q), x)
    BY <2>2, <2>3, <2>4 DEF FileKept, FileGrafts, FileSame
  <2> QED
    BY <1>3, <2>5 DEF Manager!After
<1>4. CASE c.kind = "delete"
  BY <1>4 DEF Manager!After, Manager!Without, Manager!Under, FileSame
<1>5. CASE c.kind \in {"write", "upload"}
  BY <1>1, <1>5 DEF Manager!After, Manager!With, FileSame
<1>6. CASE c.kind \in {"default", "list", "read"}
  BY <1>6 DEF Manager!After, FileSame
<1> QED
  BY <1>2, <1>3, <1>4, <1>5, <1>6 DEF FileIsCall, FileKinds

LEMMA FileHalfwaySame ==
    ASSUME NEW c, NEW p \in FilePath, NEW fs \in Manager!Halfway(c, p), NEW x \in FilePath,
           ~Manager!IsPrefix(p, x)
    PROVE  FileSame(server.fs, fs, x)
<1>1. x # p
  BY FilePathFacts
<1>2. CASE c.kind = "delete"
  BY <1>2 DEF Manager!Halfway, Manager!Without, Manager!Under, FileSame
<1>3. CASE c.kind \in {"write", "upload"}
  BY <1>1, <1>3 DEF Manager!Halfway, Manager!With, FileSame
<1> QED
  BY <1>2, <1>3 DEF Manager!Halfway

LEMMA FileServerUnchanged ==
    ASSUME server' = server
    PROVE  Manager!ConfinedToRoot
  BY DEF Manager!ConfinedToRoot

LEMMA Confined ==
    ASSUME Pathed, Pathed', ManagerStep
    PROVE  Manager!ConfinedToRoot
<1>1. CASE Manager!Navigate \/ Manager!OpenFile \/ Manager!AskMkdir \/ Manager!AskRename \/ Manager!AskDelete
           \/ Manager!Answered \/ Manager!Drag \/ Manager!MoveTo \/ Manager!Upload
  <2>1. server' = server
    BY <1>1 DEF Manager!Navigate, Manager!OpenFile, Manager!AskMkdir, Manager!AskRename, Manager!AskDelete,
       Manager!AskAbout, Manager!Answered, Manager!Drag, Manager!MoveTo, Manager!Upload,
                Manager!Begins, Manager!Shows, Manager!Send
  <2> QED
    BY <2>1, FileServerUnchanged
<1>2. CASE Manager!Type \/ Manager!Save \/ Manager!Close \/ (\E s \in Slots : Manager!Deliver(s))
           \/ UNCHANGED vars
  <2>1. server' = server
    BY <1>2 DEF Manager!Type, Manager!Save, Manager!Close, Manager!Deliver, Manager!Arrives, Manager!Shows,
       Manager!Send, vars
  <2> QED
    BY <2>1, FileServerUnchanged
<1>3. CASE Manager!Elsewhere
  BY <1>3 DEF Manager!Elsewhere, Manager!ConfinedToRoot
<1>4. ASSUME NEW s \in Slots, Manager!Serve(s)
      PROVE  Manager!ConfinedToRoot
  <2> DEFINE c == calls[s]
             p == Manager!Normalized(c.path)
             q == Manager!Normalized(c.to)
  <2>1. FileIsCall(c)
    BY <1>4 DEF Manager!Serve, Pathed, FileSlotRight, Manager!NoCall
  <2>2. p \in FilePath /\ q \in FilePath
    BY <2>1, FileNormalizedPath DEF FileIsCall
  <2>3. FileDisk(server.fs) /\ FileDisk(server'.fs) /\ server.root \in FilePath
    BY DEF Pathed, FileServerRight
  <2> HIDE DEF c, p, q
  <2>4. CASE UNCHANGED server
    BY <2>4, FileServerUnchanged
  <2>5. CASE c.kind = "default"
    <3>1. CASE Manager!Possible(c, p, q) /\ server' = [server EXCEPT !.fs = Manager!After(c, p, q)]
      <4>1. Manager!After(c, p, q) = server.fs
        BY <2>5 DEF Manager!After
      <4>2. server'.fs = server.fs
        BY <3>1, <4>1 DEF Pathed, FileServerRight
      <4> QED
        BY <4>2 DEF Manager!ConfinedToRoot
    <3>2. ~ \E fs \in Manager!Halfway(c, p) : TRUE
      BY <2>5 DEF Manager!Halfway
    <3> QED
      BY <1>4, <2>4, <3>1, <3>2 DEF Manager!Serve, c, p, q
  <2>6. ASSUME Manager!Allowed(c), Manager!Possible(c, p, q), NEW fs, server' = [server EXCEPT !.fs = fs],
               fs = Manager!After(c, p, q) \/ fs \in Manager!Halfway(c, p)
        PROVE  Manager!ConfinedToRoot
    <3>1. Manager!IsPrefix(server.root, p)
            /\ (c.kind \in {"rename", "move"} => Manager!IsPrefix(server.root, q))
      BY <2>6 DEF Manager!Allowed, Manager!Within, p, q
    <3>2. ASSUME NEW x \in FilePath, ~Manager!Within(x)
          PROVE  FileSame(server.fs, fs, x)
      <4>1. ~Manager!IsPrefix(p, x) /\ (c.kind \in {"rename", "move"} => ~Manager!IsPrefix(q, x))
        BY <2>2, <2>3, <3>1, <3>2, FilePrefixTransitive DEF Manager!Within
      <4> QED
        BY <2>1, <2>2, <2>3, <2>6, <3>2, <4>1, FileAfterSame, FileHalfwaySame
    <3>3. server'.fs = fs
      BY <2>6 DEF Pathed, FileServerRight
    <3>4. \A x \in DOMAIN server.fs \union DOMAIN server'.fs : x \in FilePath
      BY <2>3 DEF FileDisk
    <3> QED
      BY <3>2, <3>3, <3>4 DEF Manager!ConfinedToRoot, FileSame
  <2> QED
    BY <1>4, <2>4, <2>5, <2>6 DEF Manager!Serve, c, p, q
<1>5. ASSUME NEW s \in Slots, Manager!Uploads(s)
      PROVE  Manager!ConfinedToRoot
  <2> DEFINE c == calls[s]
             p == Manager!Normalized(c.path)
  <2>1. FileIsCall(c) /\ c.kind = "upload" /\ p \in FilePath /\ Manager!Allowed(c) /\ Manager!Possible(c, p, p)
          /\ server'.fs = Manager!After(c, p, p)
    BY <1>5, FileUploadsIs, Zenon
  <2>2. Manager!IsPrefix(server.root, p)
    BY <2>1 DEF Manager!Allowed, Manager!Within
  <2>3. FileDisk(server.fs) /\ FileDisk(server'.fs) /\ server.root \in FilePath
    BY DEF Pathed, FileServerRight
  <2> HIDE DEF c, p
  <2>4. ASSUME NEW x \in FilePath, ~Manager!Within(x)
        PROVE  FileSame(server.fs, server'.fs, x)
    <3>1. ~Manager!IsPrefix(p, x)
      BY <2>1, <2>2, <2>3, <2>4, FilePrefixTransitive DEF Manager!Within
    <3> QED
      BY <2>1, <2>3, <3>1, FileAfterSame
  <2>5. \A x \in DOMAIN server.fs \union DOMAIN server'.fs : x \in FilePath
    BY <2>3 DEF FileDisk
  <2> QED
    BY <2>4, <2>5 DEF Manager!ConfinedToRoot, FileSame
<1> QED
  BY <1>1, <1>2, <1>3, <1>4, <1>5 DEF Manager!Next, ManagerStep

-----------------------------------------------------------------------------
(***************************************************************************)
(* When calm a file is opened while nothing is under way, so that its text *)
(* finds no editor, and none but its own.                                  *)
(***************************************************************************)
FileReading(s) == calls[s] # Manager!NoCall /\ calls[s].kind = "read"

Edited ==
    calm =>
        /\ view.editor # Manager!NoEditor => view.editor.path = view.editor.of
        /\ \A s \in Slots : calls[s] # Manager!NoCall /\ calls[s].kind = "write" => calls[s].path = calls[s].of
        /\ \A s \in Slots : FileReading(s) => view.editor = Manager!NoEditor
        /\ \A s, t \in Slots : FileReading(s) /\ FileReading(t) => s = t

\* A step that opens no file, and may free a slot.
LEMMA FileSlotEdited ==
    ASSUME Pathed, Edited, calm' = calm, NEW s \in Slots, NEW next,
           calls' = [calls EXCEPT ![s] = next],
           next = Manager!NoCall \/ /\ next.kind = "read" => FileReading(s)
                                    /\ next.kind = "write" => next.path = next.of,
           view'.editor # Manager!NoEditor => /\ view.editor # Manager!NoEditor
                                              /\ view'.editor.path = view.editor.path
                                              /\ view'.editor.of = view.editor.of
    PROVE  Edited'
<1>1. calls'[s] = next /\ \A t \in Slots : t # s => calls'[t] = calls[t]
  BY DEF Pathed
<1>2. \A t \in Slots : FileReading(t)' => FileReading(t)
  BY <1>1 DEF FileReading
<1>3. \A t \in Slots : calls'[t] # Manager!NoCall /\ calls'[t].kind = "write" =>
        calls'[t] = next \/ (calls[t] # Manager!NoCall /\ calls[t].kind = "write" /\ calls'[t] = calls[t])
  BY <1>1
<1> QED
  BY <1>1, <1>2, <1>3 DEF Edited

LEMMA FileShowsEdited ==
    ASSUME Edited, calm' = calm, calls' = calls,
           view'.editor # Manager!NoEditor => /\ view.editor # Manager!NoEditor
                                              /\ view'.editor.path = view.editor.path
                                              /\ view'.editor.of = view.editor.of
    PROVE  Edited'
  BY DEF Edited, FileReading

LEMMA FileNextEdited ==
    ASSUME Pathed, Edited, ManagerStep
    PROVE  Edited'
<1>1. calm' = calm
  <2>1. CASE UNCHANGED vars
    BY <2>1 DEF vars
  <2> QED
    BY <2>1, ManagerFixed DEF ManagerStep, FileFixed
<1>2. view \in [path : FilePath, entries : {view.entries}, loading : BOOLEAN, failed : BOOLEAN,
                busy : {view.busy}, selected : {view.selected}, dialog : {view.dialog},
                editor : {view.editor}, half : BOOLEAN]
  BY DEF Pathed, FileViewRight
<1>3. ASSUME NEW call, Manager!Send(call), call.kind = "read" => FALSE,
             call.kind = "write" => call.path = call.of,
             view'.editor # Manager!NoEditor => /\ view.editor # Manager!NoEditor
                                                /\ view'.editor.path = view.editor.path
                                                /\ view'.editor.of = view.editor.of
      PROVE  Edited'
  BY <1>1, <1>3, FileFree, FileSlotEdited
<1>4. CASE Manager!Navigate
  <2>1. view'.editor = view.editor
    BY <1>2, <1>4 DEF Manager!Navigate, Manager!Leaves
  <2>2. \A path : Manager!List(path, Manager!NoKey).kind = "list"
    BY DEF Manager!List, Manager!Call
  <2> QED
    BY <1>3, <1>4, <2>1, <2>2 DEF Manager!Navigate
<1>5. CASE Manager!OpenFile
  <2>1. PICK e \in view.entries :
          /\ Manager!Shown(e) /\ (calm => Manager!Quiet)
          /\ Manager!Send(Manager!Call("read", e.path, <<>>, view.path, e.path)) /\ view' = Manager!Opening(e)
    BY <1>5 DEF Manager!OpenFile
  <2> SUFFICES ASSUME calm' PROVE Edited'
    BY DEF Edited
  <2>2. \A s \in Slots : calls[s] = Manager!NoCall
    BY <1>1, <2>1 DEF Manager!Quiet
  <2>3. view'.editor = Manager!NoEditor
    BY <1>2, <2>1 DEF Manager!Shown, Manager!Clear, Manager!Opening
  <2>4. \A s \in Slots : calls'[s] # Manager!NoCall => s = Manager!FreeSlot /\ calls'[s].kind = "read"
    BY <2>1, <2>2, FileFree DEF Pathed, Manager!Call
  <2> QED
    BY <2>3, <2>4 DEF Edited, FileReading
<1>6. CASE Manager!AskMkdir \/ Manager!AskRename \/ Manager!AskDelete \/ Manager!Drag
  <2>1. calls' = calls /\ view'.editor = view.editor
    BY <1>2, <1>6 DEF Manager!AskMkdir, Manager!AskRename, Manager!AskDelete, Manager!AskAbout,
       Manager!Drag, Manager!Shows
  <2> QED
    BY <1>1, <2>1, FileShowsEdited
<1>7. CASE Manager!Answered
  <2>1. view'.editor = view.editor
    BY <1>2, <1>7 DEF Manager!Answered, Manager!Shows
  <2> DEFINE c == view.dialog
  <2>2. c \in [at : {c.at}, kind : {"mkdir", "rename", "delete"}, path : {c.path}, to : {c.to}, dir : {c.dir},
               key : {c.key}, text : {c.text}, of : {c.of}, ok : {c.ok}, doc : {c.doc}]
    BY <1>7 DEF Manager!Answered, Pathed, FileViewRight, FileDialogRight, FileIsCall
  <2> HIDE DEF c
  <2>3. CASE Manager!Shows([view EXCEPT !.dialog = Manager!NoDialog])
    BY <1>1, <2>1, <2>3, FileShowsEdited DEF Manager!Shows
  <2>4. ASSUME NEW call, Manager!Send(call), call.kind = c.kind
        PROVE  Edited'
    BY <1>3, <2>1, <2>2, <2>4
  <2>5. \A path : [c EXCEPT !.path = path].kind = c.kind /\ [c EXCEPT !.to = path].kind = c.kind
    BY <2>2
  <2> QED
    BY <1>7, <2>3, <2>4, <2>5 DEF Manager!Answered, c
<1>8. CASE Manager!MoveTo \/ Manager!Upload
  <2>1. view'.editor = view.editor
    BY <1>2, <1>8 DEF Manager!MoveTo, Manager!Upload, Manager!Begins
  <2>2. \A p, q, d, k, text : /\ Manager!Call("move", p, q, d, k).kind = "move"
                              /\ [Manager!Call("upload", p, q, d, k) EXCEPT !.text = text].kind = "upload"
    BY DEF Manager!Call
  <2> QED
    BY <1>3, <1>8, <2>1, <2>2 DEF Manager!MoveTo, Manager!Upload, Manager!Begins
<1>9. CASE Manager!Type \/ Manager!Save \/ Manager!Close
  <2> DEFINE e == view.editor
  <2>1. e # Manager!NoEditor /\ e \in [path : FilePath, of : {e.of}, text : FileText, dirty : BOOLEAN, saving : BOOLEAN]
    BY <1>9 DEF Pathed, FileViewRight, FileEditorRight, Manager!Type, Manager!Save, Manager!Close
  <2> HIDE DEF e
  <2>2. CASE Manager!Type
    <3>1. calls' = calls /\ \E text \in Texts : view'.editor = [e EXCEPT !.text = text, !.dirty = TRUE]
      BY <1>2, <2>1, <2>2 DEF Manager!Type, Manager!Shows, e
    <3>2. view'.editor.path = e.path /\ view'.editor.of = e.of
      BY <2>1, <3>1
    <3> QED
      BY <1>1, <2>1, <3>1, <3>2, FileShowsEdited DEF e
  <2>3. CASE Manager!Save
    <3> DEFINE call == [Manager!Call("write", e.path, <<>>, view.path, Manager!EditorKey) EXCEPT !.text = e.text, !.of = e.of]
    <3>1. Manager!Send(call) /\ view'.editor = [e EXCEPT !.saving = TRUE]
      BY <1>2, <2>1, <2>3 DEF Manager!Save, e
    <3>2. call.kind = "write" /\ call.path = e.path /\ call.of = e.of
      BY DEF Manager!Call
    <3>3. view'.editor.path = e.path /\ view'.editor.of = e.of
      BY <2>1, <3>1
    <3> HIDE DEF call
    <3>4. calls' = [calls EXCEPT ![Manager!FreeSlot] = call] /\ Manager!FreeSlot \in Slots
      BY <3>1, FileFree
    <3>5. calm => call.path = call.of
      BY <2>1, <3>2 DEF Edited, e
    <3>6. CASE calm
      BY <1>3, <2>1, <3>1, <3>2, <3>3, <3>5, <3>6 DEF e
    <3>7. CASE ~calm
      BY <1>1, <3>7 DEF Edited
    <3> QED
      BY <3>6, <3>7
  <2>4. CASE Manager!Close
    <3>1. view'.editor = Manager!NoEditor
      BY <1>2, <2>4 DEF Manager!Close
    <3>2. \A s \in Slots : calls'[s] = calls[s]
            \/ (calls[s] # Manager!NoCall /\ calls'[s] = [calls[s] EXCEPT !.key = Manager!NoKey])
      BY <2>4 DEF Manager!Close
    <3>3. \A s \in Slots : calls[s] # Manager!NoCall => /\ calls'[s].kind = calls[s].kind
                                                        /\ calls'[s].path = calls[s].path
                                                        /\ calls'[s].of = calls[s].of
      BY <3>2 DEF Pathed, FileSlotRight, FileIsCall
    <3>4. \A s \in Slots : calls'[s] # Manager!NoCall => calls[s] # Manager!NoCall
      BY <3>2
    <3> QED
      BY <1>1, <3>1, <3>3, <3>4 DEF Edited, FileReading
  <2> QED
    BY <1>9, <2>2, <2>3, <2>4
<1>10. CASE Manager!Elsewhere \/ UNCHANGED vars
  BY <1>1, <1>10, FileShowsEdited DEF Manager!Elsewhere, vars
<1>11. ASSUME NEW s \in Slots, Manager!Serve(s)
       PROVE  Edited'
  <2>1. /\ view' = view /\ calls[s] # Manager!NoCall
        /\ \E ok, doc : calls' = [calls EXCEPT ![s] = [@ EXCEPT !.at = "answered", !.ok = ok, !.doc = doc]]
    <3>1. \A ok, doc : Manager!Answer(s, ok, doc) =>
            /\ view' = view
            /\ calls' = [calls EXCEPT ![s] = [@ EXCEPT !.at = "answered", !.ok = ok, !.doc = doc]]
      BY DEF Manager!Answer
    <3>2. \E ok, doc : Manager!Answer(s, ok, doc)
      BY <1>11 DEF Manager!Serve
    <3>3. calls[s] # Manager!NoCall
      BY <1>11 DEF Manager!Serve, Manager!NoCall
    <3> QED
      BY <3>1, <3>2, <3>3
  <2>2. PICK ok, doc : calls' = [calls EXCEPT ![s] = [calls[s] EXCEPT !.at = "answered", !.ok = ok, !.doc = doc]]
    BY <2>1
  <2> DEFINE next == [calls[s] EXCEPT !.at = "answered", !.ok = ok, !.doc = doc]
  <2>3. next.kind = calls[s].kind /\ next.path = calls[s].path /\ next.of = calls[s].of
    BY <2>1 DEF Pathed, FileSlotRight, FileIsCall
  <2> HIDE DEF next
  <2>4. CASE calm
    <3>1. next.kind = "write" => next.path = next.of
      BY <2>1, <2>3, <2>4 DEF Edited
    <3>2. next.kind = "read" => FileReading(s)
      BY <2>1, <2>3 DEF FileReading
    <3>3. calls' = [calls EXCEPT ![s] = next]
      BY <2>2 DEF next
    <3> QED
      BY <1>1, <2>1, <3>1, <3>2, <3>3, FileSlotEdited
  <2>5. CASE ~calm
    BY <1>1, <2>5 DEF Edited
  <2> QED
    BY <2>4, <2>5
<1>12. ASSUME NEW s \in Slots, Manager!Deliver(s)
       PROVE  Edited'
  <2> DEFINE c == calls[s]
  <2>1. FileIsCall(c) /\ c # Manager!NoCall
    BY <1>12 DEF Manager!Deliver, Manager!Arrives, Pathed, FileSlotRight, Manager!NoCall
  <2>2. Manager!Released(c).editor = view.editor /\ Manager!Leaves.editor = view.editor
    BY <1>2 DEF Manager!Released, Manager!Leaves
  <2>3. ASSUME NEW next, Manager!Continues(s, next) \/ (Manager!Ends(s) /\ next = Manager!NoCall),
               next = Manager!NoCall \/ next.kind = "list",
               view'.editor # Manager!NoEditor => /\ view.editor # Manager!NoEditor
                                                  /\ view'.editor.path = view.editor.path
                                                  /\ view'.editor.of = view.editor.of
        PROVE  Edited'
    BY <1>1, <2>3, FileSlotEdited DEF Manager!Continues, Manager!Ends
  <2>4. \A path, key, text : Manager!List(path, key).kind = "list"
          /\ [Manager!List(path, key) EXCEPT !.text = text].kind = "list"
    BY DEF Manager!List, Manager!Call
  <2>5. Manager!Released(c) \in [path : FilePath, entries : {Manager!Released(c).entries}, loading : BOOLEAN, failed : BOOLEAN,
                         busy : {Manager!Released(c).busy}, selected : {Manager!Released(c).selected},
                         dialog : {Manager!Released(c).dialog}, editor : {Manager!Released(c).editor}, half : BOOLEAN]
    BY <1>2 DEF Manager!Released
  <2> HIDE DEF c
  <2>6. CASE Manager!ListArrives(s)
    <3>1. view'.editor = view.editor
      BY <2>2, <2>5, <2>6 DEF Manager!ListArrives, c
    <3> QED
      BY <2>3, <2>6, <3>1 DEF Manager!ListArrives
  <2>7. CASE Manager!DefaultArrives(s)
    BY <2>2, <2>3, <2>4, <2>7 DEF Manager!DefaultArrives
  <2>8. CASE Manager!ReadArrives(s)
    <3>1. c.kind = "read" /\ Manager!Ends(s)
      BY <2>8 DEF Manager!ReadArrives, c
    <3>2. CASE ~c.ok
      BY <2>2, <2>3, <2>8, <3>1, <3>2 DEF Manager!ReadArrives, c
    <3>3. CASE ~calm
      BY <1>1, <3>3 DEF Edited
    <3>4. CASE c.ok /\ calm
      <4>1. FileReading(s) /\ view.editor = Manager!NoEditor /\ \A t \in Slots : FileReading(t) => t = s
        BY <2>1, <3>1, <3>4 DEF Edited, FileReading, c
      <4>2. view'.editor = [path |-> c.path, of |-> c.path, text |-> c.doc, dirty |-> FALSE, saving |-> FALSE]
        BY <2>5, <2>8, <3>4, <4>1 DEF Manager!ReadArrives, Manager!Opened, c
      <4>3. calls'[s] = Manager!NoCall /\ \A t \in Slots : t # s => calls'[t] = calls[t]
        BY <3>1 DEF Manager!Ends, Pathed
      <4>4. \A t \in Slots : ~FileReading(t)'
        BY <4>1, <4>3 DEF FileReading
      <4>5. view'.editor.path = view'.editor.of
        BY <4>2
      <4>6. \A t \in Slots : calls'[t] # Manager!NoCall => calls'[t] = calls[t]
        BY <4>3
      <4> QED
        BY <3>4, <4>4, <4>5, <4>6 DEF Edited
    <3> QED
      BY <3>2, <3>3, <3>4
  <2>9. CASE Manager!WriteArrives(s)
    <3>1. Manager!Ends(s) /\ (\/ view' = view
                              \/ view' = [view EXCEPT !.editor.saving = FALSE, !.editor.dirty = @ /\ ~c.ok,
                                                      !.half = @ \/ Manager!Unlisted(c.path)])
      BY <2>9 DEF Manager!WriteArrives, c
    <3> DEFINE e == view.editor
    <3>2. FileEditorRight(e)
      BY DEF Pathed, FileViewRight
    <3>3. view'.editor = e \/ view'.editor = [e EXCEPT !.saving = FALSE, !.dirty = @ /\ ~c.ok]
      BY <1>2, <3>1
    <3> HIDE DEF e
    <3>4. CASE e = Manager!NoEditor
      <4>1. [e EXCEPT !.saving = FALSE, !.dirty = @ /\ ~c.ok] = Manager!NoEditor
        BY <3>4 DEF Manager!NoEditor
      <4> QED
        BY <2>3, <3>1, <3>3, <3>4, <4>1 DEF e
    <3>5. CASE e # Manager!NoEditor
      <4>1. [e EXCEPT !.saving = FALSE, !.dirty = @ /\ ~c.ok].path = e.path
            /\ [e EXCEPT !.saving = FALSE, !.dirty = @ /\ ~c.ok].of = e.of
        BY <3>2, <3>5 DEF FileEditorRight
      <4> QED
        BY <2>3, <3>1, <3>3, <3>5, <4>1 DEF e
    <3> QED
      BY <3>4, <3>5
  <2>10. CASE Manager!EffectArrives(s)
    <3>1. view'.editor = view.editor
      <4>1. CASE c.ok
        BY <2>2, <2>10, <4>1 DEF Manager!EffectArrives, c
      <4>2. CASE ~c.ok
        <5>1. view' = [Manager!Released(c) EXCEPT !.selected = IF c.kind = "move" THEN {} ELSE @, !.half = TRUE]
          BY <2>10, <4>2 DEF Manager!EffectArrives, c
        <5> QED
          BY <2>2, <2>5, <5>1
      <4> QED
        BY <4>1, <4>2
    <3> QED
      <4>1. CASE c.ok
        <5>1. Manager!Continues(s, [Manager!List(c.dir, c.key) EXCEPT !.text = c.kind])
          BY <2>10, <4>1 DEF Manager!EffectArrives, c
        <5> DEFINE next == [Manager!List(c.dir, c.key) EXCEPT !.text = c.kind]
        <5>2. next.kind = "list" /\ Manager!Continues(s, next)
          BY <2>4, <5>1
        <5> HIDE DEF next
        <5> QED
          BY <2>3, <3>1, <5>2
      <4>2. CASE ~c.ok
        BY <2>3, <2>10, <3>1, <4>2 DEF Manager!EffectArrives, c
      <4> QED
        BY <4>1, <4>2
  <2> QED
    BY <1>12, <2>6, <2>7, <2>8, <2>9, <2>10 DEF Manager!Deliver
<1>13. ASSUME NEW s \in Slots, Manager!Uploads(s)
       PROVE  Edited'
  <2>1. calls'[s].kind = "upload" /\ calls' = [calls EXCEPT ![s] = calls'[s]] /\ view' = view
    BY <1>13, FileUploadsIs, Zenon
  <2> QED
    BY <1>1, <2>1, FileSlotEdited
<1> QED
  BY <1>4, <1>5, <1>6, <1>7, <1>8, <1>9, <1>10, <1>11, <1>12, <1>13 DEF Manager!Next, ManagerStep

LEMMA FileInitEdited == Manager!Init => Edited
<1> SUFFICES ASSUME Manager!Init PROVE Edited
  OBVIOUS
<1>1. PICK s : calls = [t \in Slots |-> IF t = s THEN Manager!Call("default", <<>>, <<>>, <<>>, Manager!NoKey) ELSE Manager!NoCall]
  BY DEF Manager!Init
<1>2. Manager!Call("default", <<>>, <<>>, <<>>, Manager!NoKey).kind = "default"
  BY DEF Manager!Call
<1>3. \A t \in Slots : calls[t] # Manager!NoCall => calls[t].kind = "default"
  BY <1>1, <1>2
<1>4. view.editor = Manager!NoEditor
  BY DEF Manager!Init
<1> QED
  BY <1>3, <1>4 DEF Edited, FileReading

(***************************************************************************)
(* What the steps of a calm file manager do to what is shown, to the       *)
(* editor and to the requests.                                             *)
(***************************************************************************)
\* What has the list loaded again once it is answered.
FileLists(c) == c # Manager!NoCall /\ c.kind \in {"list", "default", "upload"}
FileWrites(c) == c # Manager!NoCall /\ c.kind = "write"
FileEffects == {"mkdir", "rename", "move", "delete", "upload"}

\* What stays of a request: an editor that is closed only takes its key.
FileAlike(c, d) ==
    /\ c = Manager!NoCall <=> d = Manager!NoCall
    /\ d.at = c.at
    /\ c # Manager!NoCall => /\ d.kind = c.kind /\ d.path = c.path /\ d.ok = c.ok /\ d.doc = c.doc
                             /\ c.kind = "write" => d.key = c.key

FileLooks == view'.path = view.path /\ view'.entries = view.entries

FileIdle ==
    /\ \A t \in Slots : FileAlike(calls[t], calls'[t])
    /\ order' = order /\ server' = server
    /\ FileLooks /\ view'.failed = view.failed /\ view'.half = view.half
    /\ \/ view.editor # Manager!NoEditor /\ view'.editor # Manager!NoEditor
          /\ view'.editor.path = view.editor.path /\ view'.editor.saving = view.editor.saving
       \/ view'.editor = Manager!NoEditor /\ (view.editor = Manager!NoEditor \/ ~view.editor.saving)

FileAsks(s, new) ==
    /\ calls[s] = Manager!NoCall /\ calls' = [calls EXCEPT ![s] = new] /\ order' = order /\ server' = server
    /\ new # Manager!NoCall /\ new.at = "sent"
    /\ FileLooks /\ view'.half = view.half /\ (view'.failed = view.failed \/ new.kind = "list")
    /\ new.kind = "read" => \E e \in view.entries : new.path = e.path
    /\ IF new.kind = "write"
       THEN /\ view.editor # Manager!NoEditor /\ ~view.editor.saving /\ new.path = view.editor.path /\ new.key = Manager!EditorKey
            /\ view'.editor # Manager!NoEditor /\ view'.editor.path = view.editor.path /\ view'.editor.saving
       ELSE view'.editor = view.editor

\* What an answer brings makes the list wrong that is shown, or has it listed again.
FileRedoes(c, entries) ==
    \/ c.kind \in {"default", "list"} \union FileEffects
    \/ c.kind = "write" /\ \A e \in entries : e.path # c.path

FileRelists(c) == c.at = "answered" /\ c.kind = "list" /\ c.ok = TRUE

FileFollows(s, next) ==
    /\ calls[s] # Manager!NoCall /\ calls[s].at = "answered" /\ calls' = [calls EXCEPT ![s] = next]
    /\ server' = server
    /\ next # Manager!NoCall => next.at = "sent" /\ next.kind = "list"
    /\ IF FileRelists(calls[s]) THEN view'.path = Manager!Normalized(calls[s].path) /\ view'.entries = calls[s].doc
       ELSE FileLooks
    /\ ~view'.failed /\ ~view'.half =>
         \/ next # Manager!NoCall \/ FileRelists(calls[s])
         \/ ~view.failed /\ ~view.half /\ ~FileRedoes(calls[s], view.entries)
    /\ CASE calls[s].kind = "read" ->
              \/ view'.editor = view.editor
              \/ /\ view'.editor # Manager!NoEditor /\ view'.editor.path = calls[s].path
                 /\ view.editor # Manager!NoEditor => view'.editor.saving = view.editor.saving
         [] calls[s].kind = "write" ->
              \/ view'.editor = view.editor /\ calls[s].key # Manager!EditorKey
              \/ view'.editor = Manager!NoEditor /\ view.editor = Manager!NoEditor
              \/ view.editor # Manager!NoEditor /\ view'.editor # Manager!NoEditor
                   /\ view'.editor.path = view.editor.path
         [] OTHER -> view'.editor = view.editor

LEMMA FileViewIs ==
    ASSUME Pathed
    PROVE  view \in [path : FilePath, entries : {view.entries}, loading : BOOLEAN, failed : BOOLEAN,
                     busy : {view.busy}, selected : {view.selected}, dialog : {view.dialog},
                     editor : {view.editor}, half : BOOLEAN]
  BY DEF Pathed, FileViewRight

LEMMA FileAlikeIs == \A c : FileAlike(c, c)
  BY DEF FileAlike

\* A request of a button, which leaves what is shown alone.
FilePlainly(new) ==
    /\ new # Manager!NoCall /\ new.at = "sent" /\ new.kind \notin {"list", "write"}
    /\ new.kind = "read" => \E e \in view.entries : new.path = e.path

LEMMA FilePlainlyAsks ==
    ASSUME Pathed, NEW new, Manager!Send(new), FilePlainly(new),
           view'.editor = view.editor, FileLooks, view'.half = view.half, view'.failed = view.failed
    PROVE  \E s \in Slots : FileAsks(s, new)
<1>1. Manager!FreeSlot \in Slots /\ calls[Manager!FreeSlot] = Manager!NoCall
        /\ calls' = [calls EXCEPT ![Manager!FreeSlot] = new] /\ server' = server
  BY FileFree
<1>2. order' = order
  BY DEF Manager!Send
<1>3. FileAsks(Manager!FreeSlot, new)
  BY <1>1, <1>2 DEF FileAsks, FilePlainly
<1> QED
  BY <1>1, <1>3

LEMMA FileCallIs ==
    ASSUME NEW kind, NEW path, NEW to, NEW dir, NEW key
    PROVE  LET c == Manager!Call(kind, path, to, dir, key)
           IN  c # Manager!NoCall /\ c.at = "sent" /\ c.kind = kind /\ c.path = path /\ c.key = key
  BY DEF Manager!Call, Manager!NoCall

(***************************************************************************)
(* What the user does.                                                     *)
(***************************************************************************)
LEMMA FileButtonAsks ==
    ASSUME Pathed, calm, Manager!Navigate \/ Manager!OpenFile \/ Manager!Answered \/ Manager!MoveTo \/ Manager!Upload
    PROVE  FileIdle \/ \E s \in Slots : \E new : FileAsks(s, new)
<1>1. CASE Manager!Navigate
  <2>1. PICK path : Manager!Send(Manager!List(path, Manager!NoKey))
    BY <1>1 DEF Manager!Navigate
  <2> DEFINE new == Manager!List(path, Manager!NoKey)
  <2>2. new # Manager!NoCall /\ new.at = "sent" /\ new.kind = "list"
    BY FileCallIs DEF Manager!List
  <2> HIDE DEF new
  <2>3. Manager!FreeSlot \in Slots /\ calls[Manager!FreeSlot] = Manager!NoCall
          /\ calls' = [calls EXCEPT ![Manager!FreeSlot] = new] /\ server' = server
    BY <2>1, FileFree DEF new
  <2>4. order' = order
    BY <2>1 DEF Manager!Send
  <2>5. FileLooks /\ view'.half = view.half /\ view'.editor = view.editor
    BY <1>1, FileViewIs DEF Manager!Navigate, Manager!Leaves, FileLooks
  <2>6. FileAsks(Manager!FreeSlot, new)
    BY <2>2, <2>3, <2>4, <2>5 DEF FileAsks
  <2> QED
    BY <2>3, <2>6
<1>2. CASE Manager!OpenFile
  <2>1. PICK e \in view.entries :
          Manager!Send(Manager!Call("read", e.path, <<>>, view.path, e.path)) /\ view' = Manager!Opening(e)
    BY <1>2 DEF Manager!OpenFile
  <2> DEFINE new == Manager!Call("read", e.path, <<>>, view.path, e.path)
  <2>2. new # Manager!NoCall /\ new.at = "sent" /\ new.kind = "read" /\ new.path = e.path
    BY FileCallIs
  <2>3. Manager!Send(new)
    BY <2>1
  <2> HIDE DEF new
  <2>4. FilePlainly(new)
    BY <2>1, <2>2 DEF FilePlainly
  <2>5. view'.editor = view.editor /\ FileLooks /\ view'.half = view.half /\ view'.failed = view.failed
    BY <2>1, FileViewIs DEF Manager!Opening, FileLooks
  <2> QED
    BY <2>3, <2>4, <2>5, FilePlainlyAsks
<1>3. CASE Manager!Answered
  <2>1. view'.editor = view.editor /\ FileLooks /\ view'.half = view.half /\ view'.failed = view.failed
    BY <1>3, FileViewIs DEF Manager!Answered, Manager!Shows, FileLooks
  <2> DEFINE c == view.dialog
  <2>2. c \in [at : {"sent"}, kind : {"mkdir", "rename", "delete"}, path : {c.path}, to : {c.to}, dir : {c.dir},
               key : {c.key}, text : {c.text}, of : {c.of}, ok : {c.ok}, doc : {c.doc}]
    BY <1>3 DEF Manager!Answered, Pathed, FileViewRight, FileDialogRight, FileIsCall
  <2>3. CASE Manager!Shows([view EXCEPT !.dialog = Manager!NoDialog])
    <3>1. calls' = calls /\ order' = order /\ server' = server
      BY <2>3 DEF Manager!Shows
    <3>2. view.editor = Manager!NoEditor \/ view.editor # Manager!NoEditor
      OBVIOUS
    <3> QED
      BY <2>1, <3>1, <3>2, FileAlikeIs DEF FileIdle
  <2> HIDE DEF c
  <2>4. ASSUME NEW new, Manager!Send(new),
               new = c \/ (\E p : new = [c EXCEPT !.path = p] \/ new = [c EXCEPT !.to = p])
        PROVE  \E s \in Slots : FileAsks(s, new)
    <3>1. new.kind = c.kind /\ new.at = c.at /\ c.kind \in {"mkdir", "rename", "delete"}
      BY <2>2, <2>4
    <3>2. new # Manager!NoCall
      BY <2>2, <2>4 DEF Manager!NoCall
    <3>3. FilePlainly(new)
      BY <2>2, <3>1, <3>2 DEF FilePlainly
    <3> QED
      BY <2>1, <2>4, <3>3, FilePlainlyAsks
  <2> QED
    BY <1>3, <2>3, <2>4 DEF Manager!Answered, c
<1>4. CASE Manager!MoveTo \/ Manager!Upload
  <2>1. view'.editor = view.editor /\ FileLooks /\ view'.half = view.half /\ view'.failed = view.failed
    BY <1>4, FileViewIs DEF Manager!MoveTo, Manager!Upload, Manager!Begins, FileLooks
  <2>2. \A p, q, d, k : FilePlainly(Manager!Call("move", p, q, d, k))
    BY FileCallIs DEF FilePlainly
  <2>3. \A p, q, d, k, text : FilePlainly([Manager!Call("upload", p, q, d, k) EXCEPT !.text = text])
    BY DEF FilePlainly, Manager!Call, Manager!NoCall
  <2> QED
    BY <1>4, <2>1, <2>2, <2>3, FilePlainlyAsks DEF Manager!MoveTo, Manager!Upload, Manager!Begins
<1> QED
  BY <1>1, <1>2, <1>3, <1>4

\* When calm, who saves waits in the editor.
FileWriting(s) == calls[s] # Manager!NoCall /\ calls[s].kind = "write"
FileSaving ==
    /\ \A s \in Slots : FileWriting(s) =>
         calls[s].key = Manager!EditorKey /\ view.editor # Manager!NoEditor /\ view.editor.saving
    /\ \A s, t \in Slots : FileWriting(s) /\ FileWriting(t) => s = t

LEMMA FileEditorAsks ==
    ASSUME Pathed, FileSaving, calm, Manager!Type \/ Manager!Save \/ Manager!Close
    PROVE  FileIdle \/ \E s \in Slots : \E new : FileAsks(s, new)
<1> DEFINE e == view.editor
<1>1. e # Manager!NoEditor /\ e \in [path : FilePath, of : {e.of}, text : FileText, dirty : BOOLEAN, saving : BOOLEAN]
  BY DEF Pathed, FileViewRight, FileEditorRight, Manager!Type, Manager!Save, Manager!Close
<1> HIDE DEF e
<1>2. CASE Manager!Type
  <2>1. PICK text \in Texts : view' = [view EXCEPT !.editor.text = text, !.editor.dirty = TRUE]
    BY <1>2 DEF Manager!Type, Manager!Shows
  <2>2. calls' = calls /\ order' = order /\ server' = server
    BY <1>2 DEF Manager!Type, Manager!Shows
  <2>3. /\ FileLooks /\ view'.failed = view.failed /\ view'.half = view.half
        /\ view'.editor = [e EXCEPT !.text = text, !.dirty = TRUE]
    BY <1>1, <2>1, FileViewIs DEF FileLooks, e
  <2>4. view'.editor.path = e.path /\ view'.editor.saving = e.saving /\ view'.editor # Manager!NoEditor
    <3>1. view'.editor.path = e.path /\ view'.editor.saving = e.saving
          /\ view'.editor \in [path : FilePath, of : {e.of}, text : {text}, dirty : BOOLEAN, saving : BOOLEAN]
      BY <1>1, <2>3
    <3> QED
      BY <3>1 DEF Manager!NoEditor
  <2> QED
    BY <1>1, <2>2, <2>3, <2>4, FileAlikeIs DEF FileIdle, e
<1>3. CASE Manager!Save
  <2> DEFINE new == [Manager!Call("write", e.path, <<>>, view.path, Manager!EditorKey) EXCEPT !.text = e.text, !.of = e.of]
  <2>1. Manager!Send(new) /\ ~e.saving /\ view' = [view EXCEPT !.editor.saving = TRUE]
    BY <1>3 DEF Manager!Save, e
  <2>2. new # Manager!NoCall /\ new.at = "sent" /\ new.kind = "write" /\ new.path = e.path
          /\ new.key = Manager!EditorKey
    BY DEF Manager!Call, Manager!NoCall
  <2> HIDE DEF new
  <2>3. FileLooks /\ view'.failed = view.failed /\ view'.half = view.half
          /\ view'.editor = [e EXCEPT !.saving = TRUE]
    BY <1>1, <2>1, FileViewIs DEF FileLooks, e
  <2>4. view'.editor.path = e.path /\ view'.editor.saving /\ view'.editor # Manager!NoEditor
    <3>1. view'.editor.path = e.path /\ view'.editor.saving
          /\ view'.editor \in [path : FilePath, of : {e.of}, text : FileText, dirty : BOOLEAN, saving : BOOLEAN]
      BY <1>1, <2>3
    <3> QED
      BY <3>1 DEF Manager!NoEditor
  <2>5. Manager!FreeSlot \in Slots /\ calls[Manager!FreeSlot] = Manager!NoCall
          /\ calls' = [calls EXCEPT ![Manager!FreeSlot] = new]
        /\ server' = server /\ order' = order
    BY <2>1, FileFree DEF Manager!Send
  <2>6. FileAsks(Manager!FreeSlot, new)
    BY <1>1, <2>1, <2>2, <2>3, <2>4, <2>5 DEF FileAsks, e
  <2> QED
    BY <2>5, <2>6
<1>4. CASE Manager!Close
  <2>1. ~e.saving /\ view' = [view EXCEPT !.editor = Manager!NoEditor] /\ order' = order /\ server' = server
        /\ calls' = [s \in Slots |-> IF calls[s] # Manager!NoCall /\ calls[s].key = Manager!EditorKey
                                       THEN [calls[s] EXCEPT !.key = Manager!NoKey] ELSE calls[s]]
    BY <1>4 DEF Manager!Close, e
  <2>2. \A t \in Slots : ~FileWriting(t)
    BY <2>1 DEF FileSaving, e
  <2>3. ASSUME NEW t \in Slots
        PROVE  FileAlike(calls[t], calls'[t])
    <3>1. CASE calls[t] # Manager!NoCall /\ calls[t].key = Manager!EditorKey
      <4>1. FileIsCall(calls[t]) /\ calls'[t] = [calls[t] EXCEPT !.key = Manager!NoKey]
        BY <2>1, <3>1 DEF Pathed, FileSlotRight
      <4> DEFINE c == calls[t]
      <4>2. c \in [at : {c.at}, kind : {c.kind}, path : {c.path}, to : {c.to}, dir : {c.dir},
                   key : {c.key}, text : {c.text}, of : {c.of}, ok : {c.ok}, doc : {c.doc}] /\ c.kind # "write"
        BY <2>2, <3>1, <4>1 DEF FileIsCall, FileWriting
      <4> DEFINE d == [c EXCEPT !.key = Manager!NoKey]
      <4>3. /\ d.at = c.at /\ d.kind = c.kind /\ d.path = c.path /\ d.ok = c.ok /\ d.doc = c.doc
            /\ d \in [at : {c.at}, kind : {c.kind}, path : {c.path}, to : {c.to}, dir : {c.dir},
                      key : {Manager!NoKey}, text : {c.text}, of : {c.of}, ok : {c.ok}, doc : {c.doc}]
        BY <4>2
      <4>4. d # Manager!NoCall
        BY <4>3 DEF Manager!NoCall
      <4> HIDE DEF d
      <4>5. FileAlike(c, d)
        BY <3>1, <4>2, <4>3, <4>4 DEF FileAlike
      <4> QED
        BY <4>1, <4>5 DEF d
    <3>2. CASE ~(calls[t] # Manager!NoCall /\ calls[t].key = Manager!EditorKey)
      BY <2>1, <3>2, FileAlikeIs
    <3> QED
      BY <3>1, <3>2
  <2>4. FileLooks /\ view'.failed = view.failed /\ view'.half = view.half /\ view'.editor = Manager!NoEditor
    BY <2>1, FileViewIs DEF FileLooks
  <2> QED
    BY <2>1, <2>3, <2>4 DEF FileIdle, e
<1> QED
  BY <1>2, <1>3, <1>4

LEMMA FileAskingIdles ==
    ASSUME Pathed, Manager!AskMkdir \/ Manager!AskRename \/ Manager!AskDelete \/ Manager!Drag
    PROVE  FileIdle
<1>1. /\ calls' = calls /\ order' = order /\ server' = server
      /\ FileLooks /\ view'.failed = view.failed /\ view'.half = view.half /\ view'.editor = view.editor
  BY FileViewIs DEF Manager!AskMkdir, Manager!AskRename, Manager!AskDelete, Manager!AskAbout, Manager!Drag,
     Manager!Shows, FileLooks
<1> QED
  BY <1>1, FileAlikeIs DEF FileIdle

(***************************************************************************)
(* Answers.                                                                *)
(***************************************************************************)
LEMMA FileReleasedIs ==
    ASSUME Pathed, NEW c
    PROVE  Manager!Released(c) \in [path : {view.path}, entries : {view.entries}, loading : BOOLEAN, failed : {view.failed},
                            busy : {Manager!Released(c).busy}, selected : {view.selected},
                            dialog : {view.dialog},
                            editor : {view.editor}, half : {view.half}]
  BY FileViewIs DEF Manager!Released

LEMMA FileDeliverFollows ==
    ASSUME Pathed, FileSaving, NEW s \in Slots, Manager!Deliver(s)
    PROVE  \E next : FileFollows(s, next)
<1> DEFINE c == calls[s]
<1>1. c # Manager!NoCall /\ FileIsCall(c) /\ c.at = "answered" /\ server' = server
  BY DEF Manager!Deliver, Manager!Arrives, Pathed, FileSlotRight, Manager!NoCall
<1>2. c.ok \in BOOLEAN /\ c.kind \in FileKinds
  BY <1>1 DEF FileIsCall
<1>3. view.failed \in BOOLEAN /\ view.half \in BOOLEAN
  BY FileViewIs
<1> DEFINE r == Manager!Released(c)
<1>4. r \in [path : {view.path}, entries : {view.entries}, loading : BOOLEAN, failed : {view.failed},
             busy : {r.busy}, selected : {view.selected}, dialog : {view.dialog},
             editor : {view.editor}, half : {view.half}]
  BY FileReleasedIs
<1> HIDE DEF c, r
<1>5. ASSUME NEW path, NEW key
      PROVE  /\ Manager!List(path, key) # Manager!NoCall /\ Manager!List(path, key).at = "sent" /\ Manager!List(path, key).kind = "list"
             /\ \A text : LET d == [Manager!List(path, key) EXCEPT !.text = text]
                          IN  d # Manager!NoCall /\ d.at = "sent" /\ d.kind = "list"
  BY DEF Manager!List, Manager!Call, Manager!NoCall
<1>6. view'.editor = view.editor /\ FileLooks /\ ~view'.failed /\ view'.half = view.half
      => \A next : next # Manager!NoCall /\ next.at = "sent" /\ next.kind = "list"
        /\ calls' = [calls EXCEPT ![s] = next]
                   /\ c.kind \notin {"list", "write", "read"} => FileFollows(s, next)
  BY <1>1 DEF FileFollows, FileRelists, c
<1>7. Manager!Leaves \in [path : {view.path}, entries : {view.entries}, loading : BOOLEAN, failed : {FALSE},
                  busy : {view.busy}, selected : {view.selected}, dialog : {view.dialog},
                  editor : {view.editor}, half : {view.half}]
  BY FileViewIs DEF Manager!Leaves
<1>8. CASE Manager!ListArrives(s)
  <2>1. /\ c.kind = "list" /\ calls' = [calls EXCEPT ![s] = Manager!NoCall]
        /\ view' = [r EXCEPT !.loading = FALSE, !.failed = @ \/ ~c.ok,
                              !.entries = IF c.ok THEN c.doc ELSE @,
                              !.path = IF c.ok THEN Manager!Arrived(c) ELSE @,
                              !.half = @ /\ ~c.ok,
                              !.selected = IF c.text = "move" THEN {} ELSE @]
    BY <1>8 DEF Manager!ListArrives, Manager!Ends, c, r
  <2>2. /\ view'.failed = (view.failed \/ ~c.ok) /\ view'.half = (view.half /\ ~c.ok)
        /\ view'.entries = (IF c.ok THEN c.doc ELSE view.entries)
        /\ view'.path = (IF c.ok THEN Manager!Arrived(c) ELSE view.path)
        /\ view'.editor = view.editor
    BY <1>4, <2>1, Zenon
  <2>3. FileFollows(s, Manager!NoCall)
    BY <1>1, <1>2, <2>1, <2>2, Zenon DEF FileFollows, FileRelists, FileLooks, Manager!Arrived, c
  <2> QED
    BY <2>3
<1>9. CASE Manager!DefaultArrives(s)
  <2>1. PICK path : c.kind = "default" /\ calls' = [calls EXCEPT ![s] = Manager!List(path, Manager!NoKey)]
          /\ view' = Manager!Leaves
    BY <1>9 DEF Manager!DefaultArrives, Manager!Continues, c
  <2>2. view'.editor = view.editor /\ FileLooks /\ ~view'.failed /\ view'.half = view.half
    BY <1>7, <2>1 DEF FileLooks
  <2> QED
    BY <1>5, <1>6, <2>1, <2>2
<1>10. CASE Manager!ReadArrives(s)
  <2>1. /\ c.kind = "read" /\ calls' = [calls EXCEPT ![s] = Manager!NoCall]
        /\ view' = IF c.ok THEN [r EXCEPT !.editor = Manager!Opened(c)] ELSE r
    BY <1>10 DEF Manager!ReadArrives, Manager!Ends, c, r
  <2>2. FileLooks /\ view'.failed = view.failed /\ view'.half = view.half
        /\ view'.editor = IF c.ok THEN Manager!Opened(c) ELSE view.editor
    BY <1>4, <2>1 DEF FileLooks
  <2>3. c.ok => /\ Manager!Opened(c) # Manager!NoEditor /\ Manager!Opened(c).path = c.path
                /\ view.editor # Manager!NoEditor => Manager!Opened(c).saving = view.editor.saving
    <3>1. FileEditorRight(view.editor)
      BY DEF Pathed, FileViewRight
    <3>2. CASE view.editor = Manager!NoEditor
      <4>1. Manager!Opened(c) = [path |-> c.path, of |-> c.path, text |-> c.doc, dirty |-> FALSE, saving |-> FALSE]
        BY <3>2 DEF Manager!Opened
      <4> QED
        BY <3>2, <4>1 DEF Manager!NoEditor
    <3>3. CASE view.editor # Manager!NoEditor
      <4> DEFINE e == view.editor
      <4>1. e \in [path : FilePath, of : {e.of}, text : FileText, dirty : BOOLEAN, saving : BOOLEAN]
              /\ Manager!Opened(c) = [e EXCEPT !.path = c.path]
        BY <3>1, <3>3 DEF FileEditorRight, Manager!Opened
      <4> HIDE DEF e
      <4>2. Manager!Opened(c).path = c.path /\ Manager!Opened(c).saving = e.saving
            /\ Manager!Opened(c) \in [path : {c.path}, of : {e.of}, text : FileText, dirty : BOOLEAN, saving : BOOLEAN]
        BY <4>1
      <4> QED
        BY <4>2 DEF Manager!NoEditor, e
    <3> QED
      BY <3>2, <3>3
  <2>4. ~FileRedoes(c, view.entries) /\ ~FileRelists(c)
    BY <2>1 DEF FileRedoes, FileRelists, FileEffects
  <2>5. FileFollows(s, Manager!NoCall)
    BY <1>1, <2>1, <2>2, <2>3, <2>4, Zenon DEF FileFollows, c
  <2> QED
    BY <2>5
<1>11. CASE Manager!WriteArrives(s)
  <2>1. c.kind = "write" /\ calls' = [calls EXCEPT ![s] = Manager!NoCall] /\ ~FileRelists(c)
    BY <1>11 DEF Manager!WriteArrives, Manager!Ends, FileRelists, c
  <2> DEFINE e == view.editor
  <2>2. c.key = Manager!EditorKey /\ e # Manager!NoEditor
    BY <1>1, <2>1 DEF FileSaving, FileWriting, c
  <2>3. view' = [view EXCEPT !.editor.saving = FALSE, !.editor.dirty = @ /\ ~c.ok,
                             !.half = @ \/ Manager!Unlisted(c.path)]
    BY <1>11, <2>2 DEF Manager!WriteArrives, c
  <2>4. /\ view'.path = view.path /\ view'.entries = view.entries /\ view'.failed = view.failed
        /\ view'.half = (view.half \/ Manager!Unlisted(c.path))
        /\ view'.editor = [e EXCEPT !.saving = FALSE, !.dirty = @ /\ ~c.ok]
    BY <2>3, FileViewIs
  <2>5. e \in [path : FilePath, of : {e.of}, text : FileText, dirty : BOOLEAN, saving : BOOLEAN]
    BY <2>2 DEF Pathed, FileViewRight, FileEditorRight
  <2> HIDE DEF e
  <2>6. view'.editor.path = e.path /\ view'.editor # Manager!NoEditor
    <3>1. view'.editor.path = e.path /\ view'.editor \in [path : FilePath, of : {e.of}, text : FileText, dirty : BOOLEAN, saving : BOOLEAN]
      BY <2>4, <2>5
    <3> QED
      BY <3>1 DEF Manager!NoEditor
  <2>7. ~view'.half => ~FileRedoes(c, view.entries)
    BY <2>1, <2>4, Zenon DEF FileRedoes, Manager!Unlisted, FileEffects
  <2>8. FileFollows(s, Manager!NoCall)
    BY <1>1, <2>1, <2>2, <2>4, <2>6, <2>7, Zenon DEF FileFollows, FileLooks, c, e
  <2> QED
    BY <2>8
<1>12. CASE Manager!EffectArrives(s)
  <2>1. c.kind \notin {"list", "write", "read"}
    BY <1>12 DEF Manager!EffectArrives, c
  <2>2. CASE c.ok
    <3>1. calls' = [calls EXCEPT ![s] = [Manager!List(c.dir, c.key) EXCEPT !.text = c.kind]]
            /\ view' = Manager!Leaves
      BY <1>12, <2>2 DEF Manager!EffectArrives, Manager!Continues, c
    <3>2. view'.editor = view.editor /\ FileLooks /\ ~view'.failed /\ view'.half = view.half
      BY <1>7, <3>1 DEF FileLooks
    <3> DEFINE next == [Manager!List(c.dir, c.key) EXCEPT !.text = c.kind]
    <3>3. next # Manager!NoCall /\ next.at = "sent" /\ next.kind = "list" /\ calls' = [calls EXCEPT ![s] = next]
      BY <1>5, <3>1
    <3> HIDE DEF next
    <3> QED
      BY <1>6, <2>1, <3>2, <3>3
  <2>3. CASE ~c.ok
    <3>1. /\ calls' = [calls EXCEPT ![s] = Manager!NoCall]
          /\ view' = [r EXCEPT !.selected = IF c.kind = "move" THEN {} ELSE @, !.half = TRUE]
      BY <1>12, <2>3 DEF Manager!EffectArrives, Manager!Ends, c, r
    <3>2. FileLooks /\ view'.half /\ view'.editor = view.editor
      BY <1>4, <3>1 DEF FileLooks
    <3>3. FileFollows(s, Manager!NoCall)
      BY <1>1, <2>1, <3>1, <3>2 DEF FileFollows, FileRelists, c
    <3> QED
      BY <3>3
  <2> QED
    BY <2>2, <2>3
<1> QED
  BY <1>8, <1>9, <1>10, <1>11, <1>12 DEF Manager!Deliver

LEMMA FileCalmSteps ==
    ASSUME Pathed, FileSaving, calm, Manager!Next
    PROVE  \/ FileIdle
           \/ \E s \in Slots : \E new : FileAsks(s, new)
           \/ \E s \in Slots : Manager!Serve(s) \/ Manager!Uploads(s)
           \/ \E s \in Slots : \E next : Manager!Arrives(s) /\ FileFollows(s, next)
<1>1. ~Manager!Elsewhere
  BY DEF Manager!Elsewhere
<1>2. ASSUME NEW s \in Slots, Manager!Deliver(s)
      PROVE  \E next : Manager!Arrives(s) /\ FileFollows(s, next)
  BY <1>2, FileDeliverFollows DEF Manager!Deliver
<1> QED
  BY <1>1, <1>2, FileButtonAsks, FileEditorAsks, FileAskingIdles DEF Manager!Next

-----------------------------------------------------------------------------
(***************************************************************************)
(* Paths without "..": normalizing gives one, and leaves one as it is.     *)
(***************************************************************************)
LEMMA FileNormalizedPlain ==
    ASSUME NEW p \in FilePath
    PROVE  Manager!Normalized(p) \in Seq(Names) /\ (p \in Seq(Names) => Manager!Normalized(p) = p)
<1>1. Len(p) \in Nat /\ \A n \in 1..Len(p) : p[n] \in FilePart
  BY LenProperties, ElementOfSeq DEF FilePath
<1>2. PICK upTo : /\ \A n \in 0..Len(p) : upTo[n] = IF n = 0 THEN <<>> ELSE Manager!Enter(upTo[n - 1], p[n])
                  /\ Manager!Normalized(p) = upTo[Len(p)]
  BY FileNormalizedIs
<1> DEFINE Good(n) == upTo[n] \in Seq(Names) /\ (p \in Seq(Names) => upTo[n] = SubSeq(p, 1, n))
<1>3. \A n \in 0..Len(p) : Good(n)
  <2> DEFINE T == {n \in 0..Len(p) : ~Good(n)}
  <2> SUFFICES ASSUME T # {} PROVE FALSE
    OBVIOUS
  <2>1. PICK n \in T : \A k \in T : n <= k
    <3>1. T \subseteq Nat
      BY <1>1
    <3> QED
      BY <3>1, FileLeastNumber
  <2>2. n \in 0..Len(p) /\ ~Good(n) /\ upTo[n] = IF n = 0 THEN <<>> ELSE Manager!Enter(upTo[n - 1], p[n])
    BY <1>2, <2>1
  <2>3. n # 0
    <3>1. <<>> \in Seq(Names) /\ SubSeq(p, 1, 0) = <<>>
      BY EmptySeq
    <3> QED
      BY <2>2, <3>1
  <2>4. n - 1 \in 0..Len(p) /\ n \in 1..Len(p) /\ n - 1 \notin T
    BY <1>1, <2>1, <2>2, <2>3
  <2>5. Good(n - 1)
    BY <2>4
  <2> DEFINE q == upTo[n - 1]
  <2>6. q \in Seq(Names) /\ p[n] \in FilePart
    BY <1>1, <2>4, <2>5
  <2> HIDE DEF q
  <2>7. Manager!Enter(q, p[n]) \in Seq(Names)
    <3>1. CASE p[n] # Up
      <4>1. p[n] \in Names
        BY <2>6, <3>1 DEF FilePart
      <4> QED
        BY <2>6, <3>1, <4>1, AppendProperties DEF Manager!Enter
    <3>2. CASE p[n] = Up /\ q # <<>>
      <4>1. Len(q) \in Nat /\ \A i \in 1..Len(q) - 1 : q[i] \in Names
        BY <2>6, LenProperties, ElementOfSeq
      <4>2. SubSeq(q, 1, Len(q) - 1) \in Seq(Names)
        BY <4>1, SubSeqProperties
      <4> QED
        BY <3>2, <4>2 DEF Manager!Enter, Manager!Parent
    <3> QED
      BY <2>6, <3>1, <3>2 DEF Manager!Enter
  <2>8. ASSUME p \in Seq(Names)
        PROVE  Manager!Enter(q, p[n]) = SubSeq(p, 1, n)
    <3>1. q = SubSeq(p, 1, n - 1)
      BY <2>5, <2>8 DEF q
    <3>2. p[n] \in Names /\ p[n] # Up
      BY <2>4, <2>8, ElementOfSeq, FilesAssumption DEF FilesOK
    <3>3. /\ q \in FilePath /\ Len(q) = n - 1 /\ \A i \in 1..n - 1 : q[i] = p[i]
      <4>1. 1 \in 1..Len(p) + 1 /\ n - 1 \in 1 - 1..Len(p)
        BY <1>1, <2>4
      <4>2. SubSeq(p, 1, n - 1) \in FilePath /\ Len(SubSeq(p, 1, n - 1)) = n - 1 - 1 + 1
            /\ \A i \in 1..n - 1 - 1 + 1 : SubSeq(p, 1, n - 1)[i] = p[1 + i - 1]
        BY <4>1, FileSlice
      <4> QED
        BY <1>1, <2>4, <3>1, <4>2
    <3>4. /\ SubSeq(p, 1, n) \in FilePath /\ Len(SubSeq(p, 1, n)) = n
          /\ \A i \in 1..n : SubSeq(p, 1, n)[i] = p[i]
      <4>1. 1 \in 1..Len(p) + 1 /\ n \in 1 - 1..Len(p)
        BY <1>1, <2>4
      <4>2. SubSeq(p, 1, n) \in FilePath /\ Len(SubSeq(p, 1, n)) = n - 1 + 1
            /\ \A i \in 1..n - 1 + 1 : SubSeq(p, 1, n)[i] = p[1 + i - 1]
        BY <4>1, FileSlice
      <4> QED
        BY <1>1, <2>4, <4>2
    <3>5. /\ Append(q, p[n]) \in FilePath /\ Len(Append(q, p[n])) = n
          /\ \A i \in 1..n - 1 : Append(q, p[n])[i] = q[i]
          /\ Append(q, p[n])[n] = p[n]
      <4>1. Len(q) = n - 1 /\ p[n] \in FilePart /\ n \in Nat
        BY <1>1, <2>4, <2>6, <3>3
      <4>2. /\ Append(q, p[n]) \in FilePath /\ Len(Append(q, p[n])) = Len(q) + 1
            /\ \A i \in 1..Len(q) : Append(q, p[n])[i] = q[i]
            /\ Append(q, p[n])[Len(q) + 1] = p[n]
        BY <3>3, <4>1, AppendProperties DEF FilePath
      <4> QED
        BY <4>1, <4>2
    <3>6. \A i \in 1..n : Append(q, p[n])[i] = SubSeq(p, 1, n)[i]
      BY <2>4, <1>1, <3>3, <3>4, <3>5
    <3>7. Append(q, p[n]) = SubSeq(p, 1, n)
      BY <3>4, <3>5, <3>6, SeqEqual DEF FilePath
    <3> QED
      BY <3>2, <3>7 DEF Manager!Enter
  <2> QED
    BY <2>2, <2>3, <2>7, <2>8 DEF q
<1>4. Good(Len(p))
  BY <1>1, <1>3
<1>5. SubSeq(p, 1, Len(p)) = p
  BY SubSeqFull DEF FilePath
<1> QED
  BY <1>2, <1>4, <1>5

FilePlainDisk(fs) == DOMAIN fs \subseteq Seq(Names)

LEMMA FilePlainMoved ==
    ASSUME NEW fs, FileDisk(fs), FilePlainDisk(fs), NEW p \in FilePath, NEW q \in Seq(Names), q \in FilePath,
           FileMovable(fs, p, q)
    PROVE  FilePlainDisk(Manager!Moved(fs, p, q))
<1>1. DOMAIN Manager!Moved(fs, p, q) = FileKept(fs, p, q) \union FileGrafts(fs, p, q)
  BY FileMovedSame
<1>2. ASSUME NEW y \in Manager!Under(fs, p)
      PROVE  FileGraft(p, q, y) \in Seq(Names)
  <2>1. y \in FilePath /\ Manager!IsPrefix(p, y) /\ y \in Seq(Names)
    BY DEF Manager!Under, FileDisk, FilePlainDisk
  <2>2. /\ Len(p) \in Nat /\ Len(q) \in Nat /\ Len(y) \in Nat /\ Len(p) <= Len(y)
        /\ \A i \in 1..Len(q) : q[i] \in Names
        /\ \A i \in 1..Len(y) : y[i] \in Names
    BY <2>1, FilePathFacts, FilePrefix, ElementOfSeq
  <2> DEFINE g == FileGraft(p, q, y)
  <2>3. /\ g \in FilePath /\ Len(g) = Len(q) + Len(y) - Len(p)
        /\ \A i \in 1..Len(q) : g[i] = q[i]
        /\ \A i \in 1..Len(y) - Len(p) : g[Len(q) + i] = y[Len(p) + i]
    BY <2>1, FileGrafted
  <2> HIDE DEF g
  <2>4. ASSUME NEW i \in 1..Len(g)
        PROVE  g[i] \in Names
    <3>1. CASE i <= Len(q)
      BY <2>2, <2>3, <3>1
    <3>2. CASE i > Len(q)
      <4>1. i - Len(q) \in 1..Len(y) - Len(p) /\ Len(q) + (i - Len(q)) = i
              /\ Len(p) + (i - Len(q)) \in 1..Len(y)
        BY <2>2, <2>3, <3>2
      <4>2. g[Len(q) + (i - Len(q))] = y[Len(p) + (i - Len(q))]
        BY <2>3, <4>1
      <4> QED
        BY <2>2, <4>1, <4>2
    <3> QED
      BY <2>2, <2>3, <3>1, <3>2
  <2>5. g = [i \in 1..Len(g) |-> g[i]] /\ Len(g) \in Nat
    BY <2>3, LenProperties DEF FilePath
  <2>6. g \in Seq(Names)
    BY <2>4, <2>5, SeqDef
  <2> QED
    BY <2>6 DEF g
<1> QED
  BY <1>1, <1>2 DEF FilePlainDisk, FileKept, FileGrafts

LEMMA FileChangedPlain ==
    ASSUME NEW c, FileIsCall(c), NEW p \in FilePath, NEW q \in FilePath, p \in Seq(Names), q \in Seq(Names),
           FileDisk(server.fs), FilePlainDisk(server.fs), Manager!Possible(c, p, q)
    PROVE  FilePlainDisk(Manager!After(c, p, q)) /\ \A fs \in Manager!Halfway(c, p) : FilePlainDisk(fs)
<1>1. \A what : FilePlainDisk(Manager!With(server.fs, p, what))
  BY DEF FilePlainDisk, Manager!With
<1>2. \A gone : FilePlainDisk(Manager!Without(server.fs, gone))
  BY DEF FilePlainDisk, Manager!Without
<1>3. c.kind \in {"rename", "move"} => FilePlainDisk(Manager!Moved(server.fs, p, q))
  <2> SUFFICES ASSUME c.kind \in {"rename", "move"} PROVE FilePlainDisk(Manager!Moved(server.fs, p, q))
    OBVIOUS
  <2>1. FileMovable(server.fs, p, q)
    BY DEF Manager!Possible, FileMovable
  <2> QED
    BY <2>1, FilePlainMoved
<1>4. FilePlainDisk(Manager!After(c, p, q))
  BY <1>1, <1>2, <1>3 DEF Manager!After, FileIsCall, FileKinds
<1>5. \A fs \in Manager!Halfway(c, p) : FilePlainDisk(fs)
  BY <1>1, <1>2 DEF Manager!Halfway
<1> QED
  BY <1>4, <1>5

(***************************************************************************)
(* Writing a file that is there changes no list; one that is not there is  *)
(* in no list.                                                             *)
(***************************************************************************)
LEMMA FileWithEntries ==
    ASSUME NEW fs, NEW p, ~Manager!IsDir(fs, p), NEW what, what # Manager!Dir, NEW d
    PROVE  \/ Manager!Entries(Manager!With(fs, p, what), d) = Manager!Entries(fs, d)
           \/ \A e \in Manager!Entries(fs, d) : e.path # p
<1> DEFINE new == Manager!With(fs, p, what)
<1>1. CASE p \in DOMAIN fs
  <2>1. DOMAIN new = DOMAIN fs /\ \A q \in DOMAIN fs : new[q] = Manager!Dir <=> fs[q] = Manager!Dir
    BY <1>1 DEF Manager!With, Manager!IsDir
  <2> HIDE DEF new
  <2>2. Manager!Under(new, d) = Manager!Under(fs, d)
    BY <2>1 DEF Manager!Under
  <2>3. \A q \in Manager!Under(fs, d) : [path |-> q, dir |-> new[q] = Manager!Dir] = [path |-> q, dir |-> fs[q] = Manager!Dir]
    BY <2>1 DEF Manager!Under
  <2>4. Manager!Entries(new, d) = Manager!Entries(fs, d)
    BY <2>2, <2>3 DEF Manager!Entries
  <2> QED
    BY <2>4 DEF new
<1>2. CASE p \notin DOMAIN fs
  BY <1>2 DEF Manager!Entries, Manager!Under
<1> QED
  BY <1>1, <1>2

(***************************************************************************)
(* The service's answers.                                                  *)
(***************************************************************************)
FileServed(s) ==
    /\ calls[s] # Manager!NoCall /\ calls[s].at = "sent" /\ view' = view
    /\ calls' = [calls EXCEPT ![s] = calls'[s]] /\ \A t \in Slots : t # s => calls'[t] = calls[t]
    /\ calls'[s] # Manager!NoCall /\ calls'[s].at = "answered" /\ calls'[s].ok \in BOOLEAN
    /\ calls'[s].kind = calls[s].kind /\ calls'[s].path = calls[s].path /\ calls'[s].key = calls[s].key
    /\ calm => order' = Append(order, s)
    /\ FileRelists(calls'[s]) => calls'[s].doc = Manager!Entries(server.fs, Manager!Normalized(calls[s].path))

FileChanges(s) ==
    \/ server'.fs = server.fs
    \/ calls[s].kind \in FileEffects
    \/ /\ calls[s].kind = "write" /\ ~Manager!IsDir(server.fs, Manager!Normalized(calls[s].path))
       /\ \E what : what # Manager!Dir /\ server'.fs = Manager!With(server.fs, Manager!Normalized(calls[s].path), what)

LEMMA FileServeIs ==
    ASSUME Pathed, NEW s \in Slots, Manager!Serve(s)
    PROVE  FileServed(s) /\ FileChanges(s) /\ (FilePlainDisk(server.fs) => FilePlainDisk(server'.fs))
<1> DEFINE c == calls[s]
           p == Manager!Normalized(c.path)
           q == Manager!Normalized(c.to)
<1>1. c # Manager!NoCall /\ FileIsCall(c) /\ c.at = "sent"
  BY DEF Manager!Serve, Pathed, FileSlotRight, Manager!NoCall
<1>2. p \in FilePath /\ q \in FilePath /\ p \in Seq(Names) /\ q \in Seq(Names)
  BY <1>1, FileNormalizedPath, FileNormalizedPlain DEF FileIsCall
<1>3. FileDisk(server.fs) /\ server \in [fs : {server.fs}, root : FilePath, sudo : BOOLEAN]
  BY DEF Pathed, FileServerRight
<1> HIDE DEF c, p, q
<1>4. ASSUME NEW ok \in BOOLEAN, NEW doc, Manager!Answer(s, ok, doc),
             ok /\ c.kind = "list" => doc = Manager!Entries(server.fs, p)
      PROVE  FileServed(s)
  <2> DEFINE d == [c EXCEPT !.at = "answered", !.ok = ok, !.doc = doc]
  <2>1. calls' = [calls EXCEPT ![s] = d] /\ view' = view /\ (calm => order' = Append(order, s))
    BY <1>4 DEF Manager!Answer, c
  <2>2. /\ d.at = "answered" /\ d.ok = ok /\ d.doc = doc
        /\ d.kind = c.kind /\ d.path = c.path /\ d.key = c.key
        /\ d \in [at : {"answered"}, kind : {c.kind}, path : {c.path}, to : {c.to}, dir : {c.dir},
                  key : {c.key}, text : {c.text}, of : {c.of}, ok : {ok}, doc : {doc}]
    BY <1>1 DEF FileIsCall
  <2>3. d # Manager!NoCall
    BY <2>2 DEF Manager!NoCall
  <2> HIDE DEF d
  <2>4. calls'[s] = d /\ \A t \in Slots : t # s => calls'[t] = calls[t]
    BY <2>1 DEF Pathed
  <2>5. FileRelists(d) => d.doc = Manager!Entries(server.fs, p)
    BY <1>4, <2>2 DEF FileRelists
  <2>6. calls' = [calls EXCEPT ![s] = calls'[s]]
    BY <2>1, <2>4
  <2> QED
    BY <1>1, <2>1, <2>2, <2>3, <2>4, <2>5, <2>6 DEF FileServed, c, p
<1>5. CASE UNCHANGED server /\ Manager!Answer(s, FALSE, {})
  <2>1. FileServed(s)
    BY <1>4, <1>5
  <2> QED
    BY <1>5, <2>1 DEF FileChanges
<1>6. CASE Manager!Possible(c, p, q) /\ Manager!Answer(s, FALSE, {})
           /\ \E fs \in Manager!Halfway(c, p) : server' = [server EXCEPT !.fs = fs]
  <2>1. FileServed(s)
    BY <1>4, <1>6
  <2>2. PICK fs \in Manager!Halfway(c, p) : server'.fs = fs
    BY <1>3, <1>6
  <2>3. FileChanges(s)
    <3>1. CASE c.kind \in {"delete", "upload"}
      BY <3>1 DEF FileChanges, FileEffects, c
    <3>2. CASE c.kind = "write"
      <4>1. fs = Manager!With(server.fs, p, Manager!Torn) /\ Manager!Torn # Manager!Dir
        BY <3>2 DEF Manager!Halfway, Manager!Torn, Manager!Dir
      <4>2. ~Manager!IsDir(server.fs, p)
        BY <1>6, <3>2 DEF Manager!Possible
      <4> QED
        BY <2>2, <3>2, <4>1, <4>2 DEF FileChanges, c, p
    <3> QED
      BY <3>1, <3>2 DEF Manager!Halfway
  <2>4. FilePlainDisk(server.fs) => FilePlainDisk(fs)
    BY <1>1, <1>2, <1>3, <1>6, FileChangedPlain
  <2> QED
    BY <2>1, <2>2, <2>3, <2>4
<1>7. CASE /\ Manager!Possible(c, p, q)
           /\ server' = [server EXCEPT !.fs = Manager!After(c, p, q)]
           /\ Manager!Answer(s, TRUE, Manager!Found(c, p))
  <2>1. FileServed(s)
    <3>1. c.kind = "list" => Manager!Found(c, p) = Manager!Entries(server.fs, p)
      BY DEF Manager!Found
    <3> QED
      BY <1>4, <1>7, <3>1
  <2>2. server'.fs = Manager!After(c, p, q)
    BY <1>3, <1>7
  <2>3. FileChanges(s)
    <3>1. CASE c.kind \in FileEffects
      BY <3>1 DEF FileChanges, c
    <3>2. CASE c.kind = "write"
      <4>1. Manager!After(c, p, q) = Manager!With(server.fs, p, c.text) /\ ~Manager!IsDir(server.fs, p)
        BY <1>7, <3>2 DEF Manager!After, Manager!Possible
      <4>2. c.text # Manager!Dir
        BY <1>1, <3>2, FilesAssumption DEF FileIsCall, FileText, Manager!Torn, Manager!Dir, FilesOK
      <4> QED
        BY <2>2, <3>2, <4>1, <4>2 DEF FileChanges, c, p
    <3>3. CASE c.kind \in {"default", "list", "read"}
      BY <2>2, <3>3 DEF Manager!After, FileChanges
    <3> QED
      BY <1>1, <3>1, <3>2, <3>3 DEF FileIsCall, FileKinds, FileEffects
  <2>4. FilePlainDisk(server.fs) => FilePlainDisk(Manager!After(c, p, q))
    BY <1>1, <1>2, <1>3, <1>7, FileChangedPlain
  <2> QED
    BY <2>1, <2>2, <2>3, <2>4
<1> QED
  BY <1>5, <1>6, <1>7 DEF Manager!Serve, c, p, q

-----------------------------------------------------------------------------
\* Paths that were listed have no "..".
FileListing(entries) == \A e \in entries : e.path \in Seq(Names)
FileNamedCall(c) ==
    c # Manager!NoCall => /\ c.kind \in {"read", "write"} => c.path \in Seq(Names)
                          /\ FileRelists(c) => FileListing(c.doc)
FileNamed ==
    /\ FilePlainDisk(server.fs)
    /\ FileListing(view.entries)
    /\ \A s \in Slots : FileNamedCall(calls[s])
    /\ view.editor # Manager!NoEditor => view.editor.path \in Seq(Names)

LEMMA FileOneSlot ==
    ASSUME Pathed, NEW s \in Slots, NEW new, calls' = [calls EXCEPT ![s] = new]
    PROVE  calls'[s] = new /\ \A t \in Slots : t # s => calls'[t] = calls[t]
  BY DEF Pathed

LEMMA FileIdleNamed ==
    ASSUME FileNamed, FileSaving, FileIdle
    PROVE  FileNamed' /\ FileSaving'
<1>1. /\ server' = server /\ FileLooks
      /\ view'.editor # Manager!NoEditor => /\ view.editor # Manager!NoEditor /\ view'.editor.path = view.editor.path
                                             /\ view'.editor.saving = view.editor.saving
  BY DEF FileIdle
<1>2. \A t \in Slots : FileAlike(calls[t], calls'[t])
  BY DEF FileIdle
<1>3. \A t \in Slots : FileNamedCall(calls'[t])
  BY <1>2, Zenon DEF FileNamed, FileNamedCall, FileAlike, FileRelists
<1>4. FileNamed'
  BY <1>1, <1>3 DEF FileNamed, FileLooks
<1>5. \A t \in Slots : FileWriting(t)' => FileWriting(t) /\ calls'[t].key = calls[t].key
  BY <1>2 DEF FileWriting, FileAlike
<1>6. \A t \in Slots : FileWriting(t) => view'.editor # Manager!NoEditor /\ view'.editor.saving
  BY DEF FileSaving, FileIdle
<1> QED
  BY <1>4, <1>5, <1>6 DEF FileSaving

LEMMA FileAsksNamed ==
    ASSUME Pathed, FileNamed, FileSaving, NEW s \in Slots, NEW new, FileAsks(s, new)
    PROVE  FileNamed' /\ FileSaving'
<1>1. calls'[s] = new /\ \A t \in Slots : t # s => calls'[t] = calls[t]
  BY FileOneSlot DEF FileAsks
<1>2. FileNamedCall(new)
  <2>1. new.kind = "read" => new.path \in Seq(Names)
    BY DEF FileAsks, FileNamed, FileListing
  <2>2. new.kind = "write" => new.path \in Seq(Names)
    BY DEF FileAsks, FileNamed
  <2>3. FileRelists(new) => FileListing(new.doc)
    BY DEF FileAsks, FileRelists
  <2> QED
    BY <2>1, <2>2, <2>3 DEF FileNamedCall
<1>3. \A t \in Slots : FileNamedCall(calls'[t])
  BY <1>1, <1>2 DEF FileNamed
<1>4. view'.editor # Manager!NoEditor => view'.editor.path \in Seq(Names)
  BY DEF FileAsks, FileNamed
<1>5. FileNamed'
  BY <1>3, <1>4 DEF FileNamed, FileAsks, FileLooks
<1>6. FileSaving'
  <2>1. CASE new.kind = "write"
    <3>1. \A t \in Slots : ~FileWriting(t)
      BY <2>1 DEF FileSaving, FileAsks
    <3>2. \A t \in Slots : FileWriting(t)' => t = s
      BY <1>1, <3>1 DEF FileWriting
    <3> QED
      BY <1>1, <2>1, <3>2 DEF FileSaving, FileAsks
  <2>2. CASE new.kind # "write"
    <3>1. \A t \in Slots : FileWriting(t)' => FileWriting(t) /\ calls'[t] = calls[t]
      BY <1>1, <2>2 DEF FileWriting
    <3> QED
      BY <2>2, <3>1 DEF FileSaving, FileAsks
  <2> QED
    BY <2>1, <2>2
<1> QED
  BY <1>5, <1>6

LEMMA FileServeNamed ==
    ASSUME Pathed, FileNamed, FileSaving, NEW s \in Slots, Manager!Serve(s)
    PROVE  FileNamed' /\ FileSaving'
<1>1. FileServed(s) /\ FilePlainDisk(server'.fs)
  BY FileServeIs DEF FileNamed
<1>2. calls'[s].doc = Manager!Entries(server.fs, Manager!Normalized(calls[s].path)) =>
        FileListing(calls'[s].doc)
  BY DEF FileListing, Manager!Entries, Manager!Under, FileNamed, FilePlainDisk
<1>3. FileNamedCall(calls'[s])
  <2>1. FileNamedCall(calls[s])
    BY DEF FileNamed
  <2> QED
    BY <1>1, <1>2, <2>1 DEF FileNamedCall, FileServed
<1>4. FileNamed'
  BY <1>1, <1>3 DEF FileNamed, FileServed
<1>5. \A t \in Slots : FileWriting(t)' => FileWriting(t) /\ calls'[t].key = calls[t].key
  BY <1>1 DEF FileServed, FileWriting
<1> QED
  BY <1>1, <1>4, <1>5 DEF FileSaving, FileServed

LEMMA FileFollowsNamed ==
    ASSUME Pathed, FileNamed, FileSaving, NEW s \in Slots, NEW next, FileFollows(s, next)
    PROVE  FileNamed' /\ FileSaving'
<1> DEFINE c == calls[s]
<1>1. calls'[s] = next /\ \A t \in Slots : t # s => calls'[t] = calls[t]
  BY FileOneSlot DEF FileFollows
<1>2. c # Manager!NoCall /\ FileNamedCall(c)
        /\ (next = Manager!NoCall \/ (next.at = "sent" /\ next.kind = "list"))
  BY DEF FileFollows, FileNamed
<1>3. FileNamedCall(next)
  BY <1>2 DEF FileNamedCall, FileRelists
<1>4. FileListing(view'.entries)
  BY <1>2 DEF FileFollows, FileNamed, FileNamedCall, FileLooks
<1>5. view'.editor # Manager!NoEditor => view'.editor.path \in Seq(Names)
  BY <1>2 DEF FileFollows, FileNamed, FileNamedCall
<1>6. FileNamed'
  BY <1>1, <1>3, <1>4, <1>5 DEF FileNamed, FileFollows
<1>7. \A t \in Slots : FileWriting(t)' => t # s /\ FileWriting(t) /\ calls'[t] = calls[t]
  BY <1>1, <1>2 DEF FileWriting
<1>8. FileSaving'
  <2>1. CASE c.kind = "write"
    <3>1. \A t \in Slots : ~FileWriting(t)'
      BY <1>2, <1>7, <2>1 DEF FileSaving, FileWriting
    <3> QED
      BY <3>1 DEF FileSaving
  <2>2. CASE c.kind # "write"
    <3>1. view.editor # Manager!NoEditor =>
            view'.editor # Manager!NoEditor /\ view'.editor.saving = view.editor.saving
      BY <2>2 DEF FileFollows
    <3> QED
      BY <1>7, <3>1 DEF FileSaving
  <2> QED
    BY <2>1, <2>2
<1> QED
  BY <1>6, <1>8

-----------------------------------------------------------------------------
(***************************************************************************)
(* The list that is shown (place 0), and those under way in answers, are   *)
(* what the disk has, unless the list is about to be loaded, or an answer  *)
(* behind them says that something changed.                                *)
(***************************************************************************)
FileCarried(i) == IF i = 0 THEN ~view.failed /\ ~view.half ELSE FileRelists(FileWaiting(i))
FilePlace(i) == IF i = 0 THEN view.path ELSE Manager!Normalized(FileWaiting(i).path)
FileEntered(i) == IF i = 0 THEN view.entries ELSE FileWaiting(i).doc
FileAgrees(i) == FileEntered(i) = Manager!Entries(server.fs, FilePlace(i))
FileUnderway == \E s \in Slots : FileLists(calls[s]) /\ calls[s].at = "sent"
FileNewer(i) == \E j \in 1..Len(order) : j > i /\ FileRedoes(FileWaiting(j), FileEntered(i))
FileFresh == \A i \in 0..Len(order) : FileCarried(i) => FileAgrees(i) \/ FileUnderway \/ FileNewer(i)

\* The queue stays, and what is in it.
FileStays ==
    /\ FileQueued' /\ Len(order) \in Nat /\ Len(order') = Len(order)
    /\ \A i \in 1..Len(order) : FileAlike(FileWaiting(i), FileWaiting(i)')  /\ FileWaiting(i) # Manager!NoCall

LEMMA FileStillFresh ==
    ASSUME FileFresh, FileStays, server' = server, FileLooks, view'.half = view.half,
           view'.failed = view.failed \/ FileUnderway', FileUnderway => FileUnderway'
    PROVE  FileFresh'
<1> SUFFICES ASSUME NEW i \in 0..Len(order), FileCarried(i)', ~FileUnderway'
             PROVE  FileAgrees(i)' \/ FileNewer(i)'
  BY DEF FileFresh, FileStays
<1>1. CASE i = 0
  <2>1. FileCarried(i) /\ FileEntered(i)' = FileEntered(i) /\ FilePlace(i)' = FilePlace(i)
          /\ (FileAgrees(i) => FileAgrees(i)')
    BY <1>1 DEF FileCarried, FileEntered, FilePlace, FileLooks, FileAgrees
  <2>2. ASSUME NEW j \in 1..Len(order), j > i, FileRedoes(FileWaiting(j), FileEntered(i))
        PROVE  FileNewer(i)'
    <3>1. FileRedoes(FileWaiting(j)', FileEntered(i)')
      BY <2>1, <2>2 DEF FileStays, FileAlike, FileRedoes
    <3> QED
      BY <2>2, <3>1 DEF FileNewer, FileStays
  <2> QED
    BY <2>1, <2>2 DEF FileFresh, FileNewer
<1>2. CASE i # 0
  <2>1. i \in 1..Len(order) /\ FileAlike(FileWaiting(i), FileWaiting(i)') /\ FileWaiting(i) # Manager!NoCall
    BY <1>2 DEF FileStays
  <2>2. FileCarried(i) /\ FileEntered(i)' = FileEntered(i) /\ FilePlace(i)' = FilePlace(i)
          /\ (FileAgrees(i) => FileAgrees(i)')
    BY <1>2, <2>1 DEF FileCarried, FileEntered, FilePlace, FileRelists, FileAlike, FileAgrees
  <2>3. ASSUME NEW j \in 1..Len(order), j > i, FileRedoes(FileWaiting(j), FileEntered(i))
        PROVE  FileNewer(i)'
    <3>1. FileRedoes(FileWaiting(j)', FileEntered(i)')
      BY <2>2, <2>3 DEF FileStays, FileAlike, FileRedoes
    <3> QED
      BY <2>3, <3>1 DEF FileNewer, FileStays
  <2> QED
    BY <2>2, <2>3 DEF FileFresh, FileNewer
<1> QED
  BY <1>1, <1>2

LEMMA FileIdleFresh ==
    ASSUME Pathed, FileQueued, FileFresh, calm, calm' = calm, FileIdle
    PROVE  FileQueued' /\ FileFresh'
<1>1. /\ order \in Seq(Slots) /\ Len(order) \in Nat
      /\ \A i \in 1..Len(order) : order[i] \in Slots /\ calls[order[i]].at = "answered"
  BY FileQueueIs
<1>2. /\ order' = order /\ server' = server /\ FileLooks /\ view'.failed = view.failed /\ view'.half = view.half
      /\ \A t \in Slots : FileAlike(calls[t], calls'[t])
  BY DEF FileIdle
<1>3. \A t \in Slots : calls'[t].at = calls[t].at
  BY <1>2 DEF FileAlike
<1>4. FileQueued'
  BY <1>1, <1>2, <1>3 DEF FileQueued
<1>5. FileStays
  BY <1>1, <1>2, <1>4 DEF FileStays, FileWaiting, Manager!NoCall
<1>6. FileUnderway => FileUnderway'
  BY <1>2 DEF FileUnderway, FileLists, FileAlike
<1> QED
  BY <1>2, <1>4, <1>5, <1>6, FileStillFresh

LEMMA FileAsksFresh ==
    ASSUME Pathed, FileQueued, FileFresh, calm, calm' = calm, NEW s \in Slots, NEW new, FileAsks(s, new)
    PROVE  FileQueued' /\ FileFresh'
<1>1. /\ calls'[s] = new /\ (\A t \in Slots : t # s => calls'[t] = calls[t])
      /\ calls[s] = Manager!NoCall /\ new.at = "sent" /\ new # Manager!NoCall
      /\ order' = order /\ server' = server /\ FileLooks /\ view'.half = view.half
      /\ (view'.failed = view.failed \/ new.kind = "list")
  BY FileOneSlot DEF FileAsks
<1>2. FileUntouched
  BY <1>1 DEF FileUntouched, Manager!NoCall
<1>3. FileQueued' /\ \A i \in 1..Len(order) : order'[i] = order[i] /\ FileWaiting(i)' = FileWaiting(i)
  BY <1>2, FileRestQueued
<1>4. /\ Len(order) \in Nat
      /\ \A i \in 1..Len(order) : order[i] \in Slots /\ calls[order[i]].at = "answered"
  BY FileQueueIs
<1>5. FileStays
  BY <1>1, <1>3, <1>4, FileAlikeIs DEF FileStays, FileWaiting, Manager!NoCall
<1>6. new.kind = "list" => FileUnderway'
  BY <1>1 DEF FileUnderway, FileLists
<1>7. FileUnderway => FileUnderway'
  BY <1>1 DEF FileUnderway, FileLists
<1> QED
  BY <1>1, <1>3, <1>5, <1>6, <1>7, FileStillFresh

LEMMA FileServeFresh ==
    ASSUME Pathed, FileNamed, FileQueued, FileFresh, calm, calm' = calm, NEW s \in Slots, Manager!Serve(s)
    PROVE  FileQueued' /\ FileFresh'
<1>1. FileServed(s) /\ FileChanges(s)
  BY FileServeIs DEF FileNamed
<1>2. calls = [t \in Slots |-> calls[t]]
  BY DEF Pathed
<1>3. FileAppended(s)
  BY <1>1 DEF FileServed, FileAppended
<1>4. /\ FileQueued' /\ Len(order') = Len(order) + 1
      /\ \A i \in 1..Len(order) : order'[i] = order[i] /\ FileWaiting(i)' = FileWaiting(i)
      /\ \A i \in 1..Len(order') : i \in 1..Len(order) \/ (i = Len(order) + 1 /\ FileWaiting(i)' = calls'[s])
  BY <1>2, <1>3, FileAnswerQueued
<1>5. Len(order) \in Nat
  BY FileQueueIs
<1>6. PICK n \in Nat : n = Len(order) + 1
  BY <1>5
<1>7. n \in 1..Len(order') /\ FileWaiting(n)' = calls'[s] /\ n \notin 1..Len(order)
  BY <1>4, <1>5, <1>6
<1>8. ASSUME NEW i \in 0..Len(order), FileCarried(i)'
      PROVE  FileAgrees(i)' \/ FileUnderway' \/ FileNewer(i)'
  <2>1. FileCarried(i) /\ FileEntered(i)' = FileEntered(i) /\ FilePlace(i)' = FilePlace(i)
    <3>1. CASE i = 0
      BY <1>1, <1>8, <3>1 DEF FileCarried, FileEntered, FilePlace, FileServed
    <3>2. CASE i # 0
      <4>1. i \in 1..Len(order) /\ FileWaiting(i)' = FileWaiting(i)
        BY <1>4, <1>5, <3>2
      <4> QED
        BY <1>8, <3>2, <4>1 DEF FileCarried, FileEntered, FilePlace
    <3> QED
      BY <3>1, <3>2
  <2>2. n > i /\ i \in Nat
    BY <1>5, <1>6
  <2>3. FileRedoes(calls'[s], FileEntered(i)) => FileNewer(i)'
    <3>1. FileRedoes(calls'[s], FileEntered(i)) => FileRedoes(FileWaiting(n)', FileEntered(i)')
      BY <1>7, <2>1
    <3> QED
      BY <1>7, <2>2, <3>1 DEF FileNewer
  <2>4. CASE FileNewer(i)
    <3>1. PICK j \in 1..Len(order) : j > i /\ FileRedoes(FileWaiting(j), FileEntered(i))
      BY <2>4 DEF FileNewer
    <3>2. j \in 1..Len(order') /\ FileWaiting(j)' = FileWaiting(j)
      BY <1>4, <1>5
    <3>3. FileRedoes(FileWaiting(j)', FileEntered(i)')
      BY <2>1, <3>1, <3>2
    <3> QED
      BY <3>1, <3>2, <3>3 DEF FileNewer
  <2>5. CASE FileUnderway
    <3>1. PICK t \in Slots : FileLists(calls[t]) /\ calls[t].at = "sent"
      BY <2>5 DEF FileUnderway
    <3>2. CASE t = s
      <4>1. FileRedoes(calls'[s], FileEntered(i))
        BY <1>1, <3>1, <3>2 DEF FileServed, FileRedoes, FileLists, FileEffects
      <4> QED
        BY <2>3, <4>1
    <3>3. CASE t # s
      <4>1. FileLists(calls'[t]) /\ calls'[t].at = "sent"
        BY <1>1, <3>1, <3>3 DEF FileServed
      <4> QED
        BY <4>1 DEF FileUnderway
    <3> QED
      BY <3>2, <3>3
  <2>6. CASE FileAgrees(i)
    <3>1. CASE server'.fs = server.fs
      BY <2>1, <2>6, <3>1 DEF FileAgrees
    <3>2. CASE calls[s].kind \in FileEffects
      <4>1. FileRedoes(calls'[s], FileEntered(i))
        BY <1>1, <3>2 DEF FileServed, FileRedoes
      <4> QED
        BY <2>3, <4>1
    <3>3. CASE /\ calls[s].kind = "write" /\ ~Manager!IsDir(server.fs, Manager!Normalized(calls[s].path))
               /\ \E what : what # Manager!Dir
                    /\ server'.fs = Manager!With(server.fs, Manager!Normalized(calls[s].path), what)
      <4>1. calls[s].path \in Seq(Names) /\ calls[s].path \in FilePath
        BY <1>1, <3>3 DEF FileNamed, FileNamedCall, FileServed, Pathed, FileSlotRight, FileIsCall
      <4>2. Manager!Normalized(calls[s].path) = calls[s].path
        BY <4>1, FileNormalizedPlain
      <4>3. PICK what : what # Manager!Dir /\ server'.fs = Manager!With(server.fs, calls[s].path, what)
        BY <3>3, <4>2
      <4>4. \/ Manager!Entries(server'.fs, FilePlace(i)) = Manager!Entries(server.fs, FilePlace(i))
            \/ \A e \in Manager!Entries(server.fs, FilePlace(i)) : e.path # calls[s].path
        BY <3>3, <4>2, <4>3, FileWithEntries
      <4>5. CASE Manager!Entries(server'.fs, FilePlace(i)) = Manager!Entries(server.fs, FilePlace(i))
        BY <2>1, <2>6, <4>5 DEF FileAgrees
      <4>6. CASE \A e \in Manager!Entries(server.fs, FilePlace(i)) : e.path # calls[s].path
        <5>1. \A e \in FileEntered(i) : e.path # calls[s].path
          BY <2>6, <4>6 DEF FileAgrees
        <5>2. calls'[s].kind = "write" /\ calls'[s].path = calls[s].path
          BY <1>1, <3>3 DEF FileServed
        <5>3. FileRedoes(calls'[s], FileEntered(i))
          BY <5>1, <5>2, Zenon DEF FileRedoes
        <5> QED
          BY <2>3, <5>3
      <4> QED
        BY <4>4, <4>5, <4>6
    <3> QED
      BY <1>1, <3>1, <3>2, <3>3 DEF FileChanges
  <2> QED
    BY <2>1, <2>4, <2>5, <2>6 DEF FileFresh
<1>9. ASSUME FileCarried(n)'
      PROVE  FileAgrees(n)'
  <2>1. n # 0
    BY <1>5, <1>6
  <2>2. FileRelists(calls'[s])
    BY <1>7, <1>9, <2>1 DEF FileCarried
  <2>3. server'.fs = server.fs
    BY <1>1, <2>2 DEF FileServed, FileChanges, FileRelists, FileEffects
  <2>4. FileEntered(n)' = calls'[s].doc /\ FilePlace(n)' = Manager!Normalized(calls'[s].path)
    BY <1>7, <2>1 DEF FileEntered, FilePlace
  <2> QED
    BY <1>1, <2>2, <2>3, <2>4 DEF FileServed, FileAgrees
<1>10. \A i \in 0..Len(order') : i \in 0..Len(order) \/ i = n
  BY <1>4, <1>5, <1>6
<1> QED
  BY <1>4, <1>8, <1>9, <1>10 DEF FileFresh

\* While files are uploaded the list is still to be loaded.
LEMMA FileUploadsSettles ==
    ASSUME Pathed, FileNamed, FileSaving, FileQueued, FileFresh, calm, calm' = calm, NEW s \in Slots,
           Manager!Uploads(s)
    PROVE  FileNamed' /\ FileSaving' /\ FileQueued' /\ FileFresh'
<1> DEFINE c == calls[s]
           p == Manager!Normalized(c.path)
<1>1. /\ FileIsCall(c) /\ c.kind = "upload" /\ c.at = "sent" /\ p \in FilePath /\ Manager!Possible(c, p, p)
      /\ FileIsCall(calls'[s]) /\ calls'[s].kind = "upload" /\ calls'[s].at = "sent"
      /\ calls' = [calls EXCEPT ![s] = calls'[s]] /\ server'.fs = Manager!After(c, p, p)
      /\ view' = view /\ order' = order
  BY FileUploadsIs, Zenon
<1>2. \A t \in Slots : t # s => calls'[t] = calls[t]
  BY <1>1, FileOneSlot
<1>3. p \in Seq(Names)
  BY <1>1, FileNormalizedPlain DEF FileIsCall
<1> HIDE DEF p
<1>4. FileDisk(server.fs) /\ FilePlainDisk(server.fs)
  BY DEF Pathed, FileServerRight, FileNamed
<1>5. FilePlainDisk(server'.fs)
  BY <1>1, <1>3, <1>4, FileChangedPlain
<1>6. FileNamedCall(calls'[s])
  BY <1>1 DEF FileNamedCall, FileRelists
<1>7. FileNamed'
  BY <1>1, <1>2, <1>5, <1>6 DEF FileNamed
<1>8. \A t \in Slots : FileWriting(t)' => FileWriting(t) /\ calls'[t] = calls[t]
  BY <1>1, <1>2 DEF FileWriting
<1>9. FileSaving'
  BY <1>1, <1>8 DEF FileSaving
<1>10. FileUntouched
  BY <1>1, <1>2 DEF FileUntouched
<1>11. FileQueued'
  BY <1>10, FileRestQueued
<1>12. calls'[s] # Manager!NoCall
  BY <1>1 DEF Manager!NoCall
<1>13. FileUnderway'
  BY <1>1, <1>12 DEF FileUnderway, FileLists
<1> QED
  BY <1>7, <1>9, <1>11, <1>13 DEF FileFresh

LEMMA FileFollowsFresh ==
    ASSUME Pathed, FileQueued, FileFresh, calm, calm' = calm, NEW s \in Slots, NEW next, Manager!Arrives(s),
           FileFollows(s, next)
    PROVE  FileQueued' /\ FileFresh'
<1> DEFINE c == calls[s]
<1>1. calls'[s] = next /\ \A t \in Slots : t # s => calls'[t] = calls[t]
  BY FileOneSlot DEF FileFollows
<1>2. /\ c # Manager!NoCall /\ c.at = "answered" /\ server' = server
      /\ next = Manager!NoCall \/ (next # Manager!NoCall /\ next.at = "sent" /\ next.kind = "list")
  BY DEF FileFollows
<1>3. FileTaken(s)
  <2>1. calls' = [calls EXCEPT ![s] = calls'[s]]
    BY <1>1 DEF FileFollows
  <2>2. calls'[s].at # "answered"
    BY <1>1, <1>2 DEF Manager!NoCall
  <2> QED
    BY <1>2, <2>1, <2>2 DEF FileTaken, Manager!Arrives
<1>4. calls = [t \in Slots |-> calls[t]]
  BY DEF Pathed
<1>5. /\ FileQueued' /\ Len(order) # 0 /\ FileWaiting(1) = c /\ Len(order') = Len(order) - 1
      /\ \A i \in 1..Len(order') : i + 1 \in 1..Len(order) /\ FileWaiting(i)' = FileWaiting(i + 1)
  BY <1>3, <1>4, FileArrivalQueued
<1>6. Len(order) \in Nat
  BY FileQueueIs
<1> SUFFICES ASSUME NEW i \in 0..Len(order'), FileCarried(i)', next = Manager!NoCall
             PROVE  FileAgrees(i)' \/ FileUnderway' \/ FileNewer(i)'
  <2>1. next # Manager!NoCall => FileUnderway'
    BY <1>1, <1>2 DEF FileUnderway, FileLists
  <2> QED
    BY <1>5, <2>1 DEF FileFresh
<1>7. FileUnderway => FileUnderway'
  BY <1>1, <1>2 DEF FileUnderway
\* The place where it was.
<1> DEFINE k == IF i = 0 /\ ~FileRelists(c) THEN 0 ELSE i + 1
<1>8. /\ k \in 0..Len(order) /\ FileCarried(k) /\ FileEntered(i)' = FileEntered(k)
      /\ FilePlace(i)' = FilePlace(k)
      /\ k = 0 => ~FileRedoes(c, FileEntered(k))
  <2>1. CASE i = 0 /\ ~FileRelists(c)
    <3>1. ~view.failed /\ ~view.half /\ ~FileRedoes(c, view.entries) /\ FileLooks
      BY <2>1 DEF FileFollows, FileCarried
    <3> QED
      BY <1>6, <2>1, <3>1 DEF FileCarried, FileEntered, FilePlace, FileLooks
  <2>2. CASE i = 0 /\ FileRelists(c)
    <3>1. k = 1 /\ 1 \in 0..Len(order) /\ FileWaiting(1) = c
      BY <1>5, <1>6, <2>2
    <3>2. view'.path = Manager!Normalized(c.path) /\ view'.entries = c.doc
      BY <2>2 DEF FileFollows
    <3> QED
      BY <2>2, <3>1, <3>2 DEF FileCarried, FileEntered, FilePlace
  <2>3. CASE i # 0
    <3>1. k = i + 1 /\ i \in 1..Len(order') /\ k \in 1..Len(order) /\ FileWaiting(i)' = FileWaiting(k) /\ k # 0
      BY <1>5, <1>6, <2>3
    <3> HIDE DEF k
    <3> QED
      BY <2>3, <3>1 DEF FileCarried, FileEntered, FilePlace
  <2> QED
    BY <2>1, <2>2, <2>3
<1>9. k >= i
  BY <1>5, <1>6
<1>10. k = 0 \/ k = i + 1
  OBVIOUS
<1> HIDE DEF k
<1>11. FileAgrees(k) => FileAgrees(i)'
  BY <1>2, <1>8 DEF FileAgrees
<1>12. ASSUME NEW j \in 1..Len(order), j > k, FileRedoes(FileWaiting(j), FileEntered(k))
       PROVE  FileNewer(i)'
  <2>1. j # 1
    BY <1>5, <1>8, <1>10, <1>12
  <2>2. PICK m \in Nat : m = j - 1
    BY <1>6, <2>1
  <2>3. m \in 1..Len(order') /\ m > i /\ m + 1 = j
    <3>1. CASE k = 0
      BY <1>5, <1>6, <1>8, <1>9, <2>1, <2>2, <3>1
    <3>2. CASE k = i + 1
      BY <1>5, <1>6, <1>12, <2>1, <2>2, <3>2
    <3> QED
      BY <1>10, <3>1, <3>2
  <2>4. FileWaiting(m)' = FileWaiting(j)
    BY <1>5, <2>3
  <2>5. FileRedoes(FileWaiting(m)', FileEntered(i)')
    BY <1>8, <1>12, <2>4
  <2> QED
    BY <2>3, <2>5 DEF FileNewer
<1> QED
  BY <1>7, <1>8, <1>11, <1>12 DEF FileFresh, FileNewer

-----------------------------------------------------------------------------
FileSettling == calm => FileQueued /\ FileSaving /\ FileNamed /\ FileFresh

LEMMA FileInitSettling == Manager!Init => FileSettling
<1> SUFFICES ASSUME Manager!Init PROVE FileQueued /\ FileSaving /\ FileNamed /\ FileFresh
  BY DEF FileSettling
<1> DEFINE first == CHOOSE t \in Slots : TRUE
           c == Manager!Call("default", <<>>, <<>>, <<>>, Manager!NoKey)
<1>1. calls = [t \in Slots |-> IF t = first THEN c ELSE Manager!NoCall] /\ order = <<>>
  BY DEF Manager!Init
<1>2. first \in Slots
  BY SlotsAssumption
<1>3. c # Manager!NoCall /\ c.kind = "default" /\ c.at = "sent"
  BY FileCallIs
<1> HIDE DEF first, c
<1>4. calls[first] = c /\ \A t \in Slots : calls[t] = c \/ calls[t] = Manager!NoCall
  BY <1>1, <1>2
<1>5. Len(order) = 0 /\ order \in Seq(Slots)
  BY <1>1, EmptySeq
<1>6. FileQueued
  BY <1>3, <1>4, <1>5 DEF FileQueued, Manager!NoCall
<1>7. FileSaving
  BY <1>3, <1>4 DEF FileSaving, FileWriting
<1>8. FileNamed
  <2>1. FilePlainDisk(server.fs)
    <3>1. PICK root, sudo : server = [fs |-> Tree, root |-> root, sudo |-> sudo]
      BY DEF Manager!Init
    <3> QED
      BY <3>1, FilesAssumption DEF FilePlainDisk, FilesOK
  <2>2. view.entries = {} /\ view.editor = Manager!NoEditor
    BY DEF Manager!Init
  <2>3. \A t \in Slots : FileNamedCall(calls[t])
    BY <1>3, <1>4 DEF FileNamedCall, FileRelists
  <2> QED
    BY <2>1, <2>2, <2>3 DEF FileNamed, FileListing
<1>9. FileUnderway
  BY <1>2, <1>3, <1>4 DEF FileUnderway, FileLists
<1> QED
  BY <1>6, <1>7, <1>8, <1>9 DEF FileFresh

LEMMA FileNextSettling ==
    ASSUME Pathed, FileSettling, ManagerStep
    PROVE  FileSettling'
<1>1. CASE UNCHANGED vars
  BY <1>1 DEF vars, FileSettling, FileQueued, FileSaving, FileWriting, FileNamed, FileNamedCall, FileFresh,
     FileCarried, FileAgrees, FileEntered, FilePlace, FileUnderway, FileNewer, FileWaiting
<1>2. CASE Manager!Next
  <2>1. calm' = calm
    BY <1>2, ManagerFixed DEF FileFixed
  <2> SUFFICES ASSUME calm' PROVE FileQueued' /\ FileSaving' /\ FileNamed' /\ FileFresh'
    BY DEF FileSettling
  <2>2. calm /\ FileQueued /\ FileSaving /\ FileNamed /\ FileFresh
    BY <2>1 DEF FileSettling
  <2> QED
    BY <1>2, <2>1, <2>2, FileCalmSteps, FileIdleNamed, FileIdleFresh, FileAsksNamed, FileAsksFresh,
       FileServeNamed, FileServeFresh,
       FileUploadsSettles, FileFollowsNamed, FileFollowsFresh
<1> QED
  BY <1>1, <1>2 DEF ManagerStep

LEMMA FileFreshSettles ==
    ASSUME calm, FileSettling
    PROVE  Manager!SettledViewIsTruth
<1> SUFFICES ASSUME Manager!Quiet, ~view.failed, ~view.half
             PROVE  view.entries = Manager!Entries(server.fs, view.path)
  BY DEF Manager!SettledViewIsTruth
<1>1. FileQueued /\ FileFresh
  BY DEF FileSettling
<1>2. Len(order) \in Nat /\ \A i \in 1..Len(order) : order[i] \in Slots /\ calls[order[i]].at = "answered"
  BY <1>1, FileQueueIs
<1>3. \A s \in Slots : calls[s].at # "answered"
  <2>1. Manager!NoCall.at # "answered"
    BY DEF Manager!NoCall
  <2> QED
    BY <2>1 DEF Manager!Quiet
<1>4. Len(order) = 0
  BY <1>2, <1>3
<1>5. ~FileUnderway
  BY DEF Manager!Quiet, FileUnderway, FileLists
<1>6. FileAgrees(0)
  BY <1>1, <1>4, <1>5 DEF FileFresh, FileCarried, FileNewer
<1> QED
  BY <1>6 DEF FileAgrees, FileEntered, FilePlace

-----------------------------------------------------------------------------
(***************************************************************************)
(* The shape of a request and of the view.                                 *)
(***************************************************************************)
PermIsCall(c) ==
    c \in [at : {"sent", "changed", "answered"}, kind : {c.kind}, of : {c.of}, value : {c.value},
           seen : {c.seen}, key : {c.key}, mounted : {TRUE, FALSE}, ok : {c.ok}, doc : {c.doc}]

PermIsView(v) ==
    v \in [health : {v.health}, lists : {v.lists}, listsLoading : {v.listsLoading},
           listsFailed : {v.listsFailed}, selected : {v.selected}, shown : {v.shown},
           loading : {v.loading}, failed : {v.failed}, busy : {v.busy}, recent : {v.recent},
           found : {v.found}, dialog : {v.dialog}]

\* A request whose answer would be shown in its panel.
PermShown(c) == c.mounted /\ c.kind \in {"load"} \union (Perms!Edits \ {"delete"})

(***************************************************************************)
(* A panel that waits for an answer is that of what is selected: when the  *)
(* selection changes, whoever changes it, the panel is unmounted.  (A      *)
(* dialog may outlive its panel, but the deletion it asks about shows      *)
(* nothing.)                                                               *)
(***************************************************************************)
Keyed ==
    /\ PermIsView(view)
    /\ view.dialog = Perms!NoCall \/ (PermIsCall(view.dialog) /\ view.dialog.kind \in {"create", "delete"})
    /\ calls = [s \in Slots |-> calls[s]]
    /\ \A s \in Slots : calls[s] = Perms!NoCall \/ PermIsCall(calls[s])
    /\ \A s \in Slots : calls[s] # Perms!NoCall /\ PermShown(calls[s]) => calls[s].of = view.selected
    /\ Perms!ShownIsSelected

LEMMA PermACall == \A c : PermIsCall(c) => c # Perms!NoCall
  BY DEF PermIsCall, Perms!NoCall

LEMMA PermNewCall ==
    ASSUME NEW kind, NEW e, NEW value, NEW key
    PROVE  LET c == Perms!Call(kind, e, value, key)
           IN  PermIsCall(c) /\ c.kind = kind /\ c.of = e
  BY DEF Perms!Call, PermIsCall

LEMMA PermSlotFree ==
    ASSUME NEW call, Perms!Send(call)
    PROVE  /\ Perms!FreeSlot \in Slots /\ calls[Perms!FreeSlot] = Perms!NoCall
           /\ calls' = [calls EXCEPT ![Perms!FreeSlot] = call]
  BY DEF Perms!Send, Perms!FreeSlot

-----------------------------------------------------------------------------
(* The kinds of steps. *)

\* A slot gets another content, about what is selected or not to be shown.
LEMMA PermSlotKeeps ==
    ASSUME Keyed, NEW s \in Slots, NEW next,
           next = Perms!NoCall \/ (PermIsCall(next) /\ (PermShown(next) => next.of = view.selected)),
           calls' = [calls EXCEPT ![s] = next],
           PermIsView(view'), view'.selected = view.selected,
           view'.dialog = view.dialog \/ view'.dialog = Perms!NoCall,
           view'.shown.of \in {None, view.selected}
    PROVE  Keyed'
<1>1. calls'[s] = next /\ \A t \in Slots : t # s => calls'[t] = calls[t]
  BY DEF Keyed
<1>2. /\ \A t \in Slots : calls'[t] = Perms!NoCall \/ PermIsCall(calls'[t])
      /\ \A t \in Slots : calls'[t] # Perms!NoCall /\ PermShown(calls'[t]) => calls'[t].of = view'.selected
  BY <1>1 DEF Keyed
<1>3. calls' = [t \in Slots |-> calls'[t]]
  BY DEF Keyed
<1>4. view'.dialog = Perms!NoCall \/ (PermIsCall(view'.dialog) /\ view'.dialog.kind \in {"create", "delete"})
  BY DEF Keyed
<1> QED
  BY <1>2, <1>3, <1>4 DEF Keyed, Perms!ShownIsSelected, PermShown

LEMMA PermSendKeeps ==
    ASSUME Keyed, NEW call, PermIsCall(call), PermShown(call) => call.of = view.selected, Perms!Send(call),
           PermIsView(view'), view'.selected = view.selected, view'.shown = view.shown,
           view'.dialog = view.dialog \/ view'.dialog = Perms!NoCall
    PROVE  Keyed'
<1>1. Perms!FreeSlot \in Slots /\ calls' = [calls EXCEPT ![Perms!FreeSlot] = call]
  BY PermSlotFree
<1>2. view'.shown.of \in {None, view.selected}
  BY DEF Keyed, Perms!ShownIsSelected
<1> QED
  BY <1>1, <1>2, PermSlotKeeps

\* The backend changes a request, and nothing it is about.
LEMMA PermBackendKeeps ==
    ASSUME Keyed, NEW s \in Slots, NEW next, PermIsCall(calls[s]), PermIsCall(next),
           next.kind = calls[s].kind, next.of = calls[s].of, next.mounted = calls[s].mounted,
           calls' = [calls EXCEPT ![s] = next], view' = view
    PROVE  Keyed'
<1>1. PermShown(next) => next.of = view.selected
  BY PermACall DEF Keyed, PermShown
<1> QED
  BY <1>1, PermSlotKeeps DEF Keyed, Perms!ShownIsSelected

\* Another panel is mounted, or none.
LEMMA PermPanelKeeps ==
    ASSUME Keyed, NEW s \in Slots, NEW e, NEW next,
           next = Perms!NoCall \/ (PermIsCall(next) /\ (PermShown(next) => next.of = e)),
           calls' = [t \in Slots |-> IF t = s THEN next ELSE Perms!Unmounted(t)],
           PermIsView(view'), view'.selected = e, view'.shown = Perms!NothingShown,
           view'.dialog = view.dialog
    PROVE  Keyed'
<1>1. \A t \in Slots : \/ Perms!Unmounted(t) = Perms!NoCall
                       \/ PermIsCall(Perms!Unmounted(t)) /\ ~PermShown(Perms!Unmounted(t))
  <2> SUFFICES ASSUME NEW t \in Slots, calls[t] # Perms!NoCall
               PROVE  PermIsCall(Perms!Unmounted(t)) /\ ~PermShown(Perms!Unmounted(t))
    BY DEF Perms!Unmounted
  <2>1. PermIsCall(calls[t])
    BY DEF Keyed
  <2>2. CASE calls[t].kind \notin Perms!Edits \union {"load", "search", "browse"}
    BY <2>1, <2>2 DEF Perms!Unmounted, PermShown
  <2>3. CASE calls[t].kind \in Perms!Edits \union {"load", "search", "browse"}
    <3>1. Perms!Unmounted(t) = [calls[t] EXCEPT !.mounted = FALSE]
      BY <2>3 DEF Perms!Unmounted
    <3>2. PermIsCall([calls[t] EXCEPT !.mounted = FALSE]) /\ ~[calls[t] EXCEPT !.mounted = FALSE].mounted
      BY <2>1 DEF PermIsCall
    <3> QED
      BY <3>1, <3>2 DEF PermShown
  <2> QED
    BY <2>2, <2>3
<1>2. \A t \in Slots : calls'[t] = IF t = s THEN next ELSE Perms!Unmounted(t)
  OBVIOUS
<1>3. /\ \A t \in Slots : calls'[t] = Perms!NoCall \/ PermIsCall(calls'[t])
      /\ \A t \in Slots : calls'[t] # Perms!NoCall /\ PermShown(calls'[t]) => calls'[t].of = view'.selected
  BY <1>1, <1>2
<1>4. calls' = [t \in Slots |-> calls'[t]]
  OBVIOUS
<1>5. Perms!ShownIsSelected'
  BY DEF Perms!ShownIsSelected, Perms!NothingShown
<1>6. view'.dialog = Perms!NoCall \/ (PermIsCall(view'.dialog) /\ view'.dialog.kind \in {"create", "delete"})
  BY DEF Keyed
<1> QED
  BY <1>3, <1>4, <1>5, <1>6 DEF Keyed, PermShown

\* setSelected().
LEMMA PermMountKeeps ==
    ASSUME Keyed, NEW s \in Slots, NEW e, NEW v, PermIsView(v), v.dialog = view.dialog,
           view' = Perms!Panel(v, e), Perms!Mounts(e, s)
    PROVE  Keyed'
<1> DEFINE next == IF e \in Perms!Entities THEN Perms!Call("load", e, Gone, "none")
                   ELSE IF e = "browse" THEN Perms!Browse ELSE Perms!NoCall
<1>1. next = Perms!NoCall \/ (PermIsCall(next) /\ (PermShown(next) => next.of = e))
  BY PermNewCall DEF Perms!Browse, PermShown, Perms!Edits
<1>2. calls' = [t \in Slots |-> IF t = s THEN next ELSE Perms!Unmounted(t)]
  BY DEF Perms!Mounts
<1>3. /\ PermIsView(view') /\ view'.selected = e /\ view'.shown = Perms!NothingShown
      /\ view'.dialog = view.dialog
  BY DEF Perms!Panel, PermIsView
<1> HIDE DEF next
<1> QED
  BY <1>1, <1>2, <1>3, PermPanelKeeps

-----------------------------------------------------------------------------
(* What the user does. *)

LEMMA PermBeginsKeeps ==
    ASSUME Keyed, NEW call, PermIsCall(call), PermShown(call) => call.of = view.selected, Perms!Begins(call)
    PROVE  Keyed'
<1>1. /\ Perms!Send(call)
      /\ view' = [view EXCEPT !.busy = view.busy \union ({call.key} \ {"none"})]
  BY DEF Perms!Begins
<1>2. /\ PermIsView(view') /\ view'.selected = view.selected /\ view'.shown = view.shown
      /\ view'.dialog = view.dialog
  BY <1>1 DEF Keyed, PermIsView
<1> QED
  BY <1>1, <1>2, PermSendKeeps

\* What a panel asks is about what is open.
LEMMA PermOpenKeeps ==
    ASSUME Keyed, NEW kind, NEW e, NEW value, NEW key, Perms!Open(e),
           Perms!Begins(Perms!Call(kind, e, value, key))
    PROVE  Keyed'
<1>1. PermIsCall(Perms!Call(kind, e, value, key)) /\ Perms!Call(kind, e, value, key).of = view.selected
  BY PermNewCall DEF Perms!Open
<1> QED
  BY <1>1, PermBeginsKeeps

LEMMA PermOpenSeenKeeps ==
    ASSUME Keyed, NEW kind, NEW e, NEW value, NEW key, NEW seen, Perms!Open(e),
           Perms!Begins([Perms!Call(kind, e, value, key) EXCEPT !.seen = seen])
    PROVE  Keyed'
<1> DEFINE call == [Perms!Call(kind, e, value, key) EXCEPT !.seen = seen]
<1>1. PermIsCall(call) /\ call.of = view.selected
  BY DEF Perms!Open, Perms!Call, PermIsCall
<1> QED
  BY <1>1, PermBeginsKeeps

LEMMA PermAskKeeps ==
    ASSUME Keyed, NEW call, call = Perms!NoCall \/ (PermIsCall(call) /\ call.kind \in {"create", "delete"}),
           Perms!Shows([view EXCEPT !.dialog = call])
    PROVE  Keyed'
<1>1. calls' = calls /\ view' = [view EXCEPT !.dialog = call]
  BY DEF Perms!Shows
<1>2. /\ PermIsView(view') /\ view'.selected = view.selected /\ view'.shown = view.shown
      /\ view'.dialog = call
  BY <1>1 DEF Keyed, PermIsView
<1> QED
  BY <1>1, <1>2 DEF Keyed, Perms!ShownIsSelected, PermShown

LEMMA PermUserKeeps ==
    ASSUME Keyed, \/ Perms!Select \/ Perms!EditNodes \/ Perms!SaveWeight \/ Perms!SaveDisplayName \/ Perms!EditTrack \/ Perms!MoveUser \/ Perms!Lookup
                  \/ Perms!Search \/ Perms!AskName \/ Perms!DeleteGroup \/ Perms!DeleteTrack \/ Perms!Answered
                       \/ Perms!Retry
    PROVE  Keyed'
<1>1. CASE Perms!Select
  <2>1. PICK e : Perms!Mounts(e, Perms!FreeSlot) /\ view' = Perms!Panel(view, e)
          /\ \E s \in Slots : calls[s] = Perms!NoCall
    BY <1>1 DEF Perms!Select
  <2>2. Perms!FreeSlot \in Slots
    BY <2>1 DEF Perms!FreeSlot
  <2> QED
    BY <2>1, <2>2, PermMountKeeps DEF Keyed
<1>2. CASE Perms!EditNodes
  BY <1>2, PermOpenKeeps
     DEF Perms!EditNodes, Perms!PermissionsPanel, Perms!ChatMetaPanel, Perms!MetaPanel, Perms!ParentsPanel,
     Perms!AddNode, Perms!RemoveNode
<1>3. ASSUME NEW key, NEW those, Perms!SaveInfo(key, those) PROVE Keyed'
  BY <1>3, PermOpenKeeps, PermOpenSeenKeeps DEF Perms!SaveInfo
<1>4. CASE Perms!EditTrack
  BY <1>4, PermOpenSeenKeeps DEF Perms!EditTrack
<1>5. CASE Perms!MoveUser
  BY <1>5, PermOpenKeeps DEF Perms!MoveUser
<1>6. CASE Perms!Lookup \/ Perms!Search
  <2>1. PICK kind \in {"lookup", "search"} : Perms!Begins(Perms!Call(kind, User, Gone, kind))
    BY <1>6 DEF Perms!Lookup, Perms!Search
  <2>2. PermIsCall(Perms!Call(kind, User, Gone, kind)) /\ ~PermShown(Perms!Call(kind, User, Gone, kind))
    BY PermNewCall DEF PermShown, Perms!Edits
  <2> QED
    BY <2>1, <2>2, PermBeginsKeeps
<1>7. CASE Perms!AskName \/ Perms!DeleteGroup \/ Perms!DeleteTrack
  <2>1. PICK kind, e, key :
          /\ kind \in {"create", "delete"}
          /\ Perms!Shows([view EXCEPT !.dialog = Perms!Call(kind, e, Gone, key)])
    BY <1>7 DEF Perms!AskName, Perms!DeleteGroup, Perms!DeleteTrack, Perms!AskDelete
  <2>2. /\ PermIsCall(Perms!Call(kind, e, Gone, key))
        /\ Perms!Call(kind, e, Gone, key).kind \in {"create", "delete"}
    BY <2>1, PermNewCall
  <2> QED
    BY <2>1, <2>2, PermAskKeeps
<1>8. CASE Perms!Answered
  <2>1. CASE Perms!Shows([view EXCEPT !.dialog = Perms!NoCall])
    BY <2>1, PermAskKeeps
  <2>2. CASE ~Perms!Shows([view EXCEPT !.dialog = Perms!NoCall])
    <3>1. /\ Perms!Send(view.dialog)
          /\ view' = [view EXCEPT !.dialog = Perms!NoCall,
                                  !.busy = view.busy \union ({view.dialog.key} \ {"none"})]
          /\ view.dialog # Perms!NoCall
      BY <1>8, <2>2 DEF Perms!Answered
    <3>2. PermIsCall(view.dialog) /\ ~PermShown(view.dialog)
      BY <3>1 DEF Keyed, PermShown, Perms!Edits
    <3>3. /\ PermIsView(view') /\ view'.selected = view.selected /\ view'.shown = view.shown
          /\ view'.dialog = Perms!NoCall
      BY <3>1 DEF Keyed, PermIsView
    <3> QED
      BY <3>1, <3>2, <3>3, PermSendKeeps
  <2> QED
    BY <2>1, <2>2
<1>9. CASE Perms!Retry
  <2>1. PICK call \in {Perms!Call("health", User, Gone, "none"), Perms!Lists} :
          /\ Perms!Send(call)
          /\ \/ view' = [view EXCEPT !.health = "checking"]
             \/ view' = [view EXCEPT !.listsLoading = TRUE, !.listsFailed = FALSE]
    BY <1>9 DEF Perms!Retry
  <2>2. PermIsCall(call) /\ ~PermShown(call)
    BY PermNewCall DEF Perms!Lists, PermShown, Perms!Edits
  <2>3. /\ PermIsView(view') /\ view'.selected = view.selected /\ view'.shown = view.shown
        /\ view'.dialog = view.dialog
    BY <2>1 DEF Keyed, PermIsView
  <2> QED
    BY <2>1, <2>2, <2>3, PermSendKeeps
<1> QED
  BY <1>1, <1>2, <1>3, <1>4, <1>5, <1>6, <1>7, <1>8, <1>9 DEF Perms!SaveWeight, Perms!SaveDisplayName

-----------------------------------------------------------------------------
(* What the backend does. *)

LEMMA PermServeKeeps ==
    ASSUME Keyed, NEW s \in Slots, Perms!Change(s) \/ Perms!Serve(s) \/ Perms!Fail(s)
    PROVE  Keyed'
<1>1. CASE Perms!Change(s)
  <2>1. /\ PermIsCall(calls[s]) /\ view' = view
        /\ calls' = [calls EXCEPT ![s] = [calls[s] EXCEPT !.at = "changed"]]
    BY <1>1 DEF Perms!Change, Keyed, Perms!NoCall
  <2>2. LET next == [calls[s] EXCEPT !.at = "changed"]
        IN  /\ PermIsCall(next) /\ next.kind = calls[s].kind
            /\ next.of = calls[s].of /\ next.mounted = calls[s].mounted
    BY <2>1 DEF PermIsCall
  <2> QED
    BY <2>1, <2>2, PermBackendKeeps
<1>2. CASE Perms!Serve(s) \/ Perms!Fail(s)
  <2>1. PICK ok, doc : Perms!Answer(s, ok, doc)
    BY <1>2 DEF Perms!Serve, Perms!Fail
  <2>2. PermIsCall(calls[s])
    <3>1. calls[s].at \in {"sent", "changed"}
      BY <1>2 DEF Perms!Serve, Perms!Fail
    <3>2. calls[s] # Perms!NoCall
      BY <3>1 DEF Perms!NoCall
    <3> QED
      BY <3>2 DEF Keyed
  <2>3. /\ view' = view
        /\ calls' = [calls EXCEPT ![s] =
                       [calls[s] EXCEPT !.at = "answered", !.ok = ok, !.doc = doc]]
    BY <2>1 DEF Perms!Answer
  <2>4. LET next == [calls[s] EXCEPT !.at = "answered", !.ok = ok, !.doc = doc]
        IN  /\ PermIsCall(next) /\ next.kind = calls[s].kind
            /\ next.of = calls[s].of /\ next.mounted = calls[s].mounted
    BY <2>2 DEF PermIsCall
  <2> QED
    BY <2>2, <2>3, <2>4, PermBackendKeeps
<1> QED
  BY <1>1, <1>2

-----------------------------------------------------------------------------
(* What the answers do. *)

\* The handler ends or goes on, and the same panel stays.
LEMMA PermArrivesKeeps ==
    ASSUME Keyed, NEW s \in Slots, NEW next,
           next = Perms!NoCall \/ (PermIsCall(next) /\ (PermShown(next) => next.of = view.selected)),
           Perms!Continues(s, next), PermIsView(view'), view'.selected = view.selected,
           view'.dialog = view.dialog, view'.shown.of \in {None, view.selected}
    PROVE  Keyed'
<1>1. calls' = [calls EXCEPT ![s] = next]
  BY DEF Perms!Continues
<1> QED
  BY <1>1, PermSlotKeeps

\* What is shown stays, too.
LEMMA PermSameKeeps ==
    ASSUME Keyed, NEW s \in Slots, NEW next,
           next = Perms!NoCall \/ (PermIsCall(next) /\ ~PermShown(next)),
           Perms!Continues(s, next), PermIsView(view'), view'.selected = view.selected,
           view'.dialog = view.dialog, view'.shown = view.shown
    PROVE  Keyed'
<1>1. view'.shown.of \in {None, view.selected}
  BY DEF Keyed, Perms!ShownIsSelected
<1> QED
  BY <1>1, PermArrivesKeeps

LEMMA PermFreedView ==
    ASSUME Keyed, NEW c
    PROVE  /\ PermIsView(Perms!Freed(c)) /\ Perms!Freed(c).selected = view.selected
           /\ Perms!Freed(c).dialog = view.dialog /\ Perms!Freed(c).shown = view.shown
  BY DEF Keyed, PermIsView, Perms!Freed

\* An answer in a slot is that of a request.
LEMMA PermAnsweredCall ==
    ASSUME Keyed, NEW s \in Slots, Perms!Arrives(s)
    PROVE  PermIsCall(calls[s]) /\ calls[s] # Perms!NoCall
<1>1. calls[s].at = "answered"
  BY DEF Perms!Arrives
<1>2. calls[s] # Perms!NoCall
  BY <1>1 DEF Perms!NoCall
<1> QED
  BY <1>2 DEF Keyed

LEMMA PermPlainKeeps ==
    ASSUME Keyed, NEW s \in Slots, Perms!Arrives(s),
           Perms!HealthArrives(s) \/ Perms!SearchArrives(s) \/ Perms!BrowseArrives(s) \/ Perms!CreateArrives(s)
    PROVE  Keyed'
<1>1. /\ PermIsView(view') /\ view'.selected = view.selected
      /\ view'.dialog = view.dialog /\ view'.shown = view.shown
  <2>1. CASE Perms!HealthArrives(s)
    BY <2>1 DEF Perms!HealthArrives, Keyed, PermIsView
  <2>2. CASE Perms!SearchArrives(s)
    BY <2>2 DEF Perms!SearchArrives, Perms!Freed, Keyed, PermIsView
  <2>3. CASE Perms!BrowseArrives(s)
    BY <2>3 DEF Perms!BrowseArrives, Keyed, PermIsView
  <2>4. CASE Perms!CreateArrives(s)
    BY <2>4 DEF Perms!CreateArrives, Keyed, PermIsView
  <2> QED
    BY <2>1, <2>2, <2>3, <2>4
<1>2. PICK next \in {Perms!NoCall, Perms!Lists, [Perms!Lists EXCEPT !.value = calls[s].of]} : Perms!Continues(s, next)
  BY DEF Perms!HealthArrives, Perms!SearchArrives, Perms!BrowseArrives, Perms!CreateArrives, Perms!Ends,
     Perms!Continues
<1>3. next = Perms!NoCall \/ (PermIsCall(next) /\ ~PermShown(next))
  <2>1. /\ PermIsCall(Perms!Lists) /\ ~PermShown(Perms!Lists)
        /\ PermIsCall([Perms!Lists EXCEPT !.value = calls[s].of])
        /\ ~PermShown([Perms!Lists EXCEPT !.value = calls[s].of])
    BY DEF Perms!Lists, Perms!Call, PermIsCall, PermShown, Perms!Edits
  <2> QED
    BY <1>2, <2>1
<1> QED
  BY <1>1, <1>2, <1>3, PermSameKeeps

LEMMA PermPanelAnswerKeeps ==
    ASSUME Keyed, NEW s \in Slots, Perms!Arrives(s),
           Perms!LoadArrives(s) \/ Perms!EditArrives(s) \/ Perms!InfoArrives(s)
    PROVE  Keyed'
<1> DEFINE c == calls[s]
           answer == [of |-> c.of, doc |-> c.doc]
<1>1. PermIsCall(c) /\ c # Perms!NoCall
  BY PermAnsweredCall
<1>2. c.mounted => c.of = view.selected
  <2>1. c.kind \in {"load"} \union (Perms!Edits \ {"delete"})
    BY DEF Perms!LoadArrives, Perms!EditArrives, Perms!InfoArrives, Perms!Edits
  <2> QED
    BY <1>1, <2>1 DEF Keyed, PermShown
<1>3. /\ PermIsView(view') /\ view'.selected = view.selected /\ view'.dialog = view.dialog
      /\ view'.shown = view.shown \/ (c.mounted /\ view'.shown = answer)
  <2>1. CASE Perms!LoadArrives(s)
    BY <2>1 DEF Perms!LoadArrives, Keyed, PermIsView
  <2>2. CASE Perms!EditArrives(s)
    BY <2>2, PermFreedView DEF Perms!EditArrives, Perms!Freed, Keyed, PermIsView
  <2>3. CASE Perms!InfoArrives(s)
    BY <2>3, PermFreedView DEF Perms!InfoArrives, Perms!Freed, Keyed, PermIsView
  <2> QED
    BY <2>1, <2>2, <2>3
<1>4. view'.shown.of \in {None, view.selected}
  BY <1>2, <1>3 DEF Keyed, Perms!ShownIsSelected
<1>5. PICK next \in {Perms!NoCall, [c EXCEPT !.kind = "add", !.at = "sent"]} : Perms!Continues(s, next)
  BY DEF Perms!LoadArrives, Perms!EditArrives, Perms!InfoArrives, Perms!Ends, Perms!Continues
<1>6. next = Perms!NoCall \/ (PermIsCall(next) /\ (PermShown(next) => next.of = view.selected))
  BY <1>1, <1>2, <1>5 DEF PermIsCall, PermShown
<1> HIDE DEF c
<1> QED
  BY <1>3, <1>4, <1>5, <1>6, PermArrivesKeeps

LEMMA PermListsKeeps ==
    ASSUME Keyed, NEW s \in Slots, Perms!ListsArrive(s)
    PROVE  Keyed'
<1> DEFINE c == calls[s]
<1>1. PICK listed :
        /\ PermIsView(listed) /\ listed.selected = view.selected
        /\ listed.dialog = view.dialog /\ listed.shown = view.shown
        /\ \/ view' = listed /\ Perms!Ends(s)
           \/ view' = Perms!Panel(listed, c.value) /\ Perms!Mounts(c.value, s)
  <2> DEFINE l == [view EXCEPT !.listsLoading = FALSE, !.listsFailed = @ \/ ~c.ok,
                               !.lists = IF c.ok THEN c.doc ELSE @,
                               !.busy = IF c.ok THEN @ ELSE @ \ {"lookup"},
                               !.recent = IF c.ok THEN @ ELSE {}]
  <2>1. /\ PermIsView(l) /\ l.selected = view.selected
        /\ l.dialog = view.dialog /\ l.shown = view.shown
    BY DEF Keyed, PermIsView
  <2>2. \/ view' = l /\ Perms!Ends(s)
        \/ view' = Perms!Panel(l, c.value) /\ Perms!Mounts(c.value, s)
    BY DEF Perms!ListsArrive
  <2> HIDE DEF l
  <2> QED
    BY <2>1, <2>2
<1>2. CASE view' = listed /\ Perms!Ends(s)
  BY <1>1, <1>2, PermSameKeeps DEF Perms!Ends, Perms!Continues
<1>3. CASE view' = Perms!Panel(listed, c.value) /\ Perms!Mounts(c.value, s)
  BY <1>1, <1>3, PermMountKeeps
<1> QED
  BY <1>1, <1>2, <1>3

LEMMA PermLookupKeeps ==
    ASSUME Keyed, NEW s \in Slots, Perms!LookupArrives(s)
    PROVE  Keyed'
<1> DEFINE v == Perms!Remembered(calls[s])
<1>0. PermIsView(v) /\ v.dialog = view.dialog /\ v.selected = view.selected /\ v.shown = view.shown
  BY DEF Perms!Remembered, Perms!Freed, Keyed, PermIsView
<1> HIDE DEF v
<1>1. CASE view' = Perms!Panel(v, User) /\ Perms!Mounts(User, s)
  BY <1>0, <1>1, PermMountKeeps
<1>2. CASE view' = v /\ Perms!Ends(s)
  BY <1>0, <1>2, PermSameKeeps DEF Perms!Ends, Perms!Continues
<1> QED
  BY <1>1, <1>2 DEF Perms!LookupArrives, v

LEMMA PermDeletionKeeps ==
    ASSUME Keyed, NEW s \in Slots, Perms!DeleteArrives(s)
    PROVE  Keyed'
<1>1. CASE calls[s].ok
  <2>1. PermIsCall(Perms!Lists) /\ ~PermShown(Perms!Lists)
    BY PermNewCall DEF Perms!Lists, PermShown, Perms!Edits
  <2>2. calls' = [t \in Slots |-> IF t = s THEN Perms!Lists ELSE Perms!Unmounted(t)]
    BY <1>1 DEF Perms!DeleteArrives
  <2>3. /\ PermIsView(view') /\ view'.selected = None /\ view'.shown = Perms!NothingShown
        /\ view'.dialog = view.dialog
    BY <1>1 DEF Perms!DeleteArrives, Perms!Panel, Keyed, PermIsView
  <2> QED
    BY <2>1, <2>2, <2>3, PermPanelKeeps
<1>2. CASE ~calls[s].ok
  <2>1. view' = view \/ view' = Perms!Freed(calls[s])
    BY <1>2 DEF Perms!DeleteArrives
  <2>2. Perms!Continues(s, Perms!NoCall)
    BY <1>2 DEF Perms!DeleteArrives, Perms!Ends, Perms!Continues
  <2>3. /\ PermIsView(view') /\ view'.selected = view.selected
        /\ view'.dialog = view.dialog /\ view'.shown = view.shown
    BY <2>1, PermFreedView DEF Keyed
  <2> QED
    BY <2>2, <2>3, PermSameKeeps
<1> QED
  BY <1>1, <1>2

-----------------------------------------------------------------------------
LEMMA PermInitKeyed == Perms!Init => Keyed
<1> SUFFICES ASSUME Perms!Init PROVE Keyed
  OBVIOUS
<1> DEFINE health == Perms!Call("health", User, Gone, "none")
<1>1. PermIsView(view) /\ view.dialog = Perms!NoCall /\ view.shown = Perms!NothingShown
  BY DEF Perms!Init, PermIsView
<1>2. PICK s : calls = [t \in Slots |-> IF t = s THEN health ELSE Perms!NoCall]
  BY DEF Perms!Init
<1>3. PermIsCall(health) /\ ~PermShown(health)
  BY PermNewCall DEF PermShown, Perms!Edits
<1> HIDE DEF health
<1>4. \A t \in Slots : calls[t] = Perms!NoCall \/ (PermIsCall(calls[t]) /\ ~PermShown(calls[t]))
  BY <1>2, <1>3
<1> QED
  BY <1>1, <1>2, <1>4 DEF Keyed, Perms!ShownIsSelected, Perms!NothingShown

LEMMA PermNextKeyed == Keyed /\ PermsStep => Keyed'
<1> SUFFICES ASSUME Keyed, PermsStep PROVE Keyed'
  OBVIOUS
<1>1. CASE Perms!Elsewhere \/ UNCHANGED vars
  <2>1. calls' = calls /\ view' = view
    BY <1>1 DEF Perms!Elsewhere, vars
  <2> QED
    BY <2>1 DEF Keyed, Perms!ShownIsSelected
<1>2. ASSUME NEW s \in Slots, Perms!Deliver(s) PROVE Keyed'
  <2>1. Perms!Arrives(s)
    BY <1>2 DEF Perms!Deliver
  <2> QED
    BY <1>2, <2>1, PermPlainKeeps, PermPanelAnswerKeeps, PermListsKeeps, PermLookupKeeps,
       PermDeletionKeeps DEF Perms!Deliver
<1> QED
  BY <1>1, <1>2, PermUserKeeps, PermServeKeeps DEF Perms!Next, PermsStep

-----------------------------------------------------------------------------
(* Types. *)

PermKeys == {"none", "track", "weight", "title", "move", "delete", "lookup", "search"}

(***************************************************************************)
(* What is asked about is something a panel of its kind can ask about: a   *)
(* list of groups is for the track, a weight or a display name for a       *)
(* group, and the user is neither created nor deleted.                     *)
(***************************************************************************)
PermAsked(c) ==
    /\ PermIsCall(c) /\ c.of \in Perms!Entities /\ c.key \in PermKeys
    /\ c.kind = "add" => c.of # Track /\ c.value \in Perms!Nodes(c.of)
    /\ c.kind = "remove" => c.of # Track
    /\ c.kind = "weight" => c.of \in Groups /\ c.value \in Weights
    /\ c.kind = "title" => c.of \in Groups /\ c.value \in Titles
    /\ c.kind = "set" => c.of = Track /\ c.value \in Seq(Groups)
    /\ c.kind = "move" => c.of = User
    /\ c.kind \in {"create", "delete"} => c.of # User
    /\ c.kind = "lists" => c.value = Gone \/ c.value \in Perms!Entities

\* What an answer carries: what there is, or what there is of one of them.
PermTold(c) ==
    /\ c.kind = "lists" => c.doc \subseteq Groups \union {Track}
    /\ c.kind \in {"search", "browse"} => c.doc \subseteq Perms!Entities
    /\ c.kind \in {"load"} \union (Perms!Edits \ {"delete"}) => c.doc # Gone /\ Perms!IsDoc(c.of, c.doc)
PermCallFits(c) == PermAsked(c) /\ (c.at = "answered" /\ c.ok => PermTold(c))

\* A panel that is neither loading nor failed shows something.
PermPanelFits(v) ==
    /\ v.selected \in Perms!Entities \union {None, "search", "browse"}
    /\ v.shown.of \in Perms!Entities => Perms!IsDoc(v.shown.of, v.shown.doc)
    /\ v.selected \in Perms!Entities /\ ~v.loading /\ ~v.failed => v.shown.of = v.selected /\ v.shown.doc # Gone
PermSidebarFits(v) ==
    /\ v.health \in {"checking", "unset", "down", "up"}
    /\ v.lists \subseteq Groups \union {Track} /\ v.recent \subseteq Perms!Entities
    /\ v.found \subseteq Perms!Entities
    /\ v.busy \subseteq PermKeys \ {"none"}
PermViewFits(v) == PermIsView(v) /\ PermPanelFits(v) /\ PermSidebarFits(v)

PermStored == server = [e \in Perms!Entities |-> server[e]]
  /\ \A e \in Perms!Entities : Perms!IsDoc(e, server[e])

PermTyped ==
    /\ PermStored /\ PermViewFits(view)
    /\ view.dialog # Perms!NoCall => PermAsked(view.dialog) /\ view.dialog.at = "sent"
    /\ \A s \in Slots : calls[s] # Perms!NoCall => PermCallFits(calls[s])

LEMMA PermTypedTypes == PermTyped => Perms!TypeOK
  BY DEF PermTyped, PermStored, PermViewFits, PermPanelFits, PermSidebarFits, Perms!TypeOK, PermKeys

-----------------------------------------------------------------------------
\* A slot gets another content.
LEMMA PermSlotTyped ==
    ASSUME Keyed, PermTyped, NEW s \in Slots, NEW next, next = Perms!NoCall \/ PermCallFits(next),
           calls' = [calls EXCEPT ![s] = next], PermStored', PermViewFits(view'),
           view'.dialog = view.dialog \/ view'.dialog = Perms!NoCall
    PROVE  PermTyped'
<1>1. \A t \in Slots : calls'[t] = IF t = s THEN next ELSE calls[t]
  BY DEF Keyed
<1>2. \A t \in Slots : calls'[t] # Perms!NoCall => PermCallFits(calls'[t])
  BY <1>1 DEF PermTyped
<1>3. view'.dialog # Perms!NoCall => PermAsked(view'.dialog) /\ view'.dialog.at = "sent"
  BY DEF PermTyped
<1> QED
  BY <1>2, <1>3 DEF PermTyped, PermAsked, PermCallFits, PermTold

\* The view of another panel.
LEMMA PermPanelTyped ==
    ASSUME NEW v, PermViewFits(v), NEW e \in Perms!Entities \union {None, "search", "browse"}
    PROVE  PermViewFits(Perms!Panel(v, e)) /\ Perms!Panel(v, e).dialog = v.dialog
<1> DEFINE new == [v EXCEPT !.selected = e, !.shown = Perms!NothingShown, !.loading = e \in Perms!Entities, !.failed = FALSE,
                            !.busy = v.busy \intersect {"lookup"}, !.found = {}]
<1>1. Perms!Panel(v, e) = new
  BY DEF Perms!Panel
<1>2. /\ PermIsView(new) /\ new.dialog = v.dialog
      /\ new.selected = e /\ new.shown = Perms!NothingShown /\ new.loading = (e \in Perms!Entities)
      /\ new.health = v.health /\ new.lists = v.lists /\ new.recent = v.recent /\ new.found = {}
      /\ new.busy = v.busy \intersect {"lookup"}
  BY DEF PermViewFits, PermIsView
<1> HIDE DEF new
<1>3. PermSidebarFits(new)
  BY <1>2 DEF PermViewFits, PermSidebarFits
<1>4. PermPanelFits(new)
  <2>1. new.shown.doc = Gone
    BY <1>2 DEF Perms!NothingShown
  <2>2. e \in Perms!Entities => new.loading
    BY <1>2
  <2> QED
    BY <1>2, <2>1, <2>2 DEF PermPanelFits, Perms!IsDoc
<1> QED
  BY <1>1, <1>2, <1>3, <1>4 DEF PermViewFits

\* What is left of an old panel's requests.
LEMMA PermUnmountedFits ==
    ASSUME Keyed, PermTyped, NEW t \in Slots
    PROVE  Perms!Unmounted(t) = Perms!NoCall \/ PermCallFits(Perms!Unmounted(t))
<1>1. CASE Perms!Unmounted(t) = calls[t]
  BY <1>1 DEF PermTyped
<1>2. CASE Perms!Unmounted(t) # calls[t]
  <2>1. calls[t] # Perms!NoCall /\ Perms!Unmounted(t) = [calls[t] EXCEPT !.mounted = FALSE]
    BY <1>2 DEF Perms!Unmounted
  <2>2. PermCallFits(calls[t]) /\ PermIsCall(calls[t])
    BY <2>1 DEF PermTyped, PermCallFits, PermAsked
  <2> DEFINE c == calls[t]
             new == [calls[t] EXCEPT !.mounted = FALSE]
  <2>3. /\ PermIsCall(new) /\ new.kind = c.kind /\ new.of = c.of /\ new.value = c.value /\ new.key = c.key
        /\ new.at = c.at /\ new.ok = c.ok /\ new.doc = c.doc
    BY <2>2 DEF PermIsCall
  <2> HIDE DEF new
  <2>4. PermCallFits(new)
    BY <2>2, <2>3 DEF PermCallFits, PermAsked, PermTold
  <2> QED
    BY <2>1, <2>4 DEF new
<1> QED
  BY <1>1, <1>2

LEMMA PermMountTyped ==
    ASSUME Keyed, PermTyped, NEW s \in Slots, NEW e \in Perms!Entities \union {None, "search", "browse"},
           NEW next,
           next = Perms!NoCall \/ PermCallFits(next),
           calls' = [t \in Slots |-> IF t = s THEN next ELSE Perms!Unmounted(t)],
           PermStored', PermViewFits(view'), view'.dialog = view.dialog
    PROVE  PermTyped'
<1>1. \A t \in Slots : calls'[t] = IF t = s THEN next ELSE Perms!Unmounted(t)
  OBVIOUS
<1>2. \A t \in Slots : calls'[t] # Perms!NoCall => PermCallFits(calls'[t])
  BY <1>1, PermUnmountedFits
<1> QED
  BY <1>2 DEF PermTyped, PermAsked, PermCallFits, PermTold

\* A request that leaves.
PermAskable(kind, e, value, key) ==
    /\ e \in Perms!Entities /\ key \in PermKeys
    /\ kind = "add" => e # Track /\ value \in Perms!Nodes(e)
    /\ kind = "remove" => e # Track
    /\ kind = "weight" => e \in Groups /\ value \in Weights
    /\ kind = "title" => e \in Groups /\ value \in Titles
    /\ kind = "set" => e = Track /\ value \in Seq(Groups)
    /\ kind = "move" => e = User
    /\ kind \in {"create", "delete"} => e # User
    /\ kind = "lists" => value = Gone \/ value \in Perms!Entities

LEMMA PermNewAsked ==
    ASSUME NEW kind, NEW e, NEW value, NEW key, PermAskable(kind, e, value, key)
    PROVE  PermAsked(Perms!Call(kind, e, value, key)) /\ Perms!Call(kind, e, value, key).at = "sent"
<1> DEFINE c == Perms!Call(kind, e, value, key)
<1>1. PermIsCall(c) /\ c.kind = kind /\ c.of = e /\ c.value = value /\ c.key = key /\ c.at = "sent"
  BY DEF Perms!Call, PermIsCall
<1> HIDE DEF c
<1>2. PermAsked(c)
  BY <1>1 DEF PermAsked, PermAskable
<1> QED
  BY <1>1, <1>2 DEF c

LEMMA PermSeenAsked ==
    ASSUME NEW kind, NEW e, NEW value, NEW key, PermAskable(kind, e, value, key), NEW seen
    PROVE  /\ PermAsked([Perms!Call(kind, e, value, key) EXCEPT !.seen = seen])
           /\ [Perms!Call(kind, e, value, key) EXCEPT !.seen = seen].at = "sent"
<1> DEFINE c == [Perms!Call(kind, e, value, key) EXCEPT !.seen = seen]
<1>1. PermIsCall(c) /\ c.kind = kind /\ c.of = e /\ c.value = value /\ c.key = key /\ c.at = "sent"
  BY DEF Perms!Call, PermIsCall
<1> HIDE DEF c
<1>2. PermAsked(c)
  BY <1>1 DEF PermAsked, PermAskable
<1> QED
  BY <1>1, <1>2 DEF c

LEMMA PermMountsTyped ==
    ASSUME Keyed, PermTyped, NEW s \in Slots, NEW e \in Perms!Entities \union {None, "search", "browse"},
           NEW v, PermViewFits(v), v.dialog = view.dialog, view' = Perms!Panel(v, e), Perms!Mounts(e, s),
           PermStored'
    PROVE  PermTyped'
<1> DEFINE next == IF e \in Perms!Entities THEN Perms!Call("load", e, Gone, "none")
                   ELSE IF e = "browse" THEN Perms!Browse ELSE Perms!NoCall
<1>1. next = Perms!NoCall \/ PermCallFits(next)
  <2>1. e \in Perms!Entities => PermCallFits(Perms!Call("load", e, Gone, "none"))
    BY PermNewAsked DEF PermCallFits, PermKeys, PermAskable
  <2>2. PermCallFits(Perms!Browse)
    BY PermNewAsked DEF PermCallFits, PermKeys, Perms!Browse, Perms!Entities, PermAskable
  <2> QED
    BY <2>1, <2>2
<1>2. calls' = [t \in Slots |-> IF t = s THEN next ELSE Perms!Unmounted(t)]
  BY DEF Perms!Mounts
<1>3. PermViewFits(view') /\ view'.dialog = view.dialog
  BY PermPanelTyped
<1> HIDE DEF next
<1> QED
  BY <1>1, <1>2, <1>3, PermMountTyped

LEMMA PermSendTyped ==
    ASSUME Keyed, PermTyped, NEW call, PermAsked(call), call.at = "sent", Perms!Send(call), PermViewFits(view'),
           view'.dialog = view.dialog \/ view'.dialog = Perms!NoCall
    PROVE  PermTyped'
<1>1. Perms!FreeSlot \in Slots /\ calls' = [calls EXCEPT ![Perms!FreeSlot] = call]
  BY PermSlotFree
<1>2. PermCallFits(call)
  BY DEF PermCallFits
<1>3. PermStored'
  BY DEF Perms!Send, PermTyped, PermStored, Perms!IsDoc
<1> QED
  BY <1>1, <1>2, <1>3, PermSlotTyped

LEMMA PermBeginsTyped ==
    ASSUME Keyed, PermTyped, NEW call, PermAsked(call), call.at = "sent", Perms!Begins(call)
    PROVE  PermTyped'
<1>1. /\ Perms!Send(call)
      /\ view' = [view EXCEPT !.busy = view.busy \union ({call.key} \ {"none"})]
  BY DEF Perms!Begins
<1>2. PermViewFits(view') /\ view'.dialog = view.dialog
  BY <1>1 DEF PermTyped, PermViewFits, PermIsView, PermPanelFits, PermSidebarFits, PermAsked, PermKeys
<1> QED
  BY <1>1, <1>2, PermSendTyped

\* What is open is what is shown.
LEMMA PermOpenShown ==
    ASSUME PermTyped, NEW e \in Perms!Entities, Perms!Open(e)
    PROVE  view.shown.of = e /\ view.shown.doc # Gone /\ Perms!IsDoc(e, view.shown.doc)
  BY DEF PermTyped, PermViewFits, PermPanelFits, Perms!Open

-----------------------------------------------------------------------------
LEMMA PermRearrangedTyped ==
    ASSUME NEW list \in Seq(Groups), NEW new \in Perms!Rearranged(list)
    PROVE  new \in Seq(Groups)
<1>1. CASE \E i \in 1..Len(list) - 1 : new = [list EXCEPT ![i] = list[i + 1], ![i + 1] = list[i]]
  <2>1. PICK i \in 1..Len(list) - 1 : new = [list EXCEPT ![i] = list[i + 1], ![i + 1] = list[i]]
    BY <1>1
  <2>2. list \in [1..Len(list) -> Groups] /\ i \in 1..Len(list) /\ i + 1 \in 1..Len(list)
    OBVIOUS
  <2>3. [list EXCEPT ![i] = list[i + 1], ![i + 1] = list[i]] \in [1..Len(list) -> Groups]
    BY <2>2
  <2>4. Len(list) \in Nat
    OBVIOUS
  <2>5. new \in [1..Len(list) -> Groups]
    BY <2>1, <2>3, Zenon
  <2> QED
    BY <2>4, <2>5
<1>2. CASE \E i \in DOMAIN list : new = Perms!RemoveAt(list, i)
  <2>1. PICK i \in 1..Len(list) : new = SubSeq(list, 1, i - 1) \o SubSeq(list, i + 1, Len(list))
    <3>1. DOMAIN list = 1..Len(list)
      OBVIOUS
    <3> QED
      BY <1>2, <3>1, Zenon DEF Perms!RemoveAt
  <2>2. SubSeq(list, 1, i - 1) \in Seq(Groups) /\ SubSeq(list, i + 1, Len(list)) \in Seq(Groups)
    BY SubSeqProperties
  <2> QED
    BY <2>1, <2>2, ConcatProperties
<1>3. CASE \E g \in Groups : new = Append(list, g)
  BY <1>3
<1> QED
  BY <1>1, <1>2, <1>3 DEF Perms!Rearranged

LEMMA PermShowsTyped ==
    ASSUME Keyed, PermTyped, NEW call, call = Perms!NoCall \/ (PermAsked(call) /\ call.at = "sent"),
           Perms!Shows([view EXCEPT !.dialog = call])
    PROVE  PermTyped'
<1>1. calls' = calls /\ server' = server /\ view' = [view EXCEPT !.dialog = call]
  BY DEF Perms!Shows
<1>2. PermViewFits(view') /\ view'.dialog = call
  BY <1>1 DEF PermTyped, PermViewFits, PermIsView, PermPanelFits, PermSidebarFits
<1> QED
  BY <1>1, <1>2 DEF PermTyped, PermStored, PermAsked, PermCallFits, PermTold, Perms!IsDoc

LEMMA PermNodesTyped ==
    ASSUME Keyed, PermTyped, Perms!EditNodes
    PROVE  PermTyped'
<1>1. ASSUME NEW n, Perms!AddNode(n) PROVE PermTyped'
  <2>1. PICK e \in Groups \union {User} : n \in Perms!Nodes(e) /\ Perms!Begins(Perms!Call("add", e, n, "none"))
    BY <1>1 DEF Perms!AddNode
  <2>2. PermAskable("add", e, n, "none")
    BY <2>1, EntitiesAssumption DEF Perms!Entities, PermAskable, PermKeys
  <2> QED
    BY <2>1, <2>2, PermNewAsked, PermBeginsTyped
<1>2. ASSUME NEW n, Perms!RemoveNode(n) PROVE PermTyped'
  <2>1. PICK e \in Groups \union {User} : Perms!Begins(Perms!Call("remove", e, n, "none"))
    BY <1>2 DEF Perms!RemoveNode
  <2>2. PermAskable("remove", e, n, "none")
    BY <2>1, EntitiesAssumption DEF Perms!Entities, PermAskable, PermKeys
  <2> QED
    BY <2>1, <2>2, PermNewAsked, PermBeginsTyped
<1> QED
  BY <1>1, <1>2 DEF Perms!EditNodes, Perms!PermissionsPanel, Perms!ChatMetaPanel, Perms!MetaPanel,
     Perms!ParentsPanel

LEMMA PermInfoTyped ==
    ASSUME Keyed, PermTyped, NEW key, NEW those, Perms!SaveInfo(key, those),
           (key = "weight" /\ those = Weights) \/ (key = "title" /\ those = Titles)
    PROVE  PermTyped'
<1>1. PICK e \in Groups :
        \/ \E w \in those : Perms!Begins(Perms!Call("add", e, w, key))
        \/ \E x : Perms!Begins(Perms!Call("remove", e, x, key))
        \/ \E x, w \in those : Perms!Begins([Perms!Call(key, e, w, key) EXCEPT !.seen = x])
  BY DEF Perms!SaveInfo
<1>2. /\ \A w \in those : PermAskable("add", e, w, key) /\ PermAskable(key, e, w, key)
      /\ \A x : PermAskable("remove", e, x, key)
  BY EntitiesAssumption DEF Perms!Entities, Perms!Nodes, PermAskable, PermKeys
<1>3. CASE \E w \in those : Perms!Begins(Perms!Call("add", e, w, key))
  BY <1>2, <1>3, PermNewAsked, PermBeginsTyped
<1>4. CASE \E x : Perms!Begins(Perms!Call("remove", e, x, key))
  BY <1>2, <1>4, PermNewAsked, PermBeginsTyped
<1>5. ASSUME NEW x, NEW w \in those, Perms!Begins([Perms!Call(key, e, w, key) EXCEPT !.seen = x])
      PROVE  PermTyped'
  <2> DEFINE call == [Perms!Call(key, e, w, key) EXCEPT !.seen = x]
  <2>1. PermAsked(call) /\ call.at = "sent"
    BY <1>2, PermSeenAsked
  <2> HIDE DEF call
  <2>2. Perms!Begins(call)
    BY <1>5 DEF call
  <2> QED
    BY <2>1, <2>2, PermBeginsTyped
<1> QED
  BY <1>1, <1>3, <1>4, <1>5

LEMMA PermUserTyped ==
    ASSUME Keyed, PermTyped, \/ Perms!Select \/ Perms!EditNodes \/ Perms!SaveWeight \/ Perms!SaveDisplayName \/ Perms!EditTrack \/ Perms!MoveUser \/ Perms!Lookup
                             \/ Perms!Search \/ Perms!AskName \/ Perms!DeleteGroup \/ Perms!DeleteTrack
                                  \/ Perms!Answered \/ Perms!Retry
    PROVE  PermTyped'
<1>1. CASE Perms!Select
  <2>1. PICK e \in (Perms!Offered \union view.found) : Perms!Mounts(e, Perms!FreeSlot)
          /\ view' = Perms!Panel(view, e)
    BY <1>1 DEF Perms!Select
  <2>2. Perms!FreeSlot \in Slots /\ server' = server
    BY <1>1 DEF Perms!FreeSlot, Perms!Select
  <2>3. e \in Perms!Entities \union {None, "search", "browse"}
    BY DEF Perms!Offered, PermTyped, PermViewFits, PermSidebarFits, Perms!Entities
  <2> QED
    BY <2>1, <2>2, <2>3, PermMountsTyped DEF PermTyped, PermStored, Perms!IsDoc
<1>2. CASE Perms!EditTrack
  <2>1. PICK list \in Perms!Rearranged(view.shown.doc) :
          Perms!Begins([Perms!Call("set", Track, list, "track") EXCEPT !.seen = view.shown.doc])
    BY <1>2 DEF Perms!EditTrack
  <2>2. Perms!Open(Track) /\ Track \in Perms!Entities
    BY <1>2 DEF Perms!EditTrack, Perms!Entities
  <2>3. view.shown.doc \in Seq(Groups)
    BY <2>2, PermOpenShown DEF Perms!IsDoc
  <2>4. list \in Seq(Groups)
    BY <2>1, <2>3, PermRearrangedTyped
  <2> DEFINE call == [Perms!Call("set", Track, list, "track") EXCEPT !.seen = view.shown.doc]
  <2>5. PermAskable("set", Track, list, "track")
    BY <2>2, <2>4 DEF PermAskable, PermKeys
  <2>6. PermAsked(call) /\ call.at = "sent"
    BY <2>5, PermSeenAsked
  <2> HIDE DEF call
  <2>7. Perms!Begins(call)
    BY <2>1 DEF call
  <2> QED
    BY <2>6, <2>7, PermBeginsTyped
<1>3. CASE Perms!MoveUser \/ Perms!Lookup \/ Perms!Search
  <2>1. PICK kind, value : kind \in {"move", "lookup", "search"}
          /\ Perms!Begins(Perms!Call(kind, User, value, kind))
    BY <1>3 DEF Perms!MoveUser, Perms!Lookup, Perms!Search
  <2>2. PermAskable(kind, User, value, kind)
    BY <2>1 DEF Perms!Entities, PermAskable, PermKeys
  <2> QED
    BY <2>1, <2>2, PermNewAsked, PermBeginsTyped
<1>4. CASE Perms!AskName \/ Perms!DeleteGroup \/ Perms!DeleteTrack
  <2>1. PICK kind \in {"create", "delete"}, e \in Groups \union {Track}, key \in {"none", "delete"} :
          Perms!Shows([view EXCEPT !.dialog = Perms!Call(kind, e, Gone, key)])
    BY <1>4 DEF Perms!AskName, Perms!DeleteGroup, Perms!DeleteTrack, Perms!AskDelete
  <2>2. PermAskable(kind, e, Gone, key)
    BY EntitiesAssumption DEF Perms!Entities, PermAskable, PermKeys
  <2>3. PermAsked(Perms!Call(kind, e, Gone, key)) /\ Perms!Call(kind, e, Gone, key).at = "sent"
    BY <2>2, PermNewAsked
  <2> QED
    BY <2>1, <2>3, PermShowsTyped
<1>5. CASE Perms!Answered
  <2>1. CASE Perms!Shows([view EXCEPT !.dialog = Perms!NoCall])
    BY <2>1, PermShowsTyped
  <2>2. CASE ~Perms!Shows([view EXCEPT !.dialog = Perms!NoCall])
    <3>1. /\ Perms!Send(view.dialog)
          /\ view' = [view EXCEPT !.dialog = Perms!NoCall,
                                  !.busy = view.busy \union ({view.dialog.key} \ {"none"})]
          /\ view.dialog # Perms!NoCall
      BY <1>5, <2>2 DEF Perms!Answered
    <3>2. PermAsked(view.dialog) /\ view.dialog.at = "sent"
      BY <3>1 DEF PermTyped
    <3>3. PermViewFits(view') /\ view'.dialog = Perms!NoCall
      BY <3>1, <3>2 DEF PermTyped, PermViewFits, PermIsView, PermPanelFits, PermSidebarFits, PermAsked,
         PermKeys
    <3> QED
      BY <3>1, <3>2, <3>3, PermSendTyped
  <2> QED
    BY <2>1, <2>2
<1>6. CASE Perms!Retry
  <2>1. PICK call \in {Perms!Call("health", User, Gone, "none"), Perms!Lists} :
          /\ Perms!Send(call)
          /\ \/ view' = [view EXCEPT !.health = "checking"]
             \/ view' = [view EXCEPT !.listsLoading = TRUE, !.listsFailed = FALSE]
    BY <1>6 DEF Perms!Retry
  <2>2. PermAsked(call) /\ call.at = "sent"
    <3>1. PermAskable("health", User, Gone, "none") /\ PermAskable("lists", User, Gone, "none")
      BY DEF Perms!Entities, PermAskable, PermKeys
    <3> QED
      BY <2>1, <3>1, PermNewAsked DEF Perms!Lists
  <2>3. PermViewFits(view') /\ view'.dialog = view.dialog
    BY <2>1 DEF PermTyped, PermViewFits, PermIsView, PermPanelFits, PermSidebarFits
  <2> QED
    BY <2>1, <2>2, <2>3, PermSendTyped
<1> QED
  BY <1>1, <1>2, <1>3, <1>4, <1>5, <1>6, PermNodesTyped, PermInfoTyped DEF Perms!SaveWeight,
     Perms!SaveDisplayName

-----------------------------------------------------------------------------
(* What the API keeps. *)

LEMMA PermMovedTyped ==
    ASSUME NEW parents \in SUBSET Perms!Nodes(User), NEW list \in Seq(Groups), NEW up
    PROVE  Perms!Moved(parents, list, up) \subseteq Perms!Nodes(User)
<1> DEFINE at == {i \in DOMAIN list : list[i] \in parents}
           from == IF at = {} THEN IF up THEN 0 ELSE 1 ELSE CHOOSE i \in at : TRUE
           to == IF up THEN from + 1 ELSE from - 1
<1>1. from \in 0..Len(list) + 1 /\ (from = 0 => up) /\ (from = Len(list) + 1 => ~up)
  <2>1. CASE at = {}
    BY <2>1
  <2>2. CASE at # {}
    <3>1. from \in at
      BY <2>2
    <3> QED
      BY <3>1
  <2> QED
    BY <2>1, <2>2
<1>2. to > Len(list) \/ to \in 0..Len(list)
  BY <1>1
<1>3. ~(to > Len(list)) => \A i \in {to} \ {0} : list[i] \in Perms!Nodes(User)
  BY <1>2 DEF Perms!Nodes
<1>4. Perms!Moved(parents, list, up) =
        IF Perms!Cardinality(at) > 1 \/ to > Len(list) THEN parents
        ELSE (parents \ {list[i] : i \in at}) \union {list[i] : i \in {to} \ {0}}
  BY DEF Perms!Moved
<1> HIDE DEF at, to
<1> QED
  BY <1>3, <1>4

LEMMA PermAfterTyped ==
    ASSUME PermTyped, NEW c, PermAsked(c), Perms!Mutates(c), server[c.of] # Gone \/ c.kind = "create",
           c.kind = "move" => server[Track] # Gone
    PROVE  Perms!IsDoc(c.of, Perms!After(c))
<1>1. Perms!IsDoc(c.of, server[c.of]) /\ Perms!IsDoc(Track, server[Track])
  BY DEF PermTyped, PermStored, PermAsked, Perms!Entities
<1>2. c.kind \in {"add", "remove", "weight", "title", "move", "set", "delete", "create"}
  BY DEF Perms!Mutates, Perms!Edits
<1>3. CASE c.of = User
  <2>1. c.of # Track /\ c.kind \in {"add", "remove", "move"}
    BY <1>2, <1>3, EntitiesAssumption DEF PermAsked
  <2>2. server[User] \in SUBSET Perms!Nodes(User) /\ server[c.of] # Gone
    BY <1>1, <1>3, <2>1 DEF Perms!IsDoc
  <2>3. Perms!After(c) = Perms!NodesAfter(c, server[User])
    BY <1>3, EntitiesAssumption DEF Perms!After
  <2>4. CASE c.kind = "add"
    <3>1. Perms!After(c) = server[User] \union {c.value} /\ c.value \in Perms!Nodes(User)
      BY <1>3, <2>3, <2>4 DEF Perms!NodesAfter, PermAsked
    <3> QED
      BY <1>3, <2>1, <2>2, <3>1 DEF Perms!IsDoc
  <2>5. CASE c.kind = "remove"
    <3>1. Perms!After(c) = server[User] \ {c.value}
      BY <2>3, <2>5 DEF Perms!NodesAfter
    <3> QED
      BY <1>3, <2>1, <2>2, <3>1 DEF Perms!IsDoc
  <2>6. CASE c.kind = "move"
    <3>1. Perms!After(c) = Perms!Moved(server[User], server[Track], c.value)
      BY <2>3, <2>6 DEF Perms!NodesAfter
    <3>2. server[Track] \in Seq(Groups)
      BY <1>1, <2>6 DEF Perms!IsDoc
    <3>3. Perms!After(c) \subseteq Perms!Nodes(User)
      BY <2>2, <3>1, <3>2, PermMovedTyped
    <3> QED
      BY <1>3, <2>1, <3>3 DEF Perms!IsDoc
  <2> QED
    BY <2>1, <2>4, <2>5, <2>6
<1>4. CASE c.of = Track
  <2>1. Perms!After(c) = Perms!TrackAfter(c, server[Track]) /\ c.kind \in {"set", "create", "delete"}
    BY <1>2, <1>4, EntitiesAssumption DEF Perms!After, PermAsked
  <2>2. Perms!TrackAfter(c, server[Track]) \in {Gone, <<>>, server[Track], c.value}
    BY <1>4, <2>1 DEF Perms!TrackAfter
  <2>3. c.kind \in {"create", "delete"} => Perms!TrackAfter(c, server[Track]) \in {Gone, <<>>, server[Track]}
    BY DEF Perms!TrackAfter
  <2>4. c.kind = "set" => c.value \in Seq(Groups)
    BY DEF PermAsked
  <2>5. <<>> \in Seq(Groups)
    OBVIOUS
  <2> QED
    BY <1>1, <1>4, <2>1, <2>2, <2>3, <2>4, <2>5 DEF Perms!IsDoc
<1>5. CASE c.of # User /\ c.of # Track
  <2>1. /\ Perms!After(c) = Perms!GroupAfter(c, server[c.of])
        /\ c.kind \in {"add", "remove", "weight", "title", "create", "delete"}
    BY <1>2, <1>5 DEF Perms!After, PermAsked
  <2>2. server[c.of] = Gone \/ server[c.of] \in SUBSET Perms!Nodes(c.of)
    BY <1>1, <1>5 DEF Perms!IsDoc
  <2>3. CASE c.kind = "create"
    <3>1. Perms!After(c) = IF server[c.of] = Gone THEN {} ELSE server[c.of]
      BY <2>1, <2>3 DEF Perms!GroupAfter
    <3> QED
      BY <1>5, <2>2, <3>1 DEF Perms!IsDoc
  <2>4. CASE c.kind = "delete"
    BY <2>1, <2>4 DEF Perms!GroupAfter, Perms!IsDoc
  <2>5. CASE c.kind = "add"
    <3>1. Perms!After(c) = server[c.of] \union {c.value} /\ c.value \in Perms!Nodes(c.of)
      BY <2>1, <2>5 DEF Perms!GroupAfter, Perms!NodesAfter, PermAsked
    <3> QED
      BY <1>5, <2>2, <2>5, <3>1 DEF Perms!IsDoc
  <2>6. CASE c.kind = "remove"
    <3>1. Perms!After(c) = server[c.of] \ {c.value}
      BY <2>1, <2>6 DEF Perms!GroupAfter, Perms!NodesAfter
    <3> QED
      BY <1>5, <2>2, <2>6, <3>1 DEF Perms!IsDoc
  <2>7. CASE c.kind \in {"weight", "title"}
    <3>1. Perms!After(c) = server[c.of] \ {c.seen}
      BY <2>1, <2>7 DEF Perms!GroupAfter, Perms!NodesAfter
    <3> QED
      BY <1>5, <2>2, <2>7, <3>1 DEF Perms!IsDoc
  <2> QED
    BY <2>1, <2>3, <2>4, <2>5, <2>6, <2>7
<1> QED
  BY <1>3, <1>4, <1>5

LEMMA PermChangeTyped ==
    ASSUME Keyed, PermTyped, NEW s \in Slots, Perms!Change(s)
    PROVE  PermTyped'
<1> DEFINE c == calls[s]
           next == [c EXCEPT !.at = "changed"]
<1>1. /\ c # Perms!NoCall /\ Perms!Mutates(c) /\ (server[c.of] # Gone \/ c.kind = "create")
      /\ c.kind = "move" => server[Track] # Gone
      /\ server' = [server EXCEPT ![c.of] = Perms!After(c)]
      /\ calls' = [calls EXCEPT ![s] = next] /\ view' = view
  BY DEF Perms!Change, Perms!NoCall
<1>2. PermCallFits(c) /\ PermAsked(c) /\ PermIsCall(c) /\ c.of \in Perms!Entities
  BY <1>1 DEF PermTyped, PermCallFits, PermAsked
<1>3. PermCallFits(next)
  <2>1. /\ PermIsCall(next) /\ next.kind = c.kind /\ next.of = c.of /\ next.value = c.value /\ next.key = c.key
        /\ next.at = "changed"
    BY <1>2 DEF PermIsCall
  <2> HIDE DEF next
  <2> QED
    BY <1>2, <2>1 DEF PermCallFits, PermAsked
<1>4. Perms!IsDoc(c.of, Perms!After(c))
  BY <1>1, <1>2, PermAfterTyped
<1> HIDE DEF c, next
<1>5. PermStored'
  BY <1>1, <1>2, <1>4 DEF PermTyped, PermStored, Perms!IsDoc
<1> QED
  BY <1>1, <1>3, <1>5, PermSlotTyped DEF PermTyped

LEMMA PermAnswerTyped ==
    ASSUME Keyed, PermTyped, NEW s \in Slots, NEW ok, NEW doc, calls[s] # Perms!NoCall,
           Perms!Answer(s, ok, doc), UNCHANGED server,
           ok => PermTold([calls[s] EXCEPT !.doc = doc])
    PROVE  PermTyped'
<1> DEFINE c == calls[s]
           next == [c EXCEPT !.at = "answered", !.ok = ok, !.doc = doc]
           told == [c EXCEPT !.doc = doc]
<1>1. calls' = [calls EXCEPT ![s] = next] /\ view' = view
  BY DEF Perms!Answer
<1>2. PermCallFits(c) /\ PermAsked(c) /\ PermIsCall(c)
  BY DEF PermTyped, PermCallFits, PermAsked
<1>3. PermCallFits(next)
  <2>1. /\ PermIsCall(next) /\ next.kind = c.kind /\ next.of = c.of /\ next.value = c.value /\ next.key = c.key
        /\ next.at = "answered" /\ next.ok = ok /\ next.doc = doc
        /\ told.doc = doc /\ told.kind = c.kind /\ told.of = c.of
    BY <1>2 DEF PermIsCall
  <2>2. ok => PermTold(told)
    OBVIOUS
  <2> HIDE DEF next, told
  <2> QED
    BY <1>2, <2>1, <2>2 DEF PermCallFits, PermAsked, PermTold
<1> HIDE DEF next
<1>4. PermStored'
  BY DEF PermTyped, PermStored, Perms!IsDoc
<1> QED
  BY <1>1, <1>3, <1>4, PermSlotTyped DEF PermTyped

LEMMA PermServeTyped ==
    ASSUME Keyed, PermTyped, NEW s \in Slots, Perms!Serve(s) \/ Perms!Fail(s)
    PROVE  PermTyped'
<1> DEFINE c == calls[s]
<1>1. c # Perms!NoCall
  <2> SUFFICES ASSUME c = Perms!NoCall PROVE FALSE
    OBVIOUS
  <2>1. c.at = "free"
    BY DEF Perms!NoCall
  <2>2. c.at = "sent" \/ c.at = "changed"
    BY DEF Perms!Serve, Perms!Fail
  <2> QED
    BY <2>1, <2>2
<1>2. PermCallFits(c) /\ PermAsked(c) /\ PermIsCall(c)
  BY <1>1 DEF PermTyped, PermCallFits, PermAsked
<1>3. CASE Perms!Fail(s)
  BY <1>1, <1>3, PermAnswerTyped DEF Perms!Fail
<1>4. CASE Perms!Serve(s)
  <2> DEFINE told == [c EXCEPT !.doc = Perms!Found(c)]
  <2>1. /\ Perms!Answer(s, TRUE, Perms!Found(c)) /\ UNCHANGED server
        /\ c.kind \in {"health", "lists", "search", "browse", "delete"} \/ server[c.of] # Gone
    BY <1>4 DEF Perms!Serve
  <2>2. told.doc = Perms!Found(c) /\ told.kind = c.kind /\ told.of = c.of
    BY <1>2 DEF PermIsCall
  <2>3. c.kind = "lists" => Perms!Found(c) \subseteq Groups \union {Track}
    BY DEF Perms!Found, Perms!Existing
  <2>4. c.kind \in {"search", "browse"} => Perms!Found(c) \subseteq Perms!Entities
    BY DEF Perms!Found, Perms!Existing, Perms!Entities
  <2>5. c.kind \in {"load"} \union (Perms!Edits \ {"delete"}) =>
          Perms!Found(c) = server[c.of] /\ server[c.of] # Gone
    BY <2>1 DEF Perms!Found, Perms!Edits
  <2>6. Perms!IsDoc(c.of, server[c.of])
    BY <1>2 DEF PermTyped, PermStored, PermAsked
  <2> HIDE DEF told
  <2>7. PermTold(told)
    BY <2>2, <2>3, <2>4, <2>5, <2>6 DEF PermTold
  <2> QED
    BY <1>1, <2>1, <2>7, PermAnswerTyped DEF told
<1> QED
  BY <1>3, <1>4

-----------------------------------------------------------------------------
(* What the answers do. *)

LEMMA PermContinuesTyped ==
    ASSUME Keyed, PermTyped, NEW s \in Slots, NEW next, next = Perms!NoCall \/ PermCallFits(next),
           Perms!Continues(s, next),
           UNCHANGED server, PermViewFits(view'), view'.dialog = view.dialog
    PROVE  PermTyped'
<1>1. calls' = [calls EXCEPT ![s] = next]
  BY DEF Perms!Continues
<1>2. PermStored'
  BY DEF PermTyped, PermStored, Perms!IsDoc
<1> QED
  BY <1>1, <1>2, PermSlotTyped

LEMMA PermEndsTyped ==
    ASSUME Keyed, PermTyped, NEW s \in Slots, Perms!Ends(s), UNCHANGED server, PermViewFits(view'),
           view'.dialog = view.dialog
    PROVE  PermTyped'
  BY PermContinuesTyped DEF Perms!Ends, Perms!Continues

\* An answer that is not about the panel, and what it carries.
LEMMA PermArrivesTold ==
    ASSUME PermTyped, NEW s \in Slots, Perms!Arrives(s)
    PROVE  PermCallFits(calls[s]) /\ PermAsked(calls[s]) /\ (calls[s].ok => PermTold(calls[s]))
<1>1. calls[s] # Perms!NoCall /\ calls[s].at = "answered"
  BY DEF Perms!Arrives, Perms!NoCall
<1> QED
  BY <1>1 DEF PermTyped, PermCallFits

LEMMA PermFreedFits ==
    ASSUME PermTyped, NEW c
    PROVE  PermViewFits(Perms!Freed(c)) /\ Perms!Freed(c).dialog = view.dialog
  BY DEF PermTyped, PermViewFits, PermIsView, PermPanelFits, PermSidebarFits, Perms!Freed

LEMMA PermListsFit ==
    /\ PermCallFits(Perms!Lists)
    /\ \A e \in Perms!Entities : PermCallFits([Perms!Lists EXCEPT !.value = e])
<1>1. PermAskable("lists", User, Gone, "none")
  BY DEF PermAskable, Perms!Entities, PermKeys
<1>2. PermCallFits(Perms!Lists)
  BY <1>1, PermNewAsked DEF PermCallFits, Perms!Lists
<1>3. ASSUME NEW e \in Perms!Entities PROVE PermCallFits([Perms!Lists EXCEPT !.value = e])
  <2> DEFINE new == [Perms!Lists EXCEPT !.value = e]
  <2>1. /\ PermIsCall(new) /\ new.kind = "lists" /\ new.of = User /\ new.value = e /\ new.key = "none"
        /\ new.at = "sent"
    BY DEF Perms!Lists, Perms!Call, PermIsCall
  <2> HIDE DEF new
  <2>2. PermCallFits(new)
    BY <2>1 DEF PermCallFits, PermAsked, Perms!Entities, PermKeys
  <2> QED
    BY <2>2 DEF new
<1> QED
  BY <1>2, <1>3, Zenon

LEMMA PermPlainTyped ==
    ASSUME Keyed, PermTyped, NEW s \in Slots, Perms!Arrives(s),
           Perms!HealthArrives(s) \/ Perms!SearchArrives(s) \/ Perms!BrowseArrives(s) \/ Perms!CreateArrives(s)
    PROVE  PermTyped'
<1> DEFINE c == calls[s]
<1>1. PermCallFits(c) /\ PermAsked(c) /\ (c.ok => PermTold(c)) /\ UNCHANGED server
  BY PermArrivesTold DEF Perms!Arrives
<1>2. c.of \in Perms!Entities /\ (c.ok /\ c.kind \in {"search", "browse"} => c.doc \subseteq Perms!Entities)
  BY <1>1 DEF PermTold, PermAsked
<1> USE DEF PermViewFits, PermIsView, PermPanelFits, PermSidebarFits
<1>3. CASE Perms!HealthArrives(s)
  <2>1. PICK health \in {"up", "down", "unset"} :
          view' = [view EXCEPT !.health = health, !.listsLoading = c.ok]
    BY <1>3 DEF Perms!HealthArrives
  <2>2. PermViewFits(view') /\ view'.dialog = view.dialog
    BY <2>1 DEF PermTyped
  <2> QED
    BY <1>1, <1>3, <2>2, PermListsFit, PermContinuesTyped, PermEndsTyped DEF Perms!HealthArrives
<1>4. CASE Perms!SearchArrives(s)
  <2>1. Perms!Ends(s) /\ c.kind = "search"
    BY <1>4 DEF Perms!SearchArrives
  <2>2. ASSUME NEW v, PermViewFits(v), NEW found \in SUBSET Perms!Entities
        PROVE  PermViewFits([v EXCEPT !.found = found]) /\ [v EXCEPT !.found = found].dialog = v.dialog
    BY <2>2
  <2> DEFINE found == IF c.ok THEN c.doc ELSE Perms!Freed(c).found
  <2> HIDE DEF PermViewFits, PermIsView, PermPanelFits, PermSidebarFits
  <2>3. PermViewFits(view') /\ view'.dialog = view.dialog
    <3>1. view' = view \/ view' = [Perms!Freed(c) EXCEPT !.found = found]
      BY <1>4 DEF Perms!SearchArrives
    <3>2. PermViewFits(Perms!Freed(c)) /\ Perms!Freed(c).dialog = view.dialog
      BY PermFreedFits
    <3>3. found \in SUBSET Perms!Entities
      BY <1>2, <2>1, <3>2 DEF PermViewFits, PermSidebarFits
    <3> HIDE DEF found
    <3>4. PermViewFits([Perms!Freed(c) EXCEPT !.found = found])
            /\ [Perms!Freed(c) EXCEPT !.found = found].dialog = view.dialog
      BY <2>2, <3>2, <3>3, Zenon
    <3> QED
      BY <3>1, <3>4, Zenon DEF PermTyped
  <2> QED
    BY <1>1, <2>1, <2>3, PermEndsTyped
<1>5. CASE Perms!BrowseArrives(s)
  <2>1. Perms!Ends(s) /\ c.kind = "browse" /\ (view' = view \/ (c.ok /\ view' = [view EXCEPT !.found = c.doc]))
    BY <1>5 DEF Perms!BrowseArrives
  <2>2. PermViewFits(view') /\ view'.dialog = view.dialog
    BY <1>2, <2>1 DEF PermTyped
  <2> QED
    BY <1>1, <2>1, <2>2, PermEndsTyped
<1>6. CASE Perms!CreateArrives(s)
  <2>1. \/ Perms!Ends(s) /\ view' = view
        \/ /\ Perms!Continues(s, [Perms!Lists EXCEPT !.value = c.of])
           /\ view' = [view EXCEPT !.listsLoading = TRUE, !.listsFailed = FALSE]
    BY <1>6 DEF Perms!CreateArrives
  <2>2. PermViewFits(view') /\ view'.dialog = view.dialog
    BY <2>1 DEF PermTyped
  <2>3. PermCallFits([Perms!Lists EXCEPT !.value = c.of])
    BY <1>2, PermListsFit
  <2> QED
    BY <1>1, <2>1, <2>2, <2>3, PermContinuesTyped, PermEndsTyped
<1> QED
  BY <1>3, <1>4, <1>5, <1>6

\* What a panel that is still there is told.
LEMMA PermShownFits ==
    ASSUME NEW v, PermViewFits(v), NEW doc, doc # Gone, Perms!IsDoc(v.selected, doc)
    PROVE  LET new == [v EXCEPT !.shown = [of |-> v.selected, doc |-> doc]]
           IN  PermViewFits(new) /\ new.dialog = v.dialog
<1> DEFINE shown == [of |-> v.selected, doc |-> doc]
           new == [v EXCEPT !.shown = shown]
<1>1. shown.of = v.selected /\ shown.doc = doc
  OBVIOUS
<1> HIDE DEF shown
<1>2. /\ PermIsView(new) /\ new.dialog = v.dialog /\ new.shown = shown /\ new.selected = v.selected
      /\ new.loading = v.loading /\ new.failed = v.failed
      /\ new.health = v.health /\ new.lists = v.lists /\ new.recent = v.recent /\ new.found = v.found
      /\ new.busy = v.busy
  BY DEF PermViewFits, PermIsView
<1> HIDE DEF new
<1>3. PermPanelFits(new) /\ PermSidebarFits(new)
  BY <1>1, <1>2 DEF PermViewFits, PermPanelFits, PermSidebarFits
<1>4. PermViewFits(new) /\ new.dialog = v.dialog
  BY <1>2, <1>3 DEF PermViewFits
<1> QED
  BY <1>4 DEF new, shown

LEMMA PermLoadTyped ==
    ASSUME Keyed, PermTyped, NEW s \in Slots, Perms!Arrives(s),
           Perms!LoadArrives(s) \/ Perms!EditArrives(s) \/ Perms!InfoArrives(s)
    PROVE  PermTyped'
<1> DEFINE c == calls[s]
           answer == [of |-> c.of, doc |-> c.doc]
<1>1. PermCallFits(c) /\ PermAsked(c) /\ (c.ok => PermTold(c)) /\ UNCHANGED server /\ PermIsCall(c)
        /\ c # Perms!NoCall
  BY PermArrivesTold, PermAnsweredCall DEF Perms!Arrives
<1>2. c.kind \in {"load"} \union (Perms!Edits \ {"delete"})
  BY DEF Perms!LoadArrives, Perms!EditArrives, Perms!InfoArrives, Perms!Edits
<1>3. c.mounted => c.of = view.selected
  BY <1>1, <1>2 DEF Keyed, PermShown
<1>4. c.ok => c.doc # Gone /\ Perms!IsDoc(c.of, c.doc)
  BY <1>1, <1>2 DEF PermTold
<1>5. ASSUME NEW v, PermViewFits(v), v.selected = view.selected, c.mounted, c.ok
      PROVE  PermViewFits([v EXCEPT !.shown = answer]) /\ [v EXCEPT !.shown = answer].dialog = v.dialog
  <2>1. answer = [of |-> v.selected, doc |-> c.doc] /\ Perms!IsDoc(v.selected, c.doc) /\ c.doc # Gone
    BY <1>3, <1>4, <1>5
  <2> QED
    BY <1>5, <2>1, PermShownFits
<1>6. PermViewFits(view) /\ PermViewFits(Perms!Freed(c)) /\ Perms!Freed(c).selected = view.selected
        /\ Perms!Freed(c).dialog = view.dialog
  BY PermFreedFits, PermFreedView DEF PermTyped
<1>7. CASE Perms!LoadArrives(s)
  <2>1. Perms!Ends(s)
    BY <1>7 DEF Perms!LoadArrives
  <2>2. CASE c.mounted /\ c.ok
    <3> DEFINE new == [view EXCEPT !.shown = answer]
    <3>1. view' = [view EXCEPT !.shown = answer, !.loading = FALSE]
      BY <1>7, <2>2 DEF Perms!LoadArrives
    <3>2. view' = [new EXCEPT !.loading = FALSE]
      BY <3>1
    <3>3. PermViewFits(new) /\ new.dialog = view.dialog /\ new.shown = answer /\ new.selected = view.selected
      BY <1>5, <1>6, <2>2 DEF PermViewFits, PermIsView
    <3>4. answer.of = view.selected /\ answer.doc # Gone
      BY <1>3, <1>4, <2>2
    <3> HIDE DEF new, answer
    <3>5. PermViewFits(view') /\ view'.dialog = view.dialog
      BY <3>2, <3>3, <3>4 DEF PermViewFits, PermIsView, PermPanelFits, PermSidebarFits
    <3> QED
      BY <1>1, <2>1, <3>5, PermEndsTyped
  <2>3. CASE ~(c.mounted /\ c.ok)
    <3>1. view' = view \/ view' = [view EXCEPT !.loading = FALSE, !.failed = TRUE]
      BY <1>7, <2>3 DEF Perms!LoadArrives
    <3>2. PermViewFits(view') /\ view'.dialog = view.dialog
      BY <1>6, <3>1 DEF PermViewFits, PermIsView, PermPanelFits, PermSidebarFits
    <3> QED
      BY <1>1, <2>1, <3>2, PermEndsTyped
  <2> QED
    BY <2>2, <2>3
<1>8. CASE Perms!EditArrives(s)
  <2>1. Perms!Ends(s)
    BY <1>8 DEF Perms!EditArrives
  <2>2. view' = view \/ view' = Perms!Freed(c)
          \/ (c.mounted /\ c.ok /\ view' = [Perms!Freed(c) EXCEPT !.shown = answer])
    BY <1>8 DEF Perms!EditArrives
  <2> HIDE DEF answer
  <2>3. PermViewFits(view') /\ view'.dialog = view.dialog
    BY <1>5, <1>6, <2>2, Zenon
  <2> QED
    BY <1>1, <2>1, <2>3, PermEndsTyped
<1>9. CASE Perms!InfoArrives(s)
  <2>1. view' = view \/ view' = Perms!Freed(c) \/ (c.mounted /\ c.ok /\ view' = [view EXCEPT !.shown = answer])
    BY <1>9 DEF Perms!InfoArrives
  <2> HIDE DEF answer
  <2>2. PermViewFits(view') /\ view'.dialog = view.dialog
    BY <1>5, <1>6, <2>1, Zenon
  <2> DEFINE next == [c EXCEPT !.kind = "add", !.at = "sent"]
  <2>3. Perms!Ends(s) \/ (Perms!Continues(s, next) /\ c.kind \in {"weight", "title"})
    BY <1>9 DEF Perms!InfoArrives
  <2>4. c.kind \in {"weight", "title"} => PermCallFits(next)
    <3> SUFFICES ASSUME c.kind \in {"weight", "title"} PROVE PermCallFits(next)
      OBVIOUS
    <3>1. /\ PermIsCall(next) /\ next.kind = "add" /\ next.of = c.of /\ next.value = c.value /\ next.key = c.key
          /\ next.at = "sent"
      BY <1>1 DEF PermIsCall
    <3>2. c.of \in Perms!Entities /\ c.of # Track /\ c.value \in Perms!Nodes(c.of) /\ c.key \in PermKeys
      BY <1>1, EntitiesAssumption DEF PermAsked, Perms!Nodes
    <3> HIDE DEF next
    <3> QED
      BY <3>1, <3>2 DEF PermCallFits, PermAsked
  <2> HIDE DEF next
  <2> QED
    BY <1>1, <2>2, <2>3, <2>4, PermEndsTyped, PermContinuesTyped
<1> QED
  BY <1>7, <1>8, <1>9

LEMMA PermSidebarTyped ==
    ASSUME Keyed, PermTyped, NEW s \in Slots, Perms!Arrives(s),
           Perms!ListsArrive(s) \/ Perms!LookupArrives(s) \/ Perms!DeleteArrives(s)
    PROVE  PermTyped'
<1> DEFINE c == calls[s]
<1>1. PermCallFits(c) /\ PermAsked(c) /\ (c.ok => PermTold(c)) /\ UNCHANGED server
  BY PermArrivesTold DEF Perms!Arrives
<1>2. PermStored' /\ PermViewFits(view)
  BY <1>1 DEF PermTyped, PermStored, Perms!IsDoc
<1>3. PermViewFits(Perms!Freed(c)) /\ Perms!Freed(c).dialog = view.dialog
  BY PermFreedFits
<1>4. CASE Perms!ListsArrive(s)
  <2> DEFINE failed == view.listsFailed \/ ~c.ok
             lists == IF c.ok THEN c.doc ELSE view.lists
             busy == IF c.ok THEN view.busy ELSE view.busy \ {"lookup"}
             recent == IF c.ok THEN view.recent ELSE {}
             listed == [view EXCEPT !.listsLoading = FALSE, !.listsFailed = failed,
                                    !.lists = lists, !.busy = busy, !.recent = recent]
  <2>1. /\ c.kind = "lists"
        /\ \/ view' = listed /\ Perms!Ends(s)
           \/ /\ c.value # Gone
              /\ view' = Perms!Panel(listed, c.value) /\ Perms!Mounts(c.value, s)
    BY <1>4 DEF Perms!ListsArrive
  <2>2. lists \subseteq Groups \union {Track} /\ busy \subseteq view.busy /\ recent \subseteq view.recent
    BY <1>1, <1>2, <2>1 DEF PermTold, PermViewFits, PermSidebarFits
  <2> HIDE DEF failed, lists, busy, recent
  <2>3. PermViewFits(listed) /\ listed.dialog = view.dialog
    BY <1>2, <2>2 DEF PermViewFits, PermIsView, PermPanelFits, PermSidebarFits
  <2>4. c.value = Gone \/ c.value \in Perms!Entities
    BY <1>1, <2>1 DEF PermAsked
  <2> HIDE DEF listed
  <2> QED
    BY <1>1, <1>2, <2>1, <2>3, <2>4, PermEndsTyped, PermMountsTyped
<1>5. CASE Perms!LookupArrives(s)
  <2> DEFINE recent == IF c.ok THEN {User} ELSE Perms!Freed(c).recent
             v == [Perms!Freed(c) EXCEPT !.recent = recent]
  <2>1. \/ view' = Perms!Panel(v, User) /\ Perms!Mounts(User, s)
        \/ view' = v /\ Perms!Ends(s)
    BY <1>5 DEF Perms!LookupArrives, Perms!Remembered
  <2>2. User \in Perms!Entities /\ recent \subseteq Perms!Entities
    BY <1>3 DEF Perms!Entities, PermViewFits, PermSidebarFits
  <2>3. ASSUME NEW w, PermViewFits(w), NEW r \in SUBSET Perms!Entities
        PROVE  PermViewFits([w EXCEPT !.recent = r]) /\ [w EXCEPT !.recent = r].dialog = w.dialog
    BY <2>3 DEF PermViewFits, PermIsView, PermPanelFits, PermSidebarFits
  <2> HIDE DEF recent
  <2>4. PermViewFits(v) /\ v.dialog = view.dialog
    BY <1>3, <2>2, <2>3, Zenon
  <2> HIDE DEF v
  <2> QED
    BY <1>1, <1>2, <1>3, <2>1, <2>2, <2>4, PermEndsTyped, PermMountsTyped
<1>6. CASE Perms!DeleteArrives(s)
  <2>1. CASE c.ok
    <3> DEFINE v == Perms!Panel(view, None)
    <3>1. /\ calls' = [t \in Slots |-> IF t = s THEN Perms!Lists ELSE Perms!Unmounted(t)]
          /\ view' = [v EXCEPT !.listsLoading = TRUE, !.listsFailed = FALSE]
      BY <1>6, <2>1 DEF Perms!DeleteArrives
    <3>2. PermViewFits(v) /\ v.dialog = view.dialog
      BY <1>2, PermPanelTyped
    <3> HIDE DEF v
    <3>3. PermViewFits(view') /\ view'.dialog = view.dialog
      BY <3>1, <3>2 DEF PermViewFits, PermIsView, PermPanelFits, PermSidebarFits
    <3> QED
      BY <1>2, <3>1, <3>3, PermListsFit, PermMountTyped
  <2>2. CASE ~c.ok
    BY <1>1, <1>2, <1>3, <1>6, <2>2, PermEndsTyped DEF Perms!DeleteArrives
  <2> QED
    BY <2>1, <2>2
<1> QED
  BY <1>4, <1>5, <1>6

-----------------------------------------------------------------------------
LEMMA PermInitTyped == Perms!Init => PermTyped
<1> SUFFICES ASSUME Perms!Init PROVE PermTyped
  OBVIOUS
<1>2. PermStored
  BY ApiAssumption DEF Perms!Init, PermStored
<1>3. PermViewFits(view) /\ view.dialog = Perms!NoCall
  <2>1. None \notin Perms!Entities
    BY EntitiesAssumption DEF Perms!Entities
  <2>2. /\ view.health = "checking" /\ view.lists = {} /\ view.recent = {} /\ view.found = {} /\ view.busy = {}
        /\ view.selected = None /\ view.shown.of = None /\ view.dialog = Perms!NoCall /\ PermIsView(view)
    BY DEF Perms!Init, Perms!NothingShown, PermIsView
  <2> QED
    BY <2>1, <2>2 DEF PermViewFits, PermPanelFits, PermSidebarFits
<1>4. PICK s : calls = [t \in Slots |-> IF t = s THEN Perms!Call("health", User, Gone, "none") ELSE Perms!NoCall]
  BY DEF Perms!Init
<1>5. PermCallFits(Perms!Call("health", User, Gone, "none"))
  <2>1. PermAskable("health", User, Gone, "none")
    BY DEF PermAskable, Perms!Entities, PermKeys
  <2> QED
    BY <2>1, PermNewAsked DEF PermCallFits
<1>6. \A t \in Slots : calls[t] # Perms!NoCall => PermCallFits(calls[t])
  BY <1>4, <1>5
<1> QED
  BY <1>2, <1>3, <1>6 DEF PermTyped

LEMMA PermNextTyped == Keyed /\ PermTyped /\ PermsStep => PermTyped'
<1> SUFFICES ASSUME Keyed, PermTyped, PermsStep PROVE PermTyped'
  OBVIOUS
<1>1. CASE UNCHANGED vars
  BY <1>1 DEF vars, PermTyped, PermStored, PermViewFits, PermIsView, PermPanelFits, PermSidebarFits,
     PermAsked, PermCallFits, PermTold, Perms!IsDoc
<1>2. CASE Perms!Elsewhere
  <2>1. PICK e \in Perms!Entities : server' = [server EXCEPT ![e] = IF e = Track THEN <<>> ELSE {}]
    BY <1>2 DEF Perms!Elsewhere
  <2>2. Perms!IsDoc(e, IF e = Track THEN <<>> ELSE {})
    BY DEF Perms!IsDoc
  <2>3. PermStored'
    BY <2>1, <2>2 DEF PermTyped, PermStored, Perms!IsDoc
  <2>4. calls' = calls /\ view' = view
    BY <1>2 DEF Perms!Elsewhere
  <2> QED
    BY <2>3, <2>4 DEF PermTyped, PermViewFits, PermIsView, PermPanelFits, PermSidebarFits, PermAsked,
       PermCallFits, PermTold, Perms!IsDoc
<1>3. ASSUME NEW s \in Slots, Perms!Deliver(s) PROVE PermTyped'
  <2>1. Perms!Arrives(s)
    BY <1>3 DEF Perms!Deliver
  <2> QED
    BY <1>3, <2>1, PermPlainTyped, PermLoadTyped, PermSidebarTyped DEF Perms!Deliver
<1> QED
  BY <1>1, <1>2, <1>3, PermUserTyped, PermChangeTyped, PermServeTyped DEF Perms!Next, PermsStep

(***************************************************************************)
(* Who is at work.  When calm, a creation, a deletion or a lookup (which   *)
(* may change the selection) is alone of its kind; a change is shown in    *)
(* its panel exactly while what it changes is selected; and of the changes *)
(* a button waits for, the weight and the track, there is one for each     *)
(* entity.                                                                 *)
(***************************************************************************)
PermChanges(c) == c # Perms!NoCall /\ c.kind \in Perms!Edits \ {"delete"}
PermSolo(c) == c # Perms!NoCall /\ (c.kind \in {"create", "delete", "lookup"} \/ (c.kind = "lists" /\ c.value # Gone))
PermOwn(c) == c # Perms!NoCall /\ c.key \in {"weight", "track"}

\* The key of a change, and what has none of its own.
PermFiled(c) ==
    /\ c.key = "weight" => c.kind \in {"add", "remove", "weight"} /\ c.of \in Groups
    /\ c.key = "track" => c.kind = "set" /\ c.of = Track
    /\ c.kind = "set" => c.key = "track"
    /\ c.kind = "weight" => c.key = "weight"
    /\ c.kind = "title" => c.key = "title" /\ c.of \in Groups /\ {c.seen, c.value} \intersect Weights = {}
    /\ c.kind \in {"add", "remove"} /\ c.key # "weight" => c.of = User \/ c.value \notin Weights

PermAllFiled ==
    /\ view.dialog # Perms!NoCall => PermFiled(view.dialog)
    /\ \A s \in Slots : calls[s] # Perms!NoCall => PermFiled(calls[s])
PermAlone == \A s, t \in Slots : PermSolo(calls[s]) /\ PermSolo(calls[t]) => s = t
PermInItsPanel == \A s \in Slots : PermChanges(calls[s]) => (calls[s].mounted <=> calls[s].of = view.selected)
PermStaying ==
    \A s, t \in Slots : PermSolo(calls[s]) /\ calls[s].kind # "delete" /\ PermChanges(calls[t]) =>
      calls[t].mounted
PermOneOwn == \A s, t \in Slots : PermOwn(calls[s]) /\ PermOwn(calls[t]) /\ calls[s].of = calls[t].of => s = t
PermBusyOwn == \A s \in Slots : PermOwn(calls[s]) /\ calls[s].mounted => calls[s].key \in view.busy
PermLoading ==
    view.selected \in Perms!Entities /\ view.loading =>
        \E s \in Slots : calls[s] # Perms!NoCall /\ calls[s].kind = "load" /\ calls[s].mounted
PermLocks == PermAllFiled /\ PermAlone /\ PermInItsPanel /\ PermStaying /\ PermOneOwn /\ PermBusyOwn
  /\ PermLoading

LEMMA PermOwnChanges ==
    ASSUME PermLocks, NEW s \in Slots, PermOwn(calls[s])
    PROVE  /\ PermChanges(calls[s])
           /\ (calls[s].of \in Groups /\ calls[s].key = "weight")
                \/ (calls[s].of = Track /\ calls[s].key = "track")
  BY DEF PermLocks, PermAllFiled, PermOwn, PermChanges, PermFiled, Perms!Edits

\* The backend leaves what a request is about alone.
PermAlike(c, d) ==
    /\ c = Perms!NoCall <=> d = Perms!NoCall
    /\ c # Perms!NoCall => /\ d.kind = c.kind /\ d.of = c.of /\ d.value = c.value
                           /\ d.key = c.key /\ d.mounted = c.mounted /\ d.seen = c.seen

LEMMA PermLocksAlike ==
    ASSUME PermLocks, \A t \in Slots : PermAlike(calls[t], calls'[t]), view' = view
    PROVE  PermLocks'
<1>1. /\ \A t \in Slots : PermSolo(calls'[t]) <=> PermSolo(calls[t])
      /\ \A t \in Slots : PermChanges(calls'[t]) <=> PermChanges(calls[t])
      /\ \A t \in Slots : PermOwn(calls'[t]) <=> PermOwn(calls[t])
  BY DEF PermAlike, PermSolo, PermChanges, PermOwn
<1>2. \A t \in Slots : calls[t] # Perms!NoCall =>
        /\ calls'[t] # Perms!NoCall
        /\ calls'[t].kind = calls[t].kind /\ calls'[t].of = calls[t].of
        /\ calls'[t].mounted = calls[t].mounted /\ calls'[t].key = calls[t].key
        /\ PermFiled(calls[t]) => PermFiled(calls'[t])
  BY DEF PermAlike, PermFiled
<1>3. PermAllFiled'
  BY <1>2 DEF PermLocks, PermAllFiled, PermFiled, PermAlike
<1>4. PermAlone'
  BY <1>1 DEF PermLocks, PermAlone, PermSolo
<1>5. PermInItsPanel'
  BY <1>1, <1>2 DEF PermLocks, PermInItsPanel, PermChanges
<1>6. PermStaying'
  BY <1>1, <1>2 DEF PermLocks, PermStaying, PermChanges, PermSolo
<1>7. PermOneOwn'
  BY <1>1, <1>2 DEF PermLocks, PermOneOwn, PermOwn
<1>8. PermBusyOwn'
  BY <1>1, <1>2 DEF PermLocks, PermBusyOwn, PermOwn
<1>9. PermLoading'
  BY <1>2 DEF PermLocks, PermLoading
<1> QED
  BY <1>3, <1>4, <1>5, <1>6, <1>7, <1>8, <1>9 DEF PermLocks

-----------------------------------------------------------------------------
(* A request of the user. *)

\* It was made from what is shown.
PermSuits(c) ==
    /\ c.kind = "set" => c.seen = view.shown.doc
    /\ c.kind = "add" => view.shown.doc \intersect Weights = {}
    /\ c.kind = "weight" => c.seen \in view.shown.doc \intersect Weights

\* What a step does to the list of groups: an answer with a list is shown, one without is an
\* error, and who starts to show the list again has asked for it.
PermListed(v) == v.health = "up" /\ ~v.listsFailed
PermFetches(c) == c # Perms!NoCall /\ c.kind = "lists"
PermRelists(c, next) ==
    /\ PermListed(view') => PermListed(view) \/ PermFetches(next)
    /\ IF ~PermFetches(c) THEN view'.lists = view.lists
       ELSE IF c.ok = TRUE THEN view'.lists = c.doc
       ELSE ~PermListed(view')
    /\ c # Perms!NoCall /\ c.kind \in {"create", "delete"} /\ c.ok = TRUE => PermFetches(next)

PermAsks(s, new) ==
    /\ calls[s] = Perms!NoCall /\ calls' = [calls EXCEPT ![s] = new] /\ order' = order /\ server' = server
    /\ PermIsCall(new) /\ new.at = "sent" /\ PermFiled(new)
    /\ view'.selected = view.selected /\ view'.shown = view.shown
    /\ view'.loading = view.loading /\ view'.failed = view.failed
    /\ view'.dialog = view.dialog \/ view'.dialog = Perms!NoCall
    /\ PermRelists(Perms!NoCall, new)
    /\ view.busy \union ({new.key} \ {"none"}) \subseteq view'.busy
    /\ PermChanges(new) => Perms!Open(new.of) /\ new.mounted = TRUE /\ new.of \in Perms!Entities
    /\ PermSolo(new) => Perms!Quiet
    /\ PermOwn(new) => new.key \notin view.busy /\ PermSuits(new)

LEMMA PermAsksLocks ==
    ASSUME Keyed, PermLocks, NEW s \in Slots, NEW new, PermAsks(s, new)
    PROVE  PermLocks'
<1>1. calls'[s] = new /\ (\A t \in Slots : t # s => calls'[t] = calls[t]) /\ new # Perms!NoCall
        /\ calls[s] = Perms!NoCall
  BY PermACall DEF Keyed, PermAsks
<1>2. PermChanges(new) => new.of = view.selected
  BY DEF PermAsks, Perms!Open
<1>3. PermAllFiled'
  BY <1>1 DEF PermLocks, PermAllFiled, PermAsks, PermFiled
<1>4. PermAlone'
  BY <1>1 DEF PermLocks, PermAlone, PermAsks, PermSolo, Perms!Quiet
<1>5. PermInItsPanel'
  BY <1>1, <1>2 DEF PermLocks, PermInItsPanel, PermChanges, PermAsks
<1>6. PermStaying'
  <2> SUFFICES ASSUME NEW u \in Slots, NEW t \in Slots, PermSolo(calls'[u]), calls'[u].kind # "delete",
                      PermChanges(calls'[t])
               PROVE  calls'[t].mounted
    BY DEF PermStaying, PermSolo, PermChanges
  <2>1. CASE t = s
    BY <1>1, <2>1 DEF PermAsks
  <2>2. CASE t # s
    <3>1. PermChanges(calls[t]) /\ calls[t] # Perms!NoCall
      BY <1>1, <2>2 DEF PermChanges
    <3>2. u # s
      BY <1>1, <3>1 DEF PermAsks, Perms!Quiet
    <3> QED
      BY <1>1, <2>2, <3>1, <3>2 DEF PermLocks, PermStaying
  <2> QED
    BY <2>1, <2>2
<1>7. ASSUME NEW t \in Slots, t # s, PermOwn(calls[t]), PermOwn(new), calls[t].of = new.of
      PROVE  FALSE
  <2>1. PermChanges(new) /\ new.key = calls[t].key
    BY <1>1, <1>7, PermOwnChanges, EntitiesAssumption DEF PermAsks, PermFiled, PermOwn, PermChanges,
       Perms!Edits
  <2>2. calls[t].mounted /\ PermChanges(calls[t])
    BY <1>2, <1>7, <2>1, PermOwnChanges DEF PermLocks, PermInItsPanel
  <2>3. calls[t].key \in view.busy
    BY <1>7, <2>2 DEF PermLocks, PermBusyOwn
  <2> QED
    BY <1>7, <2>1, <2>3 DEF PermAsks
<1>8. PermOneOwn'
  <2> SUFFICES ASSUME NEW u \in Slots, NEW t \in Slots, PermOwn(calls'[u]), PermOwn(calls'[t]),
                      calls'[u].of = calls'[t].of
               PROVE  u = t
    BY DEF PermOneOwn, PermOwn
  <2>1. CASE u # s /\ t # s
    BY <1>1, <2>1 DEF PermLocks, PermOneOwn
  <2>2. CASE u = s \/ t = s
    BY <1>1, <1>7, <2>2
  <2> QED
    BY <2>1, <2>2
<1>9. PermBusyOwn'
  BY <1>1 DEF PermLocks, PermBusyOwn, PermAsks, PermOwn
<1>10. PermLoading'
  BY <1>1 DEF PermLocks, PermLoading, PermAsks
<1> QED
  BY <1>3, <1>4, <1>5, <1>6, <1>8, <1>9, <1>10 DEF PermLocks

-----------------------------------------------------------------------------
(* An answer that arrives, and what follows it in its slot. *)

PermFollows(s, next) ==
    /\ calls[s] # Perms!NoCall /\ calls' = [calls EXCEPT ![s] = next] /\ server' = server
    /\ view'.selected = view.selected /\ view'.dialog = view.dialog
    /\ view'.loading => view.loading /\ ~(calls[s].kind = "load" /\ calls[s].mounted)
    /\ IF PermShown(calls[s]) /\ calls[s].ok = TRUE
       THEN view'.shown = [of |-> calls[s].of, doc |-> calls[s].doc]
       ELSE view'.shown = view.shown
    /\ calls[s].kind = "delete" => calls[s].ok # TRUE
    /\ PermRelists(calls[s], next)
    /\ \/ view.busy \ {"lookup"} \subseteq view'.busy
       \/ (calls[s].mounted \/ ~PermOwn(calls[s])) /\ view.busy \ {calls[s].key} \subseteq view'.busy
            /\ next = Perms!NoCall
    /\ next # Perms!NoCall =>
         /\ PermIsCall(next) /\ next.at = "sent" /\ PermFiled(next) /\ next.kind \notin {"create", "delete"}
         /\ PermSolo(next) => PermSolo(calls[s]) /\ calls[s].kind # "delete"
         /\ PermChanges(next) => /\ PermChanges(calls[s]) /\ next.of = calls[s].of /\ next.mounted = calls[s].mounted
                                 /\ next.key = calls[s].key
         /\ PermOwn(next) => next.kind = "add" /\ calls[s].kind = "weight" /\ calls[s].ok = TRUE

LEMMA PermFollowsLocks ==
    ASSUME Keyed, PermLocks, NEW s \in Slots, NEW next, PermFollows(s, next)
    PROVE  PermLocks'
<1>1. calls'[s] = next /\ (\A t \in Slots : t # s => calls'[t] = calls[t])
  BY DEF Keyed, PermFollows
<1>2. /\ PermSolo(next) => PermSolo(calls[s]) /\ calls[s].kind # "delete"
      /\ PermChanges(next) => /\ PermChanges(calls[s]) /\ next.of = calls[s].of /\ next.mounted = calls[s].mounted
                              /\ next.key = calls[s].key
      /\ PermOwn(next) => PermOwn(calls[s]) /\ PermChanges(next)
  BY DEF PermFollows, PermSolo, PermChanges, PermOwn, PermFiled, Perms!Edits
<1>3. PermAllFiled'
  BY <1>1 DEF PermLocks, PermAllFiled, PermFollows, PermFiled
<1>4. PermAlone'
  <2>1. \A t \in Slots : PermSolo(calls'[t]) => PermSolo(calls[t])
    BY <1>1, <1>2
  <2> QED
    BY <2>1 DEF PermLocks, PermAlone, PermSolo
<1>5. PermInItsPanel'
  BY <1>1, <1>2 DEF PermLocks, PermInItsPanel, PermChanges, PermFollows
<1>6. PermStaying'
  <2>1. \A t \in Slots : PermSolo(calls'[t]) /\ calls'[t].kind # "delete" =>
          PermSolo(calls[t]) /\ calls[t].kind # "delete"
    BY <1>1, <1>2
  <2>2. \A t \in Slots : PermChanges(calls'[t]) => PermChanges(calls[t]) /\ calls'[t].mounted = calls[t].mounted
    BY <1>1, <1>2
  <2> QED
    BY <2>1, <2>2 DEF PermLocks, PermStaying, PermSolo, PermChanges
<1>7. \A t \in Slots : PermOwn(calls'[t]) => /\ PermOwn(calls[t]) /\ calls'[t].of = calls[t].of
                                             /\ calls'[t].mounted = calls[t].mounted
                                             /\ calls'[t].key = calls[t].key
  BY <1>1, <1>2
<1>8. PermOneOwn'
  BY <1>7 DEF PermLocks, PermOneOwn, PermOwn
<1>9. PermBusyOwn'
  <2> SUFFICES ASSUME NEW t \in Slots, PermOwn(calls'[t]), calls'[t].mounted
               PROVE  calls'[t].key \in view'.busy
    BY DEF PermBusyOwn, PermOwn
  <2>1. PermOwn(calls[t]) /\ calls[t].mounted /\ calls'[t].key = calls[t].key /\ calls[t].key \in view.busy
    BY <1>7 DEF PermLocks, PermBusyOwn
  <2>2. CASE view.busy \ {"lookup"} \subseteq view'.busy
    BY <2>1, <2>2 DEF PermOwn
  <2>3. CASE ~(view.busy \ {"lookup"} \subseteq view'.busy)
    <3>1. (calls[s].mounted \/ ~PermOwn(calls[s])) /\ view.busy \ {calls[s].key} \subseteq view'.busy
            /\ next = Perms!NoCall
      BY <2>3 DEF PermFollows
    <3>2. t # s
      BY <1>1, <3>1 DEF PermOwn
    <3>3. calls[t].key # calls[s].key
      <4> SUFFICES ASSUME calls[t].key = calls[s].key PROVE FALSE
        OBVIOUS
      <4>1. PermOwn(calls[s]) /\ calls[s].mounted
        BY <2>1, <3>1 DEF PermOwn, PermFollows
      <4>2. calls[s].of = view.selected /\ calls[t].of = view.selected
        BY <2>1, <4>1, PermOwnChanges DEF PermLocks, PermInItsPanel
      <4> QED
        BY <2>1, <3>2, <4>1, <4>2 DEF PermLocks, PermOneOwn
    <3> QED
      BY <2>1, <3>1, <3>3
  <2> QED
    BY <2>2, <2>3
<1>10. PermLoading'
  <2> SUFFICES ASSUME view.selected \in Perms!Entities, view.loading,
                      ~(calls[s].kind = "load" /\ calls[s].mounted)
               PROVE  \E t \in Slots : calls'[t] # Perms!NoCall /\ calls'[t].kind = "load" /\ calls'[t].mounted
    BY DEF PermLoading, PermFollows
  <2>1. PICK t \in Slots : calls[t] # Perms!NoCall /\ calls[t].kind = "load" /\ calls[t].mounted
    BY DEF PermLocks, PermLoading
  <2> QED
    BY <1>1, <2>1
<1> QED
  BY <1>3, <1>4, <1>5, <1>6, <1>8, <1>9, <1>10 DEF PermLocks

-----------------------------------------------------------------------------
(* Another panel is mounted. *)

PermRemounts(s, e, next) ==
    /\ calls' = [t \in Slots |-> IF t = s THEN next ELSE Perms!Unmounted(t)] /\ server' = server
    /\ view'.selected = e /\ view'.shown = Perms!NothingShown /\ view'.dialog = view.dialog
    /\ PermRelists(calls[s], next)
    /\ e \in Perms!Entities => next # Perms!NoCall /\ next.kind = "load" /\ next.mounted
    /\ next # Perms!NoCall =>
         PermIsCall(next) /\ next.at = "sent" /\ PermFiled(next) /\ ~PermChanges(next) /\ ~PermOwn(next)
           /\ ~PermSolo(next)
    /\ \/ ~Perms!EditInFlight
       \/ PermSolo(calls[s]) /\ calls[s].kind # "delete" /\ e # view.selected
       \/ PermSolo(calls[s]) /\ e \notin Perms!Entities

LEMMA PermUnmountedIs ==
    ASSUME Keyed, NEW t \in Slots
    PROVE  /\ Perms!Unmounted(t) = Perms!NoCall <=> calls[t] = Perms!NoCall
           /\ calls[t] # Perms!NoCall =>
                LET c == calls[t]
                    d == Perms!Unmounted(t)
                IN  /\ PermIsCall(d) /\ d.kind = c.kind /\ d.of = c.of /\ d.value = c.value /\ d.key = c.key
                    /\ d.seen = c.seen /\ d.at = c.at /\ d.ok = c.ok /\ d.doc = c.doc
                    /\ d.kind \in Perms!Edits \union {"load", "search", "browse"} => ~d.mounted
<1>1. CASE calls[t] = Perms!NoCall
  BY <1>1 DEF Perms!Unmounted
<1>2. CASE calls[t] # Perms!NoCall /\ calls[t].kind \notin Perms!Edits \union {"load", "search", "browse"}
  BY <1>2 DEF Perms!Unmounted, Keyed
<1>3. CASE calls[t] # Perms!NoCall /\ calls[t].kind \in Perms!Edits \union {"load", "search", "browse"}
  <2> DEFINE c == calls[t]
             d == [calls[t] EXCEPT !.mounted = FALSE]
  <2>1. PermIsCall(c) /\ Perms!Unmounted(t) = d
    BY <1>3 DEF Perms!Unmounted, Keyed
  <2>2. /\ PermIsCall(d) /\ d.kind = c.kind /\ d.of = c.of /\ d.value = c.value /\ d.key = c.key
        /\ d.seen = c.seen /\ d.at = c.at /\ d.ok = c.ok /\ d.doc = c.doc /\ ~d.mounted
    BY <2>1 DEF PermIsCall
  <2> HIDE DEF d
  <2> QED
    BY <1>3, <2>1, <2>2, PermACall
<1> QED
  BY <1>1, <1>2, <1>3

LEMMA PermRemountsLocks ==
    ASSUME Keyed, PermTyped, PermLocks, NEW s \in Slots, NEW e, NEW next, PermRemounts(s, e, next)
    PROVE  PermLocks'
<1>1. calls'[s] = next /\ (\A t \in Slots : t # s => calls'[t] = Perms!Unmounted(t))
  BY DEF PermRemounts
<1>2. ~PermChanges(next) /\ ~PermOwn(next) /\ ~PermSolo(next)
  BY DEF PermRemounts, PermChanges, PermOwn, PermSolo
<1>3. \A t \in Slots : calls'[t] # Perms!NoCall /\ t # s =>
        /\ calls[t] # Perms!NoCall
        /\ calls'[t].kind = calls[t].kind /\ calls'[t].of = calls[t].of /\ calls'[t].value = calls[t].value
        /\ calls'[t].key = calls[t].key /\ calls'[t].seen = calls[t].seen
        /\ calls'[t].kind \in Perms!Edits \union {"load", "search", "browse"} => ~calls'[t].mounted
  BY <1>1, PermUnmountedIs
<1>4. \A t \in Slots : /\ PermSolo(calls'[t]) => t # s /\ PermSolo(calls[t])
                       /\ PermChanges(calls'[t]) => t # s /\ PermChanges(calls[t]) /\ ~calls'[t].mounted
                       /\ PermOwn(calls'[t]) => t # s /\ PermOwn(calls[t])
  <2> SUFFICES ASSUME NEW t \in Slots
               PROVE  /\ PermSolo(calls'[t]) => t # s /\ PermSolo(calls[t])
                      /\ PermChanges(calls'[t]) => t # s /\ PermChanges(calls[t]) /\ ~calls'[t].mounted
                      /\ PermOwn(calls'[t]) => t # s /\ PermOwn(calls[t])
    OBVIOUS
  <2>1. CASE t = s
    BY <1>1, <1>2, <2>1
  <2>2. CASE t # s
    BY <1>3, <2>2 DEF PermSolo, PermChanges, PermOwn
  <2> QED
    BY <2>1, <2>2
<1>5. PermAllFiled'
  <2>1. \A t \in Slots : calls'[t] # Perms!NoCall => PermFiled(calls'[t])
    BY <1>1, <1>3 DEF PermLocks, PermAllFiled, PermRemounts, PermFiled
  <2> QED
    BY <2>1 DEF PermLocks, PermAllFiled, PermRemounts, PermFiled
<1>6. PermAlone'
  BY <1>4 DEF PermLocks, PermAlone, PermSolo
<1>7. PermInItsPanel'
  <2> SUFFICES ASSUME NEW t \in Slots, PermChanges(calls'[t]) PROVE ~calls'[t].mounted /\ calls'[t].of # e
    BY DEF PermInItsPanel, PermChanges, PermRemounts
  <2>1. t # s /\ PermChanges(calls[t]) /\ ~calls'[t].mounted /\ calls'[t].of = calls[t].of
          /\ calls[t] # Perms!NoCall
    BY <1>3, <1>4 DEF PermChanges
  <2>2. Perms!EditInFlight
    BY <2>1 DEF Perms!EditInFlight, PermChanges
  <2>3. calls[t].of \in Perms!Entities
    BY <2>1 DEF PermTyped, PermCallFits, PermAsked
  <2>4. CASE PermSolo(calls[s]) /\ calls[s].kind # "delete" /\ e # view.selected
    BY <2>1, <2>4 DEF PermLocks, PermStaying, PermInItsPanel
  <2> QED
    BY <2>1, <2>2, <2>3, <2>4 DEF PermRemounts
<1>8. PermStaying'
  <2> SUFFICES ASSUME NEW u \in Slots, NEW t \in Slots, PermSolo(calls'[u]), PermChanges(calls'[t]) PROVE FALSE
    BY DEF PermStaying, PermSolo, PermChanges
  <2>1. Perms!EditInFlight
    BY <1>4 DEF Perms!EditInFlight, PermChanges
  <2>2. PermSolo(calls[s]) /\ PermSolo(calls[u]) /\ u # s
    BY <1>4, <2>1 DEF PermRemounts
  <2> QED
    BY <2>2 DEF PermLocks, PermAlone
<1>9. PermOneOwn'
  <2>1. \A t \in Slots : PermOwn(calls'[t]) => PermOwn(calls[t]) /\ calls'[t].of = calls[t].of
    BY <1>3, <1>4 DEF PermOwn
  <2> QED
    BY <2>1 DEF PermLocks, PermOneOwn, PermOwn
<1>10. PermBusyOwn'
  <2>1. \A t \in Slots : PermOwn(calls'[t]) => ~calls'[t].mounted
    <3> SUFFICES ASSUME NEW t \in Slots, PermOwn(calls'[t]) PROVE ~calls'[t].mounted
      OBVIOUS
    <3>1. t # s /\ PermOwn(calls[t]) /\ calls'[t] # Perms!NoCall
      BY <1>4 DEF PermOwn
    <3>2. PermChanges(calls[t])
      BY <3>1, PermOwnChanges
    <3>3. PermChanges(calls'[t])
      BY <1>3, <3>1, <3>2 DEF PermChanges
    <3> QED
      BY <1>4, <3>3
  <2> QED
    BY <2>1 DEF PermBusyOwn, PermOwn
<1>11. PermLoading'
  BY <1>1 DEF PermLoading, PermRemounts
<1> QED
  BY <1>5, <1>6, <1>7, <1>8, <1>9, <1>10, <1>11 DEF PermLocks

-----------------------------------------------------------------------------
(* The steps of the user. *)

PermIdle ==
    /\ calls' = calls /\ order' = order /\ server' = server
    /\ view'.selected = view.selected /\ view'.shown = view.shown /\ view'.busy = view.busy
    /\ view'.loading = view.loading /\ view'.failed = view.failed
    /\ view'.lists = view.lists /\ (PermListed(view') => PermListed(view))
    /\ view'.dialog # Perms!NoCall => view'.dialog = view.dialog \/ PermFiled(view'.dialog)

LEMMA PermIdleLocks ==
    ASSUME PermLocks, PermIdle
    PROVE  PermLocks'
<1>1. PermAllFiled' /\ PermAlone' /\ PermStaying' /\ PermOneOwn'
  BY DEF PermLocks, PermIdle, PermAllFiled, PermFiled, PermAlone, PermSolo, PermStaying, PermChanges,
     PermOneOwn, PermOwn
<1>2. PermInItsPanel' /\ PermBusyOwn' /\ PermLoading'
  BY DEF PermLocks, PermIdle, PermInItsPanel, PermChanges, PermBusyOwn, PermOwn, PermLoading
<1> QED
  BY <1>1, <1>2 DEF PermLocks

PermIsNew(c, kind, e, value, key) ==
    /\ PermIsCall(c) /\ c.kind = kind /\ c.of = e /\ c.value = value /\ c.key = key
    /\ c.at = "sent" /\ c.mounted = TRUE /\ c.ok = FALSE /\ c # Perms!NoCall

LEMMA PermNewCallIs ==
    ASSUME NEW kind, NEW e, NEW value, NEW key
    PROVE  PermIsNew(Perms!Call(kind, e, value, key), kind, e, value, key)
  BY PermACall DEF Perms!Call, PermIsCall, PermIsNew

\* A request of the user, with what its button checked.
PermReady(new) ==
    /\ Perms!Begins(new) /\ PermIsCall(new) /\ new.at = "sent" /\ PermFiled(new)
    /\ PermChanges(new) => Perms!Open(new.of) /\ new.mounted = TRUE /\ new.of \in Perms!Entities
    /\ PermSolo(new) => Perms!Quiet
    /\ PermOwn(new) => Perms!Free(new.key) /\ PermSuits(new)

LEMMA PermReadyAsks ==
    ASSUME Keyed, NEW new, PermReady(new)
    PROVE  \E s \in Slots : \E c : PermAsks(s, c)
<1>1. /\ Perms!FreeSlot \in Slots /\ calls[Perms!FreeSlot] = Perms!NoCall
      /\ calls' = [calls EXCEPT ![Perms!FreeSlot] = new] /\ order' = order /\ server' = server
  BY PermSlotFree DEF PermReady, Perms!Begins, Perms!Send
<1>2. view' = [view EXCEPT !.busy = view.busy \union ({new.key} \ {"none"})]
  BY DEF PermReady, Perms!Begins
<1>3. /\ view'.selected = view.selected /\ view'.shown = view.shown
      /\ view'.loading = view.loading /\ view'.failed = view.failed
      /\ view'.dialog = view.dialog
      /\ view'.lists = view.lists /\ view'.health = view.health /\ view'.listsFailed = view.listsFailed
      /\ view'.busy = view.busy \union ({new.key} \ {"none"})
  BY <1>2 DEF Keyed, PermIsView
<1>4. PermAsks(Perms!FreeSlot, new)
  BY <1>1, <1>3 DEF PermAsks, Perms!Free, PermReady, PermRelists, PermListed, PermFetches
<1> QED
  BY <1>1, <1>4, Zenon

LEMMA PermWeightReady ==
    ASSUME NEW new, NEW e \in Groups, Perms!Open(e), Perms!Free("weight"), Perms!Begins(new),
           NEW kind \in {"add", "remove", "weight"}, NEW w, PermIsNew(new, kind, e, w, "weight"), PermSuits(new)
    PROVE  PermReady(new)
  BY DEF PermReady, PermIsNew, PermFiled, PermSolo, Perms!Entities

\* What the user does, when it is not to select something else.
LEMMA PermUserAsks ==
    ASSUME Keyed, PermTyped, PermLocks, calm,
           \/ Perms!EditNodes \/ Perms!SaveWeight \/ Perms!SaveDisplayName \/ Perms!EditTrack \/ Perms!MoveUser
                \/ Perms!Lookup
           \/ Perms!Search \/ Perms!AskName \/ Perms!DeleteGroup \/ Perms!DeleteTrack \/ Perms!Answered
                \/ Perms!Retry
    PROVE  PermIdle \/ \E s \in Slots : \E c : PermAsks(s, c)
<1>1. CASE Perms!EditNodes
  <2>1. PICK kind, e, n :
          /\ kind \in {"add", "remove"} /\ Perms!Open(e) /\ Perms!Begins(Perms!Call(kind, e, n, "none"))
          /\ e \in Groups \union {User}
          /\ e = User \/ n \notin Weights
    BY <1>1, EntitiesAssumption DEF Perms!EditNodes, Perms!PermissionsPanel, Perms!ChatMetaPanel,
       Perms!MetaPanel, Perms!ParentsPanel, Perms!AddNode, Perms!RemoveNode, Perms!Open
  <2> DEFINE new == Perms!Call(kind, e, n, "none")
  <2>2. PermIsNew(new, kind, e, n, "none")
    BY PermNewCallIs, Zenon
  <2>3. Perms!Begins(new)
    BY <2>1
  <2> HIDE DEF new
  <2>4. PermReady(new)
    BY <2>1, <2>2, <2>3 DEF PermReady, PermIsNew, PermFiled, PermSolo, PermOwn, Perms!Entities
  <2> QED
    BY <2>4, PermReadyAsks, Zenon
<1>2. CASE Perms!SaveWeight
  <2>1. PICK e \in Groups :
          /\ Perms!Open(e) /\ Perms!Free("weight")
          /\ \/ \E w \in Weights : view.shown.doc \intersect Weights = {}
                  /\ Perms!Begins(Perms!Call("add", e, w, "weight"))
             \/ \E x \in view.shown.doc \intersect Weights : Perms!Begins(Perms!Call("remove", e, x, "weight"))
             \/ \E x \in view.shown.doc \intersect Weights, w \in Weights :
                  Perms!Begins([Perms!Call("weight", e, w, "weight") EXCEPT !.seen = x])
    BY <1>2 DEF Perms!SaveWeight, Perms!SaveInfo
  <2>2. CASE \E w \in Weights : view.shown.doc \intersect Weights = {}
             /\ Perms!Begins(Perms!Call("add", e, w, "weight"))
    <3>1. PICK w \in Weights : view.shown.doc \intersect Weights = {}
            /\ Perms!Begins(Perms!Call("add", e, w, "weight"))
      BY <2>2
    <3> DEFINE new == Perms!Call("add", e, w, "weight")
    <3>2. PermIsNew(new, "add", e, w, "weight") /\ Perms!Begins(new)
      BY <3>1, PermNewCallIs, Zenon
    <3> HIDE DEF new
    <3>3. PermSuits(new)
      BY <3>1, <3>2 DEF PermSuits, PermIsNew
    <3>4. PermReady(new)
      BY <2>1, <3>2, <3>3, PermWeightReady
    <3> QED
      BY <3>4, PermReadyAsks, Zenon
  <2>3. CASE \E x \in view.shown.doc \intersect Weights : Perms!Begins(Perms!Call("remove", e, x, "weight"))
    <3>1. PICK x : Perms!Begins(Perms!Call("remove", e, x, "weight"))
      BY <2>3
    <3> DEFINE new == Perms!Call("remove", e, x, "weight")
    <3>2. PermIsNew(new, "remove", e, x, "weight") /\ Perms!Begins(new)
      BY <3>1, PermNewCallIs, Zenon
    <3> HIDE DEF new
    <3>3. PermSuits(new)
      BY <3>2 DEF PermSuits, PermIsNew
    <3>4. PermReady(new)
      BY <2>1, <3>2, <3>3, PermWeightReady
    <3> QED
      BY <3>4, PermReadyAsks, Zenon
  <2>4. CASE \E x \in view.shown.doc \intersect Weights, w \in Weights :
               Perms!Begins([Perms!Call("weight", e, w, "weight") EXCEPT !.seen = x])
    <3>1. PICK x \in view.shown.doc \intersect Weights, w \in Weights :
                 Perms!Begins([Perms!Call("weight", e, w, "weight") EXCEPT !.seen = x])
      BY <2>4
    <3> DEFINE new == [Perms!Call("weight", e, w, "weight") EXCEPT !.seen = x]
    <3>2. PermIsNew(new, "weight", e, w, "weight") /\ new.seen = x /\ Perms!Begins(new)
      BY <3>1, PermACall DEF Perms!Call, PermIsCall, PermIsNew
    <3> HIDE DEF new
    <3>3. PermSuits(new)
      BY <3>2 DEF PermSuits, PermIsNew
    <3>4. PermReady(new)
      BY <2>1, <3>2, <3>3, PermWeightReady
    <3> QED
      BY <3>4, PermReadyAsks, Zenon
  <2> QED
    BY <2>1, <2>2, <2>3, <2>4
<1>3. CASE Perms!EditTrack
  <2>1. PICK list : Perms!Begins([Perms!Call("set", Track, list, "track") EXCEPT !.seen = view.shown.doc])
    BY <1>3 DEF Perms!EditTrack
  <2> DEFINE new == [Perms!Call("set", Track, list, "track") EXCEPT !.seen = view.shown.doc]
  <2>2. PermIsNew(new, "set", Track, list, "track") /\ new.seen = view.shown.doc
    BY PermACall DEF Perms!Call, PermIsCall, PermIsNew
  <2>3. Perms!Begins(new) /\ Perms!Open(Track) /\ Perms!Free("track")
    BY <1>3, <2>1 DEF Perms!EditTrack
  <2> HIDE DEF new
  <2>4. PermReady(new)
    BY <2>2, <2>3 DEF PermReady, PermIsNew, PermFiled, PermSolo, PermSuits, Perms!Entities
  <2> QED
    BY <2>4, PermReadyAsks, Zenon
<1>4. CASE Perms!MoveUser \/ Perms!Lookup \/ Perms!Search
  <2>1. PICK kind, value :
          /\ kind \in {"move", "lookup", "search"} /\ Perms!Begins(Perms!Call(kind, User, value, kind))
          /\ kind = "move" => Perms!Open(User)
          /\ kind = "lookup" => Perms!Quiet
    BY <1>4 DEF Perms!MoveUser, Perms!Lookup, Perms!Search
  <2> DEFINE new == Perms!Call(kind, User, value, kind)
  <2>2. PermIsNew(new, kind, User, value, kind)
    BY PermNewCallIs, Zenon
  <2>3. Perms!Begins(new)
    BY <2>1
  <2> HIDE DEF new
  <2>4. PermReady(new)
    BY <2>1, <2>2, <2>3 DEF PermReady, PermIsNew, PermFiled, PermOwn, PermSolo, PermChanges, Perms!Edits,
       Perms!Entities
  <2> QED
    BY <2>4, PermReadyAsks, Zenon
<1>5. CASE Perms!AskName \/ Perms!DeleteGroup \/ Perms!DeleteTrack
  <2>1. PICK kind, e, key :
          /\ kind \in {"create", "delete"} /\ key \in {"none", "delete"}
          /\ Perms!Shows([view EXCEPT !.dialog = Perms!Call(kind, e, Gone, key)])
    <3>1. CASE Perms!AskName
      <4>1. PICK e : Perms!Shows([view EXCEPT !.dialog = Perms!Call("create", e, Gone, "none")])
        BY <3>1 DEF Perms!AskName
      <4>2. "create" \in {"create", "delete"} /\ "none" \in {"none", "delete"}
        OBVIOUS
      <4> QED
        BY <4>1, <4>2, Zenon
    <3>2. CASE Perms!DeleteGroup \/ Perms!DeleteTrack
      <4>1. PICK e : Perms!AskDelete(e)
        BY <3>2, Zenon DEF Perms!DeleteGroup, Perms!DeleteTrack
      <4>2. Perms!Shows([view EXCEPT !.dialog = Perms!Call("delete", e, Gone, "delete")])
        BY <4>1 DEF Perms!AskDelete
      <4>3. "delete" \in {"create", "delete"} /\ "delete" \in {"none", "delete"}
        OBVIOUS
      <4> QED
        BY <4>2, <4>3, Zenon
    <3> QED
      BY <1>5, <3>1, <3>2
  <2> DEFINE new == Perms!Call(kind, e, Gone, key)
  <2>2. PermIsNew(new, kind, e, Gone, key)
    BY PermNewCallIs, Zenon
  <2>3. Perms!Shows([view EXCEPT !.dialog = new])
    BY <2>1
  <2> HIDE DEF new
  <2>4. PermFiled(new)
    BY <2>1, <2>2 DEF PermFiled, PermIsNew
  <2>5. /\ calls' = calls /\ order' = order /\ server' = server
        /\ view' = [view EXCEPT !.dialog = new]
    BY <2>3 DEF Perms!Shows
  <2>6. /\ view'.selected = view.selected /\ view'.shown = view.shown /\ view'.busy = view.busy
        /\ view'.loading = view.loading /\ view'.failed = view.failed /\ view'.dialog = new
        /\ view'.lists = view.lists /\ view'.health = view.health /\ view'.listsFailed = view.listsFailed
    BY <2>5 DEF Keyed, PermIsView
  <2>7. PermIdle
    BY <2>4, <2>5, <2>6 DEF PermIdle, PermListed
  <2> QED
    BY <2>7
<1>6. CASE Perms!Answered
  <2>1. CASE Perms!Shows([view EXCEPT !.dialog = Perms!NoCall])
    <3>1. /\ calls' = calls /\ order' = order /\ server' = server
          /\ view'.selected = view.selected /\ view'.shown = view.shown /\ view'.busy = view.busy
          /\ view'.loading = view.loading /\ view'.failed = view.failed /\ view'.dialog = Perms!NoCall
          /\ view'.lists = view.lists /\ view'.health = view.health /\ view'.listsFailed = view.listsFailed
      BY <2>1 DEF Perms!Shows, Keyed, PermIsView
    <3>2. PermIdle
      BY <3>1 DEF PermIdle, PermListed
    <3> QED
      BY <3>2
  <2>2. CASE ~Perms!Shows([view EXCEPT !.dialog = Perms!NoCall])
    <3> DEFINE new == view.dialog
    <3>1. /\ Perms!Send(new) /\ Perms!Quiet /\ new # Perms!NoCall
          /\ view' = [view EXCEPT !.dialog = Perms!NoCall, !.busy = view.busy \union ({view.dialog.key} \ {"none"})]
      BY <1>6, <2>2 DEF Perms!Answered
    <3>2. PermIsCall(new) /\ new.kind \in {"create", "delete"} /\ new.at = "sent" /\ PermFiled(new)
      BY <3>1 DEF Keyed, PermTyped, PermLocks, PermAllFiled
    <3>3. /\ Perms!FreeSlot \in Slots /\ calls[Perms!FreeSlot] = Perms!NoCall
          /\ calls' = [calls EXCEPT ![Perms!FreeSlot] = new] /\ order' = order /\ server' = server
      BY <3>1, PermSlotFree DEF Perms!Send
    <3>4. /\ view'.selected = view.selected /\ view'.shown = view.shown
          /\ view'.loading = view.loading /\ view'.failed = view.failed
          /\ view'.dialog = Perms!NoCall
          /\ view'.lists = view.lists /\ view'.health = view.health /\ view'.listsFailed = view.listsFailed
          /\ view'.busy = view.busy \union ({new.key} \ {"none"})
      BY <3>1 DEF Keyed, PermIsView
    <3> HIDE DEF new
    <3>5. ~PermChanges(new) /\ ~PermOwn(new)
      BY <3>2 DEF PermChanges, PermOwn, PermFiled, Perms!Edits
    <3>6. PermAsks(Perms!FreeSlot, new)
      BY <3>1, <3>2, <3>3, <3>4, <3>5 DEF PermAsks, PermRelists, PermListed, PermFetches
    <3> QED
      BY <3>3, <3>6, Zenon
  <2> QED
    BY <2>1, <2>2
<1>7. CASE Perms!Retry
  <2>1. PICK new \in {Perms!Call("health", User, Gone, "none"), Perms!Lists} :
          /\ Perms!Send(new)
          /\ \/ view' = [view EXCEPT !.health = "checking"]
             \/ new = Perms!Lists /\ view' = [view EXCEPT !.listsLoading = TRUE, !.listsFailed = FALSE]
    BY <1>7 DEF Perms!Retry
  <2>2. \E kind \in {"health", "lists"} : PermIsNew(new, kind, User, Gone, "none")
          /\ (new = Perms!Lists => kind = "lists")
    <3>1. CASE new = Perms!Lists
      <4>1. PermIsNew(new, "lists", User, Gone, "none") /\ "lists" \in {"health", "lists"}
        BY <3>1, PermNewCallIs DEF Perms!Lists
      <4> QED
        BY <4>1, Zenon
    <3>2. CASE new # Perms!Lists
      <4>1. PermIsNew(new, "health", User, Gone, "none") /\ "health" \in {"health", "lists"}
        BY <2>1, <3>2, PermNewCallIs
      <4> QED
        BY <3>2, <4>1, Zenon
    <3> QED
      BY <3>1, <3>2
  <2>3. /\ PermIsCall(new) /\ new.at = "sent" /\ new.mounted = TRUE /\ PermFiled(new)
        /\ ~PermOwn(new) /\ ~PermSolo(new) /\ ~PermChanges(new) /\ new.key = "none"
        /\ new # Perms!NoCall /\ (new = Perms!Lists => PermFetches(new))
    BY <2>2 DEF PermIsNew, PermFetches, PermFiled, PermSolo, PermOwn, PermChanges, Perms!Edits
  <2>4. /\ view'.selected = view.selected /\ view'.shown = view.shown /\ view'.busy = view.busy
        /\ view'.loading = view.loading /\ view'.failed = view.failed /\ view'.dialog = view.dialog
        /\ view'.lists = view.lists /\ (view'.health = "checking" \/ new = Perms!Lists)
    BY <2>1 DEF Keyed, PermIsView
  <2>5. /\ Perms!FreeSlot \in Slots /\ calls[Perms!FreeSlot] = Perms!NoCall
        /\ calls' = [calls EXCEPT ![Perms!FreeSlot] = new] /\ order' = order /\ server' = server
    BY <2>1, PermSlotFree DEF Perms!Send
  <2>6. PermAsks(Perms!FreeSlot, new)
    BY <2>3, <2>4, <2>5 DEF PermAsks, PermRelists, PermListed, PermFetches
  <2> QED
    BY <2>5, <2>6, Zenon
<1>8. CASE Perms!SaveDisplayName
  <2>1. PICK e \in Groups :
          /\ Perms!Open(e)
          /\ \/ \E w \in Titles : Perms!Begins(Perms!Call("add", e, w, "title"))
             \/ \E x \in Titles : Perms!Begins(Perms!Call("remove", e, x, "title"))
             \/ \E x \in Titles, w \in Titles : Perms!Begins([Perms!Call("title", e, w, "title") EXCEPT !.seen = x])
    BY <1>8 DEF Perms!SaveDisplayName, Perms!SaveInfo
  <2>2. Titles \intersect Weights = {}
    BY EntitiesAssumption
  <2>3. ASSUME NEW kind \in {"add", "remove"}, NEW w \in Titles, Perms!Begins(Perms!Call(kind, e, w, "title"))
        PROVE  \E s \in Slots : \E c : PermAsks(s, c)
    <3> DEFINE new == Perms!Call(kind, e, w, "title")
    <3>1. PermIsNew(new, kind, e, w, "title") /\ Perms!Begins(new)
      BY <2>3, PermNewCallIs, Zenon
    <3> HIDE DEF new
    <3>2. PermReady(new)
      BY <2>1, <2>2, <2>3, <3>1 DEF PermReady, PermIsNew, PermFiled, PermSolo, PermOwn, Perms!Entities
    <3> QED
      BY <3>2, PermReadyAsks, Zenon
  <2>4. ASSUME NEW x \in Titles, NEW w \in Titles,
               Perms!Begins([Perms!Call("title", e, w, "title") EXCEPT !.seen = x])
        PROVE  \E s \in Slots : \E c : PermAsks(s, c)
    <3> DEFINE new == [Perms!Call("title", e, w, "title") EXCEPT !.seen = x]
    <3>1. PermIsNew(new, "title", e, w, "title") /\ new.seen = x /\ Perms!Begins(new)
      BY <2>4, PermACall DEF Perms!Call, PermIsCall, PermIsNew
    <3> HIDE DEF new
    <3>2. PermReady(new)
      BY <2>1, <2>2, <3>1 DEF PermReady, PermIsNew, PermFiled, PermSolo, PermOwn, Perms!Entities
    <3> QED
      BY <3>2, PermReadyAsks, Zenon
  <2>5. CASE \E w \in Titles : Perms!Begins(Perms!Call("add", e, w, "title"))
    BY <2>3, <2>5, Zenon
  <2>6. CASE \E x \in Titles : Perms!Begins(Perms!Call("remove", e, x, "title"))
    BY <2>3, <2>6, Zenon
  <2>7. CASE \E x \in Titles, w \in Titles : Perms!Begins([Perms!Call("title", e, w, "title") EXCEPT !.seen = x])
    BY <2>4, <2>7, Zenon
  <2> QED
    BY <2>1, <2>5, <2>6, <2>7
<1> QED
  BY <1>1, <1>2, <1>3, <1>4, <1>5, <1>6, <1>7, <1>8

-----------------------------------------------------------------------------
(* The answers. *)

\* Answers that leave the panel and the keys alone.
LEMMA PermSidebarFollows ==
    ASSUME Keyed, PermLocks, NEW s \in Slots, Perms!Arrives(s),
           Perms!HealthArrives(s) \/ Perms!BrowseArrives(s) \/ Perms!CreateArrives(s)
    PROVE  \E next : PermFollows(s, next)
<1> DEFINE c == calls[s]
<1>1. PermIsCall(c) /\ c # Perms!NoCall /\ c.kind \in {"health", "browse", "create"} /\ server' = server
  BY PermAnsweredCall DEF Perms!HealthArrives, Perms!BrowseArrives, Perms!CreateArrives, Perms!Arrives
<1>2. PermIsNew(Perms!Lists, "lists", User, Gone, "none")
  BY PermNewCallIs DEF Perms!Lists
<1>3. PermIsNew([Perms!Lists EXCEPT !.value = c.of], "lists", User, c.of, "none")
  BY PermACall DEF Perms!Lists, Perms!Call, PermIsCall, PermIsNew
<1>4. ~PermShown(c) /\ ~PermOwn(c) /\ ~PermFetches(c) /\ (c.kind = "create" => PermSolo(c))
  BY <1>1 DEF PermShown, Perms!Edits, PermOwn, PermLocks, PermAllFiled, PermFiled, PermFetches, PermSolo
<1>5. ASSUME NEW next, calls' = [calls EXCEPT ![s] = next],
             next = Perms!NoCall \/ (PermFetches(next) /\ \E value : PermIsNew(next, "lists", User, value, "none")),
             PermSolo(next) => c.kind = "create",
             c.kind = "create" /\ c.ok = TRUE => PermFetches(next),
             view'.selected = view.selected, view'.shown = view.shown, view'.dialog = view.dialog,
             view'.loading = view.loading, view'.busy = view.busy, view'.lists = view.lists,
             PermListed(view') => PermListed(view) \/ PermFetches(next)
      PROVE  PermFollows(s, next)
  <2>1. PermRelists(c, next)
    BY <1>1, <1>4, <1>5 DEF PermRelists
  <2>2. next # Perms!NoCall => /\ PermIsCall(next) /\ next.at = "sent" /\ PermFiled(next) /\ next.kind \notin {"create", "delete"}
                               /\ ~PermChanges(next) /\ ~PermOwn(next)
    BY <1>5 DEF PermIsNew, PermFiled, PermChanges, PermOwn, Perms!Edits
  <2> HIDE DEF c
  <2> QED
    BY <1>1, <1>4, <1>5, <2>1, <2>2 DEF PermFollows, c
<1>6. CASE Perms!HealthArrives(s)
  <2>1. /\ view'.selected = view.selected /\ view'.shown = view.shown /\ view'.dialog = view.dialog
        /\ view'.loading = view.loading /\ view'.busy = view.busy /\ view'.lists = view.lists
        /\ view'.health = "up" => c.ok
    BY <1>6 DEF Perms!HealthArrives, Keyed, PermIsView
  <2>2. CASE c.ok
    <3>1. calls' = [calls EXCEPT ![s] = Perms!Lists] /\ PermFetches(Perms!Lists) /\ ~PermSolo(Perms!Lists)
      BY <1>2, <1>6, <2>2 DEF Perms!HealthArrives, Perms!Continues, PermFetches, PermIsNew, PermSolo
    <3>2. \E value : PermIsNew(Perms!Lists, "lists", User, value, "none")
      BY <1>2
    <3>3. PermFollows(s, Perms!Lists)
      BY <1>1, <1>5, <2>1, <3>1, <3>2
    <3> QED
      BY <3>3
  <2>3. CASE ~c.ok
    <3>1. calls' = [calls EXCEPT ![s] = Perms!NoCall] /\ ~PermListed(view') /\ ~PermSolo(Perms!NoCall)
            /\ c.kind = "health"
      BY <1>6, <2>1, <2>3 DEF Perms!HealthArrives, Perms!Ends, PermListed, PermSolo
    <3>2. PermFollows(s, Perms!NoCall)
      BY <1>1, <1>5, <2>1, <3>1
    <3> QED
      BY <3>2
  <2> QED
    BY <2>2, <2>3
<1>7. CASE Perms!BrowseArrives(s)
  <2>1. /\ view'.selected = view.selected /\ view'.shown = view.shown /\ view'.dialog = view.dialog
        /\ view'.loading = view.loading /\ view'.busy = view.busy /\ view'.lists = view.lists
        /\ view'.health = view.health /\ view'.listsFailed = view.listsFailed
    BY <1>7 DEF Perms!BrowseArrives, Keyed, PermIsView
  <2>2. calls' = [calls EXCEPT ![s] = Perms!NoCall] /\ ~PermSolo(Perms!NoCall) /\ c.kind # "create"
    BY <1>7 DEF Perms!BrowseArrives, Perms!Ends, PermSolo
  <2>3. PermFollows(s, Perms!NoCall)
    BY <1>5, <2>1, <2>2 DEF PermListed
  <2> QED
    BY <2>3
<1>8. CASE Perms!CreateArrives(s)
  <2>1. /\ view'.selected = view.selected /\ view'.shown = view.shown /\ view'.dialog = view.dialog
        /\ view'.loading = view.loading /\ view'.busy = view.busy /\ view'.lists = view.lists
        /\ ~c.ok => view' = view
    BY <1>8 DEF Perms!CreateArrives, Keyed, PermIsView
  <2>2. CASE c.ok
    <3> DEFINE next == [Perms!Lists EXCEPT !.value = c.of]
    <3>1. calls' = [calls EXCEPT ![s] = next] /\ PermFetches(next) /\ c.kind = "create"
      BY <1>3, <1>8, <2>2 DEF Perms!CreateArrives, Perms!Continues, PermFetches, PermIsNew
    <3> HIDE DEF next
    <3>2. \E value : PermIsNew(next, "lists", User, value, "none")
      BY <1>3 DEF next
    <3>3. PermFollows(s, next)
      BY <1>5, <2>1, <3>1, <3>2
    <3> QED
      BY <3>3
  <2>3. CASE ~c.ok
    <3>1. calls' = [calls EXCEPT ![s] = Perms!NoCall] /\ ~PermSolo(Perms!NoCall) /\ ~(c.ok = TRUE)
      BY <1>8, <2>3 DEF Perms!CreateArrives, Perms!Ends, PermSolo
    <3>2. PermFollows(s, Perms!NoCall)
      BY <1>5, <2>1, <2>3, <3>1
    <3> QED
      BY <3>2
  <2> QED
    BY <2>2, <2>3
<1> QED
  BY <1>6, <1>7, <1>8

\* Answers after which the request is over; the panel that waited for it, if any, shows it.
LEMMA PermPanelFollows ==
    ASSUME Keyed, PermLocks, NEW s \in Slots, Perms!Arrives(s),
           Perms!LoadArrives(s) \/ Perms!EditArrives(s) \/ Perms!SearchArrives(s)
    PROVE  PermFollows(s, Perms!NoCall)
<1> DEFINE c == calls[s]
<1>1. /\ PermIsCall(c) /\ c # Perms!NoCall
      /\ c.kind \in {"load", "search"} \union (Perms!Edits \ {"weight", "title", "delete"})
      /\ server' = server /\ calls' = [calls EXCEPT ![s] = Perms!NoCall]
  BY PermAnsweredCall DEF Perms!LoadArrives, Perms!EditArrives, Perms!SearchArrives, Perms!Arrives,
     Perms!Edits, Perms!Ends
<1>2. /\ view'.selected = view.selected /\ view'.dialog = view.dialog /\ view'.lists = view.lists
      /\ view'.health = view.health /\ view'.listsFailed = view.listsFailed
      /\ view'.loading => view.loading /\ ~(c.kind = "load" /\ c.mounted)
      /\ IF c.mounted /\ c.kind # "search" /\ c.ok = TRUE
         THEN view'.shown = [of |-> c.of, doc |-> c.doc]
         ELSE view'.shown = view.shown
      /\ view'.busy = view.busy \/ (c.mounted /\ view'.busy = view.busy \ {c.key})
  <2>1. CASE Perms!LoadArrives(s)
    BY <2>1 DEF Perms!LoadArrives, Keyed, PermIsView
  <2>2. CASE Perms!EditArrives(s)
    <3>1. CASE ~c.mounted
      BY <2>2, <3>1 DEF Perms!EditArrives
    <3>2. CASE c.mounted /\ c.ok
      BY <2>2, <3>2 DEF Perms!EditArrives, Perms!Freed, Keyed, PermIsView, Perms!Edits
    <3>3. CASE c.mounted /\ ~c.ok
      BY <2>2, <3>3 DEF Perms!EditArrives, Perms!Freed, Keyed, PermIsView, Perms!Edits
    <3> QED
      BY <3>1, <3>2, <3>3
  <2>3. CASE Perms!SearchArrives(s)
    BY <2>3 DEF Perms!SearchArrives, Perms!Freed, Keyed, PermIsView
  <2> QED
    BY <2>1, <2>2, <2>3
<1>3. PermShown(c) <=> c.mounted /\ c.kind # "search"
  BY <1>1 DEF PermShown, Perms!Edits
<1>4. ~PermFetches(c) /\ c.kind \notin {"create", "delete", "lists"}
  BY <1>1 DEF PermFetches, Perms!Edits
<1>5. PermRelists(c, Perms!NoCall)
  BY <1>2, <1>4 DEF PermRelists, PermListed
<1> HIDE DEF c
<1> QED
  BY <1>1, <1>2, <1>3, <1>4, <1>5 DEF PermFollows, c

\* The old weight, or name, is gone: the new one follows.
LEMMA PermInfoFollows ==
    ASSUME Keyed, PermLocks, NEW s \in Slots, Perms!Arrives(s), Perms!InfoArrives(s)
    PROVE  \E next : PermFollows(s, next)
<1> DEFINE c == calls[s]
           add == [c EXCEPT !.kind = "add", !.at = "sent"]
<1>1. PermIsCall(c) /\ c # Perms!NoCall /\ c.kind \in {"weight", "title"} /\ server' = server /\ PermFiled(c)
  BY PermAnsweredCall DEF Perms!InfoArrives, Perms!Arrives, PermLocks, PermAllFiled
<1>2. /\ view'.selected = view.selected /\ view'.dialog = view.dialog /\ view'.lists = view.lists
      /\ view'.health = view.health /\ view'.listsFailed = view.listsFailed /\ view'.loading = view.loading
      /\ IF c.mounted /\ c.ok = TRUE
         THEN view'.shown = [of |-> c.of, doc |-> c.doc]
         ELSE view'.shown = view.shown
      /\ view'.busy = view.busy \/ (c.mounted /\ view'.busy = view.busy \ {c.key} /\ ~c.ok)
  BY DEF Perms!InfoArrives, Perms!Freed, Keyed, PermIsView
<1>3. PermShown(c) <=> c.mounted
  BY <1>1 DEF PermShown, Perms!Edits
<1>4. /\ PermIsCall(add) /\ add.kind = "add" /\ add.at = "sent" /\ add.of = c.of /\ add.key = c.key
      /\ add.value = c.value /\ add.mounted = c.mounted /\ add # Perms!NoCall
  BY <1>1, PermACall DEF PermIsCall
<1>5. CASE c.ok
  <2>1. calls' = [calls EXCEPT ![s] = add]
    BY <1>5 DEF Perms!InfoArrives, Perms!Continues
  <2> HIDE DEF add
  <2>2. PermFiled(add) /\ PermChanges(c) /\ ~PermSolo(add) /\ ~PermFetches(c)
          /\ (PermOwn(add) => c.kind = "weight")
    BY <1>1, <1>4 DEF PermFiled, PermChanges, PermSolo, PermOwn, PermFetches, Perms!Edits
  <2>3. PermRelists(c, add)
    BY <1>1, <1>2, <2>2 DEF PermRelists, PermListed
  <2>4. view'.busy = view.busy
    BY <1>2, <1>5
  <2> HIDE DEF c
  <2>5. PermFollows(s, add)
    BY <1>1, <1>2, <1>3, <1>4, <1>5, <2>1, <2>2, <2>3, <2>4 DEF PermFollows, c
  <2> QED
    BY <2>5
<1>6. CASE ~c.ok
  <2>1. calls' = [calls EXCEPT ![s] = Perms!NoCall]
    BY <1>6 DEF Perms!InfoArrives, Perms!Ends
  <2>2. ~PermFetches(c)
    BY <1>1 DEF PermFetches
  <2>3. PermRelists(c, Perms!NoCall)
    BY <1>1, <1>2, <2>2 DEF PermRelists, PermListed
  <2> HIDE DEF c, add
  <2>4. PermFollows(s, Perms!NoCall)
    BY <1>1, <1>2, <1>3, <1>6, <2>1, <2>2, <2>3 DEF PermFollows, c
  <2> QED
    BY <2>4
<1> QED
  BY <1>5, <1>6

\* Answers about what is selected, when they select nothing.
LEMMA PermSelectionFollows ==
    ASSUME Keyed, PermLocks, NEW s \in Slots, Perms!Arrives(s), Perms!Ends(s),
           \/ Perms!ListsArrive(s) /\ (calls[s].value = Gone \/ calls[s].value = view.selected)
           \/ Perms!LookupArrives(s) /\ ~(calls[s].ok /\ view.selected # User)
           \/ Perms!DeleteArrives(s) /\ ~calls[s].ok
    PROVE  PermFollows(s, Perms!NoCall)
<1> DEFINE c == calls[s]
<1>1. /\ PermIsCall(c) /\ c # Perms!NoCall /\ c.kind \in {"lists", "lookup", "delete"} /\ PermFiled(c)
      /\ server' = server /\ calls' = [calls EXCEPT ![s] = Perms!NoCall]
  BY PermAnsweredCall DEF Perms!ListsArrive, Perms!LookupArrives, Perms!DeleteArrives, Perms!Arrives,
     Perms!Ends, PermLocks, PermAllFiled
<1>2. ~PermOwn(c) /\ ~PermShown(c)
  BY <1>1 DEF PermOwn, PermFiled, PermShown, Perms!Edits
<1>3. /\ view'.selected = view.selected /\ view'.dialog = view.dialog /\ view'.shown = view.shown
      /\ view'.loading = view.loading /\ PermRelists(c, Perms!NoCall)
      /\ view.busy \ {"lookup"} \subseteq view'.busy \/ view.busy \ {c.key} \subseteq view'.busy
      /\ c.kind = "delete" => c.ok # TRUE
  <2>1. CASE Perms!ListsArrive(s) /\ (calls[s].value = Gone \/ calls[s].value = view.selected)
    <3>1. CASE c.ok
      <4>1. /\ view'.selected = view.selected /\ view'.dialog = view.dialog /\ view'.shown = view.shown
            /\ view'.loading = view.loading /\ view'.busy = view.busy /\ view'.lists = c.doc
            /\ view'.health = view.health /\ (view.listsFailed => view'.listsFailed) /\ c.kind = "lists"
        BY <2>1, <3>1 DEF Perms!ListsArrive, Keyed, PermIsView
      <4>2. PermRelists(c, Perms!NoCall)
        BY <1>1, <3>1, <4>1 DEF PermRelists, PermListed, PermFetches
      <4> QED
        BY <4>1, <4>2
    <3>2. CASE ~c.ok
      <4>1. /\ view'.selected = view.selected /\ view'.dialog = view.dialog /\ view'.shown = view.shown
            /\ view'.loading = view.loading /\ view'.busy = view.busy \ {"lookup"}
            /\ view'.health = view.health /\ view'.listsFailed /\ c.kind = "lists"
        BY <2>1, <3>2 DEF Perms!ListsArrive, Keyed, PermIsView
      <4>2. PermRelists(c, Perms!NoCall)
        BY <1>1, <3>2, <4>1 DEF PermRelists, PermListed, PermFetches
      <4> QED
        BY <4>1, <4>2
    <3> QED
      BY <3>1, <3>2
  <2>2. CASE Perms!LookupArrives(s) /\ ~(calls[s].ok /\ view.selected # User)
    <3>1. view' = Perms!Remembered(c) /\ c.kind = "lookup"
      BY <2>2 DEF Perms!LookupArrives
    <3>2. /\ view'.selected = view.selected /\ view'.dialog = view.dialog /\ view'.shown = view.shown
          /\ view'.loading = view.loading /\ view'.busy = view.busy \ {c.key} /\ view'.lists = view.lists
          /\ view'.health = view.health /\ view'.listsFailed = view.listsFailed
      BY <3>1 DEF Perms!Remembered, Perms!Freed, Keyed, PermIsView
    <3>3. PermRelists(c, Perms!NoCall)
      BY <3>1, <3>2 DEF PermRelists, PermListed, PermFetches
    <3> QED
      BY <3>1, <3>2, <3>3
  <2>3. CASE Perms!DeleteArrives(s) /\ ~calls[s].ok
    <3>1. (view' = view \/ view' = Perms!Freed(c)) /\ c.kind = "delete"
      BY <2>3 DEF Perms!DeleteArrives
    <3>2. /\ view'.selected = view.selected /\ view'.dialog = view.dialog /\ view'.shown = view.shown
          /\ view'.loading = view.loading /\ view.busy \ {c.key} \subseteq view'.busy
          /\ view'.lists = view.lists
          /\ view'.health = view.health /\ view'.listsFailed = view.listsFailed
      BY <3>1 DEF Perms!Freed, Keyed, PermIsView
    <3>3. PermRelists(c, Perms!NoCall) /\ c.ok # TRUE
      BY <2>3, <3>1, <3>2 DEF PermRelists, PermListed, PermFetches
    <3> QED
      BY <3>1, <3>2, <3>3
  <2> QED
    BY <2>1, <2>2, <2>3
<1> HIDE DEF c
<1> QED
  BY <1>1, <1>2, <1>3 DEF PermFollows, c

\* A panel is mounted by the slot given.
LEMMA PermMountsIs ==
    ASSUME NEW e, NEW s \in Slots, Perms!Mounts(e, s)
    PROVE  \E next : /\ calls' = [t \in Slots |-> IF t = s THEN next ELSE Perms!Unmounted(t)]
                     /\ e \in Perms!Entities => next # Perms!NoCall /\ next.kind = "load" /\ next.mounted
                     /\ next # Perms!NoCall => /\ PermIsCall(next) /\ next.at = "sent" /\ PermFiled(next)
                                               /\ ~PermChanges(next) /\ ~PermOwn(next) /\ ~PermSolo(next)
<1> DEFINE next == IF e \in Perms!Entities THEN Perms!Call("load", e, Gone, "none") ELSE IF e = "browse" THEN Perms!Browse ELSE Perms!NoCall
<1>1. calls' = [t \in Slots |-> IF t = s THEN next ELSE Perms!Unmounted(t)]
  <2>1. calls' = [t \in Slots |-> IF t # s THEN Perms!Unmounted(t)
                                  ELSE IF e \in Perms!Entities THEN Perms!Call("load", e, Gone, "none")
                                  ELSE IF e = "browse" THEN Perms!Browse ELSE Perms!NoCall]
    BY DEF Perms!Mounts
  <2>2. \A t \in Slots : (IF t # s THEN Perms!Unmounted(t)
                          ELSE IF e \in Perms!Entities THEN Perms!Call("load", e, Gone, "none")
                          ELSE IF e = "browse" THEN Perms!Browse ELSE Perms!NoCall)
                         = (IF t = s THEN next ELSE Perms!Unmounted(t))
    OBVIOUS
  <2> HIDE DEF next
  <2> QED
    BY <2>1, <2>2
<1>2. PermIsNew(Perms!Call("load", e, Gone, "none"), "load", e, Gone, "none")
        /\ PermIsNew(Perms!Browse, "browse", User, Gone, "none")
  BY PermNewCallIs DEF Perms!Browse
<1>3. e \in Perms!Entities => PermIsNew(next, "load", e, Gone, "none")
  BY <1>2
<1>4. next # Perms!NoCall => PermIsNew(next, "load", e, Gone, "none")
        \/ PermIsNew(next, "browse", User, Gone, "none")
  BY <1>2
<1> HIDE DEF next
<1>5. e \in Perms!Entities => next # Perms!NoCall /\ next.kind = "load" /\ next.mounted
  BY <1>3 DEF PermIsNew
<1>6. next # Perms!NoCall => /\ PermIsCall(next) /\ next.at = "sent" /\ PermFiled(next)
                             /\ ~PermChanges(next) /\ ~PermOwn(next) /\ ~PermSolo(next)
  BY <1>4 DEF PermIsNew, PermFiled, PermChanges, PermOwn, PermSolo, Perms!Edits
<1> QED
  BY <1>1, <1>5, <1>6, Zenon

LEMMA PermPanelIs ==
    ASSUME NEW v, NEW e, PermIsView(v)
    PROVE  /\ Perms!Panel(v, e).selected = e /\ Perms!Panel(v, e).shown = Perms!NothingShown
           /\ Perms!Panel(v, e).dialog = v.dialog /\ Perms!Panel(v, e).lists = v.lists
           /\ Perms!Panel(v, e).health = v.health /\ Perms!Panel(v, e).listsFailed = v.listsFailed
  BY DEF Perms!Panel, PermIsView

LEMMA PermSelectRemounts ==
    ASSUME Keyed, Perms!Select, calm
    PROVE  \E s \in Slots : \E e, next : PermRemounts(s, e, next) /\ calls[s] = Perms!NoCall /\ order' = order
<1>1. PICK e : Perms!Mounts(e, Perms!FreeSlot) /\ view' = Perms!Panel(view, e)
  BY DEF Perms!Select
<1>2. /\ Perms!FreeSlot \in Slots /\ calls[Perms!FreeSlot] = Perms!NoCall /\ ~Perms!EditInFlight
      /\ server' = server /\ order' = order
  BY DEF Perms!Select, Perms!FreeSlot
<1>3. PICK next : /\ calls' = [t \in Slots |-> IF t = Perms!FreeSlot THEN next ELSE Perms!Unmounted(t)]
                  /\ e \in Perms!Entities => next # Perms!NoCall /\ next.kind = "load" /\ next.mounted
                  /\ next # Perms!NoCall => /\ PermIsCall(next) /\ next.at = "sent" /\ PermFiled(next)
                                            /\ ~PermChanges(next) /\ ~PermOwn(next) /\ ~PermSolo(next)
  BY <1>1, <1>2, PermMountsIs
<1>4. /\ view'.selected = e /\ view'.shown = Perms!NothingShown /\ view'.dialog = view.dialog
      /\ view'.lists = view.lists /\ view'.health = view.health /\ view'.listsFailed = view.listsFailed
  BY <1>1, PermPanelIs DEF Keyed
<1>5. PermRelists(Perms!NoCall, next)
  BY <1>4 DEF PermRelists, PermListed, PermFetches
<1>6. PermRemounts(Perms!FreeSlot, e, next)
  BY <1>2, <1>3, <1>4, <1>5 DEF PermRemounts
<1> QED
  BY <1>2, <1>6, Zenon

\* What was created is selected, and so is the user who was looked up.
LEMMA PermListsRemounts ==
    ASSUME Keyed, PermTyped, PermLocks, NEW s \in Slots, Perms!Arrives(s), Perms!ListsArrive(s),
           ~(calls[s].value = Gone \/ calls[s].value = view.selected)
    PROVE  \E e, next : PermRemounts(s, e, next)
<1> DEFINE c == calls[s]
           e == c.value
           listed == [view EXCEPT !.listsLoading = FALSE, !.listsFailed = @ \/ ~c.ok,
                                  !.lists = IF c.ok THEN c.doc ELSE @,
                                  !.busy = IF c.ok THEN @ ELSE @ \ {"lookup"},
                                  !.recent = IF c.ok THEN @ ELSE {}]
<1>1. /\ PermIsCall(c) /\ c # Perms!NoCall /\ c.kind = "lists" /\ server' = server
      /\ view' = Perms!Panel(listed, e) /\ Perms!Mounts(e, s)
  BY PermAnsweredCall DEF Perms!ListsArrive, Perms!Arrives
<1>2. /\ PermIsView(listed) /\ listed.dialog = view.dialog /\ listed.health = view.health
      /\ listed.listsFailed = (view.listsFailed \/ ~c.ok) /\ (c.ok => listed.lists = c.doc)
  BY DEF Keyed, PermIsView
<1> HIDE DEF listed
<1>3. PICK next : /\ calls' = [t \in Slots |-> IF t = s THEN next ELSE Perms!Unmounted(t)]
                  /\ e \in Perms!Entities => next # Perms!NoCall /\ next.kind = "load" /\ next.mounted
                  /\ next # Perms!NoCall => /\ PermIsCall(next) /\ next.at = "sent" /\ PermFiled(next)
                                            /\ ~PermChanges(next) /\ ~PermOwn(next) /\ ~PermSolo(next)
  BY <1>1, PermMountsIs
<1>4. /\ view'.selected = e /\ view'.shown = Perms!NothingShown /\ view'.dialog = view.dialog
      /\ view'.health = view.health /\ view'.listsFailed = (view.listsFailed \/ ~c.ok)
      /\ c.ok => view'.lists = c.doc
  BY <1>1, <1>2, PermPanelIs
<1>5. PermRelists(c, next)
  BY <1>1, <1>4 DEF PermRelists, PermListed, PermFetches
<1>6. PermSolo(c) /\ e # view.selected
  BY <1>1 DEF PermSolo
<1> HIDE DEF c, e
<1>7. PermRemounts(s, e, next)
  BY <1>1, <1>3, <1>4, <1>5, <1>6 DEF PermRemounts, c
<1> QED
  BY <1>7

LEMMA PermLookupRemounts ==
    ASSUME Keyed, PermTyped, PermLocks, NEW s \in Slots, Perms!Arrives(s), Perms!LookupArrives(s),
           calls[s].ok /\ view.selected # User
    PROVE  \E e, next : PermRemounts(s, e, next)
<1> DEFINE c == calls[s]
           v == Perms!Remembered(c)
<1>1. /\ PermIsCall(c) /\ c # Perms!NoCall /\ c.kind = "lookup" /\ server' = server
      /\ view' = Perms!Panel(v, User) /\ Perms!Mounts(User, s)
  BY PermAnsweredCall DEF Perms!LookupArrives, Perms!Arrives
<1>2. /\ PermIsView(v) /\ v.dialog = view.dialog /\ v.health = view.health
      /\ v.listsFailed = view.listsFailed /\ v.lists = view.lists
  BY DEF Keyed, PermIsView, Perms!Freed, Perms!Remembered
<1> HIDE DEF v
<1>3. PICK next : /\ calls' = [t \in Slots |-> IF t = s THEN next ELSE Perms!Unmounted(t)]
                  /\ User \in Perms!Entities => next # Perms!NoCall /\ next.kind = "load" /\ next.mounted
                  /\ next # Perms!NoCall => /\ PermIsCall(next) /\ next.at = "sent" /\ PermFiled(next)
                                            /\ ~PermChanges(next) /\ ~PermOwn(next) /\ ~PermSolo(next)
  BY <1>1, PermMountsIs
<1>4. /\ view'.selected = User /\ view'.shown = Perms!NothingShown /\ view'.dialog = view.dialog
      /\ view'.health = view.health /\ view'.listsFailed = view.listsFailed /\ view'.lists = view.lists
  BY <1>1, <1>2, PermPanelIs
<1>5. PermRelists(c, next)
  BY <1>1, <1>4 DEF PermRelists, PermListed, PermFetches
<1>6. PermSolo(c)
  BY <1>1 DEF PermSolo
<1> HIDE DEF c
<1>7. PermRemounts(s, User, next)
  BY <1>1, <1>3, <1>4, <1>5, <1>6 DEF PermRemounts, c
<1> QED
  BY <1>7

LEMMA PermDeleteRemounts ==
    ASSUME Keyed, PermTyped, PermLocks, NEW s \in Slots, Perms!Arrives(s), Perms!DeleteArrives(s), calls[s].ok
    PROVE  \E e, next : PermRemounts(s, e, next)
<1> DEFINE c == calls[s]
<1>1. /\ PermIsCall(c) /\ c # Perms!NoCall /\ c.kind = "delete" /\ server' = server
      /\ calls' = [t \in Slots |-> IF t = s THEN Perms!Lists ELSE Perms!Unmounted(t)]
      /\ view' = [Perms!Panel(view, None) EXCEPT !.listsLoading = TRUE, !.listsFailed = FALSE]
  BY PermAnsweredCall DEF Perms!DeleteArrives, Perms!Arrives
<1>2. /\ view'.selected = None /\ view'.shown = Perms!NothingShown /\ view'.dialog = view.dialog
      /\ view'.lists = view.lists
  BY <1>1 DEF Keyed, PermIsView, Perms!Panel
<1>3. PermIsNew(Perms!Lists, "lists", User, Gone, "none")
  BY PermNewCallIs DEF Perms!Lists
<1>4. /\ PermIsCall(Perms!Lists) /\ Perms!Lists.at = "sent" /\ PermFiled(Perms!Lists)
      /\ Perms!Lists # Perms!NoCall
      /\ ~PermChanges(Perms!Lists) /\ ~PermOwn(Perms!Lists) /\ ~PermSolo(Perms!Lists)
      /\ PermFetches(Perms!Lists)
  BY <1>3 DEF PermIsNew, PermFiled, PermChanges, PermOwn, PermSolo, PermFetches, Perms!Edits
<1>5. PermRelists(c, Perms!Lists)
  BY <1>1, <1>2, <1>4 DEF PermRelists, PermFetches
<1>6. PermSolo(c) /\ None \notin Perms!Entities
  BY <1>1, EntitiesAssumption DEF PermSolo, Perms!Entities
<1> HIDE DEF c
<1>7. PermRemounts(s, None, Perms!Lists)
  BY <1>1, <1>2, <1>4, <1>5, <1>6 DEF PermRemounts, c
<1> QED
  BY <1>7

-----------------------------------------------------------------------------
(* All the steps of a calm panel. *)

LEMMA PermDeliverIs ==
    ASSUME Keyed, PermTyped, PermLocks, NEW s \in Slots, Perms!Deliver(s)
    PROVE  (\E next : PermFollows(s, next)) \/ (\E e, next : PermRemounts(s, e, next))
<1>1. Perms!Arrives(s)
  BY DEF Perms!Deliver
<1>2. CASE Perms!HealthArrives(s) \/ Perms!BrowseArrives(s) \/ Perms!CreateArrives(s)
  BY <1>1, <1>2, PermSidebarFollows
<1>3. CASE Perms!LoadArrives(s) \/ Perms!EditArrives(s) \/ Perms!SearchArrives(s)
  BY <1>1, <1>3, PermPanelFollows
<1>4. CASE Perms!InfoArrives(s)
  BY <1>1, <1>4, PermInfoFollows
<1>5. CASE Perms!ListsArrive(s)
  <2>1. CASE calls[s].value = Gone \/ calls[s].value = view.selected
    <3>1. Perms!Ends(s)
      BY <1>5, <2>1 DEF Perms!ListsArrive
    <3> QED
      BY <1>1, <1>5, <2>1, <3>1, PermSelectionFollows
  <2>2. CASE ~(calls[s].value = Gone \/ calls[s].value = view.selected)
    BY <1>1, <1>5, <2>2, PermListsRemounts
  <2> QED
    BY <2>1, <2>2
<1>6. CASE Perms!LookupArrives(s)
  <2>1. CASE calls[s].ok /\ view.selected # User
    BY <1>1, <1>6, <2>1, PermLookupRemounts
  <2>2. CASE ~(calls[s].ok /\ view.selected # User)
    <3>1. Perms!Ends(s)
      BY <1>6, <2>2 DEF Perms!LookupArrives
    <3> QED
      BY <1>1, <1>6, <2>2, <3>1, PermSelectionFollows
  <2> QED
    BY <2>1, <2>2
<1>7. CASE Perms!DeleteArrives(s)
  <2>1. CASE calls[s].ok
    BY <1>1, <1>7, <2>1, PermDeleteRemounts
  <2>2. CASE ~calls[s].ok
    <3>1. Perms!Ends(s)
      BY <1>7, <2>2 DEF Perms!DeleteArrives
    <3> QED
      BY <1>1, <1>7, <2>2, <3>1, PermSelectionFollows
  <2> QED
    BY <2>1, <2>2
<1> QED
  BY <1>2, <1>3, <1>4, <1>5, <1>6, <1>7 DEF Perms!Deliver

PermOpens(s, e, next) == PermRemounts(s, e, next)
  /\ (Perms!Arrives(s) \/ (calls[s] = Perms!NoCall /\ order' = order))

LEMMA PermCalmSteps ==
    ASSUME Keyed, PermTyped, PermLocks, calm, Perms!Next
    PROVE  \/ PermIdle \/ \E s \in Slots : \E new : PermAsks(s, new)
           \/ \E s \in Slots : Perms!Change(s) \/ Perms!Serve(s) \/ Perms!Fail(s)
           \/ \E s \in Slots : \E next : Perms!Arrives(s) /\ PermFollows(s, next)
           \/ \E s \in Slots : \E e, next : PermOpens(s, e, next)
<1>1. CASE Perms!Select
  <2>1. PICK s \in Slots : \E e, next : PermRemounts(s, e, next) /\ calls[s] = Perms!NoCall /\ order' = order
    BY <1>1, PermSelectRemounts
  <2> QED
    BY <2>1 DEF PermOpens
<1>2. CASE \/ Perms!EditNodes \/ Perms!SaveWeight \/ Perms!SaveDisplayName \/ Perms!EditTrack \/ Perms!MoveUser
              \/ Perms!Lookup \/ Perms!Search
           \/ Perms!AskName \/ Perms!DeleteGroup \/ Perms!DeleteTrack \/ Perms!Answered \/ Perms!Retry
  BY <1>2, PermUserAsks
<1>3. CASE \E s \in Slots : Perms!Change(s) \/ Perms!Serve(s) \/ Perms!Fail(s)
  BY <1>3
<1>4. CASE \E s \in Slots : Perms!Deliver(s)
  <2>1. PICK s \in Slots : Perms!Deliver(s)
    BY <1>4
  <2>2. Perms!Arrives(s) /\ ((\E next : PermFollows(s, next)) \/ (\E e, next : PermRemounts(s, e, next)))
    BY <2>1, PermDeliverIs DEF Perms!Deliver
  <2> QED
    BY <2>2 DEF PermOpens
<1> QED
  BY <1>1, <1>2, <1>3, <1>4 DEF Perms!Next, Perms!Elsewhere

-----------------------------------------------------------------------------
(* What the backend does to a request, and every step to the queue. *)

\* The requests but one stay; the one is about what it was about.
PermServed(s) ==
    /\ calls[s] # Perms!NoCall /\ calls'[s] # Perms!NoCall /\ PermAlike(calls[s], calls'[s]) /\ view' = view
    /\ calls' = [calls EXCEPT ![s] = calls'[s]] /\ \A t \in Slots : t # s => calls'[t] = calls[t]

LEMMA PermChangeIs ==
    ASSUME Keyed, NEW s \in Slots, Perms!Change(s)
    PROVE  /\ PermServed(s) /\ calls[s].at = "sent" /\ calls'[s].at = "changed"
           /\ calls'[s].ok = calls[s].ok /\ order' = order
<1>1. calls[s] # Perms!NoCall /\ PermIsCall(calls[s]) /\ calls[s].at = "sent"
  BY DEF Perms!Change, Perms!NoCall, Keyed
<1>2. calls' = [calls EXCEPT ![s].at = "changed"] /\ view' = view /\ order' = order
  BY DEF Perms!Change
<1> DEFINE d == [calls[s] EXCEPT !.at = "changed"]
<1>3. /\ PermIsCall(d) /\ d.at = "changed" /\ d.ok = calls[s].ok
      /\ d.kind = calls[s].kind /\ d.of = calls[s].of /\ d.value = calls[s].value
      /\ d.key = calls[s].key /\ d.mounted = calls[s].mounted /\ d.seen = calls[s].seen
  BY <1>1 DEF PermIsCall
<1>4. calls'[s] = d /\ \A t \in Slots : t # s => calls'[t] = calls[t]
  BY <1>2 DEF Keyed
<1>5. calls' = [calls EXCEPT ![s] = calls'[s]]
  BY <1>2, <1>4 DEF Keyed
<1> HIDE DEF d
<1> QED
  BY <1>1, <1>2, <1>3, <1>4, <1>5, PermACall DEF PermServed, PermAlike

LEMMA PermAnswerIs ==
    ASSUME Keyed, NEW s \in Slots, NEW ok, NEW doc, Perms!Answer(s, ok, doc), calls[s] # Perms!NoCall
    PROVE  /\ PermServed(s) /\ calls'[s].at = "answered" /\ calls'[s].ok = ok /\ calls'[s].doc = doc
           /\ calm => order' = Append(order, s)
<1>1. PermIsCall(calls[s])
  BY DEF Keyed
<1>2. /\ calls' = [calls EXCEPT ![s] = [calls[s] EXCEPT !.at = "answered", !.ok = ok, !.doc = doc]]
      /\ view' = view /\ (calm => order' = Append(order, s))
  BY DEF Perms!Answer
<1> DEFINE d == [calls[s] EXCEPT !.at = "answered", !.ok = ok, !.doc = doc]
<1>3. /\ PermIsCall(d) /\ d.at = "answered" /\ d.ok = ok /\ d.doc = doc
      /\ d.kind = calls[s].kind /\ d.of = calls[s].of /\ d.value = calls[s].value
      /\ d.key = calls[s].key /\ d.mounted = calls[s].mounted /\ d.seen = calls[s].seen
  BY <1>1 DEF PermIsCall
<1>4. calls'[s] = d /\ \A t \in Slots : t # s => calls'[t] = calls[t]
  BY <1>2 DEF Keyed
<1>5. calls' = [calls EXCEPT ![s] = calls'[s]]
  BY <1>2, <1>4 DEF Keyed
<1> HIDE DEF d
<1> QED
  BY <1>1, <1>2, <1>3, <1>4, <1>5, PermACall DEF PermServed, PermAlike

LEMMA PermServeIs ==
    ASSUME Keyed, NEW s \in Slots, Perms!Serve(s)
    PROVE  /\ PermServed(s) /\ calls'[s].at = "answered" /\ calls'[s].ok = TRUE /\ calls'[s].doc = Perms!Found(calls[s])
           /\ calm => order' = Append(order, s)
           /\ calls[s].at = (IF Perms!Mutates(calls[s]) THEN "changed" ELSE "sent") /\ server' = server
           /\ calls[s].kind \in {"health", "lists", "search", "browse", "delete"} \/ server[calls[s].of] # Gone
<1>1. calls[s] # Perms!NoCall
  BY DEF Perms!Serve, Perms!NoCall
<1>2. Perms!Answer(s, TRUE, Perms!Found(calls[s])) /\ server' = server
  BY DEF Perms!Serve
<1>3. /\ PermServed(s) /\ calls'[s].at = "answered" /\ calls'[s].ok = TRUE
      /\ calls'[s].doc = Perms!Found(calls[s])
      /\ calm => order' = Append(order, s)
  BY <1>1, <1>2, PermAnswerIs
<1> QED
  BY <1>1, <1>2, <1>3 DEF Perms!Serve

LEMMA PermFailIs ==
    ASSUME Keyed, NEW s \in Slots, Perms!Fail(s)
    PROVE  /\ PermServed(s) /\ calls'[s].at = "answered" /\ calls'[s].ok = FALSE
           /\ calm => order' = Append(order, s)
           /\ calls[s].at \in {"sent", "changed"} /\ server' = server
           /\ calm /\ calls[s].at = "changed" => calls[s].kind # "delete" /\ server[calls[s].of] = Gone
<1>1. calls[s] # Perms!NoCall
  BY DEF Perms!Fail, Perms!NoCall
<1>2. Perms!Answer(s, FALSE, Gone) /\ server' = server
  BY DEF Perms!Fail
<1>3. /\ PermServed(s) /\ calls'[s].at = "answered" /\ calls'[s].ok = FALSE
      /\ calm => order' = Append(order, s)
  BY <1>1, <1>2, PermAnswerIs
<1> QED
  BY <1>1, <1>2, <1>3 DEF Perms!Fail

LEMMA PermNextLocks ==
    ASSUME Keyed, PermTyped, PermLocks, calm, Perms!Next
    PROVE  PermLocks'
<1>1. CASE PermIdle
  BY <1>1, PermIdleLocks
<1>2. CASE \E s \in Slots : \E new : PermAsks(s, new)
  BY <1>2, PermAsksLocks
<1>3. CASE \E s \in Slots : Perms!Change(s) \/ Perms!Serve(s) \/ Perms!Fail(s)
  <2>1. PICK s \in Slots : PermServed(s)
    BY <1>3, PermChangeIs, PermServeIs, PermFailIs
  <2>2. \A t \in Slots : PermAlike(calls[t], calls'[t])
    BY <2>1 DEF PermServed, PermAlike
  <2> QED
    BY <2>1, <2>2, PermLocksAlike DEF PermServed
<1>4. CASE \E s \in Slots : \E next : Perms!Arrives(s) /\ PermFollows(s, next)
  BY <1>4, PermFollowsLocks
<1>5. CASE \E s \in Slots : \E e, next : PermOpens(s, e, next)
  BY <1>5, PermRemountsLocks DEF PermOpens
<1> QED
  BY <1>1, <1>2, <1>3, <1>4, <1>5, PermCalmSteps

\* The queue stays.
PermStays ==
    /\ FileQueued' /\ Len(order') = Len(order)
    /\ \A i \in 1..Len(order) : order'[i] = order[i] /\ FileWaiting(i)' = FileWaiting(i)

LEMMA PermAsksQueue ==
    ASSUME Keyed, FileQueued, calm, calm' = calm, NEW s \in Slots, NEW new, PermAsks(s, new)
    PROVE  PermStays
<1>1. calls'[s] = new /\ (\A t \in Slots : t # s => calls'[t] = calls[t]) /\ calls[s] = Perms!NoCall
      /\ order' = order /\ new.at = "sent"
  BY DEF Keyed, PermAsks
<1>2. FileUntouched
  BY <1>1 DEF FileUntouched, Perms!NoCall
<1> QED
  BY <1>1, <1>2, FileRestQueued DEF PermStays

LEMMA PermIdleQueue ==
    ASSUME FileQueued, calm, calm' = calm, PermIdle
    PROVE  PermStays
<1>1. FileUntouched /\ order' = order
  BY DEF FileUntouched, PermIdle
<1> QED
  BY <1>1, FileRestQueued DEF PermStays

LEMMA PermChangeQueue ==
    ASSUME Keyed, FileQueued, calm, calm' = calm, NEW s \in Slots, Perms!Change(s)
    PROVE  PermStays
<1>1. FileUntouched /\ order' = order
  BY PermChangeIs DEF FileUntouched, PermServed
<1> QED
  BY <1>1, FileRestQueued DEF PermStays

\* An answer joins.
PermJoins(s) ==
    /\ FileQueued' /\ Len(order') = Len(order) + 1
    /\ \A i \in 1..Len(order) : order'[i] = order[i] /\ FileWaiting(i)' = FileWaiting(i)
    /\ \A i \in 1..Len(order') : i \in 1..Len(order) \/ (i = Len(order) + 1 /\ FileWaiting(i)' = calls'[s])

LEMMA PermAnswerQueue ==
    ASSUME Keyed, FileQueued, calm, calm' = calm, NEW s \in Slots, Perms!Serve(s) \/ Perms!Fail(s)
    PROVE  PermJoins(s)
<1>1. PermServed(s) /\ calls'[s].at = "answered" /\ order' = Append(order, s) /\ calls[s].at # "answered"
  BY PermServeIs, PermFailIs
<1>2. FileAppended(s)
  BY <1>1 DEF FileAppended, PermServed
<1> QED
  BY <1>2, FileAnswerQueued DEF PermJoins, Keyed

\* The first answer leaves.
PermLeaves(s) ==
    /\ FileQueued' /\ Len(order) # 0 /\ FileWaiting(1) = calls[s] /\ Len(order') = Len(order) - 1
    /\ \A i \in 1..Len(order') : i + 1 \in 1..Len(order) /\ FileWaiting(i)' = FileWaiting(i + 1)

LEMMA PermFollowsQueue ==
    ASSUME Keyed, FileQueued, calm, calm' = calm, NEW s \in Slots, NEW next, Perms!Arrives(s),
           PermFollows(s, next)
    PROVE  PermLeaves(s)
<1>1. calls'[s] = next /\ calls' = [calls EXCEPT ![s] = next] /\ next.at # "answered"
  BY DEF Keyed, PermFollows, Perms!NoCall
<1>2. Head(order) = s /\ order' = Tail(order) /\ calls[s].at = "answered"
  BY DEF Perms!Arrives
<1>3. FileTaken(s)
  BY <1>1, <1>2 DEF FileTaken
<1> QED
  BY <1>3, FileArrivalQueued DEF PermLeaves, Keyed

-----------------------------------------------------------------------------
(* What the API makes of a change. *)

LEMMA PermAfterIs ==
    ASSUME PermTyped, NEW c, PermAsked(c), Perms!Mutates(c)
    PROVE  /\ c.kind = "create" => /\ server[c.of] # Gone => Perms!After(c) = server[c.of]
                                   /\ server[c.of] = Gone => Perms!After(c) \in {<<>>, {}}
                                   /\ c.of # Track => Perms!After(c) \in {{}, server[c.of]}
           /\ c.kind = "delete" => Perms!After(c) = Gone
           /\ c.kind = "add" => Perms!After(c) = server[c.of] \union {c.value} /\ c.of \in Groups \union {User}
           /\ c.kind = "remove" => Perms!After(c) = server[c.of] \ {c.value} /\ c.of \in Groups \union {User}
           /\ c.kind \in {"weight", "title"} => Perms!After(c) = server[c.of] \ {c.seen} /\ c.of \in Groups
           /\ c.kind = "set" => Perms!After(c) = c.value /\ c.of = Track
           /\ c.kind = "move" => Perms!After(c) = Perms!Moved(server[User], server[Track], c.value)
                /\ c.of = User
<1>1. c.kind \in {"add", "remove", "weight", "title", "move", "set", "delete", "create"}
        /\ c.of \in Perms!Entities
  BY DEF Perms!Mutates, Perms!Edits, PermAsked
<1>2. CASE c.of = User
  <2>1. c.kind \in {"add", "remove", "move"} /\ Perms!After(c) = Perms!NodesAfter(c, server[User])
    BY <1>1, <1>2, EntitiesAssumption DEF PermAsked, Perms!After
  <2> QED
    BY <1>2, <2>1 DEF Perms!NodesAfter
<1>3. CASE c.of = Track
  <2>1. c.kind \in {"set", "create", "delete"} /\ Perms!After(c) = Perms!TrackAfter(c, server[Track])
    BY <1>1, <1>3, EntitiesAssumption DEF PermAsked, Perms!After
  <2> QED
    BY <1>3, <2>1 DEF Perms!TrackAfter
<1>4. CASE c.of # User /\ c.of # Track
  <2>1. c.kind \in {"add", "remove", "weight", "title", "create", "delete"}
          /\ Perms!After(c) = Perms!GroupAfter(c, server[c.of])
    BY <1>1, <1>4 DEF PermAsked, Perms!After
  <2>2. c.of \in Groups
    BY <1>1, <1>4 DEF Perms!Entities
  <2> QED
    BY <2>1, <2>2, <1>4 DEF Perms!GroupAfter, Perms!NodesAfter
<1> QED
  BY <1>2, <1>3, <1>4

\* What is changed, or created, is there.
LEMMA PermAfterThere ==
    ASSUME PermTyped, NEW c, PermAsked(c), Perms!Mutates(c), c.kind # "delete",
           server[c.of] # Gone \/ c.kind = "create",
           c.kind = "move" => server[Track] # Gone
    PROVE  Perms!After(c) # Gone
<1> DEFINE All == Groups \union Weights \union Titles \union {Perm, Prefix, Meta}
<1>1. c.kind \in {"add", "remove", "weight", "title", "move", "set", "create"} /\ c.of \in Perms!Entities
  BY DEF Perms!Mutates, Perms!Edits, PermAsked
<1>2. \A nodes \in SUBSET All : nodes # Gone
  BY EntitiesAssumption
<1>3. <<>> # Gone
  <2>1. <<>> \in Seq(Groups)
    OBVIOUS
  <2> QED
    BY <2>1, EntitiesAssumption
<1>4. CASE c.kind = "create"
  <2>1. {} # Gone
    BY <1>2
  <2> QED
    BY <1>3, <1>4, <2>1, PermAfterIs
<1>5. CASE c.kind = "set"
  BY <1>5, PermAfterIs, EntitiesAssumption DEF PermAsked
<1>6. CASE c.kind \in {"add", "remove", "weight", "title"}
  <2>1. c.of \in Groups \union {User} /\ server[c.of] # Gone
    BY <1>6, PermAfterIs
  <2>2. c.of # Track /\ Perms!Nodes(c.of) \subseteq All
    BY <2>1, EntitiesAssumption DEF Perms!Nodes
  <2>3. server[c.of] \subseteq All
    BY <1>1, <2>1, <2>2 DEF PermTyped, PermStored, Perms!IsDoc
  <2>4. c.kind = "add" => c.value \in All
    BY <2>2 DEF PermAsked
  <2>5. Perms!After(c) \in SUBSET All
    BY <1>6, <2>3, <2>4, PermAfterIs
  <2> QED
    BY <1>2, <2>5
<1>7. CASE c.kind = "move"
  <2>1. c.of = User /\ server[User] # Gone /\ server[Track] # Gone
    BY <1>7, PermAfterIs
  <2>2. server[User] \in SUBSET Perms!Nodes(User) /\ server[Track] \in Seq(Groups)
    BY <2>1, EntitiesAssumption DEF PermTyped, PermStored, Perms!IsDoc, Perms!Entities
  <2>3. Perms!After(c) \subseteq Perms!Nodes(User)
    BY <1>7, <2>2, PermAfterIs, PermMovedTyped
  <2>4. Perms!Nodes(User) \subseteq All
    BY DEF Perms!Nodes
  <2> QED
    BY <1>2, <2>3, <2>4
<1> QED
  BY <1>1, <1>4, <1>5, <1>6, <1>7

\* A change of a group without the key of the weight leaves the weight alone.
LEMMA PermAfterAside ==
    ASSUME PermTyped, NEW c, PermAsked(c), PermFiled(c), PermChanges(c), ~PermOwn(c), c.of # User
    PROVE  c.of \in Groups /\ Perms!After(c) \intersect Weights = server[c.of] \intersect Weights
<1>1. \/ c.kind \in {"add", "remove"} /\ c.value \notin Weights
      \/ c.kind = "title" /\ c.seen \notin Weights
  BY DEF PermChanges, Perms!Edits, PermOwn, PermFiled, PermAsked
<1>2. c.of \in Groups /\ Perms!Mutates(c)
  BY <1>1, EntitiesAssumption DEF PermAsked, Perms!Entities, Perms!Mutates, Perms!Edits
<1>3. \E x : x \notin Weights /\ Perms!After(c) \in {server[c.of] \union {x}, server[c.of] \ {x}}
  BY <1>1, <1>2, PermAfterIs
<1> QED
  BY <1>2, <1>3

-----------------------------------------------------------------------------
(***************************************************************************)
(* What is shown, and what is on its way to be shown, agrees with the      *)
(* server; or it is about what is gone; or a change that is still to be    *)
(* answered, or whose answer comes later, will correct it.  This is so for *)
(* the whole document with every change (own = FALSE), and for what a      *)
(* button waits for, the weight or the track, with the changes of that     *)
(* button alone (own = TRUE).                                              *)
(***************************************************************************)
PermCarried(i) ==
    IF i = 0 THEN view.selected \in Perms!Entities /\ view.shown.of = view.selected
    ELSE PermShown(FileWaiting(i)) /\ FileWaiting(i).ok = TRUE
PermCarriedDoc(i) == IF i = 0 THEN view.shown.doc ELSE FileWaiting(i).doc
PermFacet(own, e, doc) == IF own /\ e # Track THEN doc \intersect Weights ELSE doc
PermAlters(own, c) == IF own THEN PermOwn(c) ELSE PermChanges(c)
PermAgrees(own, i) == PermFacet(own, view.selected, PermCarriedDoc(i)) = PermFacet(own, view.selected, server[view.selected])
PermUnderway(own) == \E s \in Slots : PermAlters(own, calls[s]) /\ calls[s].of = view.selected
  /\ calls[s].at = "changed"
PermNewer(own, i) ==
    \E j \in 1..Len(order) :
        j > i /\ PermAlters(own, FileWaiting(j)) /\ FileWaiting(j).of = view.selected
          /\ FileWaiting(j).ok = TRUE
PermFresh ==
    \A i \in 0..Len(order), own \in BOOLEAN :
        PermCarried(i) /\ (own => view.selected # User) =>
            server[view.selected] = Gone \/ PermAgrees(own, i) \/ PermUnderway(own) \/ PermNewer(own, i)

\* Only a deletion takes away what is shown, and it is not over.
PermTook(c) == c.at = "changed" \/ (c.at = "answered" /\ c.ok = TRUE)
PermDeletes(c) == c # Perms!NoCall /\ c.kind = "delete" /\ c.of = view.selected /\ PermTook(c)
PermDeleted ==
    \A i \in 0..Len(order) :
        PermCarried(i) /\ server[view.selected] = Gone => \E s \in Slots : PermDeletes(calls[s])
\* What is being created is not being changed.
PermCreating ==
    \A s, t \in Slots :
        calls[s] # Perms!NoCall /\ calls[s].kind = "create" /\ server[calls[s].of] = Gone
          /\ PermChanges(calls[t]) =>
            calls[t].of # calls[s].of

\* A request of a button was made from what the server has.
PermFits(c) ==
    PermOwn(c) /\ server[c.of] # Gone =>
        /\ c.kind = "set" /\ c.at = "sent" => c.seen = server[Track]
        /\ c.kind = "add" /\ c.at = "sent" => server[c.of] \intersect Weights = {}
        /\ c.kind = "weight" /\ c.at = "sent" => server[c.of] \intersect Weights \subseteq {c.seen}
        /\ c.kind = "weight" /\ PermTook(c) => server[c.of] \intersect Weights = {}
PermFitting == \A s \in Slots : PermFits(calls[s])
PermOneEach == \A g \in Groups : server[g] # Gone => \A x, y \in server[g] \intersect Weights : x = y
PermTruth == PermFresh /\ PermDeleted /\ PermCreating /\ PermFitting /\ PermOneEach

LEMMA PermCarriedIs ==
    ASSUME Keyed, PermTyped, FileQueued, calm, NEW i \in 0..Len(order), PermCarried(i)
    PROVE  /\ view.selected \in Perms!Entities
           /\ i # 0 => i \in 1..Len(order) /\ order[i] \in Slots /\ FileWaiting(i).of = view.selected
<1>1. CASE i = 0
  BY <1>1 DEF PermCarried
<1>2. CASE i # 0
  <2>1. i \in 1..Len(order) /\ order[i] \in Slots /\ FileWaiting(i).at = "answered"
    BY <1>2, FileQueueIs DEF FileWaiting
  <2>2. FileWaiting(i) # Perms!NoCall /\ PermShown(FileWaiting(i))
    BY <1>2, <2>1 DEF Perms!NoCall, PermCarried
  <2>3. FileWaiting(i).of = view.selected
    BY <2>1, <2>2 DEF Keyed, FileWaiting
  <2>4. FileWaiting(i).of \in Perms!Entities
    BY <2>1, <2>2 DEF PermTyped, PermCallFits, PermAsked, FileWaiting
  <2> QED
    BY <2>1, <2>3, <2>4
<1> QED
  BY <1>1, <1>2

\* An entity with a key of a button is not the user, and the button is that of the entity.
LEMMA PermOwnIs ==
    ASSUME PermLocks, NEW s \in Slots, PermOwn(calls[s])
    PROVE  /\ PermChanges(calls[s]) /\ calls[s].of \in Groups \union {Track} /\ calls[s].of # User
           /\ calls[s].key = IF calls[s].of = Track THEN "track" ELSE "weight"
<1>1. (calls[s].of \in Groups /\ calls[s].key = "weight") \/ (calls[s].of = Track /\ calls[s].key = "track")
  BY PermOwnChanges
<1>2. PermChanges(calls[s])
  BY PermOwnChanges
<1> QED
  BY <1>1, <1>2, EntitiesAssumption

-----------------------------------------------------------------------------
LEMMA PermCarriedStays ==
    ASSUME FileQueued, calm, view'.selected = view.selected, view'.shown = view.shown,
           \A i \in 1..Len(order) : FileWaiting(i)' = FileWaiting(i)
    PROVE  \A i \in 0..Len(order) : (PermCarried(i)' <=> PermCarried(i)) /\ PermCarriedDoc(i)' = PermCarriedDoc(i)
<1> SUFFICES ASSUME NEW i \in 0..Len(order)
             PROVE  (PermCarried(i)' <=> PermCarried(i)) /\ PermCarriedDoc(i)' = PermCarriedDoc(i)
  OBVIOUS
<1>1. CASE i = 0
  BY <1>1 DEF PermCarried, PermCarriedDoc
<1>2. CASE i # 0
  <2>1. FileWaiting(i)' = FileWaiting(i)
    BY <1>2, FileQueueIs
  <2> QED
    BY <1>2, <2>1 DEF PermCarried, PermCarriedDoc, PermShown
<1> QED
  BY <1>1, <1>2

\* Steps that leave the queue and what is carried in it.
LEMMA PermStillFresh ==
    ASSUME PermFresh, PermDeleted, FileQueued, calm, PermStays, server' = server,
           view'.selected = view.selected, view'.shown = view.shown,
           \A t \in Slots : calls[t] # Perms!NoCall => calls'[t] = calls[t]
    PROVE  PermFresh' /\ PermDeleted'
<1>1. Len(order) \in Nat /\ Len(order') = Len(order)
        /\ \A i \in 1..Len(order) : FileWaiting(i)' = FileWaiting(i)
  BY FileQueueIs DEF PermStays
<1>2. \A i \in 0..Len(order) : (PermCarried(i)' <=> PermCarried(i)) /\ PermCarriedDoc(i)' = PermCarriedDoc(i)
  BY <1>1, PermCarriedStays
<1>3. \A own \in BOOLEAN : PermUnderway(own) => PermUnderway(own)'
  <2>1. \A t \in Slots : calls[t].at = "changed" => calls'[t] = calls[t]
    BY DEF Perms!NoCall
  <2> QED
    BY <2>1 DEF PermUnderway, PermAlters, PermOwn, PermChanges
<1>4. \A own \in BOOLEAN, i \in 0..Len(order) : PermNewer(own, i) => PermNewer(own, i)'
  BY <1>1 DEF PermNewer, PermAlters, PermOwn, PermChanges
<1>5. \A own \in BOOLEAN, i \in 0..Len(order) : PermAgrees(own, i) => PermAgrees(own, i)'
  BY <1>2 DEF PermAgrees, PermFacet
<1>6. PermFresh'
  <2> SUFFICES ASSUME NEW i \in 0..Len(order'), NEW own \in BOOLEAN, PermCarried(i)',
                      own => view'.selected # User
               PROVE  server'[view'.selected] = Gone \/ PermAgrees(own, i)' \/ PermUnderway(own)' \/ PermNewer(own, i)'
    BY DEF PermFresh
  <2>1. i \in 0..Len(order) /\ PermCarried(i)
    BY <1>1, <1>2
  <2>2. server[view.selected] = Gone \/ PermAgrees(own, i) \/ PermUnderway(own) \/ PermNewer(own, i)
    BY <2>1 DEF PermFresh
  <2> QED
    BY <1>3, <1>4, <1>5, <2>1, <2>2
<1>7. PermDeleted'
  <2> SUFFICES ASSUME NEW i \in 0..Len(order'), PermCarried(i)', server'[view'.selected] = Gone
               PROVE  \E s \in Slots : PermDeletes(calls[s])'
    BY DEF PermDeleted, PermDeletes, PermTook
  <2>1. PICK s \in Slots : PermDeletes(calls[s])
    BY <1>1, <1>2 DEF PermDeleted
  <2>2. calls'[s] = calls[s]
    BY <2>1 DEF PermDeletes
  <2> QED
    BY <2>1, <2>2 DEF PermDeletes, PermTook
<1> QED
  BY <1>6, <1>7

LEMMA PermIdleTruth ==
    ASSUME Keyed, FileQueued, PermTruth, calm, calm' = calm, PermIdle
    PROVE  PermTruth'
<1>1. PermStays /\ server' = server /\ calls' = calls /\ view'.selected = view.selected
        /\ view'.shown = view.shown
  BY PermIdleQueue DEF PermIdle
<1>2. PermFresh' /\ PermDeleted'
  BY <1>1, PermStillFresh DEF PermTruth
<1>3. PermCreating' /\ PermFitting' /\ PermOneEach'
  BY <1>1 DEF PermTruth, PermCreating, PermChanges, PermFitting, PermFits, PermOwn, PermTook, PermOneEach
<1> QED
  BY <1>2, <1>3 DEF PermTruth

LEMMA PermAsksTruth ==
    ASSUME Keyed, PermTyped, PermLocks, FileQueued, PermTruth, calm, calm' = calm, NEW s \in Slots, NEW new,
           PermAsks(s, new)
    PROVE  PermTruth'
<1>1. /\ calls'[s] = new /\ (\A t \in Slots : t # s => calls'[t] = calls[t]) /\ calls[s] = Perms!NoCall
      /\ server' = server /\ view'.selected = view.selected /\ view'.shown = view.shown
      /\ new.at = "sent" /\ PermFiled(new) /\ new # Perms!NoCall
  BY PermACall DEF Keyed, PermAsks
<1>2. PermStays
  BY PermAsksQueue
<1>3. PermFresh' /\ PermDeleted'
  <2>1. \A t \in Slots : calls[t] # Perms!NoCall => calls'[t] = calls[t]
    BY <1>1
  <2> QED
    BY <1>1, <1>2, <2>1, PermStillFresh DEF PermTruth
<1>4. PermChanges(new) => new.of = view.selected /\ PermCarried(0) /\ 0 \in 0..Len(order)
  <2> SUFFICES ASSUME PermChanges(new) PROVE new.of = view.selected /\ PermCarried(0) /\ 0 \in 0..Len(order)
    OBVIOUS
  <2>1. new.of = view.selected /\ ~view.loading /\ ~view.failed /\ new.of \in Perms!Entities
    BY DEF PermAsks, Perms!Open
  <2>2. view.shown.of = view.selected
    BY <2>1 DEF PermTyped, PermViewFits, PermPanelFits
  <2> QED
    BY <2>1, <2>2, FileQueueIs DEF PermCarried
<1>5. PermCreating'
  <2> SUFFICES ASSUME NEW u \in Slots, NEW t \in Slots, calls'[u] # Perms!NoCall, calls'[u].kind = "create",
                      server'[calls'[u].of] = Gone, PermChanges(calls'[t])
               PROVE  calls'[t].of # calls'[u].of
    BY DEF PermCreating, PermChanges
  <2>1. u # t
    BY DEF PermChanges, Perms!Edits
  <2>2. CASE u # s /\ t # s
    BY <1>1, <2>2 DEF PermTruth, PermCreating
  <2>3. CASE u = s
    BY <1>1, <2>1, <2>3 DEF PermAsks, PermSolo, Perms!Quiet, PermChanges
  <2>4. CASE t = s
    <3> SUFFICES ASSUME new.of = calls[u].of PROVE FALSE
      BY <1>1, <2>1, <2>4
    <3>1. calls[u] # Perms!NoCall /\ calls[u].kind = "create" /\ server[view.selected] = Gone
      BY <1>1, <1>4, <2>1, <2>4
    <3>2. PICK d \in Slots : PermDeletes(calls[d])
      BY <1>1, <1>4, <2>4, <3>1 DEF PermTruth, PermDeleted
    <3> QED
      BY <3>1, <3>2 DEF PermLocks, PermAlone, PermSolo, PermDeletes
  <2> QED
    BY <2>2, <2>3, <2>4
<1>6. ASSUME PermOwn(new), server[new.of] # Gone
      PROVE  PermFacet(TRUE, new.of, view.shown.doc) = PermFacet(TRUE, new.of, server[new.of])
  <2>1. PermChanges(new) /\ new.of # User /\ new.of \in Groups \union {Track}
    BY <1>1, <1>6, EntitiesAssumption DEF PermOwn, PermFiled, PermChanges, Perms!Edits
  <2>2. new.key \notin view.busy /\ new.key = IF new.of = Track THEN "track" ELSE "weight"
    BY <1>1, <1>6, EntitiesAssumption DEF PermAsks, PermOwn, PermFiled
  <2>3. ASSUME NEW t \in Slots, PermOwn(calls[t]), calls[t].of = view.selected
        PROVE  FALSE
    <3>1. calls[t].mounted /\ calls[t].key = new.key
      BY <1>4, <2>1, <2>2, <2>3, PermOwnIs DEF PermLocks, PermInItsPanel
    <3> QED
      BY <2>2, <2>3, <3>1 DEF PermLocks, PermBusyOwn
  <2>4. ~PermUnderway(TRUE)
    BY <2>3 DEF PermUnderway, PermAlters
  <2>5. ~PermNewer(TRUE, 0)
    BY <2>3, FileQueueIs DEF PermNewer, PermAlters, FileWaiting
  <2>6. PermAgrees(TRUE, 0)
    BY <1>4, <1>6, <2>1, <2>4, <2>5 DEF PermTruth, PermFresh
  <2> QED
    BY <1>4, <2>1, <2>6 DEF PermAgrees, PermCarriedDoc
<1>7. PermFits(new)
  <2> SUFFICES ASSUME PermOwn(new), server[new.of] # Gone
               PROVE  /\ new.kind = "set" => new.seen = server[Track]
                      /\ new.kind = "add" => server[new.of] \intersect Weights = {}
                      /\ new.kind = "weight" => server[new.of] \intersect Weights \subseteq {new.seen}
    BY <1>1 DEF PermFits, PermTook
  <2>1. PermFacet(TRUE, new.of, view.shown.doc) = PermFacet(TRUE, new.of, server[new.of]) /\ PermSuits(new)
    BY <1>6 DEF PermAsks
  <2>2. CASE new.of = Track
    <3>1. new.kind = "set"
      BY <1>1, <2>2, EntitiesAssumption DEF PermOwn, PermFiled
    <3> QED
      BY <2>1, <2>2, <3>1 DEF PermFacet, PermSuits
  <2>3. CASE new.of # Track
    <3>1. new.of \in Groups /\ new.kind # "set"
      BY <1>1, <2>3 DEF PermOwn, PermFiled
    <3>2. view.shown.doc \intersect Weights = server[new.of] \intersect Weights
      BY <2>1, <2>3 DEF PermFacet
    <3>3. \A x, y \in server[new.of] \intersect Weights : x = y
      BY <3>1 DEF PermTruth, PermOneEach
    <3> QED
      BY <2>1, <3>1, <3>2, <3>3 DEF PermSuits
  <2> QED
    BY <2>2, <2>3
<1>8. PermFitting'
  <2>1. \A t \in Slots : PermFits(calls[t])' <=> PermFits(calls'[t])
    BY <1>1 DEF PermFits, PermOwn, PermTook
  <2> QED
    BY <1>1, <1>7, <2>1 DEF PermTruth, PermFitting
<1>9. PermOneEach'
  BY <1>1 DEF PermTruth, PermOneEach
<1> QED
  BY <1>3, <1>5, <1>8, <1>9 DEF PermTruth

-----------------------------------------------------------------------------
\* The API makes a change.
LEMMA PermChangeTruth ==
    ASSUME Keyed, PermTyped, PermLocks, FileQueued, PermTruth, calm, calm' = calm, NEW s \in Slots,
           Perms!Change(s)
    PROVE  PermTruth'
<1> DEFINE c == calls[s]
           sel == view.selected
<1>1. /\ PermServed(s) /\ c.at = "sent" /\ calls'[s].at = "changed" /\ PermStays
      /\ Perms!Mutates(c) /\ (server[c.of] # Gone \/ c.kind = "create")
      /\ c.kind = "move" => server[Track] # Gone
      /\ server' = [server EXCEPT ![c.of] = Perms!After(c)]
  BY PermChangeIs, PermChangeQueue DEF Perms!Change
<1>2. /\ PermAsked(c) /\ PermFiled(c) /\ c.of \in Perms!Entities /\ c # Perms!NoCall
      /\ \A t \in Slots : calls[t] # Perms!NoCall => calls[t].of \in Perms!Entities
  BY <1>1 DEF PermServed, PermTyped, PermCallFits, PermAsked, PermLocks, PermAllFiled
<1>3. server'[c.of] = Perms!After(c) /\ \A e \in Perms!Entities : e # c.of => server'[e] = server[e]
  BY <1>1, <1>2 DEF PermTyped, PermStored
<1>4. /\ calls'[s].kind = c.kind /\ calls'[s].of = c.of /\ calls'[s].key = c.key /\ calls'[s] # Perms!NoCall
      /\ calls'[s].seen = c.seen /\ view' = view /\ \A t \in Slots : t # s => calls'[t] = calls[t]
  BY <1>1, <1>2 DEF PermServed, PermAlike
<1>5. /\ Len(order') = Len(order) /\ Len(order) \in Nat
      /\ \A i \in 1..Len(order) : FileWaiting(i)' = FileWaiting(i)
      /\ \A i \in 0..Len(order) : (PermCarried(i)' <=> PermCarried(i)) /\ PermCarriedDoc(i)' = PermCarriedDoc(i)
  BY <1>1, <1>4, FileQueueIs, PermCarriedStays DEF PermStays
<1>6. c.kind = "delete" \/ c.kind = "create" \/ PermChanges(c)
  BY <1>1, <1>2 DEF Perms!Mutates, PermChanges
<1>7. Perms!After(c) = Gone <=> c.kind = "delete"
  BY <1>1, <1>2, PermAfterIs, PermAfterThere
<1>8. \A e \in Perms!Entities : server'[e] = Gone /\ server[e] # Gone => e = c.of /\ c.kind = "delete"
  BY <1>3, <1>7
<1> HIDE DEF c, sel
<1>9. ASSUME NEW i \in 0..Len(order), PermCarried(i), c.of = sel
      PROVE  server[sel] # Gone
  <2> SUFFICES ASSUME server[sel] = Gone PROVE FALSE
    OBVIOUS
  <2>1. PICK d \in Slots : PermDeletes(calls[d])
    BY <1>9 DEF PermTruth, PermDeleted, sel
  <2>2. c.kind = "create"
    BY <1>1, <1>9
  <2> QED
    BY <1>2, <2>1, <2>2 DEF PermLocks, PermAlone, PermSolo, PermDeletes, c
<1>10. ASSUME NEW i \in 0..Len(order), NEW own \in BOOLEAN, PermCarried(i), own => sel # User,
              sel \in Perms!Entities
       PROVE  \/ server'[sel] = Gone \/ PermUnderway(own)'
              \/ /\ PermFacet(own, sel, server'[sel]) = PermFacet(own, sel, server[sel])
                 /\ server[sel] = Gone => server'[sel] = Gone
  <2>1. CASE c.of # sel
    BY <1>3, <1>10, <2>1
  <2>2. CASE c.of = sel
    <3>1. server[sel] # Gone /\ server'[sel] = Perms!After(c)
      BY <1>3, <1>9, <1>10, <2>2
    <3>2. CASE c.kind = "delete"
      BY <1>7, <3>1, <3>2
    <3>3. CASE c.kind = "create"
      <4>1. server'[sel] = server[sel]
        BY <1>1, <1>2, <2>2, <3>1, <3>3, PermAfterIs
      <4> QED
        BY <4>1
    <3>4. CASE PermChanges(c) /\ PermAlters(own, c)
      <4>1. PermAlters(own, calls'[s]) /\ calls'[s].of = view'.selected
        BY <1>4, <2>2, <3>4 DEF PermAlters, PermOwn, PermChanges, sel
      <4>2. PermUnderway(own)'
        BY <1>1, <4>1 DEF PermUnderway, PermAlters, PermOwn, PermChanges
      <4> QED
        BY <4>2
    <3>5. CASE PermChanges(c) /\ ~PermAlters(own, c)
      <4>1. own = TRUE /\ ~PermOwn(c) /\ c.of # User
        BY <1>10, <2>2, <3>5 DEF PermAlters
      <4>2. c.of \in Groups /\ Perms!After(c) \intersect Weights = server[c.of] \intersect Weights
        BY <1>2, <3>5, <4>1, PermAfterAside
      <4>3. sel # Track
        BY <2>2, <4>2, EntitiesAssumption
      <4> QED
        BY <2>2, <3>1, <4>1, <4>2, <4>3 DEF PermFacet
    <3> QED
      BY <1>6, <3>2, <3>3, <3>4, <3>5
  <2> QED
    BY <2>1, <2>2
<1>11. PermFresh'
  <2> SUFFICES ASSUME NEW i \in 0..Len(order'), NEW own \in BOOLEAN, PermCarried(i)',
                      own => view'.selected # User
               PROVE  server'[view'.selected] = Gone \/ PermAgrees(own, i)' \/ PermUnderway(own)' \/ PermNewer(own, i)'
    BY DEF PermFresh
  <2>1. i \in 0..Len(order) /\ PermCarried(i) /\ PermCarriedDoc(i)' = PermCarriedDoc(i) /\ view'.selected = sel
    BY <1>4, <1>5 DEF sel
  <2>2. sel \in Perms!Entities
    BY <2>1, PermCarriedIs DEF sel
  <2>3. server[sel] = Gone \/ PermAgrees(own, i) \/ PermUnderway(own) \/ PermNewer(own, i)
    BY <2>1 DEF PermTruth, PermFresh, sel
  <2>4. PermUnderway(own) => PermUnderway(own)'
    BY <1>1, <1>4 DEF PermUnderway, PermAlters, PermOwn, PermChanges, c
  <2>5. PermNewer(own, i) => PermNewer(own, i)'
    BY <1>4, <1>5 DEF PermNewer, PermAlters, PermOwn, PermChanges
  <2>6. CASE PermFacet(own, sel, server'[sel]) = PermFacet(own, sel, server[sel])
             /\ (server[sel] = Gone => server'[sel] = Gone)
    <3>1. PermAgrees(own, i) => PermAgrees(own, i)'
      BY <2>1, <2>6 DEF PermAgrees, PermFacet, sel
    <3> QED
      BY <2>1, <2>3, <2>4, <2>5, <2>6, <3>1
  <2> QED
    BY <1>10, <2>1, <2>2, <2>6
<1>12. PermDeleted'
  <2> SUFFICES ASSUME NEW i \in 0..Len(order'), PermCarried(i)', server'[view'.selected] = Gone
               PROVE  \E t \in Slots : PermDeletes(calls[t])'
    BY DEF PermDeleted, PermDeletes, PermTook
  <2>1. i \in 0..Len(order) /\ PermCarried(i) /\ view'.selected = sel /\ sel \in Perms!Entities
    BY <1>4, <1>5, PermCarriedIs DEF sel
  <2>2. CASE server[sel] = Gone
    <3>1. PICK d \in Slots : PermDeletes(calls[d])
      BY <2>1, <2>2 DEF PermTruth, PermDeleted, sel
    <3>2. d # s
      BY <1>1, <3>1 DEF PermDeletes, PermTook, c
    <3> QED
      BY <1>4, <3>1, <3>2 DEF PermDeletes, PermTook
  <2>3. CASE server[sel] # Gone
    <3>1. sel = c.of /\ c.kind = "delete"
      BY <1>8, <2>1, <2>3
    <3>2. PermDeletes(calls[s])'
      BY <1>1, <1>4, <2>1, <3>1 DEF PermDeletes, PermTook
    <3> QED
      BY <3>2
  <2> QED
    BY <2>2, <2>3
<1>13. PermCreating'
  <2> SUFFICES ASSUME NEW u \in Slots, NEW t \in Slots, calls'[u] # Perms!NoCall, calls'[u].kind = "create",
                      server'[calls'[u].of] = Gone, PermChanges(calls'[t]), calls'[t].of = calls'[u].of
               PROVE  FALSE
    BY DEF PermCreating, PermChanges
  <2>1. calls[u] # Perms!NoCall /\ calls[u].kind = "create" /\ calls'[u].of = calls[u].of
    BY <1>2, <1>4 DEF c
  <2>2. PermChanges(calls[t]) /\ calls'[t].of = calls[t].of
    BY <1>2, <1>4 DEF PermChanges, c
  <2>3. server[calls[u].of] # Gone
    BY <2>1, <2>2 DEF PermTruth, PermCreating
  <2>4. c.kind = "delete"
    BY <1>2, <1>8, <2>1, <2>3
  <2> QED
    BY <1>2, <2>1, <2>4 DEF PermLocks, PermAlone, PermSolo, c
<1>14. PermFitting'
  <2> SUFFICES ASSUME NEW t \in Slots, PermOwn(calls'[t]), server'[calls'[t].of] # Gone
               PROVE  PermFits(calls[t])'
    BY DEF PermFitting, PermFits, PermOwn
  <2>1. PermOwn(calls[t]) /\ calls'[t].of = calls[t].of /\ calls'[t].kind = calls[t].kind
          /\ calls[t] # Perms!NoCall
    BY <1>2, <1>4 DEF PermOwn, c
  <2>2. PermChanges(calls[t]) /\ calls[t].of \in Groups \union {Track} /\ calls[t].of # User
    BY <2>1, PermOwnIs
  <2>3. CASE t = s
    <3>1. server[c.of] # Gone
      BY <1>1, <2>2, <2>3 DEF PermChanges, Perms!Edits, c
    <3>2. c.kind = "weight" => server'[c.of] \intersect Weights = {}
      <4>1. c.kind = "weight" => server[c.of] \intersect Weights \subseteq {c.seen}
        BY <1>1, <2>1, <2>3, <3>1 DEF PermTruth, PermFitting, PermFits, c
      <4> QED
        BY <1>1, <1>2, <1>3, <4>1, PermAfterIs
    <3> QED
      BY <1>1, <1>4, <2>3, <3>2 DEF PermFits, c
  <2>4. CASE t # s /\ calls[t].of # c.of
    <3>1. calls'[t] = calls[t] /\ server'[calls[t].of] = server[calls[t].of]
      BY <1>2, <1>3, <1>4, <2>1, <2>4
    <3>2. calls[t].kind = "set" => calls[t].of = Track
      BY <2>1 DEF PermLocks, PermAllFiled, PermFiled
    <3> QED
      BY <2>1, <3>1, <3>2 DEF PermTruth, PermFitting, PermFits, PermOwn, PermTook
  <2>5. CASE t # s /\ calls[t].of = c.of
    <3>1. calls'[t] = calls[t] /\ c.kind # "delete"
      BY <1>3, <1>4, <1>7, <2>1, <2>5
    <3>2. CASE c.kind = "create"
      <4>1. server[c.of] # Gone
        BY <1>2, <2>2, <2>5, <3>2 DEF PermTruth, PermCreating, c
      <4>2. server'[c.of] = server[c.of]
        BY <1>1, <1>2, <1>3, <3>2, <4>1, PermAfterIs
      <4>3. calls[t].kind = "set" => calls[t].of = Track
        BY <2>1 DEF PermLocks, PermAllFiled, PermFiled
      <4> QED
        BY <2>1, <2>5, <3>1, <4>2, <4>3 DEF PermTruth, PermFitting, PermFits, PermOwn, PermTook
    <3>3. CASE PermChanges(c)
      <4>1. ~PermOwn(c)
        BY <2>1, <2>5 DEF PermLocks, PermOneOwn, c
      <4>2. c.of \in Groups /\ server'[c.of] \intersect Weights = server[c.of] \intersect Weights
        BY <1>2, <1>3, <2>2, <2>5, <3>3, <4>1, PermAfterAside
      <4>3. calls[t].kind # "set" /\ server[c.of] # Gone
        BY <1>1, <2>1, <2>5, <3>3, <4>2, EntitiesAssumption DEF PermLocks, PermAllFiled, PermFiled,
           PermChanges, Perms!Edits
      <4> QED
        BY <2>1, <2>5, <3>1, <4>2, <4>3 DEF PermTruth, PermFitting, PermFits, PermOwn, PermTook
    <3> QED
      BY <1>6, <3>1, <3>2, <3>3
  <2> QED
    BY <2>3, <2>4, <2>5
<1>15. PermOneEach'
  <2> SUFFICES ASSUME NEW g \in Groups, server'[g] # Gone, NEW x \in server'[g] \intersect Weights,
                      NEW y \in server'[g] \intersect Weights
               PROVE  x = y
    BY DEF PermOneEach
  <2>1. CASE g # c.of
    BY <1>3, <2>1 DEF PermTruth, PermOneEach, Perms!Entities
  <2>2. CASE g = c.of
    <3>1. server'[g] = Perms!After(c) /\ c.kind # "delete" /\ c.of # Track /\ c.of # User
      BY <1>3, <1>7, <2>2, EntitiesAssumption
    <3>2. CASE c.kind = "create"
      BY <1>1, <1>2, <2>2, <3>1, <3>2, PermAfterIs DEF PermTruth, PermOneEach
    <3>3. CASE PermChanges(c) /\ ~PermOwn(c)
      <4>1. server'[g] \intersect Weights = server[g] \intersect Weights /\ server[g] # Gone
        BY <1>1, <1>2, <2>2, <3>1, <3>3, PermAfterAside DEF PermChanges, Perms!Edits
      <4> QED
        BY <4>1 DEF PermTruth, PermOneEach
    <3>4. CASE PermChanges(c) /\ PermOwn(c)
      <4>1. server[g] # Gone /\ c.kind \in {"add", "remove", "weight"}
        BY <1>1, <1>2, <2>2, <3>1, <3>4, PermAfterIs DEF PermChanges, PermOwn, PermFiled, Perms!Edits,
           PermAsked
      <4>2. c.kind = "add" => server[g] \intersect Weights = {}
        BY <1>1, <2>2, <3>4, <4>1 DEF PermTruth, PermFitting, PermFits, c
      <4>3. c.kind = "add" => Perms!After(c) = server[g] \union {c.value}
        BY <1>1, <1>2, <2>2, PermAfterIs
      <4>4. c.kind # "add" => Perms!After(c) \subseteq server[g]
        BY <1>1, <1>2, <2>2, <4>1, PermAfterIs
      <4> QED
        BY <3>1, <4>1, <4>2, <4>3, <4>4 DEF PermTruth, PermOneEach
    <3> QED
      BY <1>6, <3>1, <3>2, <3>3, <3>4
  <2> QED
    BY <2>1, <2>2
<1> QED
  BY <1>11, <1>12, <1>13, <1>14, <1>15 DEF PermTruth

\* The API answers.
LEMMA PermAnswerTruth ==
    ASSUME Keyed, PermTyped, FileQueued, PermTruth, calm, calm' = calm, NEW s \in Slots,
           Perms!Serve(s) \/ Perms!Fail(s)
    PROVE  PermTruth'
<1> DEFINE c == calls[s]
           sel == view.selected
<1>0. PICK n \in Nat : n = Len(order) + 1
  BY FileQueueIs
<1>1. /\ PermServed(s) /\ calls'[s].at = "answered" /\ server' = server /\ view' = view
      /\ c.at \in {"sent", "changed"} /\ c # Perms!NoCall
      /\ \A t \in Slots : t # s => calls'[t] = calls[t]
  BY PermServeIs, PermFailIs DEF PermServed
<1>2. /\ calls'[s] # Perms!NoCall /\ calls'[s].kind = c.kind /\ calls'[s].of = c.of /\ calls'[s].key = c.key
      /\ calls'[s].mounted = c.mounted /\ calls'[s].seen = c.seen
  BY <1>1 DEF PermServed, PermAlike
<1>3. /\ Len(order) \in Nat /\ n = Len(order) + 1 /\ Len(order') = Len(order) + 1 /\ n \in 1..Len(order')
      /\ \A i \in 1..Len(order) : FileWaiting(i)' = FileWaiting(i)
      /\ \A i \in 0..Len(order') : i \in 0..Len(order) \/ i = n
      /\ FileWaiting(n)' = calls'[s]
  <2>1. PermJoins(s) /\ Len(order) \in Nat
    BY PermAnswerQueue, FileQueueIs
  <2>2. n \in 1..Len(order') /\ n \notin 1..Len(order)
    BY <1>0, <2>1 DEF PermJoins
  <2>3. \A i \in 0..Len(order') : i \in 0..Len(order) \/ i = n
    BY <1>0, <2>1 DEF PermJoins
  <2> QED
    BY <1>0, <2>1, <2>2, <2>3 DEF PermJoins
<1>4. \A i \in 0..Len(order) : (PermCarried(i)' <=> PermCarried(i)) /\ PermCarriedDoc(i)' = PermCarriedDoc(i)
  BY <1>1, <1>3, PermCarriedStays
<1>5. c.at = "changed" => calls'[s].ok = TRUE \/ (c.kind # "delete" /\ server[c.of] = Gone)
  BY PermServeIs, PermFailIs
<1>6. calls'[s].ok = TRUE => /\ calls'[s].doc = Perms!Found(c) /\ c.at = (IF Perms!Mutates(c) THEN "changed" ELSE "sent")
                             /\ c.kind \in {"health", "lists", "search", "browse", "delete"}
                                  \/ server[c.of] # Gone
  BY PermServeIs, PermFailIs
<1>7. ASSUME PermCarried(n)'
      PROVE  c.of = sel /\ PermCarriedDoc(n)' = server[sel] /\ server[sel] # Gone
  <2>1. PermShown(calls'[s]) /\ calls'[s].ok = TRUE
    BY <1>3, <1>7 DEF PermCarried
  <2>2. PermShown(c)
    BY <1>2, <2>1 DEF PermShown
  <2>3. c.of = sel
    BY <1>1, <2>2 DEF Keyed
  <2>4. Perms!Found(c) = server[c.of] /\ c.kind \notin {"health", "lists", "search", "browse", "delete"}
    BY <2>2 DEF PermShown, Perms!Edits, Perms!Found
  <2>5. PermCarriedDoc(n)' = calls'[s].doc
    BY <1>3 DEF PermCarriedDoc
  <2> QED
    BY <1>6, <2>1, <2>3, <2>4, <2>5
<1> HIDE DEF c, sel
<1>8. PermFresh'
  <2> SUFFICES ASSUME NEW i \in 0..Len(order'), NEW own \in BOOLEAN, PermCarried(i)',
                      own => view'.selected # User
               PROVE  server'[view'.selected] = Gone \/ PermAgrees(own, i)' \/ PermUnderway(own)' \/ PermNewer(own, i)'
    BY DEF PermFresh
  <2>1. CASE i = n
    BY <1>1, <1>7, <2>1 DEF PermAgrees, PermFacet, sel
  <2>2. CASE i \in 0..Len(order)
    <3>1. PermCarried(i) /\ PermCarriedDoc(i)' = PermCarriedDoc(i)
      BY <1>4, <2>2
    <3>2. server[sel] = Gone \/ PermAgrees(own, i) \/ PermUnderway(own) \/ PermNewer(own, i)
      BY <1>1, <2>2, <3>1 DEF PermTruth, PermFresh, sel
    <3>3. PermAgrees(own, i) => PermAgrees(own, i)'
      BY <1>1, <3>1 DEF PermAgrees, PermFacet
    <3>4. PermNewer(own, i) => PermNewer(own, i)'
      BY <1>1, <1>3 DEF PermNewer, PermAlters, PermOwn, PermChanges
    <3>5. ASSUME NEW t \in Slots, PermAlters(own, calls[t]), calls[t].of = sel, calls[t].at = "changed"
          PROVE  server[sel] = Gone \/ PermUnderway(own)' \/ PermNewer(own, i)'
      <4>1. CASE t # s
        BY <1>1, <3>5, <4>1 DEF PermUnderway, PermAlters, PermOwn, PermChanges, sel
      <4>2. CASE t = s /\ calls'[s].ok = TRUE
        <5>1. PermAlters(own, FileWaiting(n)') /\ FileWaiting(n)'.of = view'.selected
                /\ FileWaiting(n)'.ok = TRUE
          BY <1>1, <1>2, <1>3, <3>5, <4>2 DEF PermAlters, PermOwn, PermChanges, sel, c
        <5>2. n > i /\ n \in 1..Len(order')
          BY <1>3, <2>2
        <5> QED
          BY <5>1, <5>2 DEF PermNewer, PermAlters, PermOwn, PermChanges
      <4>3. CASE t = s /\ calls'[s].ok # TRUE
        BY <1>5, <3>5, <4>3 DEF c
      <4> QED
        BY <4>1, <4>2, <4>3
    <3>6. PermUnderway(own) => server[sel] = Gone \/ PermUnderway(own)' \/ PermNewer(own, i)'
      BY <3>5 DEF PermUnderway, sel
    <3> QED
      BY <1>1, <3>2, <3>3, <3>4, <3>6 DEF sel
  <2> QED
    BY <1>3, <2>1, <2>2
<1>9. PermDeleted'
  <2> SUFFICES ASSUME NEW i \in 0..Len(order'), PermCarried(i)', server'[view'.selected] = Gone
               PROVE  \E t \in Slots : PermDeletes(calls[t])'
    BY DEF PermDeleted, PermDeletes, PermTook
  <2>1. i \in 0..Len(order) /\ PermCarried(i)
    BY <1>1, <1>3, <1>4, <1>7 DEF sel
  <2>2. PICK d \in Slots : PermDeletes(calls[d])
    BY <1>1, <2>1 DEF PermTruth, PermDeleted
  <2>3. PermDeletes(calls[d])'
    <3>1. CASE d # s
      BY <1>1, <2>2, <3>1 DEF PermDeletes, PermTook
    <3>2. CASE d = s
      <4>1. c.kind = "delete" /\ c.at = "changed"
        BY <1>1, <2>2, <3>2 DEF PermDeletes, PermTook, c
      <4> QED
        BY <1>1, <1>2, <1>5, <2>2, <3>2, <4>1 DEF PermDeletes, PermTook, c
    <3> QED
      BY <3>1, <3>2
  <2> QED
    BY <2>3
<1>10. \A t \in Slots : /\ calls'[t] # Perms!NoCall <=> calls[t] # Perms!NoCall
                        /\ calls'[t].kind = calls[t].kind /\ calls'[t].of = calls[t].of
                        /\ calls'[t].key = calls[t].key /\ calls'[t].seen = calls[t].seen
                        /\ calls'[t].at # "sent" \/ calls'[t] = calls[t]
  BY <1>1, <1>2 DEF c
<1>11. PermCreating'
  BY <1>1, <1>10 DEF PermTruth, PermCreating, PermChanges
<1>12. PermFitting'
  <2> SUFFICES ASSUME NEW t \in Slots, PermOwn(calls'[t]), server'[calls'[t].of] # Gone
               PROVE  PermFits(calls[t])'
    BY DEF PermFitting, PermFits, PermOwn
  <2>1. CASE t # s
    BY <1>1, <2>1 DEF PermTruth, PermFitting, PermFits, PermOwn, PermTook
  <2>2. CASE t = s
    <3>1. PermOwn(c) /\ server[c.of] # Gone
      BY <1>1, <1>2, <2>2 DEF PermOwn, c
    <3>2. c.kind = "weight" /\ calls'[s].ok = TRUE => c.at = "changed"
      BY <1>6 DEF Perms!Mutates, Perms!Edits
    <3>3. c.kind = "weight" /\ calls'[s].ok = TRUE => server[c.of] \intersect Weights = {}
      BY <3>1, <3>2 DEF PermTruth, PermFitting, PermFits, PermTook, c
    <3> QED
      BY <1>1, <1>2, <2>2, <3>3 DEF PermFits, PermTook
  <2> QED
    BY <2>1, <2>2
<1>13. PermOneEach'
  BY <1>1 DEF PermTruth, PermOneEach
<1> QED
  BY <1>8, <1>9, <1>11, <1>12, <1>13 DEF PermTruth

\* An answer arrives, and another request may follow.
LEMMA PermFollowsTruth ==
    ASSUME Keyed, PermTyped, PermLocks, FileQueued, PermTruth, calm, calm' = calm,
           NEW s \in Slots, NEW next, Perms!Arrives(s), PermFollows(s, next)
    PROVE  PermTruth'
<1> DEFINE c == calls[s]
           sel == view.selected
           Shows1 == PermShown(c) /\ c.ok = TRUE
<1>1. /\ c # Perms!NoCall /\ c.at = "answered" /\ server' = server /\ view'.selected = sel
      /\ calls'[s] = next /\ \A t \in Slots : t # s => calls'[t] = calls[t]
      /\ c.kind = "delete" => c.ok # TRUE
      /\ Shows1 => view'.shown.of = c.of /\ view'.shown.doc = c.doc
      /\ ~Shows1 => view'.shown = view.shown
  <2>1. /\ c # Perms!NoCall /\ c.at = "answered" /\ server' = server /\ view'.selected = sel
        /\ calls'[s] = next /\ \A t \in Slots : t # s => calls'[t] = calls[t]
        /\ c.kind = "delete" => c.ok # TRUE
    BY DEF Keyed, PermFollows, Perms!Arrives
  <2>2. Shows1 => view'.shown = [of |-> c.of, doc |-> c.doc]
    BY Zenon DEF PermFollows
  <2>3. ~Shows1 => view'.shown = view.shown
    BY Zenon DEF PermFollows
  <2> HIDE DEF c
  <2>4. Shows1 => view'.shown.of = c.of /\ view'.shown.doc = c.doc
    BY <2>2
  <2> QED
    BY <2>1, <2>3, <2>4
<1>2. /\ Len(order) \in Nat /\ Len(order) # 0 /\ Len(order') = Len(order) - 1 /\ FileWaiting(1) = c
      /\ \A i \in 1..Len(order') : i + 1 \in 1..Len(order) /\ FileWaiting(i)' = FileWaiting(i + 1)
  BY PermFollowsQueue, FileQueueIs DEF PermLeaves
<1>3. next # Perms!NoCall => /\ next.at = "sent" /\ next.kind \notin {"create", "delete"}
                             /\ PermChanges(next) => PermChanges(c) /\ next.of = c.of /\ next.key = c.key
                             /\ PermOwn(next) =>
                                  PermChanges(next) /\ next.kind = "add" /\ c.kind = "weight" /\ c.ok = TRUE
  BY DEF PermFollows, PermOwn, PermChanges, Perms!Edits
<1> HIDE DEF c, sel
<1>4. ASSUME NEW i \in 0..Len(order'), PermCarried(i)'
      PROVE  \E k \in 0..Len(order) : /\ PermCarried(k) /\ PermCarriedDoc(i)' = PermCarriedDoc(k)
                                      /\ k = i + 1 \/ (k = 0 /\ i = 0 /\ ~Shows1)
  <2>1. CASE i # 0
    <3>1. i + 1 \in 1..Len(order) /\ FileWaiting(i)' = FileWaiting(i + 1) /\ i + 1 # 0
            /\ i + 1 \in 0..Len(order)
      BY <1>2, <2>1
    <3>2. PermCarried(i + 1) /\ PermCarriedDoc(i)' = PermCarriedDoc(i + 1)
      BY <1>4, <2>1, <3>1 DEF PermCarried, PermCarriedDoc, PermShown
    <3> QED
      BY <3>1, <3>2
  <2>2. CASE i = 0 /\ Shows1
    <3>1. PermCarried(1) /\ PermCarriedDoc(1) = c.doc /\ 1 \in 0..Len(order)
      BY <1>2, <2>2 DEF PermCarried, PermCarriedDoc
    <3>2. PermCarriedDoc(i)' = c.doc
      BY <1>1, <2>2 DEF PermCarriedDoc
    <3> QED
      BY <2>2, <3>1, <3>2
  <2>3. CASE i = 0 /\ ~Shows1
    <3>1. PermCarried(0) /\ PermCarriedDoc(i)' = PermCarriedDoc(0) /\ 0 \in 0..Len(order)
      BY <1>1, <1>2, <1>4, <2>3 DEF PermCarried, PermCarriedDoc, sel
    <3> QED
      BY <2>3, <3>1
  <2> QED
    BY <2>1, <2>2, <2>3
<1>5. PermChanges(c) /\ c.of = sel /\ c.ok = TRUE => Shows1
  BY DEF PermLocks, PermInItsPanel, PermChanges, PermShown, c, sel
<1>6. PermOwn(c) => PermChanges(c)
  BY PermOwnIs DEF c
<1>7. PermFresh'
  <2> SUFFICES ASSUME NEW i \in 0..Len(order'), NEW own \in BOOLEAN, PermCarried(i)',
                      own => view'.selected # User
               PROVE  server'[view'.selected] = Gone \/ PermAgrees(own, i)' \/ PermUnderway(own)' \/ PermNewer(own, i)'
    BY DEF PermFresh
  <2>1. PICK k \in 0..Len(order) : /\ PermCarried(k) /\ PermCarriedDoc(i)' = PermCarriedDoc(k)
                                   /\ k = i + 1 \/ (k = 0 /\ i = 0 /\ ~Shows1)
    BY <1>4
  <2>2. server[sel] = Gone \/ PermAgrees(own, k) \/ PermUnderway(own) \/ PermNewer(own, k)
    BY <1>1, <2>1 DEF PermTruth, PermFresh, sel
  <2>3. PermAgrees(own, k) => PermAgrees(own, i)'
    BY <1>1, <2>1 DEF PermAgrees, PermFacet, sel
  <2>4. PermUnderway(own) => PermUnderway(own)'
    BY <1>1 DEF PermUnderway, PermAlters, PermOwn, PermChanges, c, sel
  <2>5. ASSUME NEW j \in 1..Len(order), j > k, PermAlters(own, FileWaiting(j)), FileWaiting(j).of = sel,
               FileWaiting(j).ok = TRUE
        PROVE  PermNewer(own, i)'
    <3>1. j # 1
      <4> SUFFICES ASSUME j = 1 PROVE FALSE
        OBVIOUS
      <4>1. k = 0 /\ ~Shows1
        BY <2>1, <2>5
      <4>2. PermChanges(c) /\ c.of = sel /\ c.ok = TRUE
        BY <1>2, <1>6, <2>5 DEF PermAlters
      <4> QED
        BY <1>5, <4>1, <4>2
    <3>2. j - 1 \in 1..Len(order') /\ j - 1 + 1 = j /\ j - 1 > i
      BY <1>2, <2>1, <2>5, <3>1
    <3>3. FileWaiting(j - 1)' = FileWaiting(j)
      BY <1>2, <3>2
    <3> QED
      BY <1>1, <2>5, <3>2, <3>3 DEF PermNewer, PermAlters, PermOwn, PermChanges
  <2>6. PermNewer(own, k) => PermNewer(own, i)'
    BY <2>5 DEF PermNewer, sel
  <2> QED
    BY <1>1, <2>2, <2>3, <2>4, <2>6
<1>8. PermDeleted'
  <2> SUFFICES ASSUME NEW i \in 0..Len(order'), PermCarried(i)', server'[view'.selected] = Gone
               PROVE  \E t \in Slots : PermDeletes(calls[t])'
    BY DEF PermDeleted, PermDeletes, PermTook
  <2>1. PICK k \in 0..Len(order) : PermCarried(k)
    BY <1>4
  <2>2. PICK d \in Slots : PermDeletes(calls[d])
    BY <1>1, <2>1 DEF PermTruth, PermDeleted, sel
  <2>3. d # s
    BY <1>1, <2>2 DEF PermDeletes, PermTook, c
  <2>4. PermDeletes(calls[d])'
    BY <1>1, <2>2, <2>3 DEF PermDeletes, PermTook, sel
  <2> QED
    BY <2>4
<1>9. PermCreating'
  <2> SUFFICES ASSUME NEW u \in Slots, NEW t \in Slots, calls'[u] # Perms!NoCall, calls'[u].kind = "create",
                      server'[calls'[u].of] = Gone, PermChanges(calls'[t])
               PROVE  calls'[t].of # calls'[u].of
    BY DEF PermCreating, PermChanges
  <2>1. calls[u] # Perms!NoCall /\ calls[u].kind = "create" /\ calls'[u].of = calls[u].of
          /\ server[calls[u].of] = Gone
    BY <1>1, <1>3
  <2>2. PermChanges(calls[t]) /\ calls'[t].of = calls[t].of
    BY <1>1, <1>3 DEF PermChanges, c
  <2> QED
    BY <2>1, <2>2 DEF PermTruth, PermCreating
<1>10. PermFitting'
  <2> SUFFICES ASSUME NEW t \in Slots, PermOwn(calls'[t]), server'[calls'[t].of] # Gone
               PROVE  PermFits(calls[t])'
    BY DEF PermFitting, PermFits, PermOwn
  <2>1. CASE t # s
    BY <1>1, <2>1 DEF PermTruth, PermFitting, PermFits, PermOwn, PermTook
  <2>2. CASE t = s
    <3>1. PermOwn(next) /\ next # Perms!NoCall /\ next.kind = "add" /\ c.kind = "weight" /\ c.ok = TRUE
      BY <1>1, <1>3, <2>2 DEF PermOwn
    <3>2. PermOwn(c) /\ next.of = c.of
      BY <1>1, <1>3, <3>1 DEF PermOwn
    <3>3. server[c.of] # Gone => server[c.of] \intersect Weights = {}
      BY <1>1, <3>1, <3>2 DEF PermTruth, PermFitting, PermFits, PermTook, c
    <3> QED
      BY <1>1, <2>2, <3>1, <3>2, <3>3 DEF PermFits
  <2> QED
    BY <2>1, <2>2
<1>11. PermOneEach'
  BY <1>1 DEF PermTruth, PermOneEach
<1> QED
  BY <1>7, <1>8, <1>9, <1>10, <1>11 DEF PermTruth

\* Another panel is opened: nothing of the old one would be shown.
LEMMA PermOpensCalls ==
    ASSUME Keyed, NEW s \in Slots, NEW e, NEW next, PermOpens(s, e, next)
    PROVE  /\ calls'[s] = next /\ calls'[s].at # "answered" /\ ~PermChanges(next) /\ ~PermOwn(next) /\ ~PermSolo(next)
           /\ \A t \in Slots : t # s => calls'[t] = Perms!Unmounted(t) /\ calls'[t].at = calls[t].at
<1>1. calls'[s] = next /\ \A t \in Slots : t # s => calls'[t] = Perms!Unmounted(t)
  BY DEF PermOpens, PermRemounts
<1>2. next.at # "answered"
  BY DEF PermOpens, PermRemounts, Perms!NoCall
<1>3. ~PermChanges(next) /\ ~PermOwn(next) /\ ~PermSolo(next)
  BY DEF PermOpens, PermRemounts, PermChanges, PermOwn, PermSolo
<1>4. \A t \in Slots : Perms!Unmounted(t).at = calls[t].at
  BY PermUnmountedIs DEF Perms!NoCall
<1> QED
  BY <1>1, <1>2, <1>3, <1>4

LEMMA PermOpensQueue ==
    ASSUME Keyed, FileQueued, calm, calm' = calm, NEW s \in Slots, NEW e, NEW next, PermOpens(s, e, next)
    PROVE  FileQueued' /\ \A i \in 1..Len(order') : order'[i] \in Slots \ {s}
<1>1. calls'[s].at # "answered" /\ \A t \in Slots : t # s => calls'[t].at = calls[t].at
  BY PermOpensCalls
<1>2. CASE Perms!Arrives(s)
  <2>1. FileShifted(s)
    BY <1>1, <1>2 DEF FileShifted, Perms!Arrives
  <2> QED
    BY <2>1, FileQueueShifts
<1>3. CASE calls[s] = Perms!NoCall /\ order' = order
  <2>1. calls[s].at # "answered"
    BY <1>3 DEF Perms!NoCall
  <2>2. \A i \in 1..Len(order) : order[i] \in Slots \ {s} /\ calls[order[i]].at = "answered"
    BY <2>1, FileQueueIs
  <2>3. \A t \in Slots : calls'[t].at = "answered" <=> calls[t].at = "answered"
    BY <1>1, <2>1
  <2> QED
    BY <1>3, <2>2, <2>3 DEF FileQueued
<1> QED
  BY <1>2, <1>3 DEF PermOpens

LEMMA PermOpensTruth ==
    ASSUME Keyed, FileQueued, PermTruth, calm, calm' = calm, NEW s \in Slots, NEW e, NEW next,
           PermOpens(s, e, next)
    PROVE  PermTruth'
<1>1. /\ calls'[s] = next /\ ~PermChanges(next) /\ ~PermOwn(next) /\ ~PermSolo(next)
      /\ \A t \in Slots : t # s => calls'[t] = Perms!Unmounted(t) /\ calls'[t].at = calls[t].at
      /\ server' = server /\ view'.shown = Perms!NothingShown
  BY PermOpensCalls DEF PermOpens, PermRemounts
<1>2. \A t \in Slots : t # s =>
        /\ calls'[t] = Perms!NoCall <=> calls[t] = Perms!NoCall
        /\ calls[t] # Perms!NoCall =>
             /\ calls'[t].kind = calls[t].kind /\ calls'[t].of = calls[t].of /\ calls'[t].key = calls[t].key
             /\ calls'[t].seen = calls[t].seen /\ calls'[t].at = calls[t].at /\ calls'[t].ok = calls[t].ok
             /\ calls'[t].kind \in Perms!Edits \union {"load", "search", "browse"} => ~calls'[t].mounted
  BY <1>1, PermUnmountedIs
<1>3. FileQueued' /\ Len(order') \in Nat /\ \A i \in 1..Len(order') : order'[i] \in Slots \ {s}
        /\ calls'[order'[i]].at = "answered"
  BY PermOpensQueue, LenProperties DEF FileQueued
<1>4. \A i \in 0..Len(order') : ~PermCarried(i)'
  <2> SUFFICES ASSUME NEW i \in 0..Len(order'), PermCarried(i)' PROVE FALSE
    OBVIOUS
  <2>1. CASE i = 0
    <3>1. view'.selected \in Perms!Entities /\ Perms!NothingShown.of = view'.selected
      BY <1>1, <2>1 DEF PermCarried
    <3> QED
      BY <3>1, EntitiesAssumption DEF Perms!NothingShown, Perms!Entities
  <2>2. CASE i # 0
    <3>1. i \in 1..Len(order')
      BY <1>3, <2>2
    <3>2. PermShown(calls'[order'[i]])
      BY <2>2 DEF PermCarried, FileWaiting, PermShown
    <3>3. calls'[order'[i]] # Perms!NoCall /\ order'[i] \in Slots /\ order'[i] # s
      BY <1>3, <3>1 DEF Perms!NoCall
    <3> QED
      BY <1>2, <3>2, <3>3 DEF PermShown
  <2> QED
    BY <2>1, <2>2
<1>5. PermFresh'
  BY <1>4 DEF PermFresh
<1>6. PermDeleted'
  BY <1>4 DEF PermDeleted
<1>7. \A t \in Slots : /\ PermChanges(calls'[t]) => t # s /\ PermChanges(calls[t]) /\ calls'[t].of = calls[t].of
                       /\ PermOwn(calls'[t]) => t # s /\ PermOwn(calls[t]) /\ calls[t] # Perms!NoCall
  BY <1>1, <1>2 DEF PermChanges, PermOwn
<1>8. PermCreating'
  <2> SUFFICES ASSUME NEW u \in Slots, NEW t \in Slots, calls'[u] # Perms!NoCall, calls'[u].kind = "create",
                      server'[calls'[u].of] = Gone, PermChanges(calls'[t])
               PROVE  calls'[t].of # calls'[u].of
    BY DEF PermCreating, PermChanges
  <2>1. u # s
    BY <1>1 DEF PermSolo
  <2>2. calls[u] # Perms!NoCall /\ calls[u].kind = "create" /\ calls'[u].of = calls[u].of
    BY <1>2, <2>1
  <2> QED
    BY <1>1, <1>7, <2>2 DEF PermTruth, PermCreating
<1>9. PermFitting'
  <2> SUFFICES ASSUME NEW t \in Slots, PermOwn(calls'[t]), server'[calls'[t].of] # Gone
               PROVE  PermFits(calls[t])'
    BY DEF PermFitting, PermFits, PermOwn
  <2>1. t # s /\ PermOwn(calls[t]) /\ calls[t] # Perms!NoCall
    BY <1>7
  <2> QED
    BY <1>1, <1>2, <2>1 DEF PermTruth, PermFitting, PermFits, PermTook
<1>10. PermOneEach'
  BY <1>1 DEF PermTruth, PermOneEach
<1> QED
  BY <1>5, <1>6, <1>8, <1>9, <1>10 DEF PermTruth

-----------------------------------------------------------------------------
(* From the start, and through every step. *)

LEMMA PermInitTruth ==
    ASSUME Perms!Init
    PROVE  PermLocks /\ FileQueued /\ PermTruth
<1> DEFINE first == Perms!Call("health", User, Gone, "none")
<1>1. PICK s \in Slots : calls = [t \in Slots |-> IF t = s THEN first ELSE Perms!NoCall]
  <2>1. \E t \in Slots : TRUE
    BY SlotsAssumption
  <2>2. (CHOOSE t \in Slots : TRUE) \in Slots
    BY <2>1
  <2> QED
    BY <2>2 DEF Perms!Init
<1>2. PermIsNew(first, "health", User, Gone, "none")
  BY PermNewCallIs
<1> HIDE DEF first
<1>3. \A t \in Slots : calls[t] = Perms!NoCall \/ PermIsNew(calls[t], "health", User, Gone, "none")
  BY <1>1, <1>2
<1>4. \A t \in Slots : /\ calls[t].at \notin {"answered", "changed"}
                       /\ ~PermSolo(calls[t]) /\ ~PermChanges(calls[t]) /\ ~PermOwn(calls[t])
                       /\ calls[t] # Perms!NoCall => PermFiled(calls[t]) /\ calls[t].kind = "health"
  <2> SUFFICES ASSUME NEW t \in Slots
               PROVE  /\ calls[t].at \notin {"answered", "changed"}
                      /\ ~PermSolo(calls[t]) /\ ~PermChanges(calls[t]) /\ ~PermOwn(calls[t])
                      /\ calls[t] # Perms!NoCall => PermFiled(calls[t]) /\ calls[t].kind = "health"
    OBVIOUS
  <2>1. CASE calls[t] = Perms!NoCall
    BY <2>1 DEF Perms!NoCall, PermSolo, PermChanges, PermOwn
  <2>2. CASE PermIsNew(calls[t], "health", User, Gone, "none")
    BY <2>2, Zenon DEF PermIsNew, PermSolo, PermChanges, PermOwn, Perms!Edits, PermFiled
  <2> QED
    BY <1>3, <2>1, <2>2
<1>5. view.selected = None /\ view.dialog = Perms!NoCall /\ order = <<>> /\ server \in Api
  BY DEF Perms!Init
<1>6. None \notin Perms!Entities
  BY EntitiesAssumption DEF Perms!Entities
<1>7. PermLocks
  BY <1>4, <1>5, <1>6 DEF PermLocks, PermAllFiled, PermAlone, PermInItsPanel, PermStaying, PermOneOwn,
     PermBusyOwn, PermLoading
<1>8. order \in Seq(Slots) /\ Len(order) = 0
  BY <1>5
<1>9. FileQueued
  BY <1>4, <1>8 DEF FileQueued
<1>10. \A i \in 0..Len(order) : ~PermCarried(i)
  BY <1>5, <1>6, <1>8 DEF PermCarried
<1>11. PermFresh /\ PermDeleted
  BY <1>10 DEF PermFresh, PermDeleted
<1>12. PermCreating /\ PermFitting
  BY <1>4 DEF PermCreating, PermFitting, PermFits
<1>13. PermOneEach
  BY <1>5, ApiAssumption DEF PermOneEach
<1> QED
  BY <1>7, <1>9, <1>11, <1>12, <1>13 DEF PermTruth

LEMMA PermNextTruth ==
    ASSUME Keyed, PermTyped, PermLocks, FileQueued, PermTruth, calm, calm' = calm, Perms!Next
    PROVE  FileQueued' /\ PermTruth'
<1>1. CASE PermIdle
  BY <1>1, PermIdleTruth, PermIdleQueue DEF PermStays
<1>2. CASE \E s \in Slots : \E new : PermAsks(s, new)
  BY <1>2, PermAsksTruth, PermAsksQueue DEF PermStays
<1>3. CASE \E s \in Slots : Perms!Change(s)
  BY <1>3, PermChangeTruth, PermChangeQueue DEF PermStays
<1>4. CASE \E s \in Slots : Perms!Serve(s) \/ Perms!Fail(s)
  BY <1>4, PermAnswerTruth, PermAnswerQueue DEF PermJoins
<1>5. CASE \E s \in Slots : \E next : Perms!Arrives(s) /\ PermFollows(s, next)
  BY <1>5, PermFollowsTruth, PermFollowsQueue DEF PermLeaves
<1>6. CASE \E s \in Slots : \E e, next : PermOpens(s, e, next)
  BY <1>6, PermOpensTruth, PermOpensQueue
<1> QED
  BY <1>1, <1>2, <1>3, <1>4, <1>5, <1>6, PermCalmSteps

(***************************************************************************)
(* The list of groups and the track that is shown, or on its way, is what  *)
(* the API has; or a creation, a deletion or another list will correct it. *)
(***************************************************************************)
PermMaking(c) == c # Perms!NoCall /\ c.kind \in {"create", "delete"}
PermHasList(i) == IF i = 0 THEN PermListed(view) ELSE PermFetches(FileWaiting(i)) /\ FileWaiting(i).ok = TRUE
PermTheList(i) == IF i = 0 THEN view.lists ELSE FileWaiting(i).doc
PermCorrects(c) == (PermMaking(c) /\ c.at = "changed") \/ (PermFetches(c) /\ c.at = "sent")
PermRelisting == \E s \in Slots : PermCorrects(calls[s])
PermBrings(c) == PermFetches(c) \/ (PermMaking(c) /\ c.ok = TRUE)
PermRelisted(i) == \E j \in 1..Len(order) : j > i /\ PermBrings(FileWaiting(j))
PermListFresh == \A i \in 0..Len(order) : PermHasList(i) =>
  PermTheList(i) = Perms!Existing \/ PermRelisting \/ PermRelisted(i)
\* What was created is there until the answer.
PermCreated ==
    \A s \in Slots :
        calls[s] # Perms!NoCall /\ calls[s].kind = "create" /\ calls[s].at = "changed" =>
          server[calls[s].of] # Gone
PermShelved == PermListFresh /\ PermCreated

\* A request that stays what it is, but for the panel it shows in.
PermSame(c, d) ==
    /\ c = Perms!NoCall <=> d = Perms!NoCall
    /\ d.at = c.at
    /\ c # Perms!NoCall => d.kind = c.kind /\ d.of = c.of /\ d.ok = c.ok /\ d.doc = c.doc
LEMMA PermSameIs == \A c : PermSame(c, c)
  BY DEF PermSame

LEMMA PermSameBrings ==
    ASSUME NEW c, NEW d, PermSame(c, d)
    PROVE  /\ PermFetches(d) <=> PermFetches(c)
           /\ PermBrings(d) <=> PermBrings(c)
           /\ PermCorrects(d) <=> PermCorrects(c)
           /\ d # Perms!NoCall <=> c # Perms!NoCall
  BY DEF PermSame, PermFetches, PermMaking, PermBrings, PermCorrects

\* What is to be sent, or a panel that is opened by the user, takes a slot.
LEMMA PermBeginsShelved ==
    ASSUME FileQueued, PermShelved, calm, NEW s \in Slots, NEW next, calls[s] = Perms!NoCall, calls'[s] = next,
           next = Perms!NoCall \/ next.at = "sent", order' = order, server' = server,
           PermRelists(Perms!NoCall, next),
           \A t \in Slots : t # s => PermSame(calls[t], calls'[t])
    PROVE  PermShelved'
<1>1. /\ Len(order) \in Nat
      /\ \A i \in 1..Len(order) : order[i] \in Slots /\ calls[order[i]].at = "answered" /\ order[i] # s
  BY FileQueueIs DEF Perms!NoCall
<1>2. \A i \in 1..Len(order) : PermSame(FileWaiting(i), FileWaiting(i)')
  BY <1>1 DEF FileWaiting
<1>3. \A i \in 1..Len(order) : /\ PermFetches(FileWaiting(i))' <=> PermFetches(FileWaiting(i))
                               /\ PermBrings(FileWaiting(i))' <=> PermBrings(FileWaiting(i))
                               /\ FileWaiting(i)'.ok = FileWaiting(i).ok
                               /\ FileWaiting(i)'.doc = FileWaiting(i).doc
  <2> SUFFICES ASSUME NEW i \in 1..Len(order)
               PROVE  /\ PermFetches(FileWaiting(i))' <=> PermFetches(FileWaiting(i))
                      /\ PermBrings(FileWaiting(i))' <=> PermBrings(FileWaiting(i))
                      /\ FileWaiting(i)'.ok = FileWaiting(i).ok /\ FileWaiting(i)'.doc = FileWaiting(i).doc
    OBVIOUS
  <2>1. FileWaiting(i) # Perms!NoCall
    BY <1>1 DEF FileWaiting, Perms!NoCall
  <2>2. PermSame(FileWaiting(i), FileWaiting(i)')
    BY <1>2
  <2> QED
    BY <2>1, <2>2 DEF PermSame, PermFetches, PermBrings, PermMaking
<1>4. PermRelisting => PermRelisting'
  <2>1. ASSUME NEW t \in Slots, PermCorrects(calls[t])
        PROVE  PermCorrects(calls'[t])
    <3>1. t # s
      BY <2>1 DEF PermCorrects, PermMaking, PermFetches
    <3> QED
      BY <2>1, <3>1, PermSameBrings
  <2> QED
    BY <2>1 DEF PermRelisting, PermCorrects, PermMaking, PermFetches
<1>5. Perms!Existing' = Perms!Existing
  BY DEF Perms!Existing
<1>6. PermListFresh'
  <2> SUFFICES ASSUME NEW i \in 0..Len(order), PermHasList(i)'
               PROVE  PermTheList(i)' = Perms!Existing \/ PermRelisting' \/ PermRelisted(i)'
    BY <1>5 DEF PermListFresh
  <2>1. PermRelisted(i) => PermRelisted(i)'
    BY <1>3 DEF PermRelisted, PermBrings, PermMaking, PermFetches
  <2>2. CASE PermFetches(next)
    <3>1. PermCorrects(calls'[s])
      BY <2>2 DEF PermCorrects, PermFetches
    <3> QED
      BY <3>1 DEF PermRelisting, PermCorrects, PermMaking, PermFetches
  <2>3. CASE i # 0
    <3>1. PermHasList(i) /\ PermTheList(i)' = PermTheList(i)
      BY <1>3, <2>3 DEF PermHasList, PermTheList, PermFetches
    <3> QED
      BY <1>4, <2>1, <3>1 DEF PermShelved, PermListFresh
  <2>4. CASE i = 0 /\ ~PermFetches(next)
    <3>1. PermHasList(0) /\ PermTheList(0)' = PermTheList(0)
      BY <2>4 DEF PermHasList, PermTheList, PermRelists, PermFetches
    <3> QED
      BY <1>4, <2>1, <2>4, <3>1 DEF PermShelved, PermListFresh
  <2> QED
    BY <2>2, <2>3, <2>4
<1>7. PermCreated'
  <2> SUFFICES ASSUME NEW t \in Slots, calls'[t] # Perms!NoCall, calls'[t].kind = "create",
                      calls'[t].at = "changed"
               PROVE  server'[calls'[t].of] # Gone
    BY DEF PermCreated
  <2>1. t # s
    OBVIOUS
  <2> QED
    BY <2>1 DEF PermSame, PermShelved, PermCreated
<1> QED
  BY <1>6, <1>7 DEF PermShelved

\* The first answer arrives.
LEMMA PermArrivesShelved ==
    ASSUME FileQueued, PermShelved, calm, calm' = calm, NEW s \in Slots, NEW next, Perms!Arrives(s),
           calls'[s] = next,
           next = Perms!NoCall \/ next.at = "sent", server' = server, PermRelists(calls[s], next),
           \A t \in Slots : t # s => PermSame(calls[t], calls'[t])
    PROVE  PermShelved'
<1> DEFINE c == calls[s]
<1>1. c.at = "answered" /\ Head(order) = s /\ order' = Tail(order) /\ next.at # "answered" /\ c # Perms!NoCall
  BY DEF Perms!Arrives, Perms!NoCall
<1>2. FileShifted(s)
  BY <1>1 DEF FileShifted, PermSame
<1>3. /\ Len(order) \in Nat /\ Len(order) # 0 /\ FileWaiting(1) = c /\ Len(order') = Len(order) - 1
      /\ \A i \in 1..Len(order') : i + 1 \in 1..Len(order) /\ order'[i] = order[i + 1]
           /\ order'[i] \in Slots \ {s}
      /\ \A i \in 1..Len(order) : FileWaiting(i).at = "answered"
  BY <1>2, FileQueueShifts, FileQueueIs DEF FileWaiting
<1>4. \A i \in 1..Len(order') : PermSame(FileWaiting(i + 1), FileWaiting(i)')
  BY <1>3 DEF FileWaiting
<1> HIDE DEF c
<1>5. \A i \in 1..Len(order') : /\ PermFetches(FileWaiting(i))' <=> PermFetches(FileWaiting(i + 1))
                                /\ PermBrings(FileWaiting(i))' <=> PermBrings(FileWaiting(i + 1))
                                /\ FileWaiting(i)'.ok = FileWaiting(i + 1).ok
                                /\ FileWaiting(i)'.doc = FileWaiting(i + 1).doc
  <2> SUFFICES ASSUME NEW i \in 1..Len(order')
               PROVE  /\ PermFetches(FileWaiting(i))' <=> PermFetches(FileWaiting(i + 1))
                      /\ PermBrings(FileWaiting(i))' <=> PermBrings(FileWaiting(i + 1))
                      /\ FileWaiting(i)'.ok = FileWaiting(i + 1).ok
                      /\ FileWaiting(i)'.doc = FileWaiting(i + 1).doc
    OBVIOUS
  <2>1. FileWaiting(i + 1) # Perms!NoCall
    BY <1>3 DEF Perms!NoCall
  <2>2. PermSame(FileWaiting(i + 1), FileWaiting(i)')
    BY <1>4
  <2> QED
    BY <2>1, <2>2 DEF PermSame, PermFetches, PermBrings, PermMaking
<1>6. PermRelisting => PermRelisting'
  <2>1. ASSUME NEW t \in Slots, PermCorrects(calls[t])
        PROVE  PermCorrects(calls'[t])
    <3>1. t # s
      BY <1>1, <2>1 DEF PermCorrects, c
    <3> QED
      BY <2>1, <3>1, PermSameBrings
  <2> QED
    BY <2>1 DEF PermRelisting, PermCorrects, PermMaking, PermFetches
<1>7. Perms!Existing' = Perms!Existing
  BY DEF Perms!Existing
<1>8. ASSUME NEW i \in 0..Len(order'), NEW j \in 1..Len(order), j > i + 1, PermBrings(FileWaiting(j))
      PROVE  PermRelisted(i)'
  <2>1. j - 1 \in 1..Len(order') /\ j - 1 > i /\ j - 1 + 1 = j
    BY <1>3, <1>8
  <2>2. PermBrings(FileWaiting(j - 1))'
    BY <1>5, <1>8, <2>1
  <2> QED
    BY <2>1, <2>2 DEF PermRelisted, PermBrings, PermMaking, PermFetches
<1>9. ASSUME NEW i \in 0..Len(order'), PermHasList(i + 1), PermTheList(i)' = PermTheList(i + 1)
      PROVE  PermTheList(i)' = Perms!Existing \/ PermRelisting' \/ PermRelisted(i)'
  <2>1. i + 1 \in 0..Len(order)
    BY <1>3
  <2>2. PermRelisted(i + 1) => PermRelisted(i)'
    BY <1>8 DEF PermRelisted
  <2> QED
    BY <1>6, <1>9, <2>1, <2>2 DEF PermShelved, PermListFresh
<1>10. PermListFresh'
  <2> SUFFICES ASSUME NEW i \in 0..Len(order'), PermHasList(i)'
               PROVE  PermTheList(i)' = Perms!Existing \/ PermRelisting' \/ PermRelisted(i)'
    BY <1>7 DEF PermListFresh
  <2>1. CASE PermFetches(next)
    <3>1. PermCorrects(calls'[s])
      BY <2>1 DEF PermCorrects, PermFetches
    <3> QED
      BY <3>1 DEF PermRelisting, PermCorrects, PermMaking, PermFetches
  <2>2. CASE i # 0
    <3>1. i \in 1..Len(order') /\ i + 1 # 0
      BY <1>3, <2>2
    <3>2. PermHasList(i + 1) /\ PermTheList(i)' = PermTheList(i + 1)
      BY <1>5, <2>2, <3>1 DEF PermHasList, PermTheList, PermFetches
    <3> QED
      BY <1>9, <3>2
  <2>3. CASE i = 0 /\ ~PermFetches(next) /\ PermFetches(c)
    <3>1. c.ok = TRUE /\ view'.lists = c.doc
      BY <2>3 DEF PermRelists, PermHasList, c
    <3>2. PermHasList(1) /\ PermTheList(0)' = PermTheList(1)
      BY <1>3, <2>3, <3>1 DEF PermHasList, PermTheList
    <3>3. PermHasList(i + 1) /\ PermTheList(i)' = PermTheList(i + 1)
      BY <2>3, <3>2
    <3> QED
      BY <1>9, <3>3
  <2>4. CASE i = 0 /\ ~PermFetches(next) /\ ~PermFetches(c)
    <3>1. PermHasList(0) /\ PermTheList(0)' = PermTheList(0)
      BY <2>4 DEF PermHasList, PermTheList, PermRelists, c
    <3>2. ~PermBrings(c)
      BY <1>1, <2>4 DEF PermBrings, PermMaking, PermRelists, c
    <3>3. PermRelisted(0) => PermRelisted(i)'
      <4>1. ASSUME NEW j \in 1..Len(order), PermBrings(FileWaiting(j))
            PROVE  PermRelisted(i)'
        <5>1. j # 1
          BY <1>3, <3>2, <4>1
        <5> QED
          BY <1>8, <2>4, <4>1, <5>1
      <4> QED
        BY <4>1 DEF PermRelisted
    <3>4. 0 \in 0..Len(order)
      BY <1>3
    <3> QED
      BY <1>6, <2>4, <3>1, <3>3, <3>4 DEF PermShelved, PermListFresh
  <2> QED
    BY <2>1, <2>2, <2>3, <2>4
<1>11. PermCreated'
  <2> SUFFICES ASSUME NEW t \in Slots, calls'[t] # Perms!NoCall, calls'[t].kind = "create",
                      calls'[t].at = "changed"
               PROVE  server'[calls'[t].of] # Gone
    BY DEF PermCreated
  <2>1. t # s
    OBVIOUS
  <2> QED
    BY <2>1 DEF PermSame, PermShelved, PermCreated
<1> QED
  BY <1>10, <1>11 DEF PermShelved

\* The API makes a change: what there is changes by a creation or a deletion.
LEMMA PermChangeShelved ==
    ASSUME Keyed, PermTyped, PermLocks, FileQueued, PermShelved, calm, calm' = calm, NEW s \in Slots,
           Perms!Change(s)
    PROVE  PermShelved'
<1> DEFINE c == calls[s]
<1>1. /\ PermServed(s) /\ c.at = "sent" /\ calls'[s].at = "changed" /\ PermStays /\ Perms!Mutates(c)
      /\ server[c.of] # Gone \/ c.kind = "create"
      /\ c.kind = "move" => server[Track] # Gone
      /\ server' = [server EXCEPT ![c.of] = Perms!After(c)]
  BY PermChangeIs, PermChangeQueue DEF Perms!Change
<1>2. PermAsked(c) /\ c.of \in Perms!Entities /\ c # Perms!NoCall
        /\ (PermMaking(c) => c.of \in Groups \union {Track})
  BY <1>1 DEF PermServed, PermTyped, PermCallFits, PermAsked, PermMaking, Perms!Entities
<1>3. server'[c.of] = Perms!After(c) /\ \A e \in Perms!Entities : e # c.of => server'[e] = server[e]
  BY <1>1, <1>2 DEF PermTyped, PermStored
<1>4. Perms!After(c) = Gone <=> c.kind = "delete"
  BY <1>1, <1>2, PermAfterIs, PermAfterThere
<1>5. /\ calls'[s].kind = c.kind /\ calls'[s].of = c.of /\ calls'[s] # Perms!NoCall /\ view' = view
      /\ \A t \in Slots : t # s => calls'[t] = calls[t]
      /\ Len(order') = Len(order) /\ \A i \in 1..Len(order) : FileWaiting(i)' = FileWaiting(i)
  BY <1>1, <1>2 DEF PermServed, PermAlike, PermStays
<1>6. Len(order) \in Nat
  BY FileQueueIs
<1> HIDE DEF c
<1>7. ~PermMaking(c) => Perms!Existing' = Perms!Existing
  <2> SUFFICES ASSUME ~PermMaking(c), NEW e \in Groups \union {Track}
               PROVE  server'[e] # Gone <=> server[e] # Gone
    BY DEF Perms!Existing
  <2>1. c.kind \notin {"create", "delete"}
    BY <1>2 DEF PermMaking
  <2> QED
    BY <1>1, <1>3, <1>4, <2>1 DEF Perms!Entities
<1>8. PermMaking(c) => PermRelisting'
  BY <1>1, <1>5 DEF PermRelisting, PermCorrects, PermMaking, PermFetches
<1>9. ~PermMaking(c) /\ PermRelisting => PermRelisting'
  <2> SUFFICES ASSUME NEW t \in Slots, PermCorrects(calls[t]), ~PermMaking(c) PROVE PermCorrects(calls'[t])
    BY DEF PermRelisting, PermCorrects, PermMaking, PermFetches
  <2>1. t # s
    BY <1>1 DEF PermCorrects, PermMaking, PermFetches, Perms!Mutates, Perms!Edits, c
  <2> QED
    BY <1>5, <2>1
<1>10. PermListFresh'
  <2> SUFFICES ASSUME NEW i \in 0..Len(order), PermHasList(i)'
               PROVE  PermTheList(i)' = Perms!Existing' \/ PermRelisting' \/ PermRelisted(i)'
    BY <1>5 DEF PermListFresh
  <2>1. PermHasList(i) /\ PermTheList(i)' = PermTheList(i)
    BY <1>5, <1>6 DEF PermHasList, PermTheList, PermFetches
  <2>2. PermRelisted(i) => PermRelisted(i)'
    BY <1>5 DEF PermRelisted, PermBrings, PermMaking, PermFetches
  <2> QED
    BY <1>7, <1>8, <1>9, <2>1, <2>2 DEF PermShelved, PermListFresh
<1>11. PermCreated'
  <2> SUFFICES ASSUME NEW t \in Slots, calls'[t] # Perms!NoCall, calls'[t].kind = "create",
                      calls'[t].at = "changed"
               PROVE  server'[calls'[t].of] # Gone
    BY DEF PermCreated
  <2>1. CASE t = s
    BY <1>3, <1>4, <1>5, <2>1
  <2>2. CASE t # s
    <3>1. /\ calls'[t] = calls[t] /\ calls[t] # Perms!NoCall /\ server[calls[t].of] # Gone
          /\ calls[t].of \in Perms!Entities
      BY <1>5, <2>2 DEF PermShelved, PermCreated, PermTyped, PermCallFits, PermAsked
    <3>2. c.kind # "delete"
      BY <1>2, <2>2, <3>1 DEF PermLocks, PermAlone, PermSolo, c
    <3> QED
      BY <1>3, <1>4, <3>1, <3>2
  <2> QED
    BY <2>1, <2>2
<1> QED
  BY <1>10, <1>11 DEF PermShelved

\* The API answers.
LEMMA PermAnswerShelved ==
    ASSUME Keyed, FileQueued, PermShelved, calm, calm' = calm, NEW s \in Slots, Perms!Serve(s) \/ Perms!Fail(s)
    PROVE  PermShelved'
<1> DEFINE c == calls[s]
<1>1. /\ PermServed(s) /\ calls'[s].at = "answered" /\ server' = server /\ view' = view
      /\ c.at \in {"sent", "changed"} /\ c # Perms!NoCall
      /\ \A t \in Slots : t # s => calls'[t] = calls[t]
  BY PermServeIs, PermFailIs DEF PermServed
<1>2. calls'[s] # Perms!NoCall /\ calls'[s].kind = c.kind /\ calls'[s].of = c.of
  BY <1>1 DEF PermServed, PermAlike
<1>3. PermJoins(s) /\ Len(order) \in Nat
  BY PermAnswerQueue, FileQueueIs
<1>4. c.at = "changed" => calls'[s].ok = TRUE \/ (c.kind # "delete" /\ server[c.of] = Gone)
  BY PermServeIs, PermFailIs
<1>5. calls'[s].ok = TRUE => calls'[s].doc = Perms!Found(c)
  BY PermServeIs, PermFailIs
<1> HIDE DEF c
<1>6. Perms!Existing' = Perms!Existing
  BY <1>1 DEF Perms!Existing
<1>7. PICK n \in Nat : n = Len(order) + 1
  BY <1>3
<1>8. /\ n \in 1..Len(order') /\ FileWaiting(n)' = calls'[s] /\ \A i \in 0..Len(order) : n > i
      /\ \A i \in 1..Len(order) : FileWaiting(i)' = FileWaiting(i) /\ i \in 1..Len(order')
      /\ \A i \in 0..Len(order') : i \in 0..Len(order) \/ i = n
  <2>1. n \in 1..Len(order') /\ n \notin 1..Len(order)
    BY <1>3, <1>7 DEF PermJoins
  <2>2. \A i \in 0..Len(order') : i \in 0..Len(order) \/ i = n
    BY <1>3, <1>7 DEF PermJoins
  <2>3. \A i \in 1..Len(order) : i \in 1..Len(order')
    BY <1>3 DEF PermJoins
  <2> QED
    BY <1>3, <1>7, <2>1, <2>2, <2>3 DEF PermJoins
<1>9. ASSUME NEW t \in Slots, PermCorrects(calls[t]), NEW i \in 0..Len(order)
      PROVE  PermRelisting' \/ PermRelisted(i)'
  <2>1. CASE t # s
    BY <1>1, <1>9, <2>1 DEF PermRelisting, PermCorrects, PermMaking, PermFetches
  <2>2. CASE t = s
    <3>1. PermBrings(calls'[s])
      <4>1. CASE PermFetches(c)
        BY <1>2, <4>1 DEF PermBrings, PermFetches
      <4>2. CASE PermMaking(c) /\ c.at = "changed"
        <5>1. calls'[s].ok = TRUE
          BY <1>4, <4>2 DEF PermShelved, PermCreated, PermMaking, c
        <5> QED
          BY <1>2, <4>2, <5>1 DEF PermBrings, PermMaking
      <4> QED
        BY <1>9, <2>2, <4>1, <4>2 DEF PermCorrects, c
    <3>2. PermBrings(FileWaiting(n)')
      BY <1>8, <3>1
    <3> QED
      BY <1>8, <3>2 DEF PermRelisted, PermBrings, PermMaking, PermFetches
  <2> QED
    BY <2>1, <2>2
<1>10. PermListFresh'
  <2> SUFFICES ASSUME NEW i \in 0..Len(order'), PermHasList(i)'
               PROVE  PermTheList(i)' = Perms!Existing \/ PermRelisting' \/ PermRelisted(i)'
    BY <1>6 DEF PermListFresh
  <2>1. CASE i = n
    <3>1. i # 0
      BY <1>7, <1>3, <2>1
    <3>2. PermFetches(FileWaiting(i)') /\ FileWaiting(i)'.ok = TRUE
      BY <3>1 DEF PermHasList, PermFetches
    <3>3. c.kind = "lists" /\ calls'[s].ok = TRUE
      BY <1>2, <1>8, <2>1, <3>2 DEF PermFetches
    <3>4. calls'[s].doc = Perms!Existing
      BY <1>5, <3>3 DEF Perms!Found
    <3> QED
      BY <1>8, <2>1, <3>1, <3>4 DEF PermTheList
  <2>2. CASE i \in 0..Len(order)
    <3>1. PermHasList(i) /\ PermTheList(i)' = PermTheList(i)
      BY <1>1, <1>8, <1>3, <2>2 DEF PermHasList, PermTheList, PermFetches
    <3>2. PermRelisted(i) => PermRelisted(i)'
      BY <1>8 DEF PermRelisted, PermBrings, PermMaking, PermFetches
    <3>3. PermRelisting => PermRelisting' \/ PermRelisted(i)'
      BY <1>9, <2>2 DEF PermRelisting
    <3> QED
      BY <2>2, <3>1, <3>2, <3>3 DEF PermShelved, PermListFresh
  <2> QED
    BY <1>8, <2>1, <2>2
<1>11. PermCreated'
  <2> SUFFICES ASSUME NEW t \in Slots, calls'[t] # Perms!NoCall, calls'[t].kind = "create",
                      calls'[t].at = "changed"
               PROVE  server'[calls'[t].of] # Gone
    BY DEF PermCreated
  <2>1. calls'[t] = calls[t]
    BY <1>1
  <2> QED
    BY <1>1, <2>1 DEF PermShelved, PermCreated
<1> QED
  BY <1>10, <1>11 DEF PermShelved

LEMMA PermIdleShelved ==
    ASSUME FileQueued, PermShelved, calm, calm' = calm, PermIdle
    PROVE  PermShelved'
<1>1. /\ PermStays /\ server' = server /\ calls' = calls /\ view'.lists = view.lists
      /\ PermListed(view') => PermListed(view)
  BY PermIdleQueue DEF PermIdle
<1>2. Len(order) \in Nat /\ Len(order') = Len(order)
        /\ \A i \in 1..Len(order) : FileWaiting(i)' = FileWaiting(i)
  BY <1>1, FileQueueIs DEF PermStays
<1>3. PermListFresh'
  <2> SUFFICES ASSUME NEW i \in 0..Len(order), PermHasList(i)'
               PROVE  PermTheList(i)' = Perms!Existing' \/ PermRelisting' \/ PermRelisted(i)'
    BY <1>2 DEF PermListFresh
  <2>1. PermHasList(i) /\ PermTheList(i)' = PermTheList(i)
    BY <1>1, <1>2 DEF PermHasList, PermTheList, PermFetches
  <2>2. PermRelisted(i) => PermRelisted(i)'
    BY <1>2 DEF PermRelisted, PermBrings, PermMaking, PermFetches
  <2>3. (PermRelisting => PermRelisting') /\ Perms!Existing' = Perms!Existing
    BY <1>1 DEF PermRelisting, PermCorrects, PermMaking, PermFetches, Perms!Existing
  <2> QED
    BY <2>1, <2>2, <2>3 DEF PermShelved, PermListFresh
<1>4. PermCreated'
  BY <1>1 DEF PermShelved, PermCreated
<1> QED
  BY <1>3, <1>4 DEF PermShelved

LEMMA PermNextShelved ==
    ASSUME Keyed, PermTyped, PermLocks, FileQueued, PermShelved, calm, calm' = calm, Perms!Next
    PROVE  PermShelved'
<1>1. CASE PermIdle
  BY <1>1, PermIdleShelved
<1>2. ASSUME NEW s \in Slots, NEW new, PermAsks(s, new)
      PROVE  PermShelved'
  <2>1. /\ calls[s] = Perms!NoCall /\ calls'[s] = new /\ new.at = "sent" /\ order' = order /\ server' = server
        /\ PermRelists(Perms!NoCall, new)
        /\ \A t \in Slots : t # s => calls'[t] = calls[t]
    BY <1>2 DEF PermAsks, Keyed
  <2>2. \A t \in Slots : t # s => PermSame(calls[t], calls'[t])
    BY <2>1, PermSameIs
  <2> QED
    BY <2>1, <2>2, PermBeginsShelved
<1>3. CASE \E s \in Slots : Perms!Change(s)
  BY <1>3, PermChangeShelved
<1>4. CASE \E s \in Slots : Perms!Serve(s) \/ Perms!Fail(s)
  BY <1>4, PermAnswerShelved
<1>5. ASSUME NEW s \in Slots, NEW next, Perms!Arrives(s), PermFollows(s, next)
      PROVE  PermShelved'
  <2>1. /\ calls'[s] = next /\ (next = Perms!NoCall \/ next.at = "sent") /\ server' = server
             /\ PermRelists(calls[s], next)
        /\ \A t \in Slots : t # s => calls'[t] = calls[t]
    BY <1>5 DEF PermFollows, Keyed
  <2>2. \A t \in Slots : t # s => PermSame(calls[t], calls'[t])
    BY <2>1, PermSameIs
  <2> QED
    BY <1>5, <2>1, <2>2, PermArrivesShelved
<1>6. ASSUME NEW s \in Slots, NEW e, NEW next, PermOpens(s, e, next)
      PROVE  PermShelved'
  <2>1. /\ calls'[s] = next /\ (next = Perms!NoCall \/ next.at = "sent") /\ server' = server
             /\ PermRelists(calls[s], next)
        /\ Perms!Arrives(s) \/ (calls[s] = Perms!NoCall /\ order' = order)
    BY <1>6, PermOpensCalls DEF PermOpens, PermRemounts
  <2>2. \A t \in Slots : t # s => PermSame(calls[t], Perms!Unmounted(t))
    BY PermUnmountedIs DEF PermSame, Perms!NoCall
  <2>3. \A t \in Slots : t # s => calls'[t] = Perms!Unmounted(t)
    BY <1>6, PermOpensCalls
  <2>4. \A t \in Slots : t # s => PermSame(calls[t], calls'[t])
    BY <2>2, <2>3
  <2>5. CASE Perms!Arrives(s)
    BY <2>1, <2>4, <2>5, PermArrivesShelved
  <2>6. CASE calls[s] = Perms!NoCall /\ order' = order
    BY <2>1, <2>4, <2>6, PermBeginsShelved
  <2> QED
    BY <2>1, <2>5, <2>6
<1> QED
  BY <1>1, <1>2, <1>3, <1>4, <1>5, <1>6, PermCalmSteps

\* What is shown is a document of an entity, and nothing more.
PermShaped == view.shown = [of |-> view.shown.of, doc |-> view.shown.doc]

LEMMA PermNextShaped ==
    ASSUME Keyed, PermTyped, PermLocks, PermShaped, calm, Perms!Next
    PROVE  PermShaped'
<1>1. CASE view'.shown = view.shown
  BY <1>1 DEF PermShaped
<1>2. CASE PermIdle \/ \E s \in Slots : \E new : PermAsks(s, new)
  BY <1>1, <1>2 DEF PermIdle, PermAsks
<1>3. CASE \E s \in Slots : Perms!Change(s) \/ Perms!Serve(s) \/ Perms!Fail(s)
  BY <1>1, <1>3, PermChangeIs, PermServeIs, PermFailIs DEF PermServed
<1>4. ASSUME NEW s \in Slots, NEW next, PermFollows(s, next)
      PROVE  PermShaped'
  <2>1. CASE PermShown(calls[s]) /\ calls[s].ok = TRUE
    <3>1. view'.shown = [of |-> calls[s].of, doc |-> calls[s].doc]
      BY <1>4, <2>1 DEF PermFollows
    <3> QED
      BY <3>1 DEF PermShaped
  <2>2. CASE ~(PermShown(calls[s]) /\ calls[s].ok = TRUE)
    BY <1>1, <1>4, <2>2 DEF PermFollows
  <2> QED
    BY <2>1, <2>2
<1>5. CASE \E s \in Slots : \E e, next : PermOpens(s, e, next)
  <2>1. view'.shown = Perms!NothingShown
    BY <1>5 DEF PermOpens, PermRemounts
  <2> QED
    BY <2>1 DEF PermShaped, Perms!NothingShown
<1> QED
  BY <1>2, <1>3, <1>4, <1>5, PermCalmSteps

LEMMA PermInitShelved ==
    ASSUME Perms!Init
    PROVE  PermShelved /\ PermShaped
<1> DEFINE first == Perms!Call("health", User, Gone, "none")
<1>1. first.at = "sent"
  <2>1. PermIsNew(first, "health", User, Gone, "none")
    BY PermNewCallIs
  <2> QED
    BY <2>1 DEF PermIsNew
<1> HIDE DEF first
<1>2. PICK s : calls = [t \in Slots |-> IF t = s THEN first ELSE Perms!NoCall]
  BY DEF Perms!Init, first
<1>3. \A t \in Slots : calls[t].at # "changed"
  BY <1>1, <1>2 DEF Perms!NoCall
<1>4. order = <<>> /\ view.health = "checking"
  BY DEF Perms!Init
<1>5. Len(order) = 0 /\ ~PermListed(view)
  BY <1>4 DEF PermListed
<1>6. PermShaped
  BY DEF Perms!Init, PermShaped, Perms!NothingShown
<1> QED
  BY <1>3, <1>5, <1>6 DEF PermShelved, PermListFresh, PermHasList, PermCreated

(***************************************************************************)
(* Once nothing is under way, the sidebar and the panel show the truth.    *)
(***************************************************************************)
LEMMA PermShelvedSettles ==
    ASSUME PermTyped, calm, PermLocks, FileQueued, PermTruth, PermShelved, PermShaped
    PROVE  Perms!SettledViewIsTruth
<1> SUFFICES ASSUME Perms!Quiet, view.health = "up"
             PROVE  /\ view.listsFailed \/ view.lists = Perms!Existing
                    /\ \/ view.selected \notin Perms!Entities \/ view.failed
                       \/ view.shown = [of |-> view.selected, doc |-> server[view.selected]]
  BY DEF Perms!SettledViewIsTruth
<1>1. \A t \in Slots : calls[t] = Perms!NoCall
  BY DEF Perms!Quiet
<1>2. Len(order) = 0 /\ 0 \in 0..Len(order)
  <2>1. Len(order) \in Nat /\ \A i \in 1..Len(order) : order[i] \in Slots /\ calls[order[i]].at = "answered"
    BY FileQueueIs
  <2>2. \A i \in 1..Len(order) : FALSE
    BY <1>1, <2>1 DEF Perms!NoCall
  <2>3. Len(order) # 0 => 1 \in 1..Len(order)
    BY <2>1
  <2> QED
    BY <2>2, <2>3
<1>3. view.listsFailed \/ view.lists = Perms!Existing
  <2>1. ~PermRelisting
    BY <1>1 DEF PermRelisting, PermCorrects, PermMaking, PermFetches
  <2>2. ~PermRelisted(0)
    BY <1>2 DEF PermRelisted
  <2>3. ~view.listsFailed => PermHasList(0) /\ PermTheList(0) = view.lists
    BY DEF PermHasList, PermTheList, PermListed
  <2> QED
    BY <1>2, <2>1, <2>2, <2>3 DEF PermShelved, PermListFresh
<1>4. ASSUME view.selected \in Perms!Entities, ~view.failed
      PROVE  view.shown.of = view.selected /\ view.shown.doc = server[view.selected]
  <2>1. ~view.loading
    BY <1>1, <1>4 DEF PermLocks, PermLoading
  <2>2. view.shown.of = view.selected
    BY <1>4, <2>1 DEF PermTyped, PermViewFits, PermPanelFits
  <2>3. PermCarried(0)
    BY <1>4, <2>2 DEF PermCarried
  <2>4. server[view.selected] # Gone
    BY <1>1, <1>2, <2>3 DEF PermTruth, PermDeleted, PermDeletes
  <2>5. ~PermUnderway(FALSE)
    BY <1>1 DEF PermUnderway, PermAlters, PermChanges
  <2>6. ~PermNewer(FALSE, 0)
    BY <1>2 DEF PermNewer
  <2>7. PermAgrees(FALSE, 0)
    BY <1>2, <2>3, <2>4, <2>5, <2>6 DEF PermTruth, PermFresh
  <2> QED
    BY <2>2, <2>7 DEF PermAgrees, PermFacet, PermCarriedDoc
<1>5. view.shown = [of |-> view.shown.of, doc |-> view.shown.doc]
  BY DEF PermShaped
<1> QED
  BY <1>3, <1>4, <1>5

-----------------------------------------------------------------------------
(***************************************************************************)
(* All of it, when calm.                                                   *)
(***************************************************************************)
PermSolid == calm => PermLocks /\ FileQueued /\ PermTruth /\ PermShelved /\ PermShaped

LEMMA PermInitSolid == Perms!Init => PermSolid
  BY PermInitTruth, PermInitShelved DEF PermSolid

LEMMA PermNextSolid ==
    ASSUME Keyed, PermTyped, PermSolid, PermsStep
    PROVE  PermSolid'
<1> SUFFICES ASSUME calm' PROVE PermLocks' /\ FileQueued' /\ PermTruth' /\ PermShelved' /\ PermShaped'
  BY DEF PermSolid
<1>1. CASE UNCHANGED vars
  <2>1. page' = page /\ server' = server /\ view' = view /\ calls' = calls /\ order' = order /\ calm' = calm
    BY <1>1 DEF vars
  <2>2. calm /\ PermLocks /\ FileQueued /\ PermTruth /\ PermShelved /\ PermShaped
    BY <2>1 DEF PermSolid
  <2>3. PermIdle
    BY <2>1, <2>2 DEF PermIdle
  <2>4. PermShaped'
    BY <2>1, <2>2 DEF PermShaped
  <2> QED
    BY <2>1, <2>2, <2>3, <2>4, PermIdleLocks, PermIdleTruth, PermIdleQueue, PermIdleShelved DEF PermStays
<1>2. CASE Perms!Next
  <2>1. calm' = calm
    BY <1>2, PermsFixed DEF FileFixed
  <2>2. calm /\ PermLocks /\ FileQueued /\ PermTruth /\ PermShelved /\ PermShaped
    BY <2>1 DEF PermSolid
  <2> QED
    BY <1>2, <2>1, <2>2, PermNextLocks, PermNextTruth, PermNextShelved, PermNextShaped
<1> QED
  BY <1>1, <1>2 DEF PermsStep

LEMMA PermCounts == \A S : Perms!Cardinality(S) = Cardinality(S)
  BY Zenon DEF Perms!Cardinality, Cardinality

LEMMA PermSolidWeights ==
    ASSUME PermTyped, PermOneEach
    PROVE  Perms!OneWeight
<1> SUFFICES ASSUME NEW g \in Groups, server[g] # Gone
             PROVE  Perms!Cardinality(server[g] \intersect Weights) <= 1
  BY DEF Perms!OneWeight
<1>1. CASE server[g] \intersect Weights = {}
  BY <1>1, FS_EmptySet, PermCounts
<1>2. CASE server[g] \intersect Weights # {}
  <2>1. PICK x : x \in server[g] \intersect Weights
    BY <1>2
  <2>2. server[g] \intersect Weights = {x}
    BY <2>1 DEF PermOneEach
  <2>3. Cardinality({x}) = 1
    BY FS_Singleton
  <2> QED
    BY <2>2, <2>3, PermCounts
<1> QED
  BY <1>1, <1>2

LEMMA PermSolidTrack ==
    ASSUME Keyed, PermTyped, calm, PermLocks, FileQueued, PermTruth, Perms!Next
    PROVE  Perms!TrackEditsKeepEdits
<1> SUFFICES ASSUME NEW t \in Slots, calls[t] # Perms!NoCall, calls[t].kind = "set", calls[t].at = "sent",
                    calls'[t].at = "changed"
             PROVE  server[Track] = calls[t].seen
  BY DEF Perms!TrackEditsKeepEdits
<1>1. PermOwn(calls[t]) /\ calls[t].of = Track
  BY DEF PermLocks, PermAllFiled, PermFiled, PermOwn
<1>2. server[Track] # Gone
  <2>1. CASE PermIdle
    BY <2>1 DEF PermIdle
  <2>2. CASE \E s \in Slots : \E new : PermAsks(s, new)
    BY <2>2 DEF PermAsks, Keyed
  <2>3. CASE \E s \in Slots : Perms!Change(s)
    <3>1. PICK s \in Slots : Perms!Change(s)
      BY <2>3
    <3>2. s = t
      BY <3>1, PermChangeIs DEF PermServed
    <3> QED
      BY <1>1, <3>1, <3>2 DEF Perms!Change
  <2>4. CASE \E s \in Slots : Perms!Serve(s) \/ Perms!Fail(s)
    <3>1. PICK s \in Slots : Perms!Serve(s) \/ Perms!Fail(s)
      BY <2>4
    <3>2. calls'[s].at = "answered" /\ PermServed(s)
      BY <3>1, PermServeIs, PermFailIs
    <3> QED
      BY <3>2 DEF PermServed
  <2>5. CASE \E s \in Slots : \E next : Perms!Arrives(s) /\ PermFollows(s, next)
    BY <2>5 DEF Perms!Arrives, PermFollows, Keyed
  <2>6. CASE \E s \in Slots : \E e, next : PermOpens(s, e, next)
    <3>4. PICK s \in Slots : \E e, next : PermOpens(s, e, next)
      BY <2>6
    <3>1. PICK e, next : PermOpens(s, e, next)
      BY <3>4
    <3>2. calls'[s] = next /\ \A u \in Slots : u # s => calls'[u].at = calls[u].at
      BY <3>1, PermOpensCalls
    <3>3. next.at # "changed"
      BY <3>1 DEF PermOpens, PermRemounts, Perms!NoCall
    <3> QED
      BY <3>2, <3>3
  <2> QED
    BY <2>1, <2>2, <2>3, <2>4, <2>5, <2>6, PermCalmSteps
<1> QED
  BY <1>1, <1>2 DEF PermTruth, PermFitting, PermFits
=============================================================================
