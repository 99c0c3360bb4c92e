-------------------------- MODULE PanelLists_proof ---------------------------
(***************************************************************************)
(* What holds of the tabs that show a list, for every number of rows and   *)
(* of requests under way, in whatever order they are answered; of the      *)
(* tabs that edit a file of the server, for every file; and of the live    *)
(* views, for every number of sockets.                                     *)
(***************************************************************************)
EXTENDS PanelLists, SequenceTheorems, FiniteSetTheorems, WellFoundedInduction, TLAPS

-----------------------------------------------------------------------------
(* A step of a tab, or none. *)

ListsStep == Lists!Next \/ UNCHANGED vars
EditorStep == Editor!Next \/ UNCHANGED vars
LiveStep == Live!Next \/ UNCHANGED vars

Fixed == page' = page /\ calm' = calm

LEMMA ListsFixed == Lists!Next => Fixed
<1> SUFFICES ASSUME Lists!Next PROVE Fixed
  OBVIOUS
<1>1. \A call, v : Lists!Send(call) \/ Lists!Shows(v) => Fixed
  BY DEF Lists!Send, Lists!Shows, Fixed
<1>2. \A call, key : Lists!Begin(call) \/ Lists!Ask(call) \/ Lists!Refresh(key) => Fixed
  BY <1>1 DEF Lists!Begin, Lists!Ask, Lists!Refresh
<1>3. \A s, ok, doc : Lists!Answer(s, ok, doc) \/ Lists!Arrives(s) => Fixed
  BY DEF Lists!Answer, Lists!Arrives, Fixed
<1>4. CASE Lists!Acts
  <2>1. CASE Lists!WhitelistTab
    BY <2>1, <1>2 DEF Lists!WhitelistTab, Lists!WhitelistToggle, Lists!WhitelistReload, Lists!WhitelistAdd,
       Lists!WhitelistRemove
  <2>2. CASE Lists!OpsTab
    BY <2>2, <1>1, <1>2 DEF Lists!OpsTab, Lists!OpAdd, Lists!OpRemove, Lists!OpLevel, Lists!OpsRestart
  <2>3. CASE Lists!BackupsTab \/ Lists!BackupTimer
    BY <2>3, <1>1, <1>2 DEF Lists!BackupsTab, Lists!BackupTimer, Lists!RunBackup, Lists!BackupDelete
  <2>4. CASE Lists!TasksTab
    BY <2>4, <1>1, <1>2 DEF Lists!TasksTab, Lists!TaskToggle, Lists!TaskRunNow, Lists!TaskDelete
  <2>5. CASE Lists!PluginsTab
    BY <2>5, <1>2 DEF Lists!PluginsTab, Lists!PluginToggle, Lists!PluginDelete, Lists!PluginInstallUrl,
       Lists!PluginDrop
  <2>6. CASE Lists!UsersTab
    <3>1. \A r : Lists!UserEdit(r) => Fixed
      BY <1>1, <1>2 DEF Lists!UserEdit
    <3> QED
      BY <2>6, <3>1, <1>1, <1>2 DEF Lists!UsersTab, Lists!UserAdd, Lists!UserRole, Lists!UserResetPassword,
         Lists!UserRemove
  <2> QED
    BY <1>4, <1>2, <2>1, <2>2, <2>3, <2>4, <2>5, <2>6 DEF Lists!Acts, Lists!Retry
<1>5. CASE Lists!Confirm \/ Lists!Cancel \/ Lists!TaskForm
  BY <1>5, <1>1, <1>2 DEF Lists!Confirm, Lists!Cancel, Lists!TaskForm, Lists!TaskSubmit
<1>6. CASE Lists!Elsewhere
  BY <1>6 DEF Lists!Elsewhere, Fixed
<1>7. ASSUME NEW s \in Slots, Lists!Serve(s) \/ Lists!Deliver(s)
      PROVE  Fixed
  BY <1>7, <1>3 DEF Lists!Serve, Lists!Deliver
<1> QED
  BY <1>4, <1>5, <1>6, <1>7 DEF Lists!Next

LEMMA EditorFixed == Editor!Next => Fixed
<1> SUFFICES ASSUME Editor!Next PROVE Fixed
  OBVIOUS
<1>1. \A call, v : Editor!Send(call) \/ Editor!Shows(v) => Fixed
  BY DEF Editor!Send, Editor!Shows, Fixed
<1>2. \A call, v : Editor!Begins(call, v) => Fixed
  BY <1>1 DEF Editor!Begins
<1>3. \A s, ok, doc : Editor!Answer(s, ok, doc) \/ Editor!Arrives(s) => Fixed
  BY DEF Editor!Answer, Editor!Arrives, Fixed
<1>4. CASE Editor!Acts
  <2>1. \A k, v : Editor!Typed(k, v) => Fixed
    BY <1>1 DEF Editor!Typed
  <2>2. \A updates : Editor!Saves(updates) \/ Editor!Applies => Fixed
    BY <1>2 DEF Editor!Saves, Editor!Applies
  <2>3. CASE Editor!PropertiesTab
    BY <2>3, <1>1, <2>1, <2>2 DEF Editor!PropertiesTab, Editor!PropertiesForm, Editor!AskName,
       Editor!NameGiven, Editor!PropertiesSave
  <2>4. CASE Editor!YamlTab
    BY <2>4, <1>1, <2>1, <2>2 DEF Editor!YamlTab, Editor!YamlForm, Editor!YamlSave, Editor!YamlRestart,
       Editor!Dismiss
  <2>5. CASE Editor!MotdTab
    BY <2>5, <1>1, <2>1, <2>2 DEF Editor!MotdTab, Editor!MotdForm, Editor!MotdSave, Editor!MotdReload
  <2>6. CASE Editor!TypeText \/ Editor!ChangeMode \/ Editor!Retry
    BY <2>6, <1>1, <1>2 DEF Editor!TypeText, Editor!ChangeMode, Editor!Retry
  <2> QED
    BY <1>4, <2>3, <2>4, <2>5, <2>6 DEF Editor!Acts
<1>5. CASE Editor!Elsewhere
  BY <1>5 DEF Editor!Elsewhere, Fixed
<1>6. ASSUME NEW s \in Slots, Editor!Read(s) \/ Editor!Deliver(s)
      PROVE  Fixed
  BY <1>6, <1>3 DEF Editor!Read, Editor!Deliver, Fixed
<1>7. ASSUME NEW s \in Slots, Editor!Serve(s)
      PROVE  Fixed
  <2>1. \A file : Editor!Write(s, file) => Fixed
    BY <1>3 DEF Editor!Write, Editor!PropertiesPut, Editor!YamlPut, Editor!MotdPut, Editor!Stored
  <2> QED
    BY <1>7, <1>3, <2>1 DEF Editor!Serve
<1> QED
  BY <1>4, <1>5, <1>6, <1>7 DEF Editor!Next

LEMMA LiveFixed == Live!Next => Fixed
<1> SUFFICES ASSUME Live!Next PROVE Fixed
  OBVIOUS
<1>1. CASE Live!Mount \/ Live!Unmount \/ Live!TimerFires \/ Live!Emit \/ Live!StatusChanges \/ Live!Restart
  BY <1>1 DEF Live!Mount, Live!Unmount, Live!TimerFires, Live!Connect, Live!Emit, Live!StatusChanges,
     Live!Restart, Fixed
<1>2. ASSUME NEW s \in Slots, Live!Upgrade(s) \/ Live!Refuse(s) \/ Live!Drop(s) \/ Live!Opens(s) \/ Live!Receives(s) \/ Live!Closes(s)
      PROVE  Fixed
  BY <1>2 DEF Live!Upgrade, Live!Refuse, Live!Drop, Live!Opens, Live!Receives, Live!Closes, Fixed
<1> QED
  BY <1>1, <1>2 DEF Live!Next

-----------------------------------------------------------------------------
(***************************************************************************)
(* What is not true of every natural number has a first exception.         *)
(***************************************************************************)
LEMMA LeastNumber ==
    ASSUME NEW T, T \subseteq Nat, T # {}
    PROVE  \E n \in T : \A m \in T : n <= m
<1>1. PICK n \in T : \A m \in T : ~ (<<m, n>> \in OpToRel(<, Nat))
  BY WFMin, NatLessThanWellFounded, Zenon
<1>2. \A m \in T : ~ (m < n)
  BY <1>1, Zenon DEF OpToRel
<1> QED
  BY <1>2

(***************************************************************************)
(* The answers under way when calm: every answered request stands in the   *)
(* queue once.  A step adds an answer, takes the first one, or leaves the  *)
(* queue and the answers in it alone.                                      *)
(***************************************************************************)
Queued ==
    calm =>
        /\ order \in Seq(Slots)
        /\ \A i, j \in 1..Len(order) : order[i] = order[j] => i = j
        /\ \A i \in 1..Len(order) : calls[order[i]].at = "answered"
        /\ \A s \in Slots : calls[s].at = "answered" => \E i \in 1..Len(order) : order[i] = s

Waiting(i) == calls[order[i]]

Appended(s) ==
    /\ order' = Append(order, s)
    /\ calls' = [calls EXCEPT ![s] = calls'[s]] /\ calls[s].at # "answered" /\ calls'[s].at = "answered"

Taken(s) ==
    /\ Head(order) = s /\ order' = Tail(order)
    /\ calls' = [calls EXCEPT ![s] = calls'[s]] /\ calls[s].at = "answered" /\ calls'[s].at # "answered"

Shifted(s) ==
    /\ Head(order) = s /\ order' = Tail(order) /\ calls[s].at = "answered" /\ calls'[s].at # "answered"
    /\ \A t \in Slots : t # s => calls'[t].at = calls[t].at

Untouched ==
    /\ order' = order
    /\ \A t \in Slots : calls'[t] = calls[t] \/ (calls[t].at # "answered" /\ calls'[t].at # "answered")

LEMMA QueueIs ==
    ASSUME Queued, calm
    PROVE  /\ order \in Seq(Slots) /\ Len(order) \in Nat
           /\ \A i \in 1..Len(order) : order[i] \in Slots /\ calls[order[i]].at = "answered"
  BY LenProperties, ElementOfSeq DEF Queued

LEMMA AnswerQueued ==
    ASSUME Queued, calm' = calm, calm, NEW s \in Slots, Appended(s), calls = [t \in Slots |-> calls[t]]
    PROVE  /\ Queued'
           /\ Len(order') = Len(order) + 1
           /\ \A i \in 1..Len(order) : order'[i] = order[i] /\ Waiting(i)' = Waiting(i)
           /\ \A i \in 1..Len(order') : i \in 1..Len(order) \/ (i = Len(order) + 1 /\ Waiting(i)' = calls'[s])
<1>1. /\ order \in Seq(Slots) /\ Len(order) \in Nat
      /\ \A i \in 1..Len(order) : order[i] \in Slots /\ calls[order[i]].at = "answered"
  BY QueueIs
<1>2. /\ order' \in Seq(Slots) /\ Len(order') = Len(order) + 1
      /\ \A i \in 1..Len(order) : order'[i] = order[i]
      /\ order'[Len(order) + 1] = s
  BY <1>1, AppendProperties DEF Appended
<1>3. \A t \in Slots : t # s => calls'[t] = calls[t]
  BY DEF Appended
<1>4. \A i \in 1..Len(order) : order[i] # s
  BY <1>1 DEF Appended
<1>5. \A i \in 1..Len(order) : calls'[order'[i]] = calls[order[i]]
  BY <1>1, <1>2, <1>3, <1>4
<1>6. \A i \in 1..Len(order') : i \in 1..Len(order) \/ i = Len(order) + 1
  BY <1>1, <1>2
<1>7. \A i \in 1..Len(order') : calls'[order'[i]].at = "answered"
  BY <1>1, <1>2, <1>5, <1>6 DEF Appended
<1>8. ASSUME NEW i \in 1..Len(order'), NEW j \in 1..Len(order'), order'[i] = order'[j]
      PROVE  i = j
  <2>1. CASE i \in 1..Len(order) /\ j \in 1..Len(order)
    BY <1>2, <1>8, <2>1 DEF Queued
  <2>2. CASE i = Len(order) + 1 /\ j \in 1..Len(order)
    BY <1>2, <1>4, <1>8, <2>2
  <2>3. CASE i \in 1..Len(order) /\ j = Len(order) + 1
    BY <1>2, <1>4, <1>8, <2>3
  <2> QED
    BY <1>6, <2>1, <2>2, <2>3
<1>9. ASSUME NEW t \in Slots, calls'[t].at = "answered"
      PROVE  \E i \in 1..Len(order') : order'[i] = t
  <2>1. CASE t = s
    BY <1>1, <1>2, <2>1
  <2>2. CASE t # s
    <3>1. PICK i \in 1..Len(order) : order[i] = t
      BY <1>3, <1>9, <2>2 DEF Queued
    <3>2. i \in 1..Len(order') /\ order'[i] = t
      BY <1>1, <1>2, <3>1
    <3> QED
      BY <3>2
  <2> QED
    BY <2>1, <2>2
<1>10. Queued'
  BY <1>2, <1>7, <1>8, <1>9 DEF Queued
<1>11. ASSUME NEW i \in 1..Len(order'), i \notin 1..Len(order)
       PROVE  i = Len(order) + 1 /\ Waiting(i)' = calls'[s]
  BY <1>2, <1>6, <1>11 DEF Waiting
<1>12. \A i \in 1..Len(order) : order'[i] = order[i] /\ Waiting(i)' = Waiting(i)
  BY <1>2, <1>5 DEF Waiting
<1> QED
  BY <1>2, <1>10, <1>11, <1>12

LEMMA QueueShifts ==
    ASSUME Queued, calm' = calm, calm, NEW s \in Slots, Shifted(s)
    PROVE  /\ Queued'
           /\ Len(order) # 0 /\ order[1] = s /\ Waiting(1) = calls[s]
           /\ Len(order') = Len(order) - 1
           /\ \A i \in 1..Len(order') : /\ i + 1 \in 1..Len(order)
                                        /\ order'[i] = order[i + 1] /\ order'[i] \in Slots \ {s}
<1>1. /\ order \in Seq(Slots) /\ Len(order) \in Nat
      /\ \A i \in 1..Len(order) : order[i] \in Slots /\ calls[order[i]].at = "answered"
  BY QueueIs
<1>2. PICK n \in 1..Len(order) : order[n] = s
  BY DEF Queued, Shifted
<1>3. Len(order) # 0 /\ order # <<>>
  BY <1>1, <1>2, EmptySeq
<1>4. order[1] = s
  BY <1>3 DEF Shifted
<1>5. /\ order' \in Seq(Slots) /\ Len(order') = Len(order) - 1
      /\ \A i \in 1..Len(order') : order'[i] = order[i + 1]
  BY <1>1, <1>3, HeadTailProperties DEF Shifted
<1>6. \A i \in 1..Len(order') : i + 1 \in 1..Len(order) /\ i + 1 # 1 /\ 1 \in 1..Len(order)
  BY <1>1, <1>3, <1>5
<1>7. \A i \in 1..Len(order') : order'[i] \in Slots \ {s}
  BY <1>1, <1>4, <1>5, <1>6 DEF Queued
<1>8. \A t \in Slots : t # s => calls'[t].at = calls[t].at
  BY DEF Shifted
<1>9. \A i \in 1..Len(order') : calls'[order'[i]].at = calls[order[i + 1]].at
  BY <1>1, <1>5, <1>6, <1>7, <1>8
<1>10. \A i \in 1..Len(order') : calls'[order'[i]].at = "answered"
  BY <1>1, <1>6, <1>9
<1>11. ASSUME NEW i \in 1..Len(order'), NEW j \in 1..Len(order'), order'[i] = order'[j]
       PROVE  i = j
  <2>1. order[i + 1] = order[j + 1]
    BY <1>5, <1>11
  <2>2. i + 1 = j + 1
    BY <1>6, <2>1 DEF Queued
  <2> QED
    BY <1>1, <1>5, <2>2
<1>12. ASSUME NEW t \in Slots, calls'[t].at = "answered"
       PROVE  \E i \in 1..Len(order') : order'[i] = t
  <2>1. t # s
    BY <1>12 DEF Shifted
  <2>2. PICK i \in 1..Len(order) : order[i] = t
    BY <1>8, <1>12, <2>1 DEF Queued
  <2>3. i # 1
    BY <1>4, <2>1, <2>2
  <2>4. i - 1 \in 1..Len(order') /\ order'[i - 1] = order[i - 1 + 1]
    BY <1>1, <1>5, <2>3
  <2>5. i - 1 + 1 = i
    BY <1>1
  <2> QED
    BY <2>2, <2>4, <2>5
<1>13. Waiting(1) = calls[s]
  BY <1>4 DEF Waiting
<1>14. Queued'
  BY <1>5, <1>10, <1>11, <1>12 DEF Queued
<1> QED
  BY <1>3, <1>4, <1>5, <1>6, <1>7, <1>13, <1>14

LEMMA ArrivalQueued ==
    ASSUME Queued, calm' = calm, calm, NEW s \in Slots, Taken(s), calls = [t \in Slots |-> calls[t]]
    PROVE  /\ Queued'
           /\ Len(order) # 0 /\ order[1] = s /\ Waiting(1) = calls[s]
           /\ Len(order') = Len(order) - 1
           /\ \A i \in 1..Len(order') : /\ i + 1 \in 1..Len(order)
                                        /\ order'[i] = order[i + 1] /\ Waiting(i)' = Waiting(i + 1)
<1>1. \A t \in Slots : t # s => calls'[t] = calls[t]
  BY DEF Taken
<1>2. Shifted(s)
  BY <1>1 DEF Taken, Shifted
<1> QED
  BY <1>1, <1>2, QueueShifts DEF Waiting

LEMMA RestQueued ==
    ASSUME Queued, calm' = calm, Untouched
    PROVE  /\ Queued'
           /\ calm => \A i \in 1..Len(order) : order'[i] = order[i] /\ Waiting(i)' = Waiting(i)
<1>1. CASE ~calm
  BY <1>1 DEF Queued
<1>2. CASE calm
  <2>1. \A i \in 1..Len(order) : order[i] \in Slots /\ calls[order[i]].at = "answered"
    BY <1>2, QueueIs
  <2>2. \A i \in 1..Len(order) : order'[i] = order[i] /\ calls'[order'[i]] = calls[order[i]]
    BY <2>1 DEF Untouched
  <2>3. \A t \in Slots : calls'[t].at = "answered" => calls[t].at = "answered"
    BY DEF Untouched
  <2> QED
    BY <1>2, <2>1, <2>2, <2>3 DEF Queued, Waiting, Untouched
<1> QED
  BY <1>1, <1>2

-----------------------------------------------------------------------------
(***************************************************************************)
(* The shape of a request and of the view, as far as locks are concerned.  *)
(***************************************************************************)
ListIsCall(c) ==
    c \in [at : {"sent", "answered"}, kind : {c.kind}, row : {c.row}, value : {c.value},
           key : {c.key}, ok : {c.ok}, doc : {c.doc}]

ListIsView(v) ==
    v \in [shown : {v.shown}, loading : {v.loading}, failed : {v.failed}, busy : {v.busy},
           dialog : {v.dialog}, modal : {v.modal}, banner : {v.banner}, timer : {v.timer},
           half : {v.half}]

ListRowKeyed(c) == c.key[1] = "row"

(***************************************************************************)
(* A request about a row, its answer and the listing that follows it hold  *)
(* the key of the row, and a dialog asks about a row that is free: nothing *)
(* can take a key while the dialog lies over the page.                     *)
(***************************************************************************)
Locked ==
    /\ ListIsView(view)
    /\ calls = [s \in Slots |-> calls[s]]
    /\ \A s \in Slots : calls[s] = Lists!NoCall \/ ListIsCall(calls[s])
    /\ \A s \in Slots : calls[s] # Lists!NoCall /\ ListRowKeyed(calls[s]) => calls[s].key \in view.busy
    /\ \A s, t \in Slots :
         /\ calls[s] # Lists!NoCall /\ calls[t] # Lists!NoCall
         /\ ListRowKeyed(calls[s]) /\ calls[s].key = calls[t].key
         => s = t
    /\ view.dialog = Lists!NoCall \/ ListIsCall(view.dialog)
    /\ view.dialog # Lists!NoCall /\ ListRowKeyed(view.dialog) => view.dialog.key \notin view.busy

LEMMA ListACall == \A c : ListIsCall(c) => c # Lists!NoCall
  BY DEF ListIsCall, Lists!NoCall

LEMMA ListNewCall ==
    \A kind, r, value, key :
        LET c == Lists!Call(kind, r, value, key)
        IN  ListIsCall(c) /\ c.key = key /\ c.kind = kind
  BY DEF Lists!Call, ListIsCall

LEMMA ListFree ==
    ASSUME NEW call, Lists!Send(call)
    PROVE  /\ Lists!FreeSlot \in Slots /\ calls[Lists!FreeSlot] = Lists!NoCall
           /\ calls' = [calls EXCEPT ![Lists!FreeSlot] = call]
  BY DEF Lists!Send, Lists!FreeSlot

-----------------------------------------------------------------------------
(* The kinds of steps. *)

\* A request is sent, and takes its key.
LEMMA ListSendKeeps ==
    ASSUME Locked, NEW call, ListIsCall(call), Lists!Send(call), ListIsView(view)',
           view'.busy = view.busy \union {call.key} \/ (view'.busy = view.busy /\ ~ListRowKeyed(call)),
           view'.dialog = view.dialog \/ view'.dialog = Lists!NoCall,
           ListRowKeyed(call) => call.key \notin view.busy /\ view'.dialog = Lists!NoCall
    PROVE  Locked'
<1>1. /\ Lists!FreeSlot \in Slots /\ calls[Lists!FreeSlot] = Lists!NoCall
      /\ calls' = [calls EXCEPT ![Lists!FreeSlot] = call]
  BY ListFree
<1>2. calls'[Lists!FreeSlot] = call /\ \A s \in Slots : s # Lists!FreeSlot => calls'[s] = calls[s]
  BY <1>1 DEF Locked
<1>3. \A s \in Slots : calls'[s] = Lists!NoCall \/ ListIsCall(calls'[s])
  BY <1>2 DEF Locked
<1>4. \A s \in Slots : calls'[s] # Lists!NoCall /\ ListRowKeyed(calls'[s]) => calls'[s].key \in view'.busy
  BY <1>2 DEF Locked
<1>5. ASSUME NEW s \in Slots, NEW t \in Slots, calls'[s] # Lists!NoCall, calls'[t] # Lists!NoCall,
             ListRowKeyed(calls'[s]), calls'[s].key = calls'[t].key
      PROVE  s = t
  <2>1. ListRowKeyed(calls'[t])
    BY <1>5 DEF ListRowKeyed
  <2>2. ListRowKeyed(call) => \A q \in Slots : calls[q] # Lists!NoCall => calls[q].key # call.key
    BY DEF Locked, ListRowKeyed
  <2> QED
    BY <1>1, <1>2, <1>5, <2>1, <2>2 DEF Locked
<1>6. view'.dialog # Lists!NoCall /\ ListRowKeyed(view'.dialog) => view'.dialog.key \notin view'.busy
  BY DEF Locked, ListRowKeyed
<1>7. calls' = [s \in Slots |-> calls'[s]]
  BY <1>1 DEF Locked
<1> QED
  BY <1>3, <1>4, <1>5, <1>6, <1>7 DEF Locked, ListRowKeyed

\* Requests keep their keys, and none is taken.
LEMMA ListSameKeep ==
    ASSUME Locked, ListIsView(view)', calls' = [s \in Slots |-> calls'[s]],
           \A s \in Slots : \/ calls'[s] = calls[s]
                            \/ ListIsCall(calls[s]) /\ ListIsCall(calls'[s]) /\ calls'[s].key = calls[s].key,
           view'.busy = view.busy,
           \/ view'.dialog = view.dialog
           \/ view'.dialog = Lists!NoCall
           \/ ListIsCall(view'.dialog) /\ (ListRowKeyed(view'.dialog) => view'.dialog.key \notin view.busy)
    PROVE  Locked'
<1>1. \A s \in Slots : calls'[s] = Lists!NoCall \/ ListIsCall(calls'[s])
  BY DEF Locked
<1>2. \A s \in Slots : calls'[s] # Lists!NoCall => calls[s] # Lists!NoCall /\ calls'[s].key = calls[s].key
  BY ListACall
<1> QED
  BY <1>1, <1>2 DEF Locked, ListRowKeyed

\* An answer has arrived: its request is over, and gives its key back; or a
\* request without a row follows.
LEMMA ListEndKeeps ==
    ASSUME Locked, NEW s \in Slots, calls[s] # Lists!NoCall, NEW next,
           next = Lists!NoCall \/ (ListIsCall(next) /\ ~ListRowKeyed(next)),
           calls' = [calls EXCEPT ![s] = next],
           ListIsView(view)', view'.busy = view.busy \ {calls[s].key}, view'.dialog = view.dialog
    PROVE  Locked'
<1>1. calls'[s] = next /\ \A t \in Slots : t # s => calls'[t] = calls[t]
  BY DEF Locked
<1>2. \A t \in Slots : calls'[t] = Lists!NoCall \/ ListIsCall(calls'[t])
  BY <1>1 DEF Locked
<1>3. ASSUME NEW t \in Slots, calls'[t] # Lists!NoCall, ListRowKeyed(calls'[t])
      PROVE  t # s /\ calls[t] # Lists!NoCall /\ calls'[t] = calls[t] /\ calls'[t].key \in view'.busy
  <2>1. t # s /\ calls'[t] = calls[t]
    BY <1>1, <1>3
  <2>2. calls[t].key \in view.busy /\ calls[t].key # calls[s].key
    BY <1>3, <2>1 DEF Locked
  <2> QED
    BY <1>3, <2>1, <2>2
<1>4. \A q, t \in Slots : /\ calls'[q] # Lists!NoCall /\ calls'[t] # Lists!NoCall
                          /\ ListRowKeyed(calls'[q]) /\ calls'[q].key = calls'[t].key
                          => q = t
  BY <1>3 DEF Locked, ListRowKeyed
<1>5. calls' = [t \in Slots |-> calls'[t]]
  BY DEF Locked
<1> QED
  BY <1>2, <1>3, <1>4, <1>5 DEF Locked, ListRowKeyed

-----------------------------------------------------------------------------
(* What the user does. *)

\* A handler may lock what it is about.
ListUnlocked(call) ==
    /\ ListIsCall(call)
    /\ ListRowKeyed(call) => view.dialog = Lists!NoCall /\ call.key \notin view.busy

LEMMA ListBeginKeeps ==
    ASSUME Locked, NEW call, ListUnlocked(call), Lists!Begin(call)
    PROVE  Locked'
<1>1. Lists!Send(call) /\ view' = [view EXCEPT !.busy = view.busy \union {call.key}]
  BY DEF Lists!Begin
<1>2. ListIsView(view') /\ view'.busy = view.busy \union {call.key} /\ view'.dialog = view.dialog
  BY <1>1 DEF Locked, ListIsView
<1> QED
  BY <1>1, <1>2, ListSendKeeps DEF ListUnlocked

LEMMA ListAskKeeps ==
    ASSUME Locked, NEW call, ListUnlocked(call), Lists!Ask(call)
    PROVE  Locked'
<1>1. view' = [view EXCEPT !.dialog = call] /\ calls' = calls
  BY DEF Lists!Ask, Lists!Shows
<1>2. ListIsView(view') /\ view'.busy = view.busy /\ view'.dialog = call
  BY <1>1 DEF Locked, ListIsView
<1> QED
  BY <1>1, <1>2, ListSameKeep DEF ListUnlocked, Locked

LEMMA ListRefreshKeeps ==
    ASSUME Locked, NEW v, Lists!Send(Lists!List(Lists!NoKey)), view' = v, ListIsView(v), v.busy = view.busy,
           v.dialog = view.dialog
    PROVE  Locked'
<1>1. ListIsCall(Lists!List(Lists!NoKey)) /\ ~ListRowKeyed(Lists!List(Lists!NoKey))
  BY ListNewCall DEF Lists!List, ListRowKeyed, Lists!NoKey
<1> QED
  BY <1>1, ListSendKeeps

\* A step of the view alone, with its locks and its dialog as they are.
ListLooks ==
    /\ calls' = calls /\ ListIsView(view)'
    /\ view'.busy = view.busy /\ view'.dialog = view.dialog

LEMMA ListLooksKeeps ==
    ASSUME Locked, ListLooks
    PROVE  Locked'
  BY ListSameKeep DEF ListLooks, Locked

LEMMA ListRowUnlocked ==
    ASSUME NEW r, Lists!RowFree(r), NEW kind, NEW value
    PROVE  ListUnlocked(Lists!Call(kind, r, value, Lists!RowKey(r)))
  BY ListNewCall DEF Lists!RowFree, Lists!Clear, ListUnlocked

LEMMA ListFormUnlocked ==
    ASSUME NEW r, NEW kind, NEW value, NEW key, key[1] # "row"
    PROVE  ListUnlocked(Lists!Call(kind, r, value, key))
  BY ListNewCall DEF ListUnlocked, ListRowKeyed

LEMMA ListRefreshButton ==
    ASSUME Locked, Lists!Refresh(Lists!NoKey)
    PROVE  Locked'
<1>1. Lists!Send(Lists!List(Lists!NoKey)) /\ view' = [view EXCEPT !.loading = TRUE, !.failed = FALSE]
  BY DEF Lists!Refresh
<1>2. ListIsView(view') /\ view'.busy = view.busy /\ view'.dialog = view.dialog
  BY <1>1 DEF Locked, ListIsView
<1> QED
  BY <1>1, <1>2, ListRefreshKeeps

LEMMA ListActsKeeps ==
    ASSUME Locked, Lists!Acts
    PROVE  Locked'
<1>1. CASE Lists!WhitelistTab
  BY <1>1, ListRowUnlocked, ListFormUnlocked, ListBeginKeeps, ListAskKeeps
     DEF Lists!WhitelistTab, Lists!WhitelistToggle, Lists!WhitelistReload, Lists!WhitelistAdd,
     Lists!WhitelistRemove
<1>2. CASE Lists!OpsTab
  <2>1. CASE Lists!Shows([view EXCEPT !.banner = "dismissed"])
    <3>1. ListLooks
      BY <2>1 DEF Lists!Shows, ListLooks, Locked, ListIsView
    <3> QED
      BY <3>1, ListLooksKeeps
  <2> QED
    BY <1>2, <2>1, ListRowUnlocked, ListFormUnlocked, ListBeginKeeps, ListAskKeeps
       DEF Lists!OpsTab, Lists!OpAdd, Lists!OpRemove, Lists!OpLevel, Lists!OpsRestart
<1>3. CASE Lists!BackupsTab
  BY <1>3, ListRowUnlocked, ListFormUnlocked, ListBeginKeeps, ListAskKeeps, ListRefreshButton
     DEF Lists!BackupsTab, Lists!RunBackup, Lists!BackupDelete
<1>4. CASE Lists!BackupTimer
  <2>1. /\ Lists!Send(Lists!List(Lists!NoKey))
        /\ view' = [view EXCEPT !.timer = FALSE, !.loading = TRUE, !.failed = FALSE]
    BY <1>4 DEF Lists!BackupTimer
  <2>2. ListIsView(view') /\ view'.busy = view.busy /\ view'.dialog = view.dialog
    BY <2>1 DEF Locked, ListIsView
  <2> QED
    BY <2>1, <2>2, ListRefreshKeeps
<1>5. CASE Lists!TasksTab
  <2>1. CASE \E m : Lists!Shows([view EXCEPT !.modal = m])
    <3>1. ListLooks
      BY <2>1 DEF Lists!Shows, ListLooks, Locked, ListIsView
    <3> QED
      BY <3>1, ListLooksKeeps
  <2> QED
    BY <1>5, <2>1, ListRowUnlocked, ListBeginKeeps, ListAskKeeps
       DEF Lists!TasksTab, Lists!TaskToggle, Lists!TaskRunNow, Lists!TaskDelete
<1>6. CASE Lists!PluginsTab
  BY <1>6, ListRowUnlocked, ListFormUnlocked, ListBeginKeeps, ListAskKeeps
     DEF Lists!PluginsTab, Lists!PluginToggle, Lists!PluginDelete, Lists!PluginInstallUrl, Lists!PluginDrop
<1>7. CASE Lists!UsersTab
  <2>1. CASE \E m : Lists!Shows([view EXCEPT !.modal = m])
    <3>1. ListLooks
      BY <2>1 DEF Lists!Shows, ListLooks, Locked, ListIsView
    <3> QED
      BY <3>1, ListLooksKeeps
  <2>2. ASSUME NEW r \in Rows, Lists!RowFree(r), Lists!UserEdit(r)
        PROVE  Locked'
    BY <2>1, <2>2, ListRowUnlocked, ListBeginKeeps DEF Lists!UserEdit
  <2> QED
    BY <1>7, <2>2, ListRowUnlocked, ListFormUnlocked, ListBeginKeeps, ListAskKeeps
       DEF Lists!UsersTab, Lists!UserAdd, Lists!UserRole, Lists!UserResetPassword, Lists!UserRemove
<1> QED
  BY <1>1, <1>2, <1>3, <1>4, <1>5, <1>6, <1>7, ListRefreshButton DEF Lists!Acts, Lists!Retry

LEMMA ListTaskFormKeeps ==
    ASSUME Locked, Lists!TaskForm
    PROVE  Locked'
<1>1. CASE Lists!Shows([view EXCEPT !.modal = "none"])
  <2>1. ListLooks
    BY <1>1 DEF Lists!Shows, ListLooks, Locked, ListIsView
  <2> QED
    BY <2>1, ListLooksKeeps
<1>2. ASSUME NEW value, Lists!TaskSubmit(value)
      PROVE  Locked'
  BY <1>2, ListFormUnlocked, ListBeginKeeps DEF Lists!TaskSubmit
<1> QED
  BY <1>1, <1>2 DEF Lists!TaskForm

LEMMA ListDialogKeeps ==
    ASSUME Locked, Lists!Confirm \/ Lists!Cancel
    PROVE  Locked'
<1>1. CASE Lists!Confirm
  <2>1. /\ ListIsCall(view.dialog) /\ Lists!Send(view.dialog)
        /\ ListRowKeyed(view.dialog) => view.dialog.key \notin view.busy
        /\ view' = [view EXCEPT !.dialog = Lists!NoCall, !.busy = view.busy \union {view.dialog.key}]
    BY <1>1 DEF Lists!Confirm, Locked
  <2>2. /\ ListIsView(view') /\ view'.busy = view.busy \union {view.dialog.key}
        /\ view'.dialog = Lists!NoCall
    BY <2>1 DEF Locked, ListIsView
  <2> QED
    BY <2>1, <2>2, ListSendKeeps
<1>2. CASE Lists!Cancel
  <2>1. view' = [view EXCEPT !.dialog = Lists!NoCall] /\ calls' = calls
    BY <1>2 DEF Lists!Cancel, Lists!Shows
  <2>2. ListIsView(view') /\ view'.busy = view.busy /\ view'.dialog = Lists!NoCall
    BY <2>1 DEF Locked, ListIsView
  <2> QED
    BY <2>1, <2>2, ListSameKeep DEF Locked
<1> QED
  BY <1>1, <1>2

-----------------------------------------------------------------------------
(* What the backend does, and its answers. *)

LEMMA ListServeKeeps ==
    ASSUME Locked, NEW s \in Slots, Lists!Serve(s)
    PROVE  Locked'
<1>1. PICK ok, doc : Lists!Answer(s, ok, doc)
  BY DEF Lists!Serve
<1>2. /\ ListIsCall(calls[s]) /\ view' = view
      /\ calls' = [calls EXCEPT ![s] = [calls[s] EXCEPT !.at = "answered", !.ok = ok, !.doc = doc]]
  BY <1>1 DEF Lists!Serve, Lists!Answer, Locked, Lists!NoCall
<1>3. /\ calls' = [t \in Slots |-> calls'[t]]
      /\ calls'[s] = [calls[s] EXCEPT !.at = "answered", !.ok = ok, !.doc = doc]
      /\ \A t \in Slots : t # s => calls'[t] = calls[t]
  BY <1>2 DEF Locked
<1>4. ListIsCall(calls'[s]) /\ calls'[s].key = calls[s].key
  BY <1>2, <1>3 DEF ListIsCall
<1> QED
  BY <1>2, <1>3, <1>4, ListSameKeep DEF Locked

\* Released() and what else an answer changes in the view.
LEMMA ListReleases ==
    ASSUME Locked, NEW c
    PROVE  /\ ListIsView(Lists!Released(c)) /\ Lists!Released(c).busy = view.busy \ {c.key}
           /\ Lists!Released(c).dialog = view.dialog
  BY DEF Locked, ListIsView, Lists!Released

LEMMA ListDeliverKeeps ==
    ASSUME Locked, NEW s \in Slots, Lists!Deliver(s)
    PROVE  Locked'
<1> DEFINE c == calls[s]
<1>1. ListIsCall(c) /\ c # Lists!NoCall
  BY DEF Lists!Deliver, Lists!Arrives, Locked, Lists!NoCall
<1>2. ASSUME ListIsView(view'), view'.busy = view.busy \ {c.key}, view'.dialog = view.dialog, Lists!Ends(s)
      PROVE  Locked'
  BY <1>1, <1>2, ListEndKeeps DEF Lists!Ends
<1>3. CASE Lists!ListArrives(s)
  <2>1. /\ Lists!Ends(s)
        /\ ListIsView(view') /\ view'.busy = Lists!Released(c).busy /\ view'.dialog = Lists!Released(c).dialog
    BY <1>3, ListReleases DEF Lists!ListArrives, ListIsView
  <2> QED
    BY <1>2, <2>1, ListReleases
<1>4. CASE Lists!FailureArrives(s)
  <2>1. /\ ListIsView(view') /\ view'.busy = Lists!Released(c).busy /\ view'.dialog = Lists!Released(c).dialog
        /\ Lists!Ends(s) \/ Lists!Continues(s, Lists!List(Lists!NoKey))
    BY <1>4, ListReleases DEF Lists!FailureArrives, ListIsView
  <2>2. CASE Lists!Continues(s, Lists!List(Lists!NoKey))
    <3>1. ListIsCall(Lists!List(Lists!NoKey)) /\ ~ListRowKeyed(Lists!List(Lists!NoKey))
      BY ListNewCall DEF Lists!List, ListRowKeyed, Lists!NoKey
    <3> QED
      BY <1>1, <2>1, <2>2, <3>1, ListReleases, ListEndKeeps DEF Lists!Continues
  <2> QED
    BY <1>2, <2>1, <2>2, ListReleases
<1>5. CASE Lists!DocumentArrives(s)
  <2>1. /\ Lists!Ends(s)
        /\ ListIsView(view') /\ view'.busy = Lists!Released(c).busy /\ view'.dialog = Lists!Released(c).dialog
    BY <1>5, ListReleases DEF Lists!DocumentArrives, ListIsView
  <2> QED
    BY <1>2, <2>1, ListReleases
<1>6. CASE Lists!EffectArrives(s)
  <2>1. CASE c.key = <<"run">>
    <3>1. /\ Lists!Ends(s)
          /\ ListIsView(view') /\ view'.busy = Lists!Released(c).busy /\ view'.dialog = Lists!Released(c).dialog
      BY <1>6, <2>1, ListReleases DEF Lists!EffectArrives, ListIsView
    <3> QED
      BY <1>2, <3>1, ListReleases
  <2>2. CASE c.key \in {<<"modal">>, <<"drop">>}
    <3>1. c.key # <<"run">>
      BY <2>2
    <3>2. Lists!Continues(s, Lists!List(Lists!NoKey))
      BY <1>6, <2>2, <3>1 DEF Lists!EffectArrives
    <3>3. view' = [view EXCEPT !.loading = TRUE, !.failed = FALSE,
                               !.modal = IF c.key = <<"modal">> THEN "none" ELSE view.modal,
                               !.busy = IF c.key \in {<<"modal">>, <<"drop">>}
                                        THEN view.busy \ {c.key} ELSE view.busy]
      BY <1>6, <3>1 DEF Lists!EffectArrives
    <3>4. ListIsView(view') /\ view'.busy = view.busy \ {c.key} /\ view'.dialog = view.dialog
      BY <2>2, <3>3 DEF ListIsView, Locked
    <3>5. ListIsCall(Lists!List(Lists!NoKey)) /\ ~ListRowKeyed(Lists!List(Lists!NoKey))
      BY ListNewCall DEF Lists!List, ListRowKeyed, Lists!NoKey
    <3> QED
      BY <1>1, <3>2, <3>4, <3>5, ListEndKeeps DEF Lists!Continues
  <2>3. CASE c.key \notin {<<"run">>, <<"modal">>, <<"drop">>}
    <3>1. /\ Lists!Continues(s, Lists!List(c.key)) /\ ListIsView(view')
          /\ view'.busy = view.busy /\ view'.dialog = view.dialog
      BY <1>6, <2>3 DEF Lists!EffectArrives, ListIsView, Locked
    <3>2. ListIsCall(Lists!List(c.key)) /\ Lists!List(c.key).key = c.key
      BY ListNewCall DEF Lists!List
    <3>3. /\ calls'[s] = Lists!List(c.key) /\ \A t \in Slots : t # s => calls'[t] = calls[t]
          /\ calls' = [t \in Slots |-> calls'[t]]
      BY <3>1 DEF Lists!Continues, Locked
    <3> QED
      BY <1>1, <3>1, <3>2, <3>3, ListSameKeep
  <2> QED
    BY <2>1, <2>2, <2>3
<1>7. CASE Lists!AccountArrives(s)
  <2>1. CASE Lists!Continues(s, [c EXCEPT !.kind = "root", !.at = "sent"]) /\ UNCHANGED view
    <3>1. /\ calls'[s] = [c EXCEPT !.kind = "root", !.at = "sent"]
          /\ \A t \in Slots : t # s => calls'[t] = calls[t]
          /\ calls' = [t \in Slots |-> calls'[t]]
      BY <2>1 DEF Lists!Continues, Locked
    <3>2. ListIsCall(calls'[s]) /\ calls'[s].key = c.key
      BY <1>1, <3>1 DEF ListIsCall
    <3> QED
      BY <1>1, <2>1, <3>1, <3>2, ListSameKeep DEF Locked
  <2>2. CASE ~(Lists!Continues(s, [c EXCEPT !.kind = "root", !.at = "sent"]) /\ UNCHANGED view)
    <3>1. Lists!Ends(s)
      BY <1>7, <2>2 DEF Lists!AccountArrives
    <3>2. ListIsView(view') /\ view'.busy = Lists!Released(c).busy /\ view'.dialog = Lists!Released(c).dialog
      BY <1>7, <2>2, ListReleases DEF Lists!AccountArrives, ListIsView
    <3> QED
      BY <1>2, <3>1, <3>2, ListReleases
  <2> QED
    BY <2>1, <2>2
<1> QED
  BY <1>3, <1>4, <1>5, <1>6, <1>7 DEF Lists!Deliver

LEMMA ListInitLocked == Lists!Init => Locked
<1> SUFFICES ASSUME Lists!Init PROVE Locked
  OBVIOUS
<1>1. ListIsView(view) /\ view.dialog = Lists!NoCall
  BY DEF Lists!Init, ListIsView
<1>2. PICK s \in Slots : calls = [t \in Slots |-> IF t = s THEN Lists!List(Lists!NoKey) ELSE Lists!NoCall]
  BY DEF Lists!Init
<1>3. ListIsCall(Lists!List(Lists!NoKey)) /\ ~ListRowKeyed(Lists!List(Lists!NoKey))
  BY ListNewCall DEF Lists!List, ListRowKeyed, Lists!NoKey
<1> QED
  BY <1>1, <1>2, <1>3 DEF Locked

LEMMA ListNextLocked ==
    ASSUME Locked, ListsStep
    PROVE  Locked'
<1>1. CASE Lists!Elsewhere \/ UNCHANGED vars
  <2>1. calls' = calls /\ view' = view
    BY <1>1 DEF Lists!Elsewhere, vars
  <2> QED
    BY <2>1 DEF Locked
<1> QED
  BY <1>1, ListActsKeeps, ListTaskFormKeeps, ListDialogKeeps, ListServeKeeps, ListDeliverKeeps
     DEF Lists!Next, ListsStep

-----------------------------------------------------------------------------
(***************************************************************************)
(* The types.  What a request carries fits its kind, and in a dialog it    *)
(* is a request as well.                                                   *)
(***************************************************************************)
ListValueFits(c) ==
    /\ c.kind \in {"add", "put"} => c.value \in Lists!Row
    /\ c.kind \in {"flag", "on"} => c.value.on \in BOOLEAN
    /\ c.kind = "remove" /\ page = "plugins" => c.value \in Lists!Row
    /\ c.kind = "text" => c.value.text \in {0, 1}
    /\ c.kind = "text" /\ page = "users" => c.value.root \in {0, 1}
    /\ c.kind = "root" => c.value.root \in {0, 1}

ListFits(c) ==
    /\ c \in [at : {"sent", "answered"}, kind : Lists!Kinds, row : Rows, value : {c.value},
              key : {c.key}, ok : BOOLEAN, doc : Lists!Doc]
    /\ ListValueFits(c)

\* What a button or a dialog asks for.
ListAsked(c) == ListFits(c) /\ c.at = "sent"

ListViewTyped(v) ==
    v \in [shown : Lists!Doc, loading : BOOLEAN, failed : BOOLEAN, busy : {v.busy},
           dialog : {v.dialog}, modal : Rows \union {"none", "new"},
           banner : {"none", "shown", "dismissed"}, timer : BOOLEAN, half : SUBSET Rows]

ListTyped ==
    /\ page \in Lists!Tabs
    /\ server \in [doc : Lists!Doc, stale : BOOLEAN]
    /\ ListViewTyped(view)
    /\ view.dialog = Lists!NoCall \/ ListAsked(view.dialog)
    /\ calls = [s \in Slots |-> calls[s]]
    /\ \A s \in Slots : calls[s] = Lists!NoCall \/ ListFits(calls[s])

LEMMA ListFitsCall == \A c : ListFits(c) => c # Lists!NoCall
  BY DEF ListFits, Lists!NoCall

LEMMA ListTyping == ListTyped => Lists!TypeOK
<1> SUFFICES ASSUME ListTyped PROVE Lists!TypeOK
  OBVIOUS
<1>1. \A s \in Slots : calls[s] # Lists!NoCall => calls[s].kind \in Lists!Kinds /\ calls[s].row \in Rows
  BY DEF ListTyped, ListFits
<1>2. server.doc \in Lists!Doc /\ server.stale \in BOOLEAN
  BY DEF ListTyped
<1>3. /\ view.shown \in Lists!Doc /\ {view.loading, view.failed, view.timer} \subseteq BOOLEAN
      /\ view.modal \in Rows \union {"none", "new"} /\ view.banner \in {"none", "shown", "dismissed"}
      /\ view.half \subseteq Rows
  BY DEF ListTyped, ListViewTyped
<1> QED
  BY <1>1, <1>2, <1>3 DEF ListTyped, Lists!TypeOK

LEMMA ListNoDocTyped == Lists!NoDoc \in Lists!Doc
  BY DEF Lists!NoDoc, Lists!Doc

LEMMA ListRowsTyped ==
    ASSUME NEW doc \in Lists!Doc, NEW r \in Rows
    PROVE  /\ doc.rows[r] \in Lists!Row \union {Lists!NoRow} /\ doc.flag \in BOOLEAN
           /\ doc.rows[r] # Lists!NoRow => doc.rows[r] \in Lists!Row
           /\ \A row \in Lists!Row \union {Lists!NoRow} : [doc EXCEPT !.rows[r] = row] \in Lists!Doc
           /\ \A flag \in BOOLEAN : [doc EXCEPT !.flag = flag] \in Lists!Doc
  BY DEF Lists!Doc

LEMMA ListFreshRow == Lists!Fresh \in Lists!Row /\ [Lists!Fresh EXCEPT !.text = 1] \in Lists!Row
    /\ [Lists!Fresh EXCEPT !.on = TRUE] \in Lists!Row
  BY DEF Lists!Fresh, Lists!Row

LEMMA ListRowFields ==
    ASSUME NEW row \in Lists!Row
    PROVE  /\ row.on \in BOOLEAN /\ row.text \in {0, 1} /\ row.root \in {0, 1}
           /\ \A on \in BOOLEAN : [row EXCEPT !.on = on] \in Lists!Row
           /\ \A text \in {0, 1} : [row EXCEPT !.text = text] \in Lists!Row
           /\ \A root \in {0, 1} : [row EXCEPT !.root = root] \in Lists!Row
           /\ \A on \in BOOLEAN, text \in {0, 1} : [row EXCEPT !.on = on, !.text = text] \in Lists!Row
  BY DEF Lists!Row

\* A new request fits when what it carries does.
LEMMA ListCallFits ==
    ASSUME NEW kind \in Lists!Kinds, NEW r \in Rows, NEW value, NEW key,
           /\ kind \in {"add", "put"} => value \in Lists!Row
           /\ kind \in {"flag", "on"} => value.on \in BOOLEAN
           /\ kind = "remove" /\ page = "plugins" => value \in Lists!Row
           /\ kind = "text" => value.text \in {0, 1}
           /\ kind = "text" /\ page = "users" => value.root \in {0, 1}
           /\ kind = "root" => value.root \in {0, 1}
    PROVE  ListAsked(Lists!Call(kind, r, value, key))
  BY ListNoDocTyped DEF ListAsked, ListFits, Lists!Call, ListValueFits

LEMMA ListListFits == \A key : ListFits(Lists!List(key))
  BY ListCallFits, MeAssumption DEF Lists!List, Lists!Kinds, ListAsked

\* A slot gets another request, or is free.
LEMMA ListSlotTyped ==
    ASSUME ListTyped, page' = page, server' \in [doc : Lists!Doc, stale : BOOLEAN],
           NEW s \in Slots, NEW next, next = Lists!NoCall \/ ListFits(next),
           calls' = [calls EXCEPT ![s] = next],
           ListViewTyped(view'), view'.dialog \in {view.dialog, Lists!NoCall}
    PROVE  ListTyped'
<1>1. calls'[s] = next /\ \A t \in Slots : t # s => calls'[t] = calls[t]
  BY DEF ListTyped
<1>2. calls' = [t \in Slots |-> calls'[t]]
  BY DEF ListTyped
<1>3. \A t \in Slots : calls'[t] = Lists!NoCall \/ ListFits(calls'[t])
  BY <1>1 DEF ListTyped
<1>4. view'.dialog = Lists!NoCall \/ ListAsked(view'.dialog)
  BY DEF ListTyped
<1>5. page' \in Lists!Tabs
  BY DEF ListTyped
<1> QED
  BY <1>2, <1>3, <1>4, <1>5 DEF ListTyped, ListViewTyped, ListAsked, ListFits, ListValueFits

\* The view changes, and perhaps the server, and no request.
LEMMA ListSightTyped ==
    ASSUME ListTyped, page' = page, server' \in [doc : Lists!Doc, stale : BOOLEAN], calls' = calls,
           ListViewTyped(view'), view'.dialog \in {view.dialog, Lists!NoCall} \/ ListAsked(view'.dialog)
    PROVE  ListTyped'
<1>1. view'.dialog = Lists!NoCall \/ ListAsked(view'.dialog)
  BY DEF ListTyped
<1> QED
  BY <1>1 DEF ListTyped, ListViewTyped, ListAsked, ListFits, ListValueFits

-----------------------------------------------------------------------------
(* What the user does. *)

LEMMA ListBeginTyped ==
    ASSUME ListTyped, NEW call, ListAsked(call), Lists!Begin(call)
    PROVE  ListTyped'
<1>1. /\ Lists!FreeSlot \in Slots /\ calls' = [calls EXCEPT ![Lists!FreeSlot] = call]
      /\ page' = page /\ server' = server /\ view' = [view EXCEPT !.busy = view.busy \union {call.key}]
  BY ListFree DEF Lists!Begin, Lists!Send
<1>2. ListViewTyped(view') /\ view'.dialog = view.dialog
  BY <1>1 DEF ListTyped, ListViewTyped
<1> QED
  BY <1>1, <1>2, ListSlotTyped DEF ListTyped, ListAsked

LEMMA ListAskTyped ==
    ASSUME ListTyped, NEW call, ListAsked(call), Lists!Ask(call)
    PROVE  ListTyped'
<1>1. view' = [view EXCEPT !.dialog = call] /\ calls' = calls /\ page' = page /\ server' = server
  BY DEF Lists!Ask, Lists!Shows
<1>2. ListViewTyped(view') /\ view'.dialog = call
  BY <1>1 DEF ListTyped, ListViewTyped
<1> QED
  BY <1>1, <1>2, ListSightTyped DEF ListTyped

LEMMA ListShowsTyped ==
    ASSUME ListTyped, NEW v, Lists!Shows(v), ListViewTyped(v), v.dialog = view.dialog
    PROVE  ListTyped'
  BY ListSightTyped DEF ListTyped, Lists!Shows

LEMMA ListLoadTyped ==
    ASSUME ListTyped, Lists!Send(Lists!List(Lists!NoKey)), ListViewTyped(view'), view'.dialog = view.dialog
    PROVE  ListTyped'
<1>1. /\ Lists!FreeSlot \in Slots /\ calls' = [calls EXCEPT ![Lists!FreeSlot] = Lists!List(Lists!NoKey)]
      /\ page' = page /\ server' = server
  BY ListFree DEF Lists!Send
<1>2. ListFits(Lists!List(Lists!NoKey))
  BY ListListFits
<1> QED
  BY <1>1, <1>2, ListSlotTyped DEF ListTyped

LEMMA ListRefreshTyped ==
    ASSUME ListTyped, Lists!Refresh(Lists!NoKey)
    PROVE  ListTyped'
<1>1. Lists!Send(Lists!List(Lists!NoKey)) /\ view' = [view EXCEPT !.loading = TRUE, !.failed = FALSE]
  BY DEF Lists!Refresh
<1>2. ListViewTyped(view') /\ view'.dialog = view.dialog
  BY <1>1 DEF ListTyped, ListViewTyped
<1> QED
  BY <1>1, <1>2, ListLoadTyped

LEMMA ListModalTyped ==
    ASSUME ListTyped, NEW m \in Rows \union {"none", "new"}, Lists!Shows([view EXCEPT !.modal = m])
    PROVE  ListTyped'
<1> DEFINE v == [view EXCEPT !.modal = m]
<1>1. ListViewTyped(v) /\ v.dialog = view.dialog
  BY DEF ListTyped, ListViewTyped
<1> HIDE DEF v
<1> QED
  BY <1>1, ListShowsTyped DEF v

LEMMA ListRowShown ==
    ASSUME ListTyped, NEW r \in Rows, view.shown.rows[r] # Lists!NoRow
    PROVE  view.shown.rows[r] \in Lists!Row
  BY ListRowsTyped DEF ListTyped, ListViewTyped

LEMMA ListActsTyped ==
    ASSUME ListTyped, Lists!Acts
    PROVE  ListTyped'
<1>1. ASSUME NEW kind \in Lists!Kinds \ {"add", "put", "flag", "on", "text", "root"}, NEW r \in Rows, NEW key,
             NEW value,
             page = "plugins" => value \in Lists!Row \/ kind # "remove",
             Lists!Begin(Lists!Call(kind, r, value, key)) \/ Lists!Ask(Lists!Call(kind, r, value, key))
      PROVE  ListTyped'
  <2>1. ListAsked(Lists!Call(kind, r, value, key))
    BY <1>1, ListCallFits
  <2> QED
    BY <1>1, <2>1, ListBeginTyped, ListAskTyped
<1>2. ASSUME NEW r \in Rows, NEW key, Lists!Begin(Lists!Call("add", r, Lists!Fresh, key))
      PROVE  ListTyped'
  <2>1. ListAsked(Lists!Call("add", r, Lists!Fresh, key))
    BY ListCallFits, ListFreshRow DEF Lists!Kinds
  <2> QED
    BY <1>2, <2>1, ListBeginTyped
<1>3. \A r \in Rows : Lists!RowFree(r) => view.shown.rows[r] \in Lists!Row
  BY ListRowShown DEF Lists!RowFree
<1>4. CASE page = "whitelist" /\ Lists!WhitelistTab
  <2>1. CASE Lists!WhitelistToggle
    <3>1. (~view.shown.flag) \in BOOLEAN
      OBVIOUS
    <3>2. ListAsked(Lists!Call("flag", Me, [on |-> ~view.shown.flag], <<"flag">>))
      BY <3>1, ListCallFits, MeAssumption DEF Lists!Kinds
    <3> QED
      BY <2>1, <3>2, ListBeginTyped DEF Lists!WhitelistToggle
  <2>2. ASSUME NEW r \in Rows, Lists!WhitelistRemove(r), page = "whitelist" PROVE ListTyped'
    BY <1>1, <2>2 DEF Lists!WhitelistRemove, Lists!Kinds
  <2>3. ASSUME Lists!WhitelistReload, page = "whitelist" PROVE ListTyped'
    BY <1>1, <2>3, MeAssumption DEF Lists!WhitelistReload, Lists!Kinds
  <2>4. ASSUME NEW r \in Rows, Lists!WhitelistAdd(r) PROVE ListTyped'
    BY <1>2, <2>4 DEF Lists!WhitelistAdd
  <2> QED
    BY <1>4, <2>1, <2>2, <2>3, <2>4 DEF Lists!WhitelistTab
<1>5. CASE page = "ops" /\ Lists!OpsTab
  <2>1. CASE Lists!OpsRestart
    BY <1>1, <1>5, <2>1, MeAssumption DEF Lists!OpsRestart, Lists!Kinds
  <2>2. CASE Lists!Shows([view EXCEPT !.banner = "dismissed"])
    <3> DEFINE v == [view EXCEPT !.banner = "dismissed"]
    <3>1. ListViewTyped(v) /\ v.dialog = view.dialog
      BY DEF ListTyped, ListViewTyped
    <3> HIDE DEF v
    <3> QED
      BY <2>2, <3>1, ListShowsTyped DEF v
  <2>3. ASSUME NEW r \in Rows, Lists!OpAdd(r) PROVE ListTyped'
    BY <1>2, <2>3 DEF Lists!OpAdd
  <2>4. ASSUME NEW r \in Rows, Lists!OpRemove(r) PROVE ListTyped'
    BY <1>1, <1>5, <2>4 DEF Lists!OpRemove, Lists!Kinds
  <2>5. ASSUME NEW r \in Rows, Lists!RowFree(r), Lists!OpLevel(r) PROVE ListTyped'
    <3>1. 1 - view.shown.rows[r].text \in {0, 1}
      <4>1. view.shown.rows[r].text \in {0, 1}
        BY <1>3, <2>5, ListRowFields
      <4> QED
        BY <4>1
    <3>2. ListAsked(Lists!Call("text", r, [text |-> 1 - view.shown.rows[r].text], Lists!RowKey(r)))
      BY <1>5, <3>1, ListCallFits DEF Lists!Kinds
    <3> QED
      BY <2>5, <3>2, ListBeginTyped DEF Lists!OpLevel
  <2> QED
    BY <1>5, <2>1, <2>2, <2>3, <2>4, <2>5 DEF Lists!OpsTab
<1>6. CASE page = "backups" /\ (Lists!BackupsTab \/ Lists!BackupTimer)
  <2>1. CASE Lists!RunBackup
    BY <1>1, <1>6, <2>1, MeAssumption DEF Lists!RunBackup, Lists!Kinds
  <2>2. ASSUME NEW r \in Rows, Lists!BackupDelete(r) PROVE ListTyped'
    BY <1>1, <1>6, <2>2 DEF Lists!BackupDelete, Lists!Kinds
  <2>3. CASE Lists!BackupTimer
    <3>1. Lists!Send(Lists!List(Lists!NoKey))
            /\ view' = [view EXCEPT !.timer = FALSE, !.loading = TRUE, !.failed = FALSE]
      BY <2>3 DEF Lists!BackupTimer
    <3>2. ListViewTyped(view') /\ view'.dialog = view.dialog
      BY <3>1 DEF ListTyped, ListViewTyped
    <3> QED
      BY <3>1, <3>2, ListLoadTyped
  <2>4. CASE Lists!Refresh(Lists!NoKey)
    BY <2>4, ListRefreshTyped
  <2> QED
    BY <1>6, <2>1, <2>2, <2>3, <2>4 DEF Lists!BackupsTab
<1>7. CASE page = "tasks" /\ Lists!TasksTab
  <2>1. ASSUME NEW r \in Rows, Lists!RowFree(r), Lists!TaskToggle(r) PROVE ListTyped'
    <3>1. [view.shown.rows[r] EXCEPT !.on = ~view.shown.rows[r].on] \in Lists!Row
      <4>1. (~view.shown.rows[r].on) \in BOOLEAN
        OBVIOUS
      <4> QED
        BY <1>3, <2>1, <4>1, ListRowFields
    <3>2. ListAsked(Lists!Call("put", r, [view.shown.rows[r] EXCEPT !.on = ~view.shown.rows[r].on], Lists!RowKey(r)))
      BY <3>1, ListCallFits DEF Lists!Kinds
    <3> QED
      BY <2>1, <3>2, ListBeginTyped DEF Lists!TaskToggle
  <2>2. ASSUME NEW r \in Rows, Lists!TaskRunNow(r) \/ Lists!TaskDelete(r) PROVE ListTyped'
    BY <1>1, <1>7, <2>2 DEF Lists!TaskRunNow, Lists!TaskDelete, Lists!Kinds
  <2>3. ASSUME NEW m \in Rows \union {"none", "new"}, Lists!Shows([view EXCEPT !.modal = m]) PROVE ListTyped'
    BY <2>3, ListModalTyped
  <2> QED
    BY <1>7, <2>1, <2>2, <2>3 DEF Lists!TasksTab
<1>8. CASE page = "plugins" /\ Lists!PluginsTab
  <2>1. ASSUME NEW r \in Rows, Lists!RowFree(r), Lists!PluginToggle(r) PROVE ListTyped'
    <3>1. view.shown.rows[r].on \in BOOLEAN
      BY <1>3, <2>1, ListRowFields
    <3>2. ListAsked(Lists!Call("on", r, view.shown.rows[r], Lists!RowKey(r)))
      BY <3>1, ListCallFits DEF Lists!Kinds
    <3> QED
      BY <2>1, <3>2, ListBeginTyped DEF Lists!PluginToggle
  <2>2. ASSUME NEW r \in Rows, Lists!RowFree(r), Lists!PluginDelete(r) PROVE ListTyped'
    BY <1>1, <1>3, <2>2 DEF Lists!PluginDelete, Lists!Kinds
  <2>3. ASSUME NEW r \in Rows, Lists!PluginInstallUrl(r) \/ Lists!PluginDrop(r) PROVE ListTyped'
    BY <1>2, <2>3 DEF Lists!PluginInstallUrl, Lists!PluginDrop
  <2> QED
    BY <1>8, <2>1, <2>2, <2>3 DEF Lists!PluginsTab
<1>9. CASE page = "users" /\ Lists!UsersTab
  <2>1. ASSUME NEW r \in Rows, Lists!UserAdd(r) PROVE ListTyped'
    BY <1>2, <2>1 DEF Lists!UserAdd
  <2>2. ASSUME NEW r \in Rows, Lists!UserRole(r) PROVE ListTyped'
    <3>1. (~view.shown.rows[r].on) \in BOOLEAN
      OBVIOUS
    <3>2. ListAsked(Lists!Call("on", r, [on |-> ~view.shown.rows[r].on], Lists!RowKey(r)))
      BY <3>1, ListCallFits DEF Lists!Kinds
    <3> QED
      BY <2>2, <3>2, ListBeginTyped DEF Lists!UserRole
  <2>3. ASSUME NEW r \in Rows, Lists!UserResetPassword(r) \/ Lists!UserRemove(r) PROVE ListTyped'
    BY <1>1, <1>9, <2>3 DEF Lists!UserResetPassword, Lists!UserRemove, Lists!Kinds
  <2>4. ASSUME NEW r \in Rows, Lists!UserEdit(r) PROVE ListTyped'
    <3>1. ASSUME NEW text \in {0, 1}, NEW root \in {0, 1},
                 Lists!Begin(Lists!Call("text", r, [text |-> text, root |-> root], Lists!RowKey(r)))
          PROVE  ListTyped'
      <4>1. ListAsked(Lists!Call("text", r, [text |-> text, root |-> root], Lists!RowKey(r)))
        BY ListCallFits DEF Lists!Kinds
      <4> QED
        BY <3>1, <4>1, ListBeginTyped
    <3>2. ASSUME NEW m \in Rows \union {"none", "new"}, Lists!Shows([view EXCEPT !.modal = m]) PROVE ListTyped'
      BY <3>2, ListModalTyped
    <3> QED
      BY <2>4, <3>1, <3>2 DEF Lists!UserEdit
  <2> QED
    BY <1>9, <2>1, <2>2, <2>3, <2>4 DEF Lists!UsersTab
<1>10. CASE Lists!Refresh(Lists!NoKey)
  BY <1>10, ListRefreshTyped
<1> QED
  BY <1>4, <1>5, <1>6, <1>7, <1>8, <1>9, <1>10 DEF Lists!Acts, Lists!Retry

LEMMA ListTaskFormTyped ==
    ASSUME ListTyped, Lists!TaskForm
    PROVE  ListTyped'
<1>1. CASE Lists!Shows([view EXCEPT !.modal = "none"])
  BY <1>1, ListModalTyped
<1>2. ASSUME NEW value \in Lists!Row, Lists!TaskSubmit(value) PROVE ListTyped'
  <2>1. ASSUME NEW r \in Rows, NEW kind \in {"add", "put"}, Lists!Begin(Lists!Call(kind, r, value, <<"modal">>)) PROVE ListTyped'
    <3>1. ListAsked(Lists!Call(kind, r, value, <<"modal">>))
      BY ListCallFits DEF Lists!Kinds
    <3> QED
      BY <2>1, <3>1, ListBeginTyped
  <2> QED
    BY <1>2, <2>1 DEF Lists!TaskSubmit
<1> QED
  BY <1>1, <1>2 DEF Lists!TaskForm

LEMMA ListDialogTyped ==
    ASSUME ListTyped, Lists!Confirm \/ Lists!Cancel
    PROVE  ListTyped'
<1>1. CASE Lists!Confirm
  <2>1. /\ Lists!FreeSlot \in Slots /\ calls' = [calls EXCEPT ![Lists!FreeSlot] = view.dialog]
        /\ ListFits(view.dialog)
        /\ page' = page /\ server' = server
        /\ view' = [view EXCEPT !.dialog = Lists!NoCall, !.busy = view.busy \union {view.dialog.key}]
    BY <1>1, ListFree DEF Lists!Confirm, Lists!Send, ListTyped, ListAsked
  <2>2. ListViewTyped(view') /\ view'.dialog = Lists!NoCall
    BY <2>1 DEF ListTyped, ListViewTyped
  <2> QED
    BY <2>1, <2>2, ListSlotTyped DEF ListTyped
<1>2. CASE Lists!Cancel
  <2>1. view' = [view EXCEPT !.dialog = Lists!NoCall] /\ calls' = calls /\ page' = page /\ server' = server
    BY <1>2 DEF Lists!Cancel, Lists!Shows
  <2>2. ListViewTyped(view') /\ view'.dialog = Lists!NoCall
    BY <2>1 DEF ListTyped, ListViewTyped
  <2> QED
    BY <2>1, <2>2, ListSightTyped DEF ListTyped
<1> QED
  BY <1>1, <1>2

-----------------------------------------------------------------------------
(* What the backend does. *)

\* Only the game server waits for a restart.
ListServers == {v \in [doc : Lists!Doc, stale : BOOLEAN] : page # "ops" => v.stale = server.stale}

LEMMA ListPutTyped ==
    ASSUME server \in ListServers, NEW r \in Rows
    PROVE  /\ \A row \in Lists!Row \union {Lists!NoRow} : Lists!Put(r, row) \in ListServers
           /\ \A flag \in BOOLEAN : [server EXCEPT !.doc.flag = flag] \in ListServers
           /\ page = "ops" => \A stale \in BOOLEAN : [server EXCEPT !.stale = stale] \in ListServers
           /\ Lists!Held(r) \in Lists!Row \union {Lists!NoRow}
           /\ (Lists!Held(r) # Lists!NoRow => Lists!Held(r) \in Lists!Row)
<1>1. server.doc \in Lists!Doc
  BY DEF ListServers
<1>2. ASSUME NEW row \in Lists!Row \union {Lists!NoRow} PROVE Lists!Put(r, row) \in ListServers
  <2>1. [server.doc EXCEPT !.rows[r] = row] \in Lists!Doc
    BY <1>1, ListRowsTyped
  <2> QED
    BY <2>1 DEF Lists!Put, ListServers
<1>3. ASSUME NEW flag \in BOOLEAN PROVE [server EXCEPT !.doc.flag = flag] \in ListServers
  <2>1. [server.doc EXCEPT !.flag = flag] \in Lists!Doc
    BY <1>1, ListRowsTyped
  <2> QED
    BY <2>1 DEF ListServers
<1> QED
  BY <1>1, <1>2, <1>3, ListRowsTyped DEF ListServers, Lists!Held

LEMMA ListAfterTyped ==
    ASSUME ListTyped, NEW c, ListFits(c)
    PROVE  Lists!After(c) \subseteq ListServers
<1> DEFINE r == c.row
<1>1. r \in Rows /\ c.kind \in Lists!Kinds /\ server \in ListServers
  BY DEF ListFits, ListTyped, ListServers
<1>2. /\ \A row \in Lists!Row \union {Lists!NoRow} : Lists!Put(r, row) \in ListServers
      /\ \A flag \in BOOLEAN : [server EXCEPT !.doc.flag = flag] \in ListServers
      /\ page = "ops" => \A stale \in BOOLEAN : [server EXCEPT !.stale = stale] \in ListServers
      /\ Lists!Held(r) \in Lists!Row \union {Lists!NoRow}
      /\ (Lists!Held(r) # Lists!NoRow => Lists!Held(r) \in Lists!Row)
  BY <1>1, ListPutTyped
<1>3. /\ c.kind \in {"add", "put"} => c.value \in Lists!Row
      /\ c.kind \in {"flag", "on"} => c.value.on \in BOOLEAN
      /\ c.kind = "remove" /\ page = "plugins" => c.value \in Lists!Row
      /\ c.kind = "text" => c.value.text \in {0, 1}
      /\ c.kind = "root" => c.value.root \in {0, 1}
  BY DEF ListFits, ListValueFits
<1>4. Lists!Added(c) \in Lists!Row \union {Lists!NoRow} \/ c.kind # "add"
  BY <1>2, <1>3 DEF Lists!Added
<1> HIDE DEF r
<1>5. Lists!WhitelistAfter(c) \subseteq ListServers
  BY <1>1, <1>2, <1>3, <1>4 DEF Lists!WhitelistAfter, r
<1>6. page = "ops" => Lists!OpsAfter(c) \subseteq ListServers
  <2> SUFFICES ASSUME page = "ops" PROVE Lists!OpsAfter(c) \subseteq ListServers
    OBVIOUS
  <2>1. ASSUME NEW row \in {Lists!Held(r)} \ {Lists!NoRow}, c.kind = "text"
        PROVE  [Lists!Put(r, [row EXCEPT !.text = c.value.text]) EXCEPT !.stale = TRUE] \in ListServers
    <3>1. [row EXCEPT !.text = c.value.text] \in Lists!Row
      BY <1>2, <1>3, <2>1, ListRowFields
    <3>2. Lists!Put(r, [row EXCEPT !.text = c.value.text]) \in ListServers
      BY <1>2, <3>1
    <3> QED
      BY <3>2 DEF ListServers
  <2>2. c.kind = "text" => {[Lists!Put(r, [row EXCEPT !.text = c.value.text]) EXCEPT !.stale = TRUE] :
                              row \in {Lists!Held(r)} \ {Lists!NoRow}} \subseteq ListServers
    BY <2>1
  <2>3. c.kind = "add" => {Lists!Put(r, Lists!Added(c))} \subseteq ListServers
    BY <1>2, <1>4
  <2>4. {Lists!Put(r, Lists!NoRow)} \subseteq ListServers
          /\ {[server EXCEPT !.stale = FALSE]} \subseteq ListServers /\ {server} \subseteq ListServers
    BY <1>1, <1>2
  <2> QED
    BY <2>2, <2>3, <2>4, Zenon DEF Lists!OpsAfter, r
<1>7. Lists!BackupsAfter(c) \subseteq ListServers
  BY <1>1, <1>2 DEF Lists!BackupsAfter, r
<1>8. Lists!TasksAfter(c) \subseteq ListServers
  BY <1>1, <1>2, <1>3 DEF Lists!TasksAfter, r
<1>9. page = "plugins" => Lists!PluginsAfter(c) \subseteq ListServers
  <2>1. c.kind = "add" => Lists!JarInstalled(r) \in ListServers
    <3>1. [Lists!Fresh EXCEPT !.on = TRUE, !.text = IF Lists!JarThere(r, FALSE) THEN 1 ELSE 0] \in Lists!Row
      <4>1. (IF Lists!JarThere(r, FALSE) THEN 1 ELSE 0) \in {0, 1}
        OBVIOUS
      <4> QED
        BY <4>1, ListFreshRow, ListRowFields
    <3> QED
      BY <1>2, <3>1 DEF Lists!JarInstalled
  <2>2. ASSUME NEW on \in BOOLEAN, Lists!JarThere(r, on)
        PROVE  Lists!JarRenamed(r, on) \in ListServers /\ Lists!JarDeleted(r, on) \in ListServers
    <3>1. (~on) \in BOOLEAN /\ Lists!Held(r) \in Lists!Row
      BY <1>2, <2>2 DEF Lists!JarThere
    <3>2. [Lists!Held(r) EXCEPT !.on = ~on, !.text = 0] \in Lists!Row
      BY <3>1, ListRowFields
    <3> QED
      BY <1>2, <3>2 DEF Lists!JarRenamed, Lists!JarDeleted
  <2>3. c.kind = "remove" /\ page = "plugins" => c.value.on \in BOOLEAN
    BY <1>3, ListRowFields
  <2>4. ASSUME NEW x \in Lists!PluginsAfter(c)
        PROVE  \/ c.kind = "add" /\ x = Lists!JarInstalled(r)
               \/ c.kind = "on" /\ Lists!JarThere(r, c.value.on) /\ x = Lists!JarRenamed(r, c.value.on)
               \/ c.kind = "remove" /\ Lists!JarThere(r, c.value.on) /\ x = Lists!JarDeleted(r, c.value.on)
               \/ x = server
    BY Zenon DEF Lists!PluginsAfter, r
  <2>5. page = "plugins" => \A x \in Lists!PluginsAfter(c) : x \in ListServers
    BY <1>1, <1>3, <2>1, <2>2, <2>3, <2>4, Zenon
  <2> QED
    BY <2>5
<1>10. Lists!UsersAfter(c) \subseteq ListServers
  <2>1. [on |-> TRUE, text |-> 1, root |-> 0] \in Lists!Row
    BY DEF Lists!Row
  <2>2. ASSUME Lists!Held(r) # Lists!NoRow
        PROVE  /\ [Lists!Held(r) EXCEPT !.on = FALSE] \in Lists!Row
               /\ c.kind = "text" => [Lists!Held(r) EXCEPT !.text = c.value.text] \in Lists!Row
               /\ c.kind = "root" => [Lists!Held(r) EXCEPT !.root = c.value.root] \in Lists!Row
    BY <1>2, <1>3, <2>2, ListRowFields
  <2>3. ASSUME NEW x \in Lists!UsersAfter(c)
        PROVE  \/ x = server
               \/ c.kind = "add" /\ x = Lists!Put(r, c.value)
               \/ x = Lists!Put(r, Lists!NoRow)
               \/ x = Lists!Put(r, [on |-> TRUE, text |-> 1, root |-> 0])
               \/ Lists!Held(r) # Lists!NoRow /\ x = Lists!Put(r, [Lists!Held(r) EXCEPT !.on = FALSE])
               \/ Lists!Held(r) # Lists!NoRow /\ c.kind = "text"
                    /\ x = Lists!Put(r, [Lists!Held(r) EXCEPT !.text = c.value.text])
               \/ Lists!Held(r) # Lists!NoRow /\ c.kind = "root"
                    /\ x = Lists!Put(r, [Lists!Held(r) EXCEPT !.root = c.value.root])
    <3> DEFINE gone == Lists!Put(r, Lists!NoRow)
               made == Lists!Put(r, c.value)
               promoted == Lists!Put(r, [on |-> TRUE, text |-> 1, root |-> 0])
               demoted == Lists!Put(r, [Lists!Held(r) EXCEPT !.on = FALSE])
               edited == Lists!Put(r, [Lists!Held(r) EXCEPT !.text = c.value.text])
               rooted == Lists!Put(r, [Lists!Held(r) EXCEPT !.root = c.value.root])
               changed == Lists!UserChanged(c, Lists!Held(r))
    <3>1. \/ x = server
          \/ c.kind = "add" /\ x = made
          \/ Lists!Held(r) # Lists!NoRow /\ x \in changed
      <4>1. CASE c.kind = "list"
        <5>1. Lists!UsersAfter(c) = {server}
          BY <4>1 DEF Lists!UsersAfter
        <5> QED
          BY <2>3, <5>1, Zenon
      <4>2. CASE c.kind = "add"
        <5>1. Lists!UsersAfter(c) = IF Lists!Held(r) = Lists!NoRow THEN {made} ELSE {}
          BY <4>2 DEF Lists!UsersAfter, r
        <5> QED
          BY <2>3, <4>2, <5>1, Zenon
      <4>3. CASE c.kind \notin {"list", "add"}
        <5>1. Lists!UsersAfter(c) = IF Lists!Held(r) = Lists!NoRow THEN {} ELSE changed
          BY <4>3 DEF Lists!UsersAfter, r
        <5> QED
          BY <2>3, <5>1, Zenon
      <4> QED
        BY <4>1, <4>2, <4>3
    <3>2. ASSUME x \in changed
          PROVE  \/ x = server \/ x = gone \/ x = promoted \/ x = demoted
                 \/ c.kind = "text" /\ x = edited
                 \/ c.kind = "root" /\ x = rooted
      <4>1. CASE c.kind = "remove"
        <5>1. changed = IF Lists!OnlyAdmin(r) THEN {} ELSE {gone}
          BY <4>1 DEF Lists!UserChanged, r
        <5> QED
          BY <3>2, <5>1, Zenon
      <4>2. CASE c.kind = "on"
        <5>1. changed = IF c.value.on THEN {promoted} ELSE IF Lists!OnlyAdmin(r) THEN {} ELSE {demoted}
          BY <4>2 DEF Lists!UserChanged, r
        <5> QED
          BY <3>2, <5>1, Zenon
      <4>3. CASE c.kind = "text"
        <5>1. changed = {IF Lists!Held(r).on THEN server ELSE edited}
          BY <4>3 DEF Lists!UserChanged, r
        <5>2. x = IF Lists!Held(r).on THEN server ELSE edited
          BY <3>2, <5>1, Zenon
        <5> HIDE DEF edited
        <5>3. x = server \/ x = edited
          BY <5>2
        <5> QED
          BY <4>3, <5>3, Zenon
      <4>4. CASE c.kind = "root"
        <5>1. changed = {rooted}
          BY <4>4 DEF Lists!UserChanged, r
        <5> QED
          BY <3>2, <4>4, <5>1, Zenon
      <4>5. CASE c.kind \notin {"remove", "on", "text", "root"}
        <5>1. changed = {server}
          BY <4>5 DEF Lists!UserChanged
        <5> QED
          BY <3>2, <5>1, Zenon
      <4> QED
        BY <4>1, <4>2, <4>3, <4>4, <4>5
    <3> HIDE DEF gone, made, promoted, demoted, edited, rooted, changed
    <3>3. \/ x = server
          \/ c.kind = "add" /\ x = made
          \/ x = gone
          \/ x = promoted
          \/ Lists!Held(r) # Lists!NoRow /\ x = demoted
          \/ Lists!Held(r) # Lists!NoRow /\ c.kind = "text" /\ x = edited
          \/ Lists!Held(r) # Lists!NoRow /\ c.kind = "root" /\ x = rooted
      BY <3>1, <3>2
    <3> QED
      BY <3>3, Zenon DEF gone, made, promoted, demoted, edited, rooted
  <2>4. \A x \in Lists!UsersAfter(c) : x \in ListServers
    BY <1>1, <1>2, <1>3, <2>1, <2>2, <2>3, Zenon
  <2> QED
    BY <2>4
<1>11. /\ page = "whitelist" => Lists!After(c) = Lists!WhitelistAfter(c)
       /\ page = "ops" => Lists!After(c) = Lists!OpsAfter(c)
       /\ page = "backups" => Lists!After(c) = Lists!BackupsAfter(c)
       /\ page = "tasks" => Lists!After(c) = Lists!TasksAfter(c)
       /\ page = "plugins" => Lists!After(c) = Lists!PluginsAfter(c)
       /\ page = "users" => Lists!After(c) = Lists!UsersAfter(c)
  BY DEF Lists!After
<1>12. page \in Lists!Tabs
  BY DEF ListTyped
<1> QED
  BY <1>5, <1>6, <1>7, <1>8, <1>9, <1>10, <1>11, <1>12 DEF Lists!Tabs


\* What is stored is carried by the answer, as it is.
LEMMA ListAnswerTyped ==
    ASSUME ListTyped, NEW s \in Slots, ListFits(calls[s]), NEW ok \in BOOLEAN, NEW doc \in Lists!Doc,
           Lists!Answer(s, ok, doc),
           server' \in ListServers
    PROVE  ListTyped'
<1> DEFINE next == [calls[s] EXCEPT !.at = "answered", !.ok = ok, !.doc = doc]
<1>1. calls' = [calls EXCEPT ![s] = next] /\ view' = view /\ page' = page
  BY DEF Lists!Answer
<1>2. ListFits(next)
  <2>1. next \in [at : {"sent", "answered"}, kind : Lists!Kinds, row : Rows, value : {calls[s].value},
                  key : {calls[s].key}, ok : BOOLEAN, doc : Lists!Doc]
    BY DEF ListFits
  <2>2. next.kind = calls[s].kind /\ next.value = calls[s].value /\ next.key = calls[s].key
    BY DEF ListFits
  <2> HIDE DEF next
  <2> QED
    BY <2>1, <2>2 DEF ListFits, ListValueFits
<1> HIDE DEF next
<1> QED
  BY <1>1, <1>2, ListSlotTyped DEF ListTyped, ListServers

LEMMA ListServeTyped ==
    ASSUME ListTyped, NEW s \in Slots, Lists!Serve(s)
    PROVE  ListTyped'
<1>1. ListFits(calls[s])
  BY DEF Lists!Serve, ListTyped, Lists!NoCall
<1>2. CASE \E after \in Lists!After(calls[s]) : server' = after
  <2>1. server' \in ListServers
    BY <1>1, <1>2, ListAfterTyped
  <2>2. Lists!AnswerDoc(calls[s]) \in Lists!Doc
    BY <2>1, ListNoDocTyped DEF Lists!AnswerDoc, ListServers
  <2> QED
    BY <1>1, <2>1, <2>2, ListNoDocTyped, ListAnswerTyped DEF Lists!Serve
<1>3. CASE UNCHANGED server /\ Lists!Answer(s, FALSE, Lists!NoDoc)
  <2>1. server' \in ListServers
    BY <1>3 DEF ListTyped, ListServers
  <2> QED
    BY <1>1, <1>3, <2>1, ListNoDocTyped, ListAnswerTyped
<1> QED
  BY <1>2, <1>3 DEF Lists!Serve

LEMMA ListElsewhereTyped ==
    ASSUME ListTyped, Lists!Elsewhere
    PROVE  ListTyped'
<1>1. PICK r \in Rows, row \in Lists!Row \union {Lists!NoRow} : server' = [server EXCEPT !.doc.rows[r] = row]
  BY ListFreshRow DEF Lists!Elsewhere
<1>2. server' \in ListServers
  BY <1>1, ListPutTyped DEF ListTyped, Lists!Put, ListServers
<1>3. view' = view /\ calls' = calls /\ page' = page
  BY DEF Lists!Elsewhere
<1> QED
  BY <1>2, <1>3, ListSightTyped DEF ListTyped, ListServers

-----------------------------------------------------------------------------
(* What arrives. *)

LEMMA ListDeliverTyped ==
    ASSUME ListTyped, NEW s \in Slots, Lists!Deliver(s)
    PROVE  ListTyped'
<1> DEFINE c == calls[s]
<1>1. ListFits(c) /\ page' = page /\ server' \in [doc : Lists!Doc, stale : BOOLEAN]
  BY DEF Lists!Deliver, Lists!Arrives, ListTyped, Lists!NoCall
<1>2. ListViewTyped(Lists!Released(c)) /\ Lists!Released(c).dialog = view.dialog
  BY DEF ListTyped, ListViewTyped, Lists!Released
<1>3. ASSUME NEW next, next = Lists!NoCall \/ ListFits(next), calls' = [calls EXCEPT ![s] = next],
             ListViewTyped(view'),
             view'.dialog = view.dialog
      PROVE  ListTyped'
  BY <1>1, <1>3, ListSlotTyped
<1>4. \A key : ListFits(Lists!List(key))
  BY ListListFits
<1>5. c.kind \in Lists!Kinds /\ c.row \in Rows /\ c.ok \in BOOLEAN /\ c.doc \in Lists!Doc
  BY <1>1 DEF ListFits
<1>6. CASE Lists!ListArrives(s)
  <2> DEFINE v == Lists!Released(c)
  <2>1. view' = [v EXCEPT !.loading = FALSE, !.failed = v.failed \/ ~c.ok,
                          !.shown = IF c.ok THEN c.doc ELSE v.shown, !.half = IF c.ok THEN {} ELSE v.half]
    BY <1>6 DEF Lists!ListArrives
  <2>2. PICK failed \in BOOLEAN : failed = (v.failed \/ ~c.ok)
    BY <1>2, <1>5 DEF ListViewTyped
  <2> HIDE DEF v
  <2>3. ListViewTyped(view') /\ view'.dialog = v.dialog
    BY <1>2, <1>5, <2>1, <2>2 DEF ListViewTyped, v
  <2> QED
    BY <1>2, <1>3, <1>6, <2>3 DEF Lists!ListArrives, Lists!Ends, v
<1>7. CASE Lists!FailureArrives(s)
  <2>1. \/ view' = [Lists!Released(c) EXCEPT !.loading = TRUE, !.failed = FALSE]
        \/ \E half : half \in {Lists!Released(c).half, Lists!Released(c).half \union {c.row}}
             /\ view' = [Lists!Released(c) EXCEPT !.half = half]
    BY <1>7 DEF Lists!FailureArrives
  <2>2. ListViewTyped(view') /\ view'.dialog = view.dialog
    <3>1. CASE view' = [Lists!Released(c) EXCEPT !.loading = TRUE, !.failed = FALSE]
      BY <1>2, <3>1 DEF ListViewTyped
    <3>2. ASSUME NEW half, half \in {Lists!Released(c).half, Lists!Released(c).half \union {c.row}},
                 view' = [Lists!Released(c) EXCEPT !.half = half]
          PROVE  ListViewTyped(view') /\ view'.dialog = view.dialog
      <4>1. half \in SUBSET Rows
        BY <1>2, <1>5, <3>2 DEF ListViewTyped
      <4> QED
        BY <1>2, <3>2, <4>1 DEF ListViewTyped
    <3> QED
      BY <2>1, <3>1, <3>2
  <2> QED
    BY <1>3, <1>4, <1>7, <2>2 DEF Lists!FailureArrives, Lists!Ends, Lists!Continues
<1>8. CASE Lists!DocumentArrives(s)
  <2>1. Lists!BannerAfter(c) \in {"none", "shown", view.banner}
    BY DEF Lists!BannerAfter
  <2>2. PICK shown \in {Lists!Released(c).shown, c.doc}, banner \in {"none", "shown", "dismissed"} :
          view' = [Lists!Released(c) EXCEPT !.shown = shown, !.banner = banner]
    BY <1>8, <2>1 DEF Lists!DocumentArrives, ListTyped, ListViewTyped
  <2>3. ListViewTyped(view') /\ view'.dialog = view.dialog
    BY <1>2, <1>5, <2>2 DEF ListViewTyped
  <2> QED
    BY <1>3, <1>8, <2>3 DEF Lists!DocumentArrives, Lists!Ends
<1>9. CASE Lists!EffectArrives(s)
  <2> DEFINE modal == IF c.key = <<"modal">> THEN "none" ELSE view.modal
             busy == IF c.key \in {<<"modal">>, <<"drop">>} THEN view.busy \ {c.key} ELSE view.busy
  <2>1. \/ view' = [Lists!Released(c) EXCEPT !.timer = TRUE]
        \/ view' = [view EXCEPT !.loading = TRUE, !.failed = FALSE, !.modal = modal, !.busy = busy]
    BY <1>9 DEF Lists!EffectArrives
  <2>2. ListViewTyped(view') /\ view'.dialog = view.dialog
    <3>1. modal \in {"none", view.modal}
      OBVIOUS
    <3> HIDE DEF modal, busy
    <3> QED
      BY <1>2, <2>1, <3>1 DEF ListTyped, ListViewTyped
  <2> QED
    BY <1>3, <1>4, <1>9, <2>2 DEF Lists!EffectArrives, Lists!Ends, Lists!Continues
<1>10. CASE Lists!AccountArrives(s)
  <2> DEFINE v == Lists!Released(c)
             row == IF c.kind = "touch" \/ (c.kind # "add" /\ v.shown.rows[c.row] = Lists!NoRow) THEN v.shown.rows[c.row]
                    ELSE IF c.kind = "remove" THEN Lists!NoRow ELSE c.doc.rows[c.row]
             modal == IF c.kind \in {"text", "root"} THEN "none" ELSE v.modal
             half == IF c.kind = "touch" THEN v.half ELSE v.half \ {c.row}
             Goes == Lists!Ends(s) /\ view' = [v EXCEPT !.shown.rows[c.row] = row, !.modal = modal, !.half = half]
  <2>0. \/ Lists!Continues(s, [c EXCEPT !.kind = "root", !.at = "sent"]) /\ UNCHANGED view /\ c.kind = "text"
             /\ page = "users"
        \/ Goes
    BY <1>10, Zenon DEF Lists!AccountArrives
  <2>1. CASE Lists!Continues(s, [c EXCEPT !.kind = "root", !.at = "sent"]) /\ UNCHANGED view /\ c.kind = "text"
             /\ page = "users"
    <3>1. ListFits([c EXCEPT !.kind = "root", !.at = "sent"])
      BY <1>1, <2>1 DEF ListFits, ListValueFits, Lists!Kinds
    <3> QED
      BY <1>3, <2>1, <3>1 DEF Lists!Continues, ListTyped
  <2>2. CASE Goes
    <3>1. Lists!Ends(s) /\ view' = [v EXCEPT !.shown.rows[c.row] = row, !.modal = modal, !.half = half]
      BY <2>2, Zenon
    <3>2. v.shown.rows[c.row] \in Lists!Row \union {Lists!NoRow}
            /\ c.doc.rows[c.row] \in Lists!Row \union {Lists!NoRow}
      BY <1>2, <1>5, ListRowsTyped DEF ListViewTyped
    <3>3. row \in Lists!Row \union {Lists!NoRow}
      BY <3>2
    <3>4. modal \in Rows \union {"none", "new"} /\ half \in SUBSET Rows
      BY <1>2 DEF ListViewTyped
    <3> HIDE DEF row, modal, half, v
    <3>5. [v.shown EXCEPT !.rows[c.row] = row] \in Lists!Doc
      BY <1>2, <1>5, <3>3, ListRowsTyped DEF ListViewTyped, v
    <3>6. view' = [v EXCEPT !.shown = [v.shown EXCEPT !.rows[c.row] = row], !.modal = modal, !.half = half]
      BY <3>1
    <3>7. ListViewTyped(view') /\ view'.dialog = v.dialog
      BY <1>2, <3>4, <3>5, <3>6 DEF ListViewTyped, v
    <3> QED
      BY <1>2, <1>3, <3>1, <3>7 DEF Lists!Ends, v
  <2> QED
    BY <2>1, <2>2, <2>0, Zenon
<1> QED
  BY <1>6, <1>7, <1>8, <1>9, <1>10 DEF Lists!Deliver

LEMMA ListInitTyped == Lists!Init => ListTyped
<1> SUFFICES ASSUME Lists!Init PROVE ListTyped
  OBVIOUS
<1>1. page \in Lists!Tabs /\ \E s : calls = [t \in Slots |-> IF t = s THEN Lists!List(Lists!NoKey) ELSE Lists!NoCall]
  BY DEF Lists!Init
<1>2. PICK others \in {Lists!NoRow, Lists!Fresh} :
        server = [doc |-> [rows |-> [r \in Rows |-> IF r = Me THEN [Lists!Fresh EXCEPT !.on = TRUE] ELSE others],
                           flag |-> FALSE], stale |-> FALSE]
  BY DEF Lists!Init
<1>3. server \in [doc : Lists!Doc, stale : BOOLEAN]
  <2>1. [Lists!Fresh EXCEPT !.on = TRUE] \in Lists!Row /\ others \in Lists!Row \union {Lists!NoRow}
    BY <1>2, ListFreshRow
  <2>2. [r \in Rows |-> IF r = Me THEN [Lists!Fresh EXCEPT !.on = TRUE] ELSE others] \in [Rows -> Lists!Row \union {Lists!NoRow}]
    BY <2>1
  <2> QED
    BY <1>2, <2>2 DEF Lists!Doc
<1>4. ListViewTyped(view) /\ view.dialog = Lists!NoCall
  BY ListNoDocTyped DEF Lists!Init, ListViewTyped
<1> QED
  BY <1>1, <1>3, <1>4, ListListFits DEF ListTyped

LEMMA ListNextTyped ==
    ASSUME ListTyped, ListsStep
    PROVE  ListTyped'
<1>1. CASE UNCHANGED vars
  BY <1>1, ListSightTyped DEF vars, ListTyped
<1> QED
  BY <1>1, ListActsTyped, ListTaskFormTyped, ListDialogTyped, ListServeTyped, ListElsewhereTyped,
     ListDeliverTyped DEF Lists!Next, ListsStep

-----------------------------------------------------------------------------
(***************************************************************************)
(* The banner of Ops: the level that waits for a restart has shown it, or  *)
(* is an answer under way, and no restart came after it.                   *)
(***************************************************************************)
ListAnnounces(i) == IF i = 0 THEN view.banner # "none" ELSE Waiting(i).kind = "text" /\ Waiting(i).ok = TRUE
ListRestarts(i) == Waiting(i).kind = "restart" /\ Waiting(i).ok = TRUE

ListAnnounced ==
    calm /\ server.stale =>
        /\ page = "ops"
        /\ \E i \in 0..Len(order) : ListAnnounces(i) /\ \A j \in i + 1..Len(order) : ~ListRestarts(j)

\* What the user does adds no answer, and takes no banner away.
ListQuietly == Untouched /\ server' = server /\ page' = page /\ (view.banner # "none" => view'.banner # "none")

LEMMA ListSendQuietly ==
    ASSUME ListTyped, NEW call, call.at = "sent", Lists!Send(call), view'.banner = view.banner
    PROVE  ListQuietly
<1>1. /\ Lists!FreeSlot \in Slots /\ calls[Lists!FreeSlot] = Lists!NoCall
      /\ calls' = [calls EXCEPT ![Lists!FreeSlot] = call]
      /\ order' = order /\ server' = server /\ page' = page
  BY ListFree DEF Lists!Send
<1>2. calls'[Lists!FreeSlot] = call /\ \A t \in Slots : t # Lists!FreeSlot => calls'[t] = calls[t]
  BY <1>1 DEF ListTyped
<1>3. calls[Lists!FreeSlot].at # "answered" /\ calls'[Lists!FreeSlot].at # "answered"
  BY <1>1, <1>2 DEF Lists!NoCall
<1> QED
  BY <1>1, <1>2, <1>3 DEF ListQuietly, Untouched

LEMMA ListActsQuietly ==
    ASSUME ListTyped, Lists!Acts \/ Lists!Confirm \/ Lists!Cancel \/ Lists!TaskForm
    PROVE  ListQuietly
<1>1. ListViewTyped(view)
  BY DEF ListTyped
<1>2. ASSUME NEW v, Lists!Shows(v), v.banner # "none" \/ v.banner = view.banner PROVE ListQuietly
  BY <1>2 DEF Lists!Shows, ListQuietly, Untouched
<1>3. ASSUME NEW call, call.at = "sent", Lists!Begin(call) PROVE ListQuietly
  <2>1. Lists!Send(call) /\ view' = [view EXCEPT !.busy = view.busy \union {call.key}]
    BY <1>3 DEF Lists!Begin
  <2>2. view'.banner = view.banner
    BY <1>1, <2>1 DEF ListViewTyped
  <2> QED
    BY <1>3, <2>1, <2>2, ListSendQuietly
<1>4. ASSUME NEW call, Lists!Ask(call) PROVE ListQuietly
  <2>1. [view EXCEPT !.dialog = call].banner = view.banner
    BY <1>1 DEF ListViewTyped
  <2> QED
    BY <1>2, <1>4, <2>1 DEF Lists!Ask
<1>5. ASSUME NEW m, Lists!Shows([view EXCEPT !.modal = m]) PROVE ListQuietly
  <2>1. [view EXCEPT !.modal = m].banner = view.banner
    BY <1>1 DEF ListViewTyped
  <2> QED
    BY <1>2, <1>5, <2>1
<1>6. \A kind, r, value, key : Lists!Call(kind, r, value, key).at = "sent" /\ Lists!List(key).at = "sent"
  BY DEF Lists!Call, Lists!List
<1>7. ASSUME Lists!Refresh(Lists!NoKey) PROVE ListQuietly
  <2>1. Lists!Send(Lists!List(Lists!NoKey)) /\ view' = [view EXCEPT !.loading = TRUE, !.failed = FALSE]
    BY <1>7 DEF Lists!Refresh
  <2>2. view'.banner = view.banner
    BY <1>1, <2>1 DEF ListViewTyped
  <2> QED
    BY <1>6, <2>1, <2>2, ListSendQuietly
<1>8. \A kind, r, value, key : Lists!Begin(Lists!Call(kind, r, value, key))
        \/ Lists!Ask(Lists!Call(kind, r, value, key)) => ListQuietly
  BY <1>3, <1>4, <1>6
<1>9. CASE Lists!WhitelistTab
  BY <1>8, <1>9 DEF Lists!WhitelistTab, Lists!WhitelistToggle, Lists!WhitelistReload, Lists!WhitelistAdd,
     Lists!WhitelistRemove
<1>10. CASE Lists!OpsTab
  <2>1. CASE Lists!Shows([view EXCEPT !.banner = "dismissed"])
    <3>1. [view EXCEPT !.banner = "dismissed"].banner # "none"
      BY <1>1 DEF ListViewTyped
    <3> QED
      BY <1>2, <2>1, <3>1
  <2> QED
    BY <1>8, <1>10, <2>1 DEF Lists!OpsTab, Lists!OpAdd, Lists!OpRemove, Lists!OpLevel, Lists!OpsRestart
<1>11. CASE Lists!BackupsTab
  BY <1>7, <1>8, <1>11 DEF Lists!BackupsTab, Lists!RunBackup, Lists!BackupDelete
<1>12. CASE Lists!BackupTimer
  <2>1. Lists!Send(Lists!List(Lists!NoKey))
          /\ view' = [view EXCEPT !.timer = FALSE, !.loading = TRUE, !.failed = FALSE]
    BY <1>12 DEF Lists!BackupTimer
  <2>2. view'.banner = view.banner
    BY <1>1, <2>1 DEF ListViewTyped
  <2> QED
    BY <1>6, <2>1, <2>2, ListSendQuietly
<1>13. CASE Lists!TasksTab
  BY <1>5, <1>8, <1>13 DEF Lists!TasksTab, Lists!TaskToggle, Lists!TaskRunNow, Lists!TaskDelete
<1>14. CASE Lists!PluginsTab
  BY <1>8, <1>14 DEF Lists!PluginsTab, Lists!PluginToggle, Lists!PluginDelete, Lists!PluginInstallUrl,
     Lists!PluginDrop
<1>15. CASE Lists!UsersTab
  <2>1. \A r : Lists!UserEdit(r) => ListQuietly
    BY <1>5, <1>8 DEF Lists!UserEdit
  <2> QED
    BY <1>8, <1>15, <2>1 DEF Lists!UsersTab, Lists!UserAdd, Lists!UserRole, Lists!UserResetPassword,
       Lists!UserRemove
<1>16. CASE Lists!Confirm
  <2>1. view.dialog.at = "sent" /\ Lists!Send(view.dialog)
        /\ view' = [view EXCEPT !.dialog = Lists!NoCall, !.busy = view.busy \union {view.dialog.key}]
    BY <1>16 DEF Lists!Confirm, ListTyped, ListAsked
  <2>2. view'.banner = view.banner
    BY <1>1, <2>1 DEF ListViewTyped
  <2> QED
    BY <2>1, <2>2, ListSendQuietly
<1>17. CASE Lists!Cancel
  <2>1. [view EXCEPT !.dialog = Lists!NoCall].banner = view.banner
    BY <1>1 DEF ListViewTyped
  <2> QED
    BY <1>2, <1>17, <2>1 DEF Lists!Cancel
<1>18. CASE Lists!TaskForm
  BY <1>5, <1>8, <1>18 DEF Lists!TaskForm, Lists!TaskSubmit
<1> QED
  BY <1>7, <1>9, <1>10, <1>11, <1>12, <1>13, <1>14, <1>15, <1>16, <1>17, <1>18 DEF Lists!Acts, Lists!Retry

LEMMA ListServeQueue ==
    ASSUME ListTyped, calm, server.stale => page = "ops", NEW s \in Slots, Lists!Serve(s)
    PROVE  /\ Appended(s) /\ view' = view /\ page' = page
           /\ calls'[s].kind = calls[s].kind
           /\ server'.stale => \/ server.stale /\ (calls'[s].kind = "restart" => ~calls'[s].ok)
                               \/ page = "ops" /\ calls'[s].kind = "text" /\ calls'[s].ok = TRUE
<1> DEFINE c == calls[s]
<1>1. ListFits(c) /\ c.at = "sent"
  BY DEF Lists!Serve, ListTyped, Lists!NoCall
<1>2. ASSUME NEW ok, NEW doc, Lists!Answer(s, ok, doc)
      PROVE  Appended(s) /\ view' = view /\ page' = page /\ calls'[s].kind = c.kind /\ calls'[s].ok = ok
  <2>1. /\ calls' = [calls EXCEPT ![s] = [calls[s] EXCEPT !.at = "answered", !.ok = ok, !.doc = doc]]
        /\ order' = Append(order, s) /\ view' = view /\ page' = page
    BY <1>2 DEF Lists!Answer
  <2>2. calls'[s] = [calls[s] EXCEPT !.at = "answered", !.ok = ok, !.doc = doc]
    BY <2>1 DEF ListTyped
  <2>3. calls' = [calls EXCEPT ![s] = calls'[s]]
    BY <2>1, <2>2
  <2>4. calls'[s].at = "answered" /\ calls'[s].kind = c.kind /\ calls'[s].ok = ok
    BY <1>1, <2>2 DEF ListFits
  <2> QED
    BY <1>1, <2>1, <2>3, <2>4 DEF Appended
<1>3. CASE UNCHANGED server /\ Lists!Answer(s, FALSE, Lists!NoDoc)
  BY <1>2, <1>3
<1>4. CASE server' \in Lists!After(c) /\ Lists!Answer(s, TRUE, Lists!AnswerDoc(c))
  <2>1. server' \in ListServers
    BY <1>1, <1>4, ListAfterTyped
  <2>2. CASE page # "ops"
    <3>1. server'.stale = server.stale
      BY <2>1, <2>2 DEF ListServers
    <3> QED
      BY <1>2, <1>4, <2>2, <3>1
  <2>3. CASE page = "ops"
    <3>1. Lists!After(c) = Lists!OpsAfter(c)
      BY <2>3 DEF Lists!After
    <3>2. c.kind = "restart" => server'.stale = FALSE
      <4>1. c.kind = "restart" => server' = [server EXCEPT !.stale = FALSE]
        BY <1>4, <3>1 DEF Lists!OpsAfter
      <4> QED
        BY <4>1 DEF ListTyped
    <3>3. c.kind \notin {"restart", "text"} => server'.stale = server.stale
      <4>1. c.kind \notin {"restart", "text"} =>
              server' \in {Lists!Put(c.row, Lists!Added(c)), Lists!Put(c.row, Lists!NoRow), server}
        BY <1>4, <3>1 DEF Lists!OpsAfter
      <4>2. \A row : Lists!Put(c.row, row).stale = server.stale
        BY DEF Lists!Put, ListTyped
      <4> QED
        BY <4>1, <4>2
    <3> QED
      BY <1>2, <1>4, <2>3, <3>2, <3>3
  <2> QED
    BY <2>2, <2>3
<1> QED
  BY <1>3, <1>4 DEF Lists!Serve

LEMMA ListDeliverQueue ==
    ASSUME ListTyped, calm, NEW s \in Slots, Lists!Deliver(s)
    PROVE  Taken(s) /\ server' = server /\ page' = page
<1>1. /\ calls[s].at = "answered" /\ Head(order) = s
      /\ order' = Tail(order) /\ server' = server /\ page' = page
  BY DEF Lists!Deliver, Lists!Arrives
<1>2. PICK next : calls' = [calls EXCEPT ![s] = next] /\ next.at # "answered"
  <2>1. \A key : Lists!List(key).at = "sent"
    BY DEF Lists!List, Lists!Call
  <2>2. ListFits(calls[s]) => [calls[s] EXCEPT !.kind = "root", !.at = "sent"].at = "sent"
    BY DEF ListFits
  <2>3. ListFits(calls[s])
    BY <1>1 DEF ListTyped, Lists!NoCall
  <2>4. \A next : Lists!Continues(s, next) => calls' = [calls EXCEPT ![s] = next]
    BY DEF Lists!Continues
  <2>5. Lists!Ends(s) => calls' = [calls EXCEPT ![s] = Lists!NoCall]
    BY DEF Lists!Ends
  <2>6. Lists!NoCall.at # "answered" /\ "sent" # "answered"
    BY DEF Lists!NoCall
  <2>7. \/ Lists!Ends(s)
        \/ \E key : Lists!Continues(s, Lists!List(key))
        \/ Lists!Continues(s, [calls[s] EXCEPT !.kind = "root", !.at = "sent"])
    BY Zenon DEF Lists!Deliver, Lists!ListArrives, Lists!FailureArrives, Lists!DocumentArrives,
       Lists!EffectArrives, Lists!AccountArrives
  <2> QED
    BY <2>1, <2>2, <2>3, <2>4, <2>5, <2>6, <2>7, Zenon
<1>3. calls'[s] = next
  BY <1>2 DEF ListTyped
<1> QED
  BY <1>1, <1>2, <1>3 DEF Taken

LEMMA ListNextQueued ==
    ASSUME ListTyped, Queued, ListAnnounced, ListsStep
    PROVE  Queued'
<1>1. calm' = calm
  <2>1. CASE UNCHANGED vars
    BY <2>1 DEF vars
  <2> QED
    BY <2>1, ListsFixed DEF ListsStep, Fixed
<1> SUFFICES ASSUME calm PROVE Queued'
  BY <1>1 DEF Queued
<1>2. calls = [t \in Slots |-> calls[t]]
  BY DEF ListTyped
<1>3. CASE UNCHANGED vars
  BY <1>3 DEF vars, Queued
<1>4. CASE Lists!Acts \/ Lists!Confirm \/ Lists!Cancel \/ Lists!TaskForm
  BY <1>1, <1>4, ListActsQuietly, RestQueued DEF ListQuietly
<1>5. ASSUME NEW s \in Slots, Lists!Serve(s) PROVE Queued'
  <2>1. Appended(s)
    BY <1>5, ListServeQueue DEF ListAnnounced
  <2> QED
    BY <1>1, <1>2, <2>1, AnswerQueued
<1>6. ASSUME NEW s \in Slots, Lists!Deliver(s) PROVE Queued'
  BY <1>1, <1>2, <1>6, ListDeliverQueue, ArrivalQueued
<1>7. ~Lists!Elsewhere
  BY DEF Lists!Elsewhere
<1> QED
  BY <1>3, <1>4, <1>5, <1>6, <1>7 DEF Lists!Next, ListsStep

LEMMA ListInitQueued == Lists!Init => Queued
<1> SUFFICES ASSUME Lists!Init PROVE Queued
  OBVIOUS
<1>1. \A s \in Slots : calls[s].at # "answered"
  <2>1. PICK s : calls = [t \in Slots |-> IF t = s THEN Lists!List(Lists!NoKey) ELSE Lists!NoCall]
    BY DEF Lists!Init
  <2> QED
    BY <2>1 DEF Lists!List, Lists!Call, Lists!NoCall
<1>2. order = <<>>
  BY DEF Lists!Init
<1> QED
  BY <1>1, <1>2, EmptySeq DEF Queued

LEMMA ListNextAnnounced ==
    ASSUME ListTyped, Queued, ListAnnounced, ListsStep
    PROVE  ListAnnounced'
<1>1. calm' = calm
  <2>1. CASE UNCHANGED vars
    BY <2>1 DEF vars
  <2> QED
    BY <2>1, ListsFixed DEF ListsStep, Fixed
<1> SUFFICES ASSUME calm, server'.stale PROVE ListAnnounced'
  BY <1>1 DEF ListAnnounced
<1>2. calls = [t \in Slots |-> calls[t]]
  BY DEF ListTyped
<1>3. order \in Seq(Slots) /\ Len(order) \in Nat
  BY QueueIs
<1>4. CASE UNCHANGED vars
  BY <1>4 DEF vars, ListAnnounced, ListAnnounces, ListRestarts, Waiting
<1>5. CASE Lists!Acts \/ Lists!Confirm \/ Lists!Cancel \/ Lists!TaskForm
  <2>0. ListQuietly
    BY <1>5, ListActsQuietly
  <2>1. PICK i \in 0..Len(order) : ListAnnounces(i) /\ \A j \in i + 1..Len(order) : ~ListRestarts(j)
    BY <2>0 DEF ListAnnounced, ListQuietly
  <2>2. order' = order /\ \A j \in 1..Len(order) : Waiting(j)' = Waiting(j)
    BY <1>1, <2>0, RestQueued DEF Untouched, ListQuietly
  <2>3. i \in 0..Len(order') /\ ListAnnounces(i)'
    BY <1>3, <2>0, <2>1, <2>2 DEF ListAnnounces, ListQuietly
  <2>4. \A j \in i + 1..Len(order') : ~ListRestarts(j)'
    BY <1>3, <2>1, <2>2 DEF ListRestarts
  <2> QED
    BY <2>0, <2>3, <2>4 DEF ListAnnounced, ListQuietly
<1>6. ASSUME NEW s \in Slots, Lists!Serve(s) PROVE ListAnnounced'
  <2>1. /\ Appended(s) /\ view' = view /\ page' = page /\ calls'[s].kind = calls[s].kind
        /\ \/ server.stale /\ (calls'[s].kind = "restart" => ~calls'[s].ok)
           \/ page = "ops" /\ calls'[s].kind = "text" /\ calls'[s].ok = TRUE
    BY <1>6, ListServeQueue DEF ListAnnounced
  <2>2. /\ Len(order') = Len(order) + 1
        /\ \A j \in 1..Len(order) : Waiting(j)' = Waiting(j)
        /\ \A j \in 1..Len(order') : j \in 1..Len(order) \/ (j = Len(order) + 1 /\ Waiting(j)' = calls'[s])
    BY <1>1, <1>2, <2>1, AnswerQueued
  <2>3. CASE page = "ops" /\ calls'[s].kind = "text" /\ calls'[s].ok = TRUE
    <3> DEFINE n == Len(order) + 1
    <3>1. n \in 1..Len(order') /\ n \notin 1..Len(order)
      BY <1>3, <2>2
    <3>2. \A j \in 1..Len(order') : j = n => Waiting(j)' = calls'[s]
      BY <2>2, <3>1
    <3>3. \A j \in 1..Len(order') : j = n => ListAnnounces(j)'
      BY <1>3, <2>3, <3>2 DEF ListAnnounces
    <3>4. n \in 0..Len(order') /\ \A j \in n + 1..Len(order') : FALSE
      BY <1>3, <2>2
    <3> HIDE DEF n
    <3>5. \E i \in 0..Len(order') : ListAnnounces(i)' /\ \A j \in i + 1..Len(order') : ~ListRestarts(j)'
      BY <3>1, <3>3, <3>4
    <3> QED
      BY <2>1, <2>3, <3>5 DEF ListAnnounced
  <2>4. CASE server.stale /\ (calls'[s].kind = "restart" => ~calls'[s].ok)
    <3>1. PICK i \in 0..Len(order) : ListAnnounces(i) /\ \A j \in i + 1..Len(order) : ~ListRestarts(j)
      BY <2>4 DEF ListAnnounced
    <3>2. i \in 0..Len(order') /\ ListAnnounces(i)'
      BY <1>3, <2>1, <2>2, <3>1 DEF ListAnnounces
    <3>3. ASSUME NEW j \in i + 1..Len(order') PROVE ~ListRestarts(j)'
      <4>1. j \in 1..Len(order')
        BY <1>3, <2>2, <3>1
      <4>2. CASE j \in 1..Len(order)
        <5>1. j \in i + 1..Len(order) /\ Waiting(j)' = Waiting(j)
          BY <1>3, <2>2, <3>1, <4>2
        <5> QED
          BY <3>1, <5>1 DEF ListRestarts
      <4>3. CASE j = Len(order) + 1 /\ Waiting(j)' = calls'[s]
        BY <2>4, <4>3 DEF ListRestarts
      <4> QED
        BY <2>2, <4>1, <4>2, <4>3
    <3> QED
      BY <2>1, <2>4, <3>2, <3>3 DEF ListAnnounced
  <2> QED
    BY <2>1, <2>3, <2>4
<1>7. ASSUME NEW s \in Slots, Lists!Deliver(s) PROVE ListAnnounced'
  <2>1. Taken(s) /\ server' = server /\ page' = page
    BY <1>7, ListDeliverQueue
  <2>2. /\ Len(order) # 0 /\ Waiting(1) = calls[s] /\ Len(order') = Len(order) - 1
        /\ \A j \in 1..Len(order') : j + 1 \in 1..Len(order) /\ Waiting(j)' = Waiting(j + 1)
    BY <1>1, <1>2, <2>1, ArrivalQueued
  <2>3. PICK i \in 0..Len(order) : page = "ops" /\ ListAnnounces(i)
          /\ \A j \in i + 1..Len(order) : ~ListRestarts(j)
    BY <2>1 DEF ListAnnounced
  <2>4. /\ \/ view'.banner = view.banner \/ view'.banner = "shown"
           \/ Waiting(1).kind = "restart" /\ Waiting(1).ok = TRUE
        /\ calls[s].kind = "text" /\ calls[s].ok = TRUE => view'.banner = "shown"
    <3>1. ListFits(calls[s])
      BY <2>1 DEF Taken, ListTyped, Lists!NoCall
    <3>2. ListViewTyped(Lists!Released(calls[s])) /\ Lists!Released(calls[s]).banner = view.banner
      BY DEF ListTyped, ListViewTyped, Lists!Released
    <3>3. CASE Lists!ListArrives(s)
      BY <3>2, <3>3 DEF Lists!ListArrives, ListViewTyped
    <3>4. CASE Lists!FailureArrives(s)
      <4>1. \/ view' = [Lists!Released(calls[s]) EXCEPT !.loading = TRUE, !.failed = FALSE]
            \/ \E half : view' = [Lists!Released(calls[s]) EXCEPT !.half = half]
        BY <3>4 DEF Lists!FailureArrives
      <4>2. ~calls[s].ok
        BY <3>4 DEF Lists!FailureArrives
      <4> QED
        BY <3>2, <4>1, <4>2 DEF ListViewTyped
    <3>5. CASE Lists!DocumentArrives(s)
      <4>1. PICK shown : view' = [Lists!Released(calls[s]) EXCEPT !.shown = shown, !.banner = Lists!BannerAfter(calls[s])]
        BY <3>5 DEF Lists!DocumentArrives
      <4>2. view'.banner = Lists!BannerAfter(calls[s]) /\ calls[s].ok
        BY <3>2, <3>5, <4>1 DEF ListViewTyped, Lists!DocumentArrives
      <4> QED
        BY <2>2, <3>1, <4>2 DEF Lists!BannerAfter, ListFits
    <3> QED
      BY <1>7, <2>3, <3>3, <3>4, <3>5 DEF Lists!Deliver, Lists!EffectArrives, Lists!AccountArrives
  <2>5. CASE i \in {0, 1}
    <3>1. view'.banner # "none"
      <4>1. CASE i = 0
        <5>1. 1 \in i + 1..Len(order)
          BY <1>3, <2>2, <4>1
        <5> QED
          BY <2>3, <2>4, <4>1, <5>1 DEF ListAnnounces, ListRestarts
      <4>2. CASE i = 1
        <5>1. calls[s].kind = "text" /\ calls[s].ok = TRUE
          BY <2>2, <2>3, <4>2 DEF ListAnnounces
        <5> QED
          BY <2>4, <5>1
      <4> QED
        BY <2>5, <4>1, <4>2
    <3>2. ASSUME NEW j \in 1..Len(order') PROVE ~ListRestarts(j)'
      <4>1. j + 1 \in i + 1..Len(order) /\ Waiting(j)' = Waiting(j + 1)
        BY <1>3, <2>2, <2>5
      <4> QED
        BY <2>3, <4>1 DEF ListRestarts
    <3>3. 0 \in 0..Len(order')
      BY <1>3, <2>2
    <3>4. \A k \in 0..Len(order') : k = 0 =>
            ListAnnounces(k)' /\ \A j \in k + 1..Len(order') : ~ListRestarts(j)'
      BY <3>1, <3>2 DEF ListAnnounces
    <3>5. \E k \in 0..Len(order') : ListAnnounces(k)' /\ \A j \in k + 1..Len(order') : ~ListRestarts(j)'
      BY <3>3, <3>4
    <3> QED
      BY <2>1, <2>3, <3>5 DEF ListAnnounced
  <2>6. CASE i \notin {0, 1}
    <3>1. i - 1 \in 1..Len(order') /\ i - 1 + 1 = i /\ i - 1 \in 0..Len(order') /\ i - 1 # 0
      BY <1>3, <2>2, <2>6
    <3>2. \A k \in 1..Len(order') : k + 1 = i => ListAnnounces(k)'
      BY <1>3, <2>2, <2>3 DEF ListAnnounces
    <3>3. ASSUME NEW j \in i - 1 + 1..Len(order') PROVE ~ListRestarts(j)'
      <4>1. j \in 1..Len(order') /\ j + 1 \in i + 1..Len(order) /\ Waiting(j)' = Waiting(j + 1)
        BY <1>3, <2>2, <3>1
      <4> QED
        BY <2>3, <4>1 DEF ListRestarts
    <3>4. \E k \in 0..Len(order') : ListAnnounces(k)' /\ \A j \in k + 1..Len(order') : ~ListRestarts(j)'
      BY <3>1, <3>2, <3>3
    <3> QED
      BY <2>1, <2>3, <3>4 DEF ListAnnounced
  <2> QED
    BY <2>5, <2>6
<1>8. ~Lists!Elsewhere
  BY DEF Lists!Elsewhere
<1> QED
  BY <1>4, <1>5, <1>6, <1>7, <1>8 DEF Lists!Next, ListsStep

LEMMA ListInitAnnounced == Lists!Init => ListAnnounced
<1> SUFFICES ASSUME Lists!Init PROVE ~server.stale
  BY DEF ListAnnounced
<1>1. \E d : server = [doc |-> d, stale |-> FALSE]
  BY DEF Lists!Init
<1> QED
  BY <1>1

LEMMA ListBannerShown ==
    ASSUME Queued, ListAnnounced, calm
    PROVE  Lists!RestartAnnounced
<1> SUFFICES ASSUME Lists!Quiet, server.stale PROVE view.banner # "none"
  BY DEF Lists!RestartAnnounced
<1>1. Len(order) \in Nat /\ \A i \in 1..Len(order) : order[i] \in Slots /\ calls[order[i]].at = "answered"
  BY QueueIs
<1>2. \A i \in 1..Len(order) : FALSE
  BY <1>1 DEF Lists!Quiet, Lists!NoCall
<1>3. Len(order) = 0
  BY <1>1, <1>2
<1> QED
  BY <1>3 DEF ListAnnounced, ListAnnounces

(***************************************************************************)
(* What a list has, part by part: its rows, and its flag.                  *)
(***************************************************************************)
ListFlag == CHOOSE f : f \notin Rows
ListParts == Rows \union {ListFlag}
ListPart(doc, x) == IF x = ListFlag THEN doc.flag ELSE doc.rows[x]

LEMMA ListFlagApart == ListFlag \notin Rows
<1> DEFINE odd == {r \in Rows : r \notin r}
<1>1. odd \notin Rows
  <2>1. odd \in Rows => (odd \in odd <=> odd \notin odd)
    OBVIOUS
  <2> QED
    BY <2>1
<1>2. \E f : f \notin Rows
  BY <1>1
<1> QED
  BY <1>2, Zenon DEF ListFlag

(***************************************************************************)
(* An answer that brings a part to the view, and one that has the part     *)
(* loaded again or says that it may have changed.                          *)
(***************************************************************************)
ListBrings(c, x) ==
    /\ c.ok = TRUE
    /\ \/ c.kind = "list"
       \/ page \in {"whitelist", "ops"} /\ c.kind # "restart"
       \/ page = "users" /\ c.row = x /\ c.kind # "touch"

ListRedoes(c, x) ==
    \/ c.kind = "list"
    \/ page \in {"whitelist", "ops"} /\ c.ok = TRUE /\ c.kind # "restart"
    \/ page \in {"backups", "tasks", "plugins"} /\ c.ok = TRUE /\ c.key # <<"run">>
    \/ page = "users" /\ c.row = x /\ (c.kind = "root" \/ (c.ok = TRUE /\ c.kind # "touch"))

\* A request that will bring the part.
ListFetches(c, x) ==
    /\ c # Lists!NoCall /\ c.at = "sent"
    /\ c.kind = "list" \/ (page = "users" /\ c.kind = "root" /\ c.row = x)

\* Only the button of the backups has this key.
ListNotRun(c) == c # Lists!NoCall /\ c.key = <<"run">> => c.kind = "touch"
ListRunKeyed == (\A s \in Slots : ListNotRun(calls[s])) /\ ListNotRun(view.dialog)

-----------------------------------------------------------------------------
(* What the steps of a calm tab do to what is shown and to the requests. *)

ListSteady == view'.shown = view.shown /\ view'.half = view.half

ListIdle ==
    /\ calls' = calls /\ order' = order /\ server' = server
    /\ ListSteady /\ view'.failed = view.failed

ListAsks(s, new) ==
    /\ calls[s] = Lists!NoCall /\ calls' = [calls EXCEPT ![s] = new] /\ order' = order /\ server' = server
    /\ new # Lists!NoCall /\ new.at = "sent"
    /\ ListSteady /\ (view'.failed = view.failed \/ new.kind = "list")

ListServed(s) ==
    /\ calls[s] # Lists!NoCall /\ calls[s].at = "sent" /\ calls' = [calls EXCEPT ![s] = calls'[s]]
    /\ order' = Append(order, s) /\ view' = view
    /\ calls'[s] # Lists!NoCall /\ calls'[s].at = "answered"
    /\ calls'[s].kind = calls[s].kind /\ calls'[s].row = calls[s].row /\ calls'[s].key = calls[s].key
    /\ calls'[s].value = calls[s].value

ListFollows(s, next) ==
    /\ calls[s] # Lists!NoCall /\ calls[s].at = "answered" /\ calls' = [calls EXCEPT ![s] = next]
    /\ server' = server
    /\ next # Lists!NoCall => next.at = "sent"
    /\ \A x \in ListParts :
         \/ ListFetches(next, x)
         \/ view'.failed \/ x \in view'.half
         \/ ListBrings(calls[s], x) /\ ListPart(view'.shown, x) = ListPart(calls[s].doc, x)
         \/ /\ ~ListRedoes(calls[s], x) /\ ListPart(view'.shown, x) = ListPart(view.shown, x)
            /\ ~view.failed /\ x \notin view.half

LEMMA ListCallIs ==
    ASSUME NEW kind, NEW r, NEW value, NEW key
    PROVE  /\ Lists!Call(kind, r, value, key) # Lists!NoCall /\ Lists!Call(kind, r, value, key).at = "sent"
           /\ Lists!Call(kind, r, value, key).kind = kind /\ Lists!Call(kind, r, value, key).row = r
           /\ Lists!Call(kind, r, value, key).value = value /\ Lists!Call(kind, r, value, key).key = key
  BY DEF Lists!Call, Lists!NoCall

LEMMA ListListIs ==
    \A key : Lists!List(key) # Lists!NoCall /\ Lists!List(key).at = "sent" /\ Lists!List(key).kind = "list"
      /\ Lists!List(key).key = key
  BY ListCallIs DEF Lists!List

LEMMA ListOneSlot ==
    ASSUME ListTyped, NEW s \in Slots, NEW new, calls' = [calls EXCEPT ![s] = new]
    PROVE  calls'[s] = new /\ \A t \in Slots : t # s => calls'[t] = calls[t]
  BY DEF ListTyped

LEMMA ListViewIs == ListTyped => ListViewTyped(view)
  BY DEF ListTyped

-----------------------------------------------------------------------------
(* What the user does. *)

LEMMA ListSendAsks ==
    ASSUME ListTyped, NEW new, Lists!Send(new), new # Lists!NoCall, new.at = "sent", ListSteady,
           view'.failed = view.failed \/ new.kind = "list"
    PROVE  \E s \in Slots : ListAsks(s, new)
<1>1. Lists!FreeSlot \in Slots /\ calls[Lists!FreeSlot] = Lists!NoCall
        /\ calls' = [calls EXCEPT ![Lists!FreeSlot] = new]
  BY ListFree
<1>2. order' = order /\ server' = server
  BY DEF Lists!Send
<1>3. ListAsks(Lists!FreeSlot, new)
  BY <1>1, <1>2 DEF ListAsks
<1> QED
  BY <1>1, <1>3

LEMMA ListBeginAsks ==
    ASSUME ListTyped, NEW new, Lists!Begin(new), new # Lists!NoCall, new.at = "sent"
    PROVE  \E s \in Slots : ListAsks(s, new)
<1>1. Lists!Send(new) /\ view' = [view EXCEPT !.busy = view.busy \union {new.key}]
  BY DEF Lists!Begin
<1>2. ListSteady /\ view'.failed = view.failed
  BY <1>1, ListViewIs DEF ListViewTyped, ListSteady
<1> QED
  BY <1>1, <1>2, ListSendAsks

LEMMA ListShowsIdle ==
    ASSUME ListTyped, NEW v, Lists!Shows(v), v.shown = view.shown, v.half = view.half, v.failed = view.failed
    PROVE  ListIdle
  BY DEF Lists!Shows, ListIdle, ListSteady

LEMMA ListAskIdle ==
    ASSUME ListTyped, NEW call, Lists!Ask(call)
    PROVE  ListIdle
<1> DEFINE v == [view EXCEPT !.dialog = call]
<1>1. v.shown = view.shown /\ v.half = view.half /\ v.failed = view.failed
  BY ListViewIs DEF ListViewTyped
<1> HIDE DEF v
<1> QED
  BY <1>1, ListShowsIdle DEF Lists!Ask, v

LEMMA ListModalIdle ==
    ASSUME ListTyped, NEW m, Lists!Shows([view EXCEPT !.modal = m])
    PROVE  ListIdle
<1> DEFINE v == [view EXCEPT !.modal = m]
<1>1. v.shown = view.shown /\ v.half = view.half /\ v.failed = view.failed
  BY ListViewIs DEF ListViewTyped
<1> HIDE DEF v
<1> QED
  BY <1>1, ListShowsIdle DEF v

\* Begin and Ask with any request of a handler.
LEMMA ListButtonAsks ==
    ASSUME ListTyped, NEW kind, NEW r, NEW value, NEW key,
           Lists!Begin(Lists!Call(kind, r, value, key)) \/ Lists!Ask(Lists!Call(kind, r, value, key))
    PROVE  ListIdle \/ \E s \in Slots : ListAsks(s, Lists!Call(kind, r, value, key))
  BY ListCallIs, ListBeginAsks, ListAskIdle

LEMMA ListLoadAsks ==
    ASSUME ListTyped, Lists!Refresh(Lists!NoKey) \/ Lists!BackupTimer
    PROVE  \E s \in Slots : ListAsks(s, Lists!List(Lists!NoKey))
<1>1. Lists!Send(Lists!List(Lists!NoKey)) /\ ListSteady
  <2>1. CASE Lists!Refresh(Lists!NoKey)
    BY <2>1, ListViewIs DEF Lists!Refresh, ListViewTyped, ListSteady
  <2>2. CASE Lists!BackupTimer
    BY <2>2, ListViewIs DEF Lists!BackupTimer, ListViewTyped, ListSteady
  <2> QED
    BY <2>1, <2>2
<1> QED
  BY <1>1, ListListIs, ListSendAsks

LEMMA ListUserAsks ==
    ASSUME ListTyped, Lists!Acts \/ Lists!Confirm \/ Lists!Cancel \/ Lists!TaskForm
    PROVE  ListIdle \/ \E s \in Slots : \E new : ListAsks(s, new)
<1>1. \A kind, r, value, key :
        Lists!Begin(Lists!Call(kind, r, value, key)) \/ Lists!Ask(Lists!Call(kind, r, value, key)) =>
          ListIdle \/ \E s \in Slots : \E new : ListAsks(s, new)
  BY ListButtonAsks, Zenon
<1>2. CASE Lists!WhitelistTab
  BY <1>1, <1>2 DEF Lists!WhitelistTab, Lists!WhitelistToggle, Lists!WhitelistReload, Lists!WhitelistAdd,
     Lists!WhitelistRemove
<1>3. CASE Lists!OpsTab
  <2>1. CASE Lists!Shows([view EXCEPT !.banner = "dismissed"])
    <3> DEFINE v == [view EXCEPT !.banner = "dismissed"]
    <3>1. v.shown = view.shown /\ v.half = view.half /\ v.failed = view.failed
      BY ListViewIs DEF ListViewTyped
    <3> HIDE DEF v
    <3> QED
      BY <2>1, <3>1, ListShowsIdle DEF v
  <2> QED
    BY <1>1, <1>3, <2>1 DEF Lists!OpsTab, Lists!OpAdd, Lists!OpRemove, Lists!OpLevel, Lists!OpsRestart
<1>4. CASE Lists!BackupsTab \/ Lists!BackupTimer
  BY <1>1, <1>4, ListLoadAsks DEF Lists!BackupsTab, Lists!RunBackup, Lists!BackupDelete
<1>5. CASE Lists!TasksTab
  BY <1>1, <1>5, ListModalIdle DEF Lists!TasksTab, Lists!TaskToggle, Lists!TaskRunNow, Lists!TaskDelete
<1>6. CASE Lists!PluginsTab
  BY <1>1, <1>6 DEF Lists!PluginsTab, Lists!PluginToggle, Lists!PluginDelete, Lists!PluginInstallUrl,
     Lists!PluginDrop
<1>7. CASE Lists!UsersTab
  <2>1. \A r : Lists!UserEdit(r) => ListIdle \/ \E s \in Slots : \E new : ListAsks(s, new)
    BY <1>1, ListModalIdle DEF Lists!UserEdit
  <2> QED
    BY <1>1, <1>7, <2>1 DEF Lists!UsersTab, Lists!UserAdd, Lists!UserRole, Lists!UserResetPassword,
       Lists!UserRemove
<1>8. CASE Lists!Refresh(Lists!NoKey)
  BY <1>8, ListLoadAsks
<1>9. CASE Lists!TaskForm
  BY <1>1, <1>9, ListModalIdle DEF Lists!TaskForm, Lists!TaskSubmit
<1>10. CASE Lists!Confirm
  <2>1. /\ Lists!Send(view.dialog) /\ view.dialog # Lists!NoCall /\ view.dialog.at = "sent"
        /\ view' = [view EXCEPT !.dialog = Lists!NoCall, !.busy = view.busy \union {view.dialog.key}]
    BY <1>10 DEF Lists!Confirm, ListTyped, ListAsked
  <2>2. ListSteady /\ view'.failed = view.failed
    BY <2>1, ListViewIs DEF ListViewTyped, ListSteady
  <2> QED
    BY <2>1, <2>2, ListSendAsks
<1>11. CASE Lists!Cancel
  <2> DEFINE v == [view EXCEPT !.dialog = Lists!NoCall]
  <2>1. v.shown = view.shown /\ v.half = view.half /\ v.failed = view.failed
    BY ListViewIs DEF ListViewTyped
  <2> HIDE DEF v
  <2> QED
    BY <1>11, <2>1, ListShowsIdle DEF Lists!Cancel, v
<1> QED
  BY <1>2, <1>3, <1>4, <1>5, <1>6, <1>7, <1>8, <1>9, <1>10, <1>11 DEF Lists!Acts, Lists!Retry

-----------------------------------------------------------------------------
(* What the backend does. *)

LEMMA ListPutIs ==
    ASSUME ListTyped, NEW r \in Rows, NEW row
    PROVE  /\ Lists!Put(r, row).doc.flag = server.doc.flag /\ Lists!Put(r, row).doc.rows[r] = row
           /\ \A q \in Rows : q # r => Lists!Put(r, row).doc.rows[q] = server.doc.rows[q]
  BY DEF Lists!Put, ListTyped, Lists!Doc

\* A request changes at most its row, or the flag of the whitelist.
ListUntold(after, c) ==
    \/ after.doc = server.doc
    \/ \E row : after.doc = Lists!Put(c.row, row).doc
    \/ page = "whitelist" /\ c.kind = "flag" /\ after.doc.rows = server.doc.rows

LEMMA ListAfterIs ==
    ASSUME ListTyped, NEW c, ListFits(c), NEW after \in Lists!After(c)
    PROVE  /\ ListUntold(after, c)
           /\ c.kind \in {"list", "touch", "restart"} => after.doc = server.doc
           /\ page = "users" /\ c.kind = "remove" => after.doc = Lists!Put(c.row, Lists!NoRow).doc
           /\ page = "users" /\ c.kind = "add" => after.doc = Lists!Put(c.row, c.value).doc
           /\ page = "tasks" /\ c.kind = "add" => after.doc = Lists!Put(c.row, c.value).doc
           /\ page = "tasks" /\ c.kind = "put" =>
                Lists!Held(c.row) # Lists!NoRow /\ after.doc = Lists!Put(c.row, c.value).doc
           /\ page = "tasks" /\ c.kind = "remove" => after.doc = Lists!Put(c.row, Lists!NoRow).doc
<1>1. page \in Lists!Tabs /\ \E d, stale : server = [doc |-> d, stale |-> stale]
  BY DEF ListTyped
<1>2. CASE page = "whitelist"
  <2>1. after \in Lists!WhitelistAfter(c)
    BY <1>2 DEF Lists!After
  <2>2. c.kind = "flag" => after = [server EXCEPT !.doc.flag = c.value.on]
    BY <2>1 DEF Lists!WhitelistAfter
  <2>3. c.kind = "flag" => after.doc.rows = server.doc.rows
    BY <2>2 DEF ListTyped, Lists!Doc
  <2>4. \/ c.kind = "add" /\ after = Lists!Put(c.row, Lists!Added(c))
        \/ c.kind = "remove" /\ after = Lists!Put(c.row, Lists!NoRow)
        \/ c.kind = "flag"
        \/ after = server
    BY <2>1, Zenon DEF Lists!WhitelistAfter
  <2> QED
    BY <1>2, <2>3, <2>4, Zenon DEF ListUntold
<1>3. CASE page = "ops"
  <2>1. after \in Lists!OpsAfter(c)
    BY <1>3 DEF Lists!After
  <2>2. \/ c.kind = "add" /\ after = Lists!Put(c.row, Lists!Added(c))
        \/ c.kind = "remove" /\ after = Lists!Put(c.row, Lists!NoRow)
        \/ c.kind = "text" /\ \E row : after = [Lists!Put(c.row, row) EXCEPT !.stale = TRUE]
        \/ c.kind = "restart" /\ after = [server EXCEPT !.stale = FALSE]
        \/ after = server
    BY <2>1, Zenon DEF Lists!OpsAfter
  <2>3. \A row : [Lists!Put(c.row, row) EXCEPT !.stale = TRUE].doc = Lists!Put(c.row, row).doc
    BY DEF Lists!Put, ListTyped
  <2>4. [server EXCEPT !.stale = FALSE].doc = server.doc
    BY <1>1
  <2>5. \/ after.doc = server.doc
        \/ c.kind \in {"add", "remove", "text"} /\ \E row : after.doc = Lists!Put(c.row, row).doc
    BY <2>2, <2>3, <2>4, Zenon
  <2> QED
    BY <1>3, <2>5 DEF ListUntold
<1>4. CASE page = "backups"
  <2>1. after \in Lists!BackupsAfter(c)
    BY <1>4 DEF Lists!After
  <2>2. \/ c.kind = "remove" /\ after = Lists!Put(c.row, Lists!NoRow)
        \/ after = server
    BY <2>1, Zenon DEF Lists!BackupsAfter
  <2> QED
    BY <1>4, <2>2, Zenon DEF ListUntold
<1>5. CASE page = "tasks"
  <2>1. after \in Lists!TasksAfter(c)
    BY <1>5 DEF Lists!After
  <2>2. c.kind = "add" => after = Lists!Put(c.row, c.value)
    BY <2>1 DEF Lists!TasksAfter
  <2>3. c.kind = "put" => Lists!Held(c.row) # Lists!NoRow /\ after = Lists!Put(c.row, c.value)
    BY <2>1 DEF Lists!TasksAfter
  <2>4. c.kind = "remove" => after = Lists!Put(c.row, Lists!NoRow)
    BY <2>1 DEF Lists!TasksAfter
  <2>5. c.kind \notin {"add", "put", "remove"} => after = server
    BY <2>1 DEF Lists!TasksAfter
  <2> QED
    BY <1>5, <2>2, <2>3, <2>4, <2>5 DEF ListUntold
<1>6. CASE page = "plugins"
  <2>1. after \in Lists!PluginsAfter(c)
    BY <1>6 DEF Lists!After
  <2>2. \/ c.kind = "add" /\ after = Lists!JarInstalled(c.row)
        \/ c.kind = "on" /\ after = Lists!JarRenamed(c.row, c.value.on)
        \/ c.kind = "remove" /\ after = Lists!JarDeleted(c.row, c.value.on)
        \/ c.kind = "list" /\ after = server
    BY <2>1, Zenon DEF Lists!PluginsAfter
  <2>3. c.kind = "list" \/ (c.kind \in {"add", "on", "remove"} /\ \E row : after = Lists!Put(c.row, row))
    BY <2>2 DEF Lists!JarInstalled, Lists!JarRenamed, Lists!JarDeleted
  <2> QED
    BY <1>6, <2>2, <2>3 DEF ListUntold
<1>7. CASE page = "users"
  <2>1. after \in Lists!UsersAfter(c)
    BY <1>7 DEF Lists!After
  <2>2. CASE c.kind = "list"
    <3>1. after = server
      BY <2>1, <2>2 DEF Lists!UsersAfter
    <3> QED
      BY <1>7, <2>2, <3>1 DEF ListUntold
  <2>3. CASE c.kind = "add"
    <3>1. after = Lists!Put(c.row, c.value)
      BY <2>1, <2>3 DEF Lists!UsersAfter
    <3> QED
      BY <1>7, <2>3, <3>1 DEF ListUntold
  <2>4. CASE c.kind \notin {"list", "add"}
    <3>1. Lists!UsersAfter(c) = IF Lists!Held(c.row) = Lists!NoRow THEN {} ELSE Lists!UserChanged(c, Lists!Held(c.row))
      BY <2>4 DEF Lists!UsersAfter
    <3>2. after \in Lists!UserChanged(c, Lists!Held(c.row))
      BY <2>1, <3>1
    <3>3. c.kind = "remove" => after = Lists!Put(c.row, Lists!NoRow)
      BY <3>2 DEF Lists!UserChanged
    <3>4. c.kind \in {"on", "text", "root"} => after = server \/ \E row : after = Lists!Put(c.row, row)
      BY <3>2, Zenon DEF Lists!UserChanged
    <3>5. c.kind \notin {"remove", "on", "text", "root"} => after = server
      BY <3>2 DEF Lists!UserChanged
    <3> QED
      BY <1>7, <2>4, <3>3, <3>4, <3>5 DEF ListUntold
  <2> QED
    BY <2>2, <2>3, <2>4
<1> QED
  BY <1>1, <1>2, <1>3, <1>4, <1>5, <1>6, <1>7 DEF Lists!Tabs

\* What is served: a part stays unless the answer says that it may have
\* changed, and what the answer brings is what the server has.
ListTells(s) ==
    \A x \in ListParts :
        /\ ListPart(server'.doc, x) = ListPart(server.doc, x) \/ ListRedoes(calls'[s], x)
        /\ ListBrings(calls'[s], x) => ListPart(calls'[s].doc, x) = ListPart(server'.doc, x)

LEMMA ListServeIs ==
    ASSUME ListTyped, ListRunKeyed, calm, NEW s \in Slots, Lists!Serve(s)
    PROVE  /\ ListServed(s)
           /\ \/ calls'[s].ok = FALSE /\ server' = server
              \/ /\ calls'[s].ok = TRUE /\ server' \in Lists!After(calls[s])
                 /\ calls'[s].doc = Lists!AnswerDoc(calls[s])
           /\ ListTells(s)
<1> DEFINE c == calls[s]
<1>1. ListFits(c) /\ c.at = "sent" /\ c # Lists!NoCall
  BY ListFitsCall DEF Lists!Serve, ListTyped, Lists!NoCall
<1>2. ASSUME NEW ok, NEW doc, Lists!Answer(s, ok, doc)
      PROVE  ListServed(s) /\ calls'[s].ok = ok /\ calls'[s].doc = doc
  <2>1. /\ calls' = [calls EXCEPT ![s] = [calls[s] EXCEPT !.at = "answered", !.ok = ok, !.doc = doc]]
        /\ order' = Append(order, s) /\ view' = view
    BY <1>2 DEF Lists!Answer
  <2>2. calls'[s] = [calls[s] EXCEPT !.at = "answered", !.ok = ok, !.doc = doc]
    BY <2>1 DEF ListTyped
  <2>3. calls' = [calls EXCEPT ![s] = calls'[s]]
    BY <2>1, <2>2
  <2>4. /\ calls'[s].at = "answered" /\ calls'[s].ok = ok /\ calls'[s].doc = doc
        /\ calls'[s].kind = c.kind /\ calls'[s].row = c.row /\ calls'[s].key = c.key
        /\ calls'[s].value = c.value
    BY <1>1, <2>2 DEF ListFits
  <2>5. calls'[s] # Lists!NoCall
    BY <2>4 DEF Lists!NoCall
  <2> QED
    BY <1>1, <2>1, <2>3, <2>4, <2>5 DEF ListServed
<1>3. CASE UNCHANGED server /\ Lists!Answer(s, FALSE, Lists!NoDoc)
  <2>1. ListServed(s) /\ calls'[s].ok = FALSE /\ server' = server
    BY <1>2, <1>3
  <2>2. ListTells(s)
    BY <2>1 DEF ListTells, ListBrings
  <2> QED
    BY <2>1, <2>2
<1>4. CASE server' \in Lists!After(c) /\ Lists!Answer(s, TRUE, Lists!AnswerDoc(c))
  <2>1. ListServed(s) /\ calls'[s].ok = TRUE /\ calls'[s].doc = Lists!AnswerDoc(c)
    BY <1>2, <1>4
  <2>2. calls'[s].kind = c.kind /\ calls'[s].row = c.row /\ calls'[s].key = c.key
    BY <2>1 DEF ListServed
  <2>3. /\ ListUntold(server', c) /\ c.row \in Rows
        /\ c.kind \in {"list", "touch", "restart"} => server'.doc = server.doc
    BY <1>1, <1>4, ListAfterIs DEF ListFits
  <2>4. ASSUME NEW x \in ListParts, ListPart(server'.doc, x) # ListPart(server.doc, x)
        PROVE  ListRedoes(calls'[s], x)
    <3>1. c.kind \notin {"list", "touch", "restart"}
      BY <2>3, <2>4
    <3>2. page \in Lists!Tabs /\ c.key # <<"run">>
      BY <1>1, <3>1 DEF ListRunKeyed, ListNotRun, ListTyped
    <3>4. page = "users" => c.row = x
      <4>1. CASE server'.doc = server.doc
        BY <2>4, <4>1
      <4>2. CASE page = "whitelist" /\ c.kind = "flag" /\ server'.doc.rows = server.doc.rows
        BY <4>2
      <4>3. CASE \E row : server'.doc = Lists!Put(c.row, row).doc
        <5>1. PICK row : server'.doc = Lists!Put(c.row, row).doc
          BY <4>3
        <5>2. x # c.row => ListPart(server'.doc, x) = ListPart(server.doc, x)
          BY <2>3, <5>1, ListPutIs DEF ListPart, ListParts
        <5> QED
          BY <2>4, <5>2
      <4> QED
        BY <2>3, <4>1, <4>2, <4>3 DEF ListUntold
    <3> QED
      BY <2>1, <2>2, <3>1, <3>2, <3>4 DEF ListRedoes, Lists!Tabs
  <2>5. ASSUME NEW x \in ListParts, ListBrings(calls'[s], x)
        PROVE  ListPart(calls'[s].doc, x) = ListPart(server'.doc, x)
    <3>1. calls'[s].doc = server'.doc
      BY <2>1, <2>2, <2>5 DEF ListBrings, Lists!AnswerDoc
    <3> QED
      BY <3>1
  <2> QED
    BY <1>4, <2>1, <2>4, <2>5 DEF ListTells
<1> QED
  BY <1>3, <1>4 DEF Lists!Serve

-----------------------------------------------------------------------------
(* The button of the backups. *)

LEMMA ListRunSend ==
    ASSUME ListTyped, ListRunKeyed, NEW s \in Slots, NEW new, calls' = [calls EXCEPT ![s] = new],
           ListNotRun(new),
           view'.dialog \in {view.dialog, Lists!NoCall}
    PROVE  ListRunKeyed'
<1>1. calls'[s] = new /\ \A t \in Slots : t # s => calls'[t] = calls[t]
  BY ListOneSlot
<1>2. ListNotRun(view'.dialog)
  BY DEF ListRunKeyed, ListNotRun
<1> QED
  BY <1>1, <1>2 DEF ListRunKeyed

LEMMA ListRunButton ==
    ASSUME ListTyped, ListRunKeyed, NEW call, ListNotRun(call), Lists!Begin(call) \/ Lists!Ask(call)
    PROVE  ListRunKeyed'
<1>1. CASE Lists!Begin(call)
  <2>1. /\ Lists!FreeSlot \in Slots /\ calls' = [calls EXCEPT ![Lists!FreeSlot] = call]
        /\ view' = [view EXCEPT !.busy = view.busy \union {call.key}]
    BY <1>1, ListFree DEF Lists!Begin
  <2>2. view'.dialog = view.dialog
    BY <2>1, ListViewIs DEF ListViewTyped
  <2> QED
    BY <2>1, <2>2, ListRunSend
<1>2. CASE Lists!Ask(call)
  <2>1. calls' = calls /\ view' = [view EXCEPT !.dialog = call]
    BY <1>2 DEF Lists!Ask, Lists!Shows
  <2>2. view'.dialog = call
    BY <2>1, ListViewIs DEF ListViewTyped
  <2> QED
    BY <2>1, <2>2 DEF ListRunKeyed
<1> QED
  BY <1>1, <1>2

LEMMA ListRunView ==
    ASSUME ListTyped, ListRunKeyed, calls' = calls, view'.dialog \in {view.dialog, Lists!NoCall}
    PROVE  ListRunKeyed'
<1>1. ListNotRun(view'.dialog)
  BY DEF ListRunKeyed, ListNotRun
<1> QED
  BY <1>1 DEF ListRunKeyed

LEMMA ListRunLoad ==
    ASSUME ListTyped, ListRunKeyed, Lists!Send(Lists!List(Lists!NoKey)), view'.dialog = view.dialog
    PROVE  ListRunKeyed'
<1>1. Lists!FreeSlot \in Slots /\ calls' = [calls EXCEPT ![Lists!FreeSlot] = Lists!List(Lists!NoKey)]
  BY ListFree
<1>2. ListNotRun(Lists!List(Lists!NoKey))
  BY ListListIs DEF ListNotRun, Lists!NoKey
<1> QED
  BY <1>1, <1>2, ListRunSend

LEMMA ListUserRun ==
    ASSUME ListTyped, ListRunKeyed, Lists!Acts \/ Lists!Confirm \/ Lists!Cancel \/ Lists!TaskForm
    PROVE  ListRunKeyed'
<1>1. \A kind, r, value, key :
        /\ key # <<"run">> \/ kind = "touch"
        /\ Lists!Begin(Lists!Call(kind, r, value, key)) \/ Lists!Ask(Lists!Call(kind, r, value, key))
        => ListRunKeyed'
  <2>1. \A kind, r, value, key : key # <<"run">> \/ kind = "touch" =>
          ListNotRun(Lists!Call(kind, r, value, key))
    BY ListCallIs DEF ListNotRun
  <2> QED
    BY <2>1, ListRunButton
<1>2. \A r : Lists!RowKey(r) # <<"run">>
  BY DEF Lists!RowKey
<1>3. /\ <<"add">> # <<"run">> /\ <<"reload">> # <<"run">> /\ <<"flag">> # <<"run">>
      /\ <<"restart">> # <<"run">>
      /\ <<"modal">> # <<"run">> /\ <<"drop">> # <<"run">>
  OBVIOUS
<1>4. ASSUME NEW m, Lists!Shows([view EXCEPT !.modal = m]) PROVE ListRunKeyed'
  <2>1. [view EXCEPT !.modal = m].dialog = view.dialog
    BY ListViewIs DEF ListViewTyped
  <2> QED
    BY <1>4, <2>1, ListRunView DEF Lists!Shows
<1>5. CASE Lists!WhitelistTab
  BY <1>1, <1>2, <1>3, <1>5 DEF Lists!WhitelistTab, Lists!WhitelistToggle, Lists!WhitelistReload,
     Lists!WhitelistAdd, Lists!WhitelistRemove
<1>6. CASE Lists!OpsTab
  <2>1. CASE Lists!Shows([view EXCEPT !.banner = "dismissed"])
    <3>1. [view EXCEPT !.banner = "dismissed"].dialog = view.dialog
      BY ListViewIs DEF ListViewTyped
    <3> QED
      BY <2>1, <3>1, ListRunView DEF Lists!Shows
  <2> QED
    BY <1>1, <1>2, <1>3, <1>6, <2>1 DEF Lists!OpsTab, Lists!OpAdd, Lists!OpRemove, Lists!OpLevel,
       Lists!OpsRestart
<1>7. CASE Lists!BackupTimer \/ Lists!Refresh(Lists!NoKey)
  <2>1. Lists!Send(Lists!List(Lists!NoKey)) /\ view'.dialog = view.dialog
    BY <1>7, ListViewIs DEF Lists!BackupTimer, Lists!Refresh, ListViewTyped
  <2> QED
    BY <2>1, ListRunLoad
<1>8. CASE Lists!BackupsTab
  BY <1>1, <1>2, <1>7, <1>8 DEF Lists!BackupsTab, Lists!RunBackup, Lists!BackupDelete
<1>9. CASE Lists!TasksTab
  <2>1. ASSUME NEW r, Lists!TaskToggle(r) \/ Lists!TaskRunNow(r) \/ Lists!TaskDelete(r) PROVE ListRunKeyed'
    BY <1>1, <1>2, <2>1 DEF Lists!TaskToggle, Lists!TaskRunNow, Lists!TaskDelete
  <2> QED
    BY <1>4, <1>9, <2>1 DEF Lists!TasksTab
<1>10. CASE Lists!PluginsTab
  BY <1>1, <1>2, <1>3, <1>10 DEF Lists!PluginsTab, Lists!PluginToggle, Lists!PluginDelete,
     Lists!PluginInstallUrl, Lists!PluginDrop
<1>11. CASE Lists!UsersTab
  <2>1. \A r : Lists!UserEdit(r) => ListRunKeyed'
    BY <1>1, <1>2, <1>4 DEF Lists!UserEdit
  <2> QED
    BY <1>1, <1>2, <1>3, <1>11, <2>1 DEF Lists!UsersTab, Lists!UserAdd, Lists!UserRole,
       Lists!UserResetPassword, Lists!UserRemove
<1>12. CASE Lists!TaskForm
  BY <1>1, <1>3, <1>4, <1>12 DEF Lists!TaskForm, Lists!TaskSubmit
<1>13. CASE Lists!Confirm
  <2>1. /\ Lists!FreeSlot \in Slots /\ calls' = [calls EXCEPT ![Lists!FreeSlot] = view.dialog]
        /\ view' = [view EXCEPT !.dialog = Lists!NoCall, !.busy = view.busy \union {view.dialog.key}]
    BY <1>13, ListFree DEF Lists!Confirm
  <2>2. view'.dialog = Lists!NoCall
    BY <2>1, ListViewIs DEF ListViewTyped
  <2> QED
    BY <2>1, <2>2, ListRunSend DEF ListRunKeyed
<1>14. CASE Lists!Cancel
  <2>1. calls' = calls /\ view' = [view EXCEPT !.dialog = Lists!NoCall]
    BY <1>14 DEF Lists!Cancel, Lists!Shows
  <2>2. view'.dialog = Lists!NoCall
    BY <2>1, ListViewIs DEF ListViewTyped
  <2> QED
    BY <2>1, <2>2, ListRunView
<1> QED
  BY <1>5, <1>6, <1>7, <1>8, <1>9, <1>10, <1>11, <1>12, <1>13, <1>14 DEF Lists!Acts, Lists!Retry

LEMMA ListServeRun ==
    ASSUME ListTyped, ListRunKeyed, NEW s \in Slots, ListServed(s)
    PROVE  ListRunKeyed'
<1>1. ListNotRun(calls'[s])
  BY DEF ListServed, ListRunKeyed, ListNotRun
<1> QED
  BY <1>1, ListRunSend DEF ListServed

\* What an answer leaves of its slot, and of the dialog.
LEMMA ListDeliverNext ==
    ASSUME ListTyped, NEW s \in Slots, Lists!Deliver(s)
    PROVE  /\ view'.dialog = view.dialog
           /\ \E next : /\ calls' = [calls EXCEPT ![s] = next]
                        /\ \/ next = Lists!NoCall
                           \/ next = Lists!List(Lists!NoKey)
                           \/ next = Lists!List(calls[s].key)
                                /\ calls[s].key \notin {<<"run">>, <<"modal">>, <<"drop">>}
                           \/ /\ next = [calls[s] EXCEPT !.kind = "root", !.at = "sent"]
                              /\ calls[s].kind = "text" /\ page = "users"
<1> DEFINE c == calls[s]
           Good(next) ==
             \/ next = Lists!NoCall
             \/ next = Lists!List(Lists!NoKey)
             \/ next = Lists!List(c.key) /\ c.key \notin {<<"run">>, <<"modal">>, <<"drop">>}
             \/ next = [c EXCEPT !.kind = "root", !.at = "sent"] /\ c.kind = "text" /\ page = "users"
<1>1. view.dialog = Lists!Released(c).dialog
  BY ListViewIs DEF ListViewTyped, Lists!Released
<1>2. ListViewTyped(view) /\ ListViewTyped(Lists!Released(c))
  BY ListViewIs DEF ListViewTyped, Lists!Released
<1>3. Lists!Ends(s) => \E next : calls' = [calls EXCEPT ![s] = next] /\ Good(next)
  BY DEF Lists!Ends
<1>4. Lists!Continues(s, Lists!List(Lists!NoKey)) => \E next : calls' = [calls EXCEPT ![s] = next] /\ Good(next)
  BY DEF Lists!Continues
<1>5. CASE Lists!ListArrives(s)
  BY <1>1, <1>2, <1>3, <1>5 DEF Lists!ListArrives, ListViewTyped
<1>6. CASE Lists!FailureArrives(s)
  <2>1. view'.dialog = view.dialog
    <3>1. \/ view' = [Lists!Released(c) EXCEPT !.loading = TRUE, !.failed = FALSE]
          \/ \E half : view' = [Lists!Released(c) EXCEPT !.half = half]
      BY <1>6, Zenon DEF Lists!FailureArrives
    <3> QED
      BY <1>1, <1>2, <3>1 DEF ListViewTyped
  <2> QED
    BY <1>3, <1>4, <1>6, <2>1 DEF Lists!FailureArrives
<1>7. CASE Lists!DocumentArrives(s)
  BY <1>1, <1>2, <1>3, <1>7 DEF Lists!DocumentArrives, ListViewTyped
<1>8. CASE Lists!EffectArrives(s)
  <2>1. CASE c.key = <<"run">>
    BY <1>1, <1>2, <1>3, <1>8, <2>1 DEF Lists!EffectArrives, ListViewTyped
  <2>2. CASE c.key # <<"run">>
    <3>1. view'.dialog = view.dialog
      BY <1>2, <1>8, <2>2 DEF Lists!EffectArrives, ListViewTyped
    <3>2. Lists!Continues(s, Lists!List(Lists!NoKey))
            \/ (Lists!Continues(s, Lists!List(c.key)) /\ c.key \notin {<<"modal">>, <<"drop">>})
      BY <1>8, <2>2 DEF Lists!EffectArrives
    <3>3. Lists!Continues(s, Lists!List(c.key)) /\ c.key \notin {<<"modal">>, <<"drop">>} =>
            \E next : calls' = [calls EXCEPT ![s] = next] /\ Good(next)
      BY <2>2 DEF Lists!Continues
    <3> QED
      BY <1>4, <3>1, <3>2, <3>3
  <2> QED
    BY <2>1, <2>2
<1>9. CASE Lists!AccountArrives(s)
  <2> DEFINE again == [c EXCEPT !.kind = "root", !.at = "sent"]
  <2>1. \/ Lists!Continues(s, again) /\ view' = view /\ c.kind = "text" /\ page = "users"
        \/ /\ Lists!Ends(s)
           /\ \E row, modal, half :
                view' = [Lists!Released(c) EXCEPT !.shown.rows[c.row] = row, !.modal = modal, !.half = half]
    <3> DEFINE v == Lists!Released(c)
               row == IF c.kind = "touch" \/ (c.kind # "add" /\ v.shown.rows[c.row] = Lists!NoRow)
                      THEN v.shown.rows[c.row]
                      ELSE IF c.kind = "remove" THEN Lists!NoRow ELSE c.doc.rows[c.row]
               modal == IF c.kind \in {"text", "root"} THEN "none" ELSE v.modal
               half == IF c.kind = "touch" THEN v.half ELSE v.half \ {c.row}
    <3>1. \/ Lists!Continues(s, again) /\ view' = view /\ c.kind = "text" /\ page = "users"
          \/ Lists!Ends(s) /\ view' = [v EXCEPT !.shown.rows[c.row] = row, !.modal = modal, !.half = half]
      BY <1>9, Zenon DEF Lists!AccountArrives
    <3> HIDE DEF row, modal, half
    <3> QED
      BY <3>1, Zenon
  <2>2. CASE Lists!Continues(s, again) /\ view' = view /\ c.kind = "text" /\ page = "users"
    BY <2>2 DEF Lists!Continues
  <2>3. CASE /\ Lists!Ends(s)
             /\ \E row, modal, half :
                  view' = [Lists!Released(c) EXCEPT !.shown.rows[c.row] = row, !.modal = modal, !.half = half]
    BY <1>1, <1>2, <1>3, <2>3 DEF ListViewTyped
  <2> QED
    BY <2>1, <2>2, <2>3
<1> QED
  BY <1>5, <1>6, <1>7, <1>8, <1>9 DEF Lists!Deliver

LEMMA ListDeliverRun ==
    ASSUME ListTyped, ListRunKeyed, NEW s \in Slots, Lists!Deliver(s)
    PROVE  ListRunKeyed'
<1> DEFINE c == calls[s]
<1>1. PICK next :
        /\ view'.dialog = view.dialog /\ calls' = [calls EXCEPT ![s] = next]
        /\ \/ next = Lists!NoCall
           \/ next = Lists!List(Lists!NoKey)
           \/ next = Lists!List(c.key) /\ c.key \notin {<<"run">>, <<"modal">>, <<"drop">>}
           \/ next = [c EXCEPT !.kind = "root", !.at = "sent"] /\ c.kind = "text" /\ page = "users"
  BY ListDeliverNext
<1>2. ListFits(c)
  BY DEF Lists!Deliver, Lists!Arrives, ListTyped, Lists!NoCall
<1>3. ListNotRun(next)
  <2>1. next = Lists!List(Lists!NoKey) => ListNotRun(next)
    BY ListListIs DEF ListNotRun, Lists!NoKey
  <2>2. next = Lists!List(c.key) /\ c.key # <<"run">> => ListNotRun(next)
    BY ListListIs DEF ListNotRun
  <2>3. next = [c EXCEPT !.kind = "root", !.at = "sent"] /\ c.kind = "text" => ListNotRun(next)
    <3>1. c.kind = "text" => c.key # <<"run">>
      BY <1>2, ListFitsCall DEF ListRunKeyed, ListNotRun
    <3>2. [c EXCEPT !.kind = "root", !.at = "sent"].key = c.key
      BY <1>2 DEF ListFits
    <3> QED
      BY <3>1, <3>2 DEF ListNotRun
  <2>4. next = Lists!NoCall => ListNotRun(next)
    BY DEF ListNotRun
  <2> QED
    BY <1>1, <2>1, <2>2, <2>3, <2>4
<1> QED
  BY <1>1, <1>3, ListRunSend

-----------------------------------------------------------------------------
(***************************************************************************)
(* The tab of the accounts loads its list once; while it is loading, or    *)
(* when that failed, nothing is asked about a row, and a row that is asked *)
(* about stays in the list.                                                *)
(***************************************************************************)
ListLoads(c) == c # Lists!NoCall /\ c.kind = "list"
ListKnown(c) ==
    /\ c.key = <<"row", c.row>>
    /\ ~view.loading /\ ~view.failed /\ view.shown.rows[c.row] # Lists!NoRow
ListOfUsers(c) ==
    /\ c.key # <<"drop">>
    /\ c.kind \notin {"list", "add"} => ListKnown(c)
    /\ c.at = "answered" /\ c.ok = TRUE => /\ c.kind = "remove" => c.doc.rows[c.row] = Lists!NoRow
                                           /\ c.kind = "add" => c.doc.rows[c.row] # Lists!NoRow

ListLoaded ==
    page = "users" =>
        /\ \A s, t \in Slots : ListLoads(calls[s]) /\ ListLoads(calls[t]) => s = t
        /\ \A s \in Slots : ListLoads(calls[s]) => view.loading
        /\ \A s \in Slots : calls[s] # Lists!NoCall => ListOfUsers(calls[s])
        /\ view.dialog # Lists!NoCall => view.dialog.kind \notin {"list", "add"} /\ ListOfUsers(view.dialog)

ListSameList == view'.shown = view.shown /\ view'.loading = view.loading /\ view'.failed = view.failed

\* A request other than a listing, or none, in a slot; the list stays.
LEMMA ListSlotLoaded ==
    ASSUME ListTyped, ListLoaded, page' = page, ListSameList, NEW s \in Slots, NEW new,
           calls' = [calls EXCEPT ![s] = new],
           new # Lists!NoCall => ListOfUsers(new) /\ (new.kind = "list" => ListLoads(calls[s])),
           view'.dialog \in {view.dialog, Lists!NoCall}
    PROVE  ListLoaded'
<1> SUFFICES ASSUME page = "users" PROVE ListLoaded'
  BY DEF ListLoaded
<1>1. calls'[s] = new /\ \A t \in Slots : t # s => calls'[t] = calls[t]
  BY ListOneSlot
<1>2. \A t \in Slots : ListLoads(calls[t])' => ListLoads(calls[t])
  BY <1>1 DEF ListLoads
<1>3. ASSUME NEW t \in Slots, calls'[t] # Lists!NoCall PROVE ListOfUsers(calls'[t])
  BY <1>1, <1>3 DEF ListLoaded
<1>4. \A t \in Slots : calls'[t] # Lists!NoCall => ListOfUsers(calls[t])'
  BY <1>3 DEF ListOfUsers, ListKnown, ListSameList
<1>5. view'.dialog # Lists!NoCall => view'.dialog.kind \notin {"list", "add"} /\ ListOfUsers(view.dialog)'
  BY DEF ListLoaded, ListOfUsers, ListKnown, ListSameList
<1> QED
  BY <1>2, <1>4, <1>5 DEF ListLoaded, ListSameList

\* No request, and perhaps a dialog about a row.
LEMMA ListShowLoaded ==
    ASSUME ListLoaded, page' = page, ListSameList, calls' = calls,
           \/ view'.dialog \in {view.dialog, Lists!NoCall}
           \/ view'.dialog.kind \notin {"list", "add"} /\ ListOfUsers(view'.dialog)
    PROVE  ListLoaded'
<1>1. view'.dialog # Lists!NoCall => \/ view'.dialog = view.dialog
                                     \/ view'.dialog.kind \notin {"list", "add"} /\ ListOfUsers(view'.dialog)
  OBVIOUS
<1>2. page = "users" /\ view'.dialog # Lists!NoCall =>
        view'.dialog.kind \notin {"list", "add"} /\ ListOfUsers(view.dialog)'
  BY <1>1 DEF ListLoaded, ListOfUsers, ListKnown, ListSameList
<1> QED
  BY <1>2 DEF ListLoaded, ListOfUsers, ListKnown, ListSameList

LEMMA ListAddsLoaded ==
    ASSUME ListTyped, ListLoaded, NEW call, Lists!Begin(call), ListOfUsers(call), call.kind # "list"
    PROVE  ListLoaded'
<1>1. /\ Lists!FreeSlot \in Slots /\ calls' = [calls EXCEPT ![Lists!FreeSlot] = call] /\ page' = page
      /\ view' = [view EXCEPT !.busy = view.busy \union {call.key}]
  BY ListFree DEF Lists!Begin, Lists!Send
<1>2. ListSameList /\ view'.dialog = view.dialog
  BY <1>1, ListViewIs DEF ListViewTyped, ListSameList
<1> QED
  BY <1>1, <1>2, ListSlotLoaded

LEMMA ListAsksLoaded ==
    ASSUME ListTyped, ListLoaded, NEW call, Lists!Ask(call), ListOfUsers(call), call.kind \notin {"list", "add"}
    PROVE  ListLoaded'
<1>1. calls' = calls /\ page' = page /\ view' = [view EXCEPT !.dialog = call]
  BY DEF Lists!Ask, Lists!Shows
<1>2. ListSameList /\ view'.dialog = call
  BY <1>1, ListViewIs DEF ListViewTyped, ListSameList
<1> QED
  BY <1>1, <1>2, ListShowLoaded

LEMMA ListRetryLoaded ==
    ASSUME ListTyped, ListLoaded, view.failed, ~view.loading, Lists!Clear, Lists!Refresh(Lists!NoKey)
    PROVE  ListLoaded'
<1>1. PICK s \in Slots : /\ calls' = [calls EXCEPT ![s] = Lists!List(Lists!NoKey)] /\ page' = page
                        /\ view' = [view EXCEPT !.loading = TRUE, !.failed = FALSE]
  BY ListFree DEF Lists!Refresh, Lists!Send
<1>2. calls'[s] = Lists!List(Lists!NoKey) /\ \A t \in Slots : t # s => calls'[t] = calls[t]
  BY <1>1, ListOneSlot
<1>3. view'.loading = TRUE /\ view'.dialog = Lists!NoCall
  BY <1>1, ListViewIs DEF ListViewTyped, Lists!Clear
<1> SUFFICES ASSUME page = "users" PROVE ListLoaded'
  BY <1>1 DEF ListLoaded
<1>4. \A t \in Slots : ~ListLoads(calls[t])
  BY DEF ListLoaded
<1>5. \A t \in Slots : calls[t] # Lists!NoCall => calls[t].kind = "add" /\ ListOfUsers(calls[t])
  BY <1>4 DEF ListLoaded, ListOfUsers, ListKnown, ListLoads
<1>6. \A t \in Slots : ListLoads(calls'[t]) => t = s
  BY <1>2, <1>4
<1>7. \A t \in Slots : calls'[t] # Lists!NoCall => ListOfUsers(calls[t])'
  <2>1. \A t \in Slots : t # s /\ calls[t] # Lists!NoCall => ListOfUsers(calls[t])'
    BY <1>2, <1>5 DEF ListOfUsers
  <2>2. ListOfUsers(calls[s])'
    BY <1>2, ListListIs DEF ListOfUsers, Lists!NoKey
  <2> QED
    BY <1>2, <2>1, <2>2
<1>8. \A t \in Slots : ListLoads(calls[t])' => ListLoads(calls'[t])
  BY DEF ListLoads
<1> QED
  BY <1>3, <1>6, <1>7, <1>8 DEF ListLoaded

LEMMA ListUserLoaded ==
    ASSUME ListTyped, ListLoaded, page' = page, Lists!Acts \/ Lists!Confirm \/ Lists!Cancel \/ Lists!TaskForm
    PROVE  ListLoaded'
<1> SUFFICES ASSUME page = "users" PROVE ListLoaded'
  BY DEF ListLoaded
<1>1. ASSUME NEW r \in Rows, Lists!RowFree(r), NEW kind, NEW value, kind \notin {"list", "add"},
             Lists!Begin(Lists!Call(kind, r, value, Lists!RowKey(r)))
               \/ Lists!Ask(Lists!Call(kind, r, value, Lists!RowKey(r)))
      PROVE  ListLoaded'
  <2>1. Lists!RowKey(r) = <<"row", r>> /\ <<"row", r>> # <<"drop">>
    BY DEF Lists!RowKey
  <2>2. ListOfUsers(Lists!Call(kind, r, value, Lists!RowKey(r)))
    BY <1>1, <2>1, ListCallIs DEF ListOfUsers, ListKnown, Lists!RowFree
  <2> QED
    BY <1>1, <2>2, ListCallIs, ListAddsLoaded, ListAsksLoaded
<1>2. ASSUME NEW r \in Rows, Lists!UserAdd(r) PROVE ListLoaded'
  <2>1. ListOfUsers(Lists!Call("add", r, Lists!Fresh, <<"add">>))
    BY ListCallIs DEF ListOfUsers
  <2> QED
    BY <1>2, <2>1, ListCallIs, ListAddsLoaded DEF Lists!UserAdd
<1>3. ASSUME NEW m, Lists!Shows([view EXCEPT !.modal = m]) PROVE ListLoaded'
  <2>1. ListSameList /\ view'.dialog = view.dialog /\ calls' = calls
    BY <1>3, ListViewIs DEF ListViewTyped, Lists!Shows, ListSameList
  <2> QED
    BY <2>1, ListShowLoaded
<1>4. CASE Lists!UsersTab
  <2>1. ASSUME NEW r \in Rows, Lists!RowFree(r), Lists!UserEdit(r) PROVE ListLoaded'
    BY <1>1, <1>3, <2>1 DEF Lists!UserEdit
  <2>2. ASSUME NEW r \in Rows, Lists!RowFree(r), Lists!UserRole(r) \/ Lists!UserRemove(r) \/ Lists!UserResetPassword(r) PROVE ListLoaded'
    BY <1>1, <2>2 DEF Lists!UserRole, Lists!UserRemove, Lists!UserResetPassword
  <2> QED
    BY <1>2, <1>4, <2>1, <2>2 DEF Lists!UsersTab
<1>5. CASE view.failed /\ ~view.loading /\ Lists!Clear /\ Lists!Refresh(Lists!NoKey)
  BY <1>5, ListRetryLoaded
<1>6. CASE Lists!Confirm
  <2>1. /\ Lists!FreeSlot \in Slots /\ calls' = [calls EXCEPT ![Lists!FreeSlot] = view.dialog]
        /\ view.dialog # Lists!NoCall
        /\ view' = [view EXCEPT !.dialog = Lists!NoCall, !.busy = view.busy \union {view.dialog.key}]
    BY <1>6, ListFree DEF Lists!Confirm
  <2>2. ListSameList /\ view'.dialog = Lists!NoCall
    BY <2>1, ListViewIs DEF ListViewTyped, ListSameList
  <2>3. ListOfUsers(view.dialog) /\ view.dialog.kind # "list"
    BY <2>1 DEF ListLoaded
  <2> QED
    BY <2>1, <2>2, <2>3, ListSlotLoaded
<1>7. CASE Lists!Cancel
  <2>1. calls' = calls /\ view' = [view EXCEPT !.dialog = Lists!NoCall]
    BY <1>7 DEF Lists!Cancel, Lists!Shows
  <2>2. ListSameList /\ view'.dialog = Lists!NoCall
    BY <2>1, ListViewIs DEF ListViewTyped, ListSameList
  <2> QED
    BY <2>1, <2>2, ListShowLoaded
<1>8. ~Lists!TaskForm
  BY DEF Lists!TaskForm
<1> QED
  BY <1>4, <1>5, <1>6, <1>7, <1>8 DEF Lists!Acts, Lists!Retry

LEMMA ListServeLoaded ==
    ASSUME ListTyped, ListRunKeyed, ListLoaded, page' = page, calm, NEW s \in Slots, Lists!Serve(s)
    PROVE  ListLoaded'
<1> SUFFICES ASSUME page = "users" PROVE ListLoaded'
  BY DEF ListLoaded
<1> DEFINE c == calls[s]
<1>1. /\ ListServed(s)
      /\ \/ calls'[s].ok = FALSE
         \/ calls'[s].ok = TRUE /\ server' \in Lists!After(c) /\ calls'[s].doc = Lists!AnswerDoc(c)
  BY ListServeIs
<1>2. ListFits(c) /\ ListOfUsers(c)
  BY <1>1 DEF ListServed, ListTyped, ListLoaded
<1>3. ListSameList /\ view'.dialog = view.dialog
  BY <1>1 DEF ListServed, ListSameList
<1>4. ASSUME calls'[s].ok = TRUE
      PROVE  /\ c.kind = "remove" => calls'[s].doc.rows[c.row] = Lists!NoRow
             /\ c.kind = "add" => calls'[s].doc.rows[c.row] # Lists!NoRow
  <2>1. server' \in Lists!After(c) /\ calls'[s].doc = server'.doc /\ c.row \in Rows
    BY <1>1, <1>2, <1>4 DEF Lists!AnswerDoc, ListFits
  <2>2. c.kind = "remove" => server'.doc.rows[c.row] = Lists!NoRow
    BY <1>2, <2>1, ListAfterIs, ListPutIs
  <2>3. c.kind = "add" => server'.doc.rows[c.row] = c.value
    BY <1>2, <2>1, ListAfterIs, ListPutIs
  <2>4. \A row \in Lists!Row : row # Lists!NoRow
    BY DEF Lists!Row, Lists!NoRow
  <2>5. c.kind = "add" => c.value \in Lists!Row
    BY <1>2 DEF ListFits, ListValueFits
  <2> QED
    BY <2>1, <2>2, <2>3, <2>4, <2>5
<1>5. ListOfUsers(calls'[s])
  BY <1>1, <1>2, <1>4 DEF ListOfUsers, ListKnown, ListServed
<1>6. calls'[s].kind = "list" => ListLoads(calls[s])
  BY <1>1 DEF ListLoads, ListServed
<1> QED
  BY <1>1, <1>3, <1>5, <1>6, ListSlotLoaded DEF ListServed

LEMMA ListDeliverLoaded ==
    ASSUME Locked, ListTyped, ListLoaded, page' = page, NEW s \in Slots, Lists!Deliver(s)
    PROVE  ListLoaded'
<1> SUFFICES ASSUME page = "users" PROVE ListLoaded'
  BY DEF ListLoaded
<1> DEFINE c == calls[s]
           v == Lists!Released(c)
<1>1. ListFits(c) /\ c # Lists!NoCall /\ ListOfUsers(c) /\ c.at = "answered"
  BY ListFitsCall DEF Lists!Deliver, Lists!Arrives, ListTyped, Lists!NoCall, ListLoaded
<1>2. ListViewTyped(v) /\ v.shown = view.shown /\ v.loading = view.loading /\ v.failed = view.failed
      /\ v.dialog = view.dialog
  BY ListViewIs DEF ListViewTyped, Lists!Released
<1>3. view'.dialog = view.dialog
  BY ListDeliverNext
<1>4. CASE Lists!ListArrives(s)
  <2>1. calls' = [calls EXCEPT ![s] = Lists!NoCall] /\ ListLoads(c)
    BY <1>1, <1>4 DEF Lists!ListArrives, Lists!Ends, ListLoads
  <2>2. calls'[s] = Lists!NoCall /\ \A t \in Slots : t # s => calls'[t] = calls[t]
    BY <2>1, ListOneSlot
  <2>3. view.loading /\ \A t \in Slots : ListLoads(calls[t]) => t = s
    BY <2>1 DEF ListLoaded
  <2>4. view.dialog = Lists!NoCall
    BY <2>3 DEF ListLoaded, ListOfUsers, ListKnown
  <2>5. \A t \in Slots : t # s /\ calls[t] # Lists!NoCall => calls[t].kind = "add" /\ ListOfUsers(calls[t])
    BY <2>3 DEF ListLoaded, ListOfUsers, ListKnown, ListLoads
  <2>6. \A t \in Slots : ~ListLoads(calls[t])'
    BY <2>2, <2>3 DEF ListLoads
  <2>7. \A t \in Slots : calls'[t] # Lists!NoCall => ListOfUsers(calls[t])'
    BY <2>2, <2>5 DEF ListOfUsers
  <2> QED
    BY <1>3, <2>4, <2>6, <2>7 DEF ListLoaded
<1>5. CASE Lists!FailureArrives(s)
  <2>1. c.key # <<"drop">>
    BY <1>1 DEF ListOfUsers
  <2>2. calls' = [calls EXCEPT ![s] = Lists!NoCall] /\ \E half : view' = [v EXCEPT !.half = half]
    BY <1>5, <2>1 DEF Lists!FailureArrives, Lists!Ends
  <2>3. ListSameList
    BY <1>2, <2>2 DEF ListViewTyped, ListSameList
  <2> QED
    BY <1>3, <2>2, <2>3, ListSlotLoaded
<1>6. CASE Lists!AccountArrives(s)
  <2> DEFINE again == [c EXCEPT !.kind = "root", !.at = "sent"]
             row == IF c.kind = "touch" \/ (c.kind # "add" /\ v.shown.rows[c.row] = Lists!NoRow) THEN v.shown.rows[c.row]
                    ELSE IF c.kind = "remove" THEN Lists!NoRow ELSE c.doc.rows[c.row]
             modal == IF c.kind \in {"text", "root"} THEN "none" ELSE v.modal
             half == IF c.kind = "touch" THEN v.half ELSE v.half \ {c.row}
  <2>1. /\ c.kind # "list" /\ c.ok
        /\ \/ Lists!Continues(s, again) /\ UNCHANGED view /\ c.kind = "text"
           \/ Lists!Ends(s) /\ view' = [v EXCEPT !.shown.rows[c.row] = row, !.modal = modal, !.half = half]
    BY <1>6, Zenon DEF Lists!AccountArrives
  <2>2. CASE Lists!Continues(s, again) /\ UNCHANGED view /\ c.kind = "text"
    <3>1. again.kind = "root" /\ again.at = "sent" /\ again.row = c.row /\ again.key = c.key
      BY <1>1 DEF ListFits
    <3> HIDE DEF again
    <3>2. ListOfUsers(again) /\ again.kind # "list"
      BY <1>1, <2>2, <3>1 DEF ListOfUsers, ListKnown
    <3>3. ListSameList /\ calls' = [calls EXCEPT ![s] = again]
      BY <2>2 DEF ListSameList, Lists!Continues
    <3> QED
      BY <1>3, <3>2, <3>3, ListSlotLoaded
  <2>3. CASE Lists!Ends(s) /\ view' = [v EXCEPT !.shown.rows[c.row] = row, !.modal = modal, !.half = half]
    <3>1. calls' = [calls EXCEPT ![s] = Lists!NoCall]
      BY <2>3 DEF Lists!Ends
    <3>2. calls'[s] = Lists!NoCall /\ \A t \in Slots : t # s => calls'[t] = calls[t]
      BY <3>1, ListOneSlot
    <3>3. c.row \in Rows /\ c.kind = "add" => row # Lists!NoRow
      BY <1>1, <2>1 DEF ListOfUsers
    <3> HIDE DEF row, modal, half, v
    <3>4. /\ view'.loading = view.loading /\ view'.failed = view.failed
          /\ \A r \in Rows : r # c.row => view'.shown.rows[r] = view.shown.rows[r]
          /\ view'.shown.rows[c.row] = row
      <4>1. v.shown \in [rows : [Rows -> Lists!Row \union {Lists!NoRow}], flag : BOOLEAN]
        BY <1>2 DEF ListViewTyped, Lists!Doc
      <4>2. view' = [v EXCEPT !.shown = [v.shown EXCEPT !.rows = [v.shown.rows EXCEPT ![c.row] = row]],
                              !.modal = modal, !.half = half]
        BY <2>3
      <4>3. /\ view'.loading = v.loading /\ view'.failed = v.failed
            /\ view'.shown = [v.shown EXCEPT !.rows = [v.shown.rows EXCEPT ![c.row] = row]]
        BY <1>2, <4>2 DEF ListViewTyped
      <4>4. view'.shown.rows = [v.shown.rows EXCEPT ![c.row] = row]
        BY <4>1, <4>3
      <4>5. c.row \in Rows
        BY <1>1 DEF ListFits
      <4> QED
        BY <1>2, <4>1, <4>3, <4>4, <4>5
    <3>5. ASSUME NEW d, ListFits(d), d.kind \notin {"list", "add"}, ListOfUsers(d),
                 c.kind # "add" => d.row # c.row
          PROVE  ListOfUsers(d)'
      <4>1. view'.shown.rows[d.row] # Lists!NoRow
        <5>1. d.row \in Rows /\ view.shown.rows[d.row] # Lists!NoRow
          BY <3>5 DEF ListFits, ListOfUsers, ListKnown
        <5> QED
          BY <3>3, <3>4, <3>5, <5>1
      <4> QED
        BY <3>4, <3>5, <4>1 DEF ListOfUsers, ListKnown
    <3>6. ASSUME NEW t \in Slots, calls'[t] # Lists!NoCall PROVE ListOfUsers(calls[t])'
      <4>1. t # s /\ calls'[t] = calls[t] /\ ListFits(calls[t]) /\ ListOfUsers(calls[t])
        BY <3>2, <3>6 DEF ListTyped, ListLoaded
      <4>2. CASE calls[t].kind \in {"list", "add"}
        BY <4>1, <4>2 DEF ListOfUsers
      <4>3. CASE calls[t].kind \notin {"list", "add"}
        <5>1. c.kind # "add" => calls[t].row # c.row
          <6>1. c.kind # "add" => c.key = <<"row", c.row>> /\ ListRowKeyed(c)
            BY <1>1, <2>1 DEF ListOfUsers, ListKnown, ListRowKeyed
          <6>2. calls[t].key = <<"row", calls[t].row>>
            BY <4>1, <4>3 DEF ListOfUsers, ListKnown
          <6> QED
            BY <1>1, <3>6, <4>1, <6>1, <6>2 DEF Locked
        <5>2. \A d : d = calls[t] => ListOfUsers(d)'
          BY <3>5, <4>1, <4>3, <5>1
        <5> QED
          BY <4>1, <4>3, <5>2 DEF ListOfUsers, ListKnown
      <4> QED
        BY <4>2, <4>3
    <3>7. ASSUME view'.dialog # Lists!NoCall PROVE view'.dialog.kind \notin {"list", "add"} /\ ListOfUsers(view.dialog)'
      <4>1. ListFits(view.dialog) /\ ListOfUsers(view.dialog) /\ view.dialog.kind \notin {"list", "add"}
              /\ view.dialog # Lists!NoCall
        BY <1>3, <3>7 DEF ListTyped, ListAsked, ListLoaded
      <4>2. c.kind # "add" => view.dialog.row # c.row
        <5>1. c.kind # "add" => c.key = <<"row", c.row>> /\ ListRowKeyed(c)
          BY <1>1, <2>1 DEF ListOfUsers, ListKnown, ListRowKeyed
        <5>2. view.dialog.key = <<"row", view.dialog.row>> /\ ListRowKeyed(view.dialog)
          BY <4>1 DEF ListOfUsers, ListKnown, ListRowKeyed
        <5>3. c.kind # "add" => c.key \in view.busy
          BY <1>1, <5>1 DEF Locked
        <5> QED
          BY <4>1, <5>1, <5>2, <5>3 DEF Locked
      <4>3. \A d : d = view.dialog => ListOfUsers(d)'
        BY <3>5, <4>1, <4>2
      <4> QED
        BY <1>3, <4>1, <4>3 DEF ListOfUsers, ListKnown
    <3>8. \A t \in Slots : ListLoads(calls[t])' => ListLoads(calls[t])
      BY <3>2 DEF ListLoads
    <3> QED
      BY <3>4, <3>6, <3>7, <3>8 DEF ListLoaded
  <2> QED
    BY <2>1, <2>2, <2>3
<1> QED
  BY <1>4, <1>5, <1>6 DEF Lists!Deliver, Lists!DocumentArrives, Lists!EffectArrives

LEMMA ListInitLoaded == Lists!Init => ListRunKeyed /\ ListLoaded
<1> SUFFICES ASSUME Lists!Init PROVE ListRunKeyed /\ ListLoaded
  OBVIOUS
<1>1. PICK s \in Slots : calls = [t \in Slots |-> IF t = s THEN Lists!List(Lists!NoKey) ELSE Lists!NoCall]
  BY DEF Lists!Init
<1>2. view.dialog = Lists!NoCall /\ view.loading = TRUE
  BY DEF Lists!Init
<1>3. \A t \in Slots : calls[t] = Lists!NoCall \/ (t = s /\ calls[t] = Lists!List(Lists!NoKey))
  BY <1>1
<1>4. ListOfUsers(Lists!List(Lists!NoKey)) /\ ListNotRun(Lists!List(Lists!NoKey)) /\ ListNotRun(Lists!NoCall)
  BY ListListIs DEF ListOfUsers, ListNotRun, Lists!NoKey
<1>5. \A t \in Slots : ListNotRun(calls[t])
  BY <1>3, <1>4
<1>6. \A t \in Slots : calls[t] # Lists!NoCall => ListOfUsers(calls[t])
  BY <1>3, <1>4
<1>7. \A t \in Slots : ListLoads(calls[t]) => t = s
  BY <1>3 DEF ListLoads
<1> QED
  BY <1>2, <1>4, <1>5, <1>6, <1>7 DEF ListRunKeyed, ListLoaded

-----------------------------------------------------------------------------
(* What arrives. *)

LEMMA ListDeliverFollows ==
    ASSUME ListTyped, ListRunKeyed, ListLoaded, NEW s \in Slots, Lists!Deliver(s)
    PROVE  \E next : ListFollows(s, next)
<1> DEFINE c == calls[s]
           v == Lists!Released(c)
           Told(next, x) ==
              \/ ListFetches(next, x)
              \/ view'.failed \/ x \in view'.half
              \/ ListBrings(c, x) /\ ListPart(view'.shown, x) = ListPart(c.doc, x)
              \/ /\ ~ListRedoes(c, x) /\ ListPart(view'.shown, x) = ListPart(view.shown, x)
                 /\ ~view.failed /\ x \notin view.half
<1>1. ListFits(c) /\ c # Lists!NoCall /\ c.at = "answered" /\ server' = server /\ ListNotRun(c)
        /\ c.row \in Rows
  BY ListFitsCall DEF Lists!Deliver, Lists!Arrives, ListTyped, Lists!NoCall, ListRunKeyed, ListFits
<1>2. /\ ListViewTyped(v) /\ v.shown = view.shown /\ v.failed = view.failed /\ v.half = view.half
      /\ ListViewTyped(view)
  BY ListViewIs DEF ListViewTyped, Lists!Released
<1>3. ASSUME NEW next, calls' = [calls EXCEPT ![s] = next], next # Lists!NoCall => next.at = "sent",
             \A x \in ListParts : Told(next, x)
      PROVE  ListFollows(s, next)
  BY <1>1, <1>3, Zenon DEF ListFollows
<1>4. ASSUME NEW key, Lists!Continues(s, Lists!List(key)) PROVE \E next : ListFollows(s, next)
  <2>1. Lists!List(key).at = "sent" /\ \A x \in ListParts : ListFetches(Lists!List(key), x)
    BY ListListIs DEF ListFetches
  <2>2. calls' = [calls EXCEPT ![s] = Lists!List(key)]
    BY <1>4 DEF Lists!Continues
  <2> QED
    BY <1>3, <2>1, <2>2
<1>5. ASSUME Lists!Ends(s), \A x \in ListParts : Told(Lists!NoCall, x) PROVE \E next : ListFollows(s, next)
  BY <1>3, <1>5 DEF Lists!Ends
<1>6. CASE Lists!ListArrives(s)
  <2>1. /\ Lists!Ends(s) /\ c.kind = "list"
        /\ view' = [v EXCEPT !.loading = FALSE, !.failed = v.failed \/ ~c.ok,
                             !.shown = IF c.ok THEN c.doc ELSE v.shown,
                             !.half = IF c.ok THEN {} ELSE v.half]
    BY <1>6 DEF Lists!ListArrives
  <2> HIDE DEF v
  <2>2. view'.failed = (v.failed \/ ~c.ok) /\ view'.shown = IF c.ok THEN c.doc ELSE v.shown
    BY <1>2, <2>1 DEF ListViewTyped
  <2>3. ASSUME NEW x \in ListParts PROVE Told(Lists!NoCall, x)
    <3>1. CASE c.ok = TRUE
      BY <2>1, <2>2, <3>1 DEF ListBrings
    <3>2. CASE c.ok = FALSE
      BY <2>2, <3>2
    <3> QED
      BY <1>1, <3>1, <3>2 DEF ListFits
  <2> QED
    BY <1>5, <2>1, <2>3
<1>7. CASE Lists!FailureArrives(s)
  <2>1. CASE c.key = <<"drop">>
    BY <1>4, <1>7, <2>1 DEF Lists!FailureArrives
  <2>2. CASE c.key # <<"drop">>
    <3>1. /\ Lists!Ends(s) /\ c.kind # "list" /\ ~c.ok
          /\ view' = [v EXCEPT !.half = IF c.kind = "root" THEN v.half \union {c.row} ELSE v.half]
      BY <1>7, <2>2 DEF Lists!FailureArrives
    <3> HIDE DEF v
    <3>2. /\ view'.shown = view.shown /\ view'.failed = view.failed
          /\ view'.half = IF c.kind = "root" THEN view.half \union {c.row} ELSE view.half
      BY <1>2, <3>1 DEF ListViewTyped
    <3>3. ASSUME NEW x \in ListParts PROVE Told(Lists!NoCall, x)
      <4>1. ListRedoes(c, x) => c.kind = "root" /\ c.row = x
        BY <3>1 DEF ListRedoes
      <4> QED
        BY <3>2, <4>1
    <3> QED
      BY <1>5, <3>1, <3>3
  <2> QED
    BY <2>1, <2>2
<1>8. CASE Lists!DocumentArrives(s)
  <2>1. /\ Lists!Ends(s) /\ c.kind # "list" /\ c.ok /\ page \in {"whitelist", "ops"}
        /\ view' = [v EXCEPT !.shown = IF c.kind = "restart" THEN v.shown ELSE c.doc,
                             !.banner = Lists!BannerAfter(c)]
    BY <1>8 DEF Lists!DocumentArrives
  <2> HIDE DEF v
  <2>2. /\ view'.shown = IF c.kind = "restart" THEN view.shown ELSE c.doc
        /\ view'.failed = view.failed /\ view'.half = view.half
    BY <1>2, <2>1 DEF ListViewTyped
  <2>3. c.ok = TRUE
    BY <1>1, <2>1 DEF ListFits
  <2>4. ASSUME NEW x \in ListParts PROVE Told(Lists!NoCall, x)
    BY <2>1, <2>2, <2>3 DEF ListBrings, ListRedoes
  <2> QED
    BY <1>5, <2>1, <2>4
<1>9. CASE Lists!EffectArrives(s)
  <2>1. CASE c.key = <<"run">>
    <3>1. /\ Lists!Ends(s) /\ c.kind # "list" /\ page \in {"backups", "tasks", "plugins"}
          /\ view' = [v EXCEPT !.timer = TRUE]
      BY <1>9, <2>1 DEF Lists!EffectArrives
    <3> HIDE DEF v
    <3>2. view'.shown = view.shown /\ view'.failed = view.failed /\ view'.half = view.half
      BY <1>2, <3>1 DEF ListViewTyped
    <3>3. ASSUME NEW x \in ListParts PROVE Told(Lists!NoCall, x)
      BY <2>1, <3>1, <3>2 DEF ListRedoes
    <3> QED
      BY <1>5, <3>1, <3>3
  <2>2. CASE c.key # <<"run">>
    <3>1. \E key : Lists!Continues(s, Lists!List(key))
      BY <1>9, <2>2 DEF Lists!EffectArrives
    <3> QED
      BY <1>4, <3>1
  <2> QED
    BY <2>1, <2>2
<1>10. CASE Lists!AccountArrives(s)
  <2> DEFINE again == [c EXCEPT !.kind = "root", !.at = "sent"]
             row == IF c.kind = "touch" \/ (c.kind # "add" /\ v.shown.rows[c.row] = Lists!NoRow) THEN v.shown.rows[c.row]
                    ELSE IF c.kind = "remove" THEN Lists!NoRow ELSE c.doc.rows[c.row]
             modal == IF c.kind \in {"text", "root"} THEN "none" ELSE v.modal
             half == IF c.kind = "touch" THEN v.half ELSE v.half \ {c.row}
  <2>1. /\ c.kind # "list" /\ c.ok /\ page = "users"
        /\ \/ Lists!Continues(s, again) /\ UNCHANGED view /\ c.kind = "text"
           \/ Lists!Ends(s) /\ view' = [v EXCEPT !.shown.rows[c.row] = row, !.modal = modal, !.half = half]
    BY <1>10, Zenon DEF Lists!AccountArrives
  <2>2. CASE Lists!Continues(s, again) /\ UNCHANGED view /\ c.kind = "text"
    <3>1. again.kind = "root" /\ again.at = "sent" /\ again.row = c.row
      BY <1>1 DEF ListFits
    <3>2. again # Lists!NoCall
      BY <3>1 DEF Lists!NoCall
    <3> HIDE DEF again
    <3>3. ASSUME NEW x \in ListParts PROVE Told(again, x)
      <4>1. CASE x = c.row
        BY <2>1, <3>1, <3>2, <4>1 DEF ListFetches
      <4>2. CASE x # c.row
        <5>1. ~ListRedoes(c, x)
          BY <2>1, <4>2 DEF ListRedoes
        <5> QED
          BY <2>2, <5>1
      <4> QED
        BY <4>1, <4>2
    <3>4. calls' = [calls EXCEPT ![s] = again]
      BY <2>2 DEF Lists!Continues
    <3> QED
      BY <1>3, <3>1, <3>3, <3>4
  <2>3. CASE Lists!Ends(s) /\ view' = [v EXCEPT !.shown.rows[c.row] = row, !.modal = modal, !.half = half]
    <3>1. ListOfUsers(c) /\ c.ok = TRUE
      BY <1>1, <2>1 DEF ListLoaded, ListFits
    <3>2. c.kind # "touch" => row = c.doc.rows[c.row]
      BY <1>1, <1>2, <2>1, <3>1 DEF ListOfUsers, ListKnown
    <3>3. c.kind = "touch" => row = view.shown.rows[c.row]
      BY <1>2
    <3>4. half = IF c.kind = "touch" THEN view.half ELSE view.half \ {c.row}
      BY <1>2
    <3> HIDE DEF row, modal, half, v
    <3>5. /\ view'.failed = view.failed /\ view'.half = half /\ view'.shown.flag = view.shown.flag
          /\ \A r \in Rows : r # c.row => view'.shown.rows[r] = view.shown.rows[r]
          /\ view'.shown.rows[c.row] = row
      <4>1. v.shown \in [rows : [Rows -> Lists!Row \union {Lists!NoRow}], flag : BOOLEAN]
        BY <1>2 DEF ListViewTyped, Lists!Doc
      <4>2. view' = [v EXCEPT !.shown = [v.shown EXCEPT !.rows = [v.shown.rows EXCEPT ![c.row] = row]],
                              !.modal = modal, !.half = half]
        BY <2>3
      <4>3. /\ view'.failed = v.failed /\ view'.half = half
            /\ view'.shown = [v.shown EXCEPT !.rows = [v.shown.rows EXCEPT ![c.row] = row]]
        BY <1>2, <4>2 DEF ListViewTyped
      <4>4. view'.shown.rows = [v.shown.rows EXCEPT ![c.row] = row] /\ view'.shown.flag = v.shown.flag
        BY <4>1, <4>3
      <4> QED
        BY <1>1, <1>2, <4>1, <4>3, <4>4
    <3>6. ASSUME NEW x \in ListParts PROVE Told(Lists!NoCall, x)
      <4>1. CASE x = c.row /\ c.kind # "touch"
        <5>1. ListBrings(c, x)
          BY <2>1, <3>1, <4>1 DEF ListBrings
        <5>2. ListPart(view'.shown, x) = ListPart(c.doc, x)
          BY <1>1, <3>2, <3>5, <4>1, ListFlagApart DEF ListPart
        <5> QED
          BY <5>1, <5>2
      <4>2. CASE x # c.row \/ c.kind = "touch"
        <5>1. ~ListRedoes(c, x)
          BY <2>1, <4>2 DEF ListRedoes
        <5>2. ListPart(view'.shown, x) = ListPart(view.shown, x)
          BY <1>1, <3>3, <3>5, <4>2 DEF ListPart, ListParts
        <5>3. x \in view.half => x \in view'.half
          BY <3>4, <3>5, <4>2
        <5> QED
          BY <3>5, <5>1, <5>2, <5>3
      <4> QED
        BY <4>1, <4>2
    <3> QED
      BY <1>5, <2>3, <3>6
  <2> QED
    BY <2>1, <2>2, <2>3
<1> QED
  BY <1>6, <1>7, <1>8, <1>9, <1>10 DEF Lists!Deliver

-----------------------------------------------------------------------------
(***************************************************************************)
(* A part that is shown (place 0), and one that an answer brings, is what  *)
(* the server has, unless it is about to be loaded, or an answer behind it *)
(* says that it may have changed.                                          *)
(***************************************************************************)
ListCarried(i, x) == IF i = 0 THEN ~view.failed /\ x \notin view.half ELSE ListBrings(Waiting(i), x)
ListEntered(i) == IF i = 0 THEN view.shown ELSE Waiting(i).doc
ListAgrees(i, x) == ListPart(ListEntered(i), x) = ListPart(server.doc, x)
ListUnderway(x) == \E s \in Slots : ListFetches(calls[s], x)
ListNewer(i, x) == \E j \in 1..Len(order) : j > i /\ ListRedoes(Waiting(j), x)
ListCurrent == \A x \in ListParts : \A i \in 0..Len(order) :
             ListCarried(i, x) => ListAgrees(i, x) \/ ListUnderway(x) \/ ListNewer(i, x)

\* The queue stays, and what is in it.
ListStays ==
    /\ Queued' /\ Len(order) \in Nat /\ Len(order') = Len(order)
    /\ \A i \in 1..Len(order) : Waiting(i)' = Waiting(i)

LEMMA ListStillCurrent ==
    ASSUME ListCurrent, page' = page, ListStays, server' = server, ListSteady,
           view'.failed = view.failed \/ (\A x : ListUnderway(x)'), \A x : ListUnderway(x) => ListUnderway(x)'
    PROVE  ListCurrent'
<1> SUFFICES ASSUME NEW x \in ListParts, NEW i \in 0..Len(order), ListCarried(i, x)', ~ListUnderway(x)'
             PROVE  ListAgrees(i, x)' \/ ListNewer(i, x)'
  BY DEF ListCurrent, ListStays, ListParts, ListFlag
<1>1. ListCarried(i, x) /\ (ListAgrees(i, x) => ListAgrees(i, x)')
  <2>1. CASE i = 0
    BY <2>1 DEF ListCarried, ListAgrees, ListEntered, ListSteady, ListPart, ListFlag
  <2>2. CASE i # 0
    <3>1. i \in 1..Len(order) /\ Waiting(i)' = Waiting(i)
      BY <2>2 DEF ListStays
    <3> QED
      BY <2>2, <3>1 DEF ListCarried, ListAgrees, ListEntered, ListPart, ListFlag, ListBrings
  <2> QED
    BY <2>1, <2>2
<1>2. ASSUME NEW j \in 1..Len(order), j > i, ListRedoes(Waiting(j), x) PROVE ListNewer(i, x)'
  <2>1. j \in 1..Len(order') /\ ListRedoes(Waiting(j), x)'
    BY <1>2 DEF ListStays, ListRedoes
  <2> QED
    BY <1>2, <2>1 DEF ListNewer
<1> QED
  BY <1>1, <1>2 DEF ListCurrent, ListNewer

LEMMA ListIdleCurrent ==
    ASSUME Queued, ListCurrent, page' = page, calm, calm' = calm, ListIdle
    PROVE  Queued' /\ ListCurrent'
<1>1. Untouched
  BY DEF ListIdle, Untouched
<1>2. Queued' /\ \A i \in 1..Len(order) : order'[i] = order[i] /\ Waiting(i)' = Waiting(i)
  BY <1>1, RestQueued
<1>3. ListStays
  BY <1>2, QueueIs DEF ListStays, ListIdle
<1>4. \A x : ListUnderway(x) => ListUnderway(x)'
  BY DEF ListUnderway, ListIdle, ListFetches
<1> QED
  BY <1>2, <1>3, <1>4, ListStillCurrent DEF ListIdle

LEMMA ListAsksCurrent ==
    ASSUME ListTyped, Queued, ListCurrent, page' = page, calm, calm' = calm, NEW s \in Slots, NEW new,
           ListAsks(s, new)
    PROVE  Queued' /\ ListCurrent'
<1>1. /\ calls'[s] = new /\ (\A t \in Slots : t # s => calls'[t] = calls[t])
      /\ calls[s] = Lists!NoCall /\ new.at = "sent" /\ new # Lists!NoCall
      /\ order' = order /\ server' = server /\ ListSteady
      /\ (view'.failed = view.failed \/ new.kind = "list")
  BY ListOneSlot DEF ListAsks
<1>2. Untouched
  BY <1>1 DEF Untouched, Lists!NoCall
<1>3. Queued' /\ \A i \in 1..Len(order) : order'[i] = order[i] /\ Waiting(i)' = Waiting(i)
  BY <1>2, RestQueued
<1>4. ListStays
  BY <1>1, <1>3, QueueIs DEF ListStays
<1>5. new.kind = "list" => \A x : ListUnderway(x)'
  BY <1>1 DEF ListUnderway, ListFetches
<1>6. \A x : ListUnderway(x) => ListUnderway(x)'
  BY <1>1 DEF ListUnderway, ListFetches
<1> QED
  BY <1>1, <1>3, <1>4, <1>5, <1>6, ListStillCurrent

LEMMA ListServeCurrent ==
    ASSUME ListTyped, ListRunKeyed, Queued, ListCurrent, page' = page, calm, calm' = calm, NEW s \in Slots,
           Lists!Serve(s)
    PROVE  Queued' /\ ListCurrent'
<1>1. ListServed(s) /\ ListTells(s)
  BY ListServeIs
<1>2. calls = [t \in Slots |-> calls[t]]
  BY DEF ListTyped
<1>3. Appended(s)
  BY <1>1 DEF ListServed, Appended
<1>4. /\ Queued' /\ Len(order') = Len(order) + 1
      /\ \A i \in 1..Len(order) : order'[i] = order[i] /\ Waiting(i)' = Waiting(i)
      /\ \A i \in 1..Len(order') : i \in 1..Len(order) \/ (i = Len(order) + 1 /\ Waiting(i)' = calls'[s])
  BY <1>2, <1>3, AnswerQueued
<1>5. Len(order) \in Nat
  BY QueueIs
<1>6. PICK n \in Nat : n = Len(order) + 1
  BY <1>5
<1>7. n \in 1..Len(order') /\ Waiting(n)' = calls'[s] /\ n \notin 1..Len(order)
  BY <1>4, <1>5, <1>6
<1>8. ASSUME NEW x \in ListParts, NEW i \in 0..Len(order), ListCarried(i, x)'
      PROVE  ListAgrees(i, x)' \/ ListUnderway(x)' \/ ListNewer(i, x)'
  <2>1. ListCarried(i, x) /\ ListEntered(i)' = ListEntered(i)
    <3>1. CASE i = 0
      BY <1>1, <1>8, <3>1 DEF ListCarried, ListEntered, ListServed
    <3>2. CASE i # 0
      <4>1. i \in 1..Len(order) /\ Waiting(i)' = Waiting(i)
        BY <1>4, <1>5, <3>2
      <4> QED
        BY <1>8, <3>2, <4>1 DEF ListCarried, ListEntered, ListBrings
    <3> QED
      BY <3>1, <3>2
  <2>2. n > i /\ i \in Nat
    BY <1>5, <1>6
  <2>3. ListRedoes(calls'[s], x) => ListNewer(i, x)'
    <3>1. ListRedoes(calls'[s], x) => ListRedoes(Waiting(n), x)'
      BY <1>7 DEF ListRedoes
    <3> QED
      BY <1>7, <2>2, <3>1 DEF ListNewer
  <2>4. CASE ListNewer(i, x)
    <3>1. PICK j \in 1..Len(order) : j > i /\ ListRedoes(Waiting(j), x)
      BY <2>4 DEF ListNewer
    <3>2. j \in 1..Len(order') /\ Waiting(j)' = Waiting(j)
      BY <1>4, <1>5
    <3>3. ListRedoes(Waiting(j), x)'
      BY <3>1, <3>2 DEF ListRedoes
    <3> QED
      BY <3>1, <3>2, <3>3 DEF ListNewer
  <2>5. CASE ListUnderway(x)
    <3>1. PICK t \in Slots : ListFetches(calls[t], x)
      BY <2>5 DEF ListUnderway
    <3>2. CASE t = s
      <4>1. calls'[s].kind = calls[s].kind /\ calls'[s].row = calls[s].row
        BY <1>1 DEF ListServed
      <4>2. ListRedoes(calls'[s], x)
        BY <3>1, <3>2, <4>1 DEF ListRedoes, ListFetches
      <4> QED
        BY <2>3, <4>2
    <3>3. CASE t # s
      <4>1. calls'[t] = calls[t]
        BY <1>1, <3>3, ListOneSlot DEF ListServed
      <4>2. ListFetches(calls[t], x)'
        BY <3>1, <4>1 DEF ListFetches
      <4> QED
        BY <4>2 DEF ListUnderway
    <3> QED
      BY <3>2, <3>3
  <2>6. CASE ListAgrees(i, x)
    <3>1. CASE ListPart(server'.doc, x) = ListPart(server.doc, x)
      BY <2>1, <2>6, <3>1 DEF ListAgrees, ListPart, ListFlag
    <3>2. CASE ListRedoes(calls'[s], x)
      BY <2>3, <3>2
    <3> QED
      BY <1>1, <3>1, <3>2 DEF ListTells
  <2> QED
    BY <2>1, <2>4, <2>5, <2>6 DEF ListCurrent
<1>9. ASSUME NEW x \in ListParts, ListCarried(n, x)'
       PROVE  ListAgrees(n, x)'
  <2>1. n # 0
    BY <1>5, <1>6
  <2>2. ListBrings(calls'[s], x)
    BY <1>7, <1>9, <2>1 DEF ListCarried, ListBrings
  <2>3. ListEntered(n)' = calls'[s].doc
    BY <1>7, <2>1 DEF ListEntered
  <2>4. ListPart(calls'[s].doc, x) = ListPart(server'.doc, x)
    BY <1>1, <2>2 DEF ListTells
  <2> QED
    BY <2>3, <2>4 DEF ListAgrees, ListPart, ListFlag
<1>10. \A i \in 0..Len(order') : i \in 0..Len(order) \/ i = n
  BY <1>4, <1>5, <1>6
<1>11. ListParts' = ListParts
  BY DEF ListParts, ListFlag
<1> QED
  BY <1>4, <1>8, <1>9, <1>10, <1>11 DEF ListCurrent

LEMMA ListFollowsCurrent ==
    ASSUME ListTyped, Queued, ListCurrent, page' = page, calm, calm' = calm,
           NEW s \in Slots, NEW next, Lists!Arrives(s), ListFollows(s, next)
    PROVE  Queued' /\ ListCurrent'
<1> DEFINE c == calls[s]
<1>1. calls'[s] = next /\ \A t \in Slots : t # s => calls'[t] = calls[t]
  BY ListOneSlot DEF ListFollows
<1>2. /\ c # Lists!NoCall /\ c.at = "answered" /\ server' = server
      /\ next = Lists!NoCall \/ (next # Lists!NoCall /\ next.at = "sent")
  BY DEF ListFollows
<1>3. Taken(s)
  <2>1. calls' = [calls EXCEPT ![s] = calls'[s]]
    BY <1>1 DEF ListFollows
  <2>2. calls'[s].at # "answered"
    BY <1>1, <1>2 DEF Lists!NoCall
  <2> QED
    BY <1>2, <2>1, <2>2 DEF Taken, Lists!Arrives
<1>4. calls = [t \in Slots |-> calls[t]]
  BY DEF ListTyped
<1>5. /\ Queued' /\ Len(order) # 0 /\ Waiting(1) = c /\ Len(order') = Len(order) - 1
      /\ \A i \in 1..Len(order') : i + 1 \in 1..Len(order) /\ Waiting(i)' = Waiting(i + 1)
  BY <1>3, <1>4, ArrivalQueued
<1>6. Len(order) \in Nat
  BY QueueIs
<1>7. ListParts' = ListParts
  BY DEF ListParts, ListFlag
<1> SUFFICES ASSUME NEW x \in ListParts, NEW i \in 0..Len(order'), ListCarried(i, x)', ~ListFetches(next, x)
             PROVE  ListAgrees(i, x)' \/ ListUnderway(x)' \/ ListNewer(i, x)'
  <2>1. \A x : ListFetches(next, x) => ListUnderway(x)'
    BY <1>1 DEF ListUnderway, ListFetches
  <2> QED
    BY <1>5, <1>7, <2>1 DEF ListCurrent
<1>8. ListUnderway(x) => ListUnderway(x)'
  BY <1>1, <1>2 DEF ListUnderway, ListFetches
<1>9. i = 0 => \/ ListBrings(c, x) /\ ListPart(view'.shown, x) = ListPart(c.doc, x)
               \/ /\ ~ListRedoes(c, x) /\ ListPart(view'.shown, x) = ListPart(view.shown, x)
                  /\ ~view.failed /\ x \notin view.half
  BY DEF ListFollows, ListCarried
\* The place where it was.
<1> DEFINE stays == /\ ~ListRedoes(c, x) /\ ListPart(view'.shown, x) = ListPart(view.shown, x)
                    /\ ~view.failed /\ x \notin view.half
           k == IF i = 0 /\ stays THEN 0 ELSE i + 1
<1>10. /\ k \in 0..Len(order) /\ ListCarried(k, x) /\ ListPart(ListEntered(i)', x) = ListPart(ListEntered(k), x)
       /\ k = 0 => ~ListRedoes(c, x)
  <2>1. CASE i = 0 /\ stays
    <3>1. k = 0
      BY <2>1
    <3> QED
      BY <1>6, <2>1, <3>1 DEF ListCarried, ListEntered
  <2>2. CASE i = 0 /\ ~stays
    <3>1. k = 1 /\ 1 \in 0..Len(order) /\ Waiting(1) = c
      BY <1>5, <1>6, <2>2
    <3>2. ListBrings(c, x) /\ ListPart(view'.shown, x) = ListPart(c.doc, x)
      BY <1>9, <2>2
    <3> HIDE DEF k
    <3> QED
      BY <2>2, <3>1, <3>2 DEF ListCarried, ListEntered
  <2>3. CASE i # 0
    <3>1. k = i + 1 /\ i \in 1..Len(order') /\ k \in 1..Len(order) /\ Waiting(i)' = Waiting(k) /\ k # 0
      BY <1>5, <1>6, <2>3
    <3> HIDE DEF k
    <3> QED
      BY <2>3, <3>1 DEF ListCarried, ListEntered, ListBrings
  <2> QED
    BY <2>1, <2>2, <2>3
<1>11. k >= i /\ (k = 0 \/ k = i + 1)
  BY <1>5, <1>6
<1> HIDE DEF k
<1>12. ListAgrees(k, x) => ListAgrees(i, x)'
  BY <1>2, <1>10 DEF ListAgrees, ListPart, ListFlag
<1>13. ASSUME NEW j \in 1..Len(order), j > k, ListRedoes(Waiting(j), x)
       PROVE  ListNewer(i, x)'
  <2>1. j # 1
    BY <1>5, <1>10, <1>11, <1>13
  <2>2. PICK m \in Nat : m = j - 1
    BY <1>6, <2>1
  <2>3. m \in 1..Len(order') /\ m > i /\ m + 1 = j
    <3>1. CASE k = 0
      BY <1>5, <1>6, <1>11, <2>1, <2>2, <3>1
    <3>2. CASE k = i + 1
      BY <1>5, <1>6, <1>13, <2>1, <2>2, <3>2
    <3> QED
      BY <1>11, <3>1, <3>2
  <2>4. Waiting(m)' = Waiting(j)
    BY <1>5, <2>3
  <2>5. ListRedoes(Waiting(m), x)'
    BY <1>13, <2>4 DEF ListRedoes
  <2> QED
    BY <2>3, <2>5 DEF ListNewer
<1> QED
  BY <1>8, <1>10, <1>12, <1>13 DEF ListCurrent, ListNewer

-----------------------------------------------------------------------------
ListSettling == calm => Queued /\ ListRunKeyed /\ ListLoaded /\ ListCurrent

LEMMA ListInitSettling == Lists!Init => ListSettling
<1> SUFFICES ASSUME Lists!Init PROVE ListCurrent
  BY ListInitQueued, ListInitLoaded DEF ListSettling
<1>1. PICK s \in Slots : calls[s] = Lists!List(Lists!NoKey)
  BY DEF Lists!Init
<1>2. \A x : ListUnderway(x)
  BY <1>1, ListListIs DEF ListUnderway, ListFetches
<1> QED
  BY <1>2 DEF ListCurrent

LEMMA ListNextSettling ==
    ASSUME Locked, ListTyped, ListSettling, ListsStep
    PROVE  ListSettling'
<1>1. CASE UNCHANGED vars
  <2>1. ListSteady /\ ListSameList /\ calls' = calls /\ order' = order /\ server' = server /\ page' = page
          /\ calm' = calm
        /\ view' = view
    BY <1>1 DEF vars, ListSteady, ListSameList
  <2>2. ListIdle
    BY <2>1 DEF ListIdle
  <2> SUFFICES ASSUME calm PROVE Queued' /\ ListRunKeyed' /\ ListLoaded' /\ ListCurrent'
    BY <2>1 DEF ListSettling
  <2> QED
    BY <2>1, <2>2, ListIdleCurrent, ListRunView, ListShowLoaded DEF ListSettling
<1>2. CASE Lists!Next
  <2>1. calm' = calm /\ page' = page
    BY <1>2, ListsFixed DEF Fixed
  <2> SUFFICES ASSUME calm PROVE Queued' /\ ListRunKeyed' /\ ListLoaded' /\ ListCurrent'
    BY <2>1 DEF ListSettling
  <2>2. Queued /\ ListRunKeyed /\ ListLoaded /\ ListCurrent
    BY DEF ListSettling
  <2>3. CASE Lists!Acts \/ Lists!Confirm \/ Lists!Cancel \/ Lists!TaskForm
    <3>1. Queued' /\ ListCurrent'
      BY <2>1, <2>2, <2>3, ListUserAsks, ListIdleCurrent, ListAsksCurrent
    <3> QED
      BY <2>1, <2>2, <2>3, <3>1, ListUserRun, ListUserLoaded
  <2>4. ASSUME NEW s \in Slots, Lists!Serve(s) PROVE Queued' /\ ListRunKeyed' /\ ListLoaded' /\ ListCurrent'
    BY <2>1, <2>2, <2>4, ListServeIs, ListServeRun, ListServeLoaded, ListServeCurrent
  <2>5. ASSUME NEW s \in Slots, Lists!Deliver(s) PROVE Queued' /\ ListRunKeyed' /\ ListLoaded' /\ ListCurrent'
    <3>1. Lists!Arrives(s)
      BY <2>5 DEF Lists!Deliver
    <3>2. Queued' /\ ListCurrent'
      BY <2>1, <2>2, <2>5, <3>1, ListDeliverFollows, ListFollowsCurrent
    <3> QED
      BY <2>1, <2>2, <2>5, <3>2, ListDeliverRun, ListDeliverLoaded
  <2>6. ~Lists!Elsewhere
    BY DEF Lists!Elsewhere
  <2> QED
    BY <1>2, <2>3, <2>4, <2>5, <2>6 DEF Lists!Next
<1> QED
  BY <1>1, <1>2 DEF ListsStep

LEMMA ListCurrentSettles ==
    ASSUME ListTyped, ListSettling, calm
    PROVE  Lists!SettledViewIsTruth
<1> SUFFICES ASSUME Lists!Quiet, ~view.failed
             PROVE  /\ view.shown.flag = server.doc.flag
                    /\ \A r \in Rows \ view.half : view.shown.rows[r] = server.doc.rows[r]
  BY DEF Lists!SettledViewIsTruth
<1>1. Queued /\ ListCurrent
  BY DEF ListSettling
<1>2. Len(order) \in Nat /\ \A i \in 1..Len(order) : order[i] \in Slots /\ calls[order[i]].at = "answered"
  BY <1>1, QueueIs
<1>3. \A s \in Slots : calls[s].at # "answered"
  <2>1. Lists!NoCall.at # "answered"
    BY DEF Lists!NoCall
  <2> QED
    BY <2>1 DEF Lists!Quiet
<1>4. Len(order) = 0
  BY <1>2, <1>3
<1>5. \A x : ~ListUnderway(x)
  BY DEF Lists!Quiet, ListUnderway, ListFetches
<1>6. \A x \in ListParts : x \notin view.half => ListPart(view.shown, x) = ListPart(server.doc, x)
  BY <1>1, <1>4, <1>5 DEF ListCurrent, ListCarried, ListNewer, ListAgrees, ListEntered
<1>7. ListFlag \in ListParts /\ ListFlag \notin view.half
  BY ListFlagApart, ListViewIs DEF ListParts, ListViewTyped
<1>8. view.shown.flag = server.doc.flag
  BY <1>6, <1>7 DEF ListPart
<1>9. \A r \in Rows \ view.half : view.shown.rows[r] = server.doc.rows[r]
  BY <1>6, ListFlagApart DEF ListPart, ListParts
<1> QED
  BY <1>8, <1>9

-----------------------------------------------------------------------------
(***************************************************************************)
(* The tasks.  A request is a listing, that of the form, which stays open  *)
(* and locked until the answer, or one about a row that no form is open    *)
(* for.  A new task is not there before it is stored, and the toggle of a  *)
(* task carries the text that the server has.                              *)
(***************************************************************************)
ListOfForm(c, v) ==
    /\ c.kind \in {"add", "put"} /\ c.key = <<"modal">>
    /\ <<"modal">> \in v.busy /\ v.modal # "none"
    /\ c.kind = "put" => v.modal = c.row

ListOfRow(c, v) == c.kind \in {"put", "touch", "remove"} /\ c.key = <<"row", c.row>> /\ v.modal # c.row

ListRight(c, v) == (c.kind = "list" /\ c.key # <<"modal">>) \/ ListOfForm(c, v) \/ ListOfRow(c, v)

ListApt(c, doc) ==
    /\ c.at = "sent" /\ c.kind = "add" => doc.rows[c.row] = Lists!NoRow
    /\ c.at = "sent" /\ c.kind = "put" /\ c.key # <<"modal">> =>
         doc.rows[c.row] # Lists!NoRow /\ doc.rows[c.row].text = c.value.text

ListAskedRight(v) ==
    v.dialog # Lists!NoCall =>
        v.modal = "none" /\ v.dialog.kind = "remove" /\ v.dialog.key = <<"row", v.dialog.row>>

ListForms ==
    page = "tasks" =>
        /\ \A s \in Slots : calls[s] # Lists!NoCall =>
             ListRight(calls[s], view) /\ ListApt(calls[s], server.doc)
        /\ \A s, t \in Slots : /\ calls[s] # Lists!NoCall /\ calls[t] # Lists!NoCall
                               /\ calls[s].key = <<"modal">> /\ calls[t].key = <<"modal">>
                               => s = t
        /\ ListAskedRight(view)

(***************************************************************************)
(* Where a task of a list, shown (place 0) or on its way, has another text *)
(* than the server's, the list is loading, or the answer to the request    *)
(* that changed the task is behind it.                                     *)
(***************************************************************************)
ListDrawn(i) == IF i = 0 THEN ~view.failed ELSE Waiting(i).ok = TRUE /\ Waiting(i).kind = "list"
ListDiffers(row, r) == row # Lists!NoRow /\ (Lists!Held(r) = Lists!NoRow \/ row.text # Lists!Held(r).text)
ListSaved(c, r) == c.ok = TRUE /\ c.kind \notin {"list", "touch"} /\ c.row = r
ListBehind ==
    page = "tasks" =>
        \A r \in Rows : \A i \in 0..Len(order) :
            ListDrawn(i) /\ ListDiffers(ListEntered(i).rows[r], r) =>
                \/ i = 0 /\ view.loading
                \/ \E j \in 1..Len(order) : j > i /\ ListSaved(Waiting(j), r)

LEMMA ListFormsSlot ==
    ASSUME ListTyped, ListForms, page = "tasks", page' = page, NEW s \in Slots, NEW next,
           calls' = [calls EXCEPT ![s] = next],
           next # Lists!NoCall => ListRight(next, view') /\ ListApt(next, server'.doc),
           next # Lists!NoCall /\ next.key = <<"modal">> =>
             \A t \in Slots : t # s /\ calls[t] # Lists!NoCall => calls[t].key # <<"modal">>,
           \A t \in Slots : t # s /\ calls[t] # Lists!NoCall =>
             ListRight(calls[t], view') /\ ListApt(calls[t], server'.doc),
           ListAskedRight(view')
    PROVE  ListForms'
<1>1. calls'[s] = next /\ \A t \in Slots : t # s => calls'[t] = calls[t]
  BY ListOneSlot
<1>2. \A t \in Slots : calls'[t] # Lists!NoCall =>
        ListRight(calls'[t], view') /\ ListApt(calls'[t], server'.doc)
  BY <1>1
<1>3. ASSUME NEW t \in Slots, NEW q \in Slots, calls'[t] # Lists!NoCall, calls'[q] # Lists!NoCall,
             calls'[t].key = <<"modal">>, calls'[q].key = <<"modal">>
      PROVE  t = q
  BY <1>1, <1>3 DEF ListForms
<1> QED
  BY <1>2, <1>3 DEF ListForms

\* The requests stay, and what the server has.
LEMMA ListFormsView ==
    ASSUME ListForms, page = "tasks", page' = page, calls' = calls, server' = server,
           \A s \in Slots : calls[s] # Lists!NoCall => ListRight(calls[s], view'),
           ListAskedRight(view')
    PROVE  ListForms'
  BY DEF ListForms

LEMMA ListRightStays ==
    ASSUME NEW c, NEW v, NEW w, ListRight(c, v), w.modal = v.modal,
           <<"modal">> \in v.busy => <<"modal">> \in w.busy
    PROVE  ListRight(c, w)
  BY DEF ListRight, ListOfForm, ListOfRow

-----------------------------------------------------------------------------
(* What the user does to tasks. *)

\* The list stays, or is about to be loaded.
ListLeaves ==
    /\ page' = page /\ server' = server /\ view'.shown = view.shown
    /\ view'.loading = TRUE \/ (view'.loading = view.loading /\ view'.failed = view.failed)

LEMMA ListFormBegin ==
    ASSUME ListTyped, ListForms, page = "tasks", NEW new, new # Lists!NoCall, Lists!Begin(new),
           ListOfRow(new, view)
           \/ (/\ new.key = <<"modal">> /\ <<"modal">> \notin view.busy /\ view.modal # "none"
               /\ new.kind \in {"add", "put"} /\ (new.kind = "put" => view.modal = new.row)),
           ListApt(new, server.doc)
    PROVE  ListForms' /\ ListLeaves
<1>1. Lists!Send(new) /\ view' = [view EXCEPT !.busy = view.busy \union {new.key}]
  BY DEF Lists!Begin
<1>2. PICK s \in Slots : calls' = [calls EXCEPT ![s] = new] /\ calls[s] = Lists!NoCall
  BY <1>1, ListFree
<1>3. /\ page' = page /\ server' = server
      /\ view'.modal = view.modal /\ view'.busy = view.busy \union {new.key} /\ view'.dialog = view.dialog
      /\ view'.shown = view.shown /\ view'.loading = view.loading /\ view'.failed = view.failed
  BY <1>1, ListViewIs DEF ListViewTyped, Lists!Send
<1>4. ListLeaves
  BY <1>3 DEF ListLeaves
<1>5. ListRight(new, view')
  BY <1>3 DEF ListRight, ListOfForm, ListOfRow
<1>6. \A t \in Slots : calls[t] # Lists!NoCall => ListRight(calls[t], view') /\ ListApt(calls[t], server'.doc)
  <2>1. <<"modal">> \in view.busy => <<"modal">> \in view'.busy
    BY <1>3
  <2> QED
    BY <1>3, <2>1, ListRightStays DEF ListForms
<1>7. ListAskedRight(view')
  BY <1>3 DEF ListForms, ListAskedRight
<1>8. ASSUME new.key = <<"modal">>, NEW t \in Slots, calls[t] # Lists!NoCall PROVE calls[t].key # <<"modal">>
  <2>1. <<"modal">> \notin view.busy
    BY <1>8 DEF ListOfRow
  <2>2. ListRight(calls[t], view)
    BY <1>8 DEF ListForms
  <2> QED
    BY <2>1, <2>2 DEF ListRight, ListOfForm, ListOfRow
<1> QED
  BY <1>2, <1>3, <1>4, <1>5, <1>6, <1>7, <1>8, ListFormsSlot

LEMMA ListFormShows ==
    ASSUME ListTyped, ListForms, page = "tasks", NEW v, Lists!Shows(v),
           v.shown = view.shown, v.loading = view.loading, v.failed = view.failed,
           \A s \in Slots : calls[s] # Lists!NoCall => ListRight(calls[s], v), ListAskedRight(v)
    PROVE  ListForms' /\ ListLeaves
<1>1. view' = v /\ page' = page /\ server' = server /\ calls' = calls
  BY DEF Lists!Shows
<1> QED
  BY <1>1, ListFormsView DEF ListLeaves

LEMMA ListFormModal ==
    ASSUME ListTyped, ListForms, page = "tasks", NEW m, Lists!Shows([view EXCEPT !.modal = m]),
           view.dialog = Lists!NoCall \/ m = "none",
           \A s \in Slots : calls[s] # Lists!NoCall =>
             calls[s].key # <<"modal">> /\ (calls[s].key = <<"row", calls[s].row>> => calls[s].row # m)
    PROVE  ListForms' /\ ListLeaves
<1> DEFINE v == [view EXCEPT !.modal = m]
<1>1. /\ v.shown = view.shown /\ v.loading = view.loading /\ v.failed = view.failed
      /\ v.dialog = view.dialog /\ v.modal = m
  BY ListViewIs DEF ListViewTyped
<1> HIDE DEF v
<1>2. \A s \in Slots : calls[s] # Lists!NoCall => ListRight(calls[s], v)
  BY <1>1 DEF ListForms, ListRight, ListOfForm, ListOfRow
<1>3. ListAskedRight(v)
  BY <1>1 DEF ListForms, ListAskedRight
<1> QED
  BY <1>1, <1>2, <1>3, ListFormShows DEF v

LEMMA ListFormAsk ==
    ASSUME ListTyped, ListForms, page = "tasks", NEW r,
           Lists!Ask(Lists!Call("remove", r, Lists!NoRow, <<"row", r>>)), view.modal = "none"
    PROVE  ListForms' /\ ListLeaves
<1>1. PICK call : call = Lists!Call("remove", r, Lists!NoRow, <<"row", r>>)
  OBVIOUS
<1>2. call.kind = "remove" /\ call.row = r /\ call.key = <<"row", r>>
  BY <1>1, ListCallIs
<1> DEFINE v == [view EXCEPT !.dialog = call]
<1>3. /\ v.shown = view.shown /\ v.loading = view.loading /\ v.failed = view.failed
      /\ v.dialog = call /\ v.modal = view.modal /\ v.busy = view.busy
  BY ListViewIs DEF ListViewTyped
<1> HIDE DEF v
<1>4. \A s \in Slots : calls[s] # Lists!NoCall => ListRight(calls[s], v)
  BY <1>3, ListRightStays DEF ListForms
<1>5. ListAskedRight(v)
  BY <1>2, <1>3 DEF ListAskedRight
<1>6. Lists!Shows(v)
  BY <1>1 DEF Lists!Ask, v
<1> QED
  BY <1>3, <1>4, <1>5, <1>6, ListFormShows

LEMMA ListModalFree ==
    ASSUME ListForms, page = "tasks", <<"modal">> \notin view.busy \/ view.modal = "none",
           NEW s \in Slots, calls[s] # Lists!NoCall
    PROVE  calls[s].key # <<"modal">>
<1>1. ListRight(calls[s], view)
  BY DEF ListForms
<1>2. <<"modal">> # <<"row", calls[s].row>>
  OBVIOUS
<1> QED
  BY <1>1, <1>2 DEF ListRight, ListOfForm, ListOfRow

\* A row that is free shows the text that the server has.
LEMMA ListFreeShowsTruth ==
    ASSUME ListTyped, Locked, Queued, calm, ListForms, ListBehind, page = "tasks", NEW r \in Rows,
           Lists!RowFree(r)
    PROVE  /\ Lists!Held(r) # Lists!NoRow /\ Lists!Held(r).text = view.shown.rows[r].text
           /\ \A s \in Slots : calls[s] # Lists!NoCall =>
                calls[s].key # <<"row", r>> /\ calls[s].key # <<"modal">>
<1>1. /\ view.modal = "none" /\ ~view.loading /\ ~view.failed /\ view.shown.rows[r] # Lists!NoRow
      /\ <<"row", r>> \notin view.busy
  BY DEF Lists!RowFree, Lists!Clear, Lists!RowKey
<1>2. ASSUME NEW s \in Slots, calls[s] # Lists!NoCall
      PROVE  calls[s].key # <<"row", r>> /\ calls[s].key # <<"modal">>
  <2>1. calls[s].key = <<"row", r>> => ListRowKeyed(calls[s])
    BY DEF ListRowKeyed
  <2> QED
    BY <1>1, <1>2, <2>1, ListModalFree DEF Locked
<1>3. ASSUME ListDiffers(view.shown.rows[r], r) PROVE FALSE
  <2>1. 0 \in 0..Len(order) /\ ListDrawn(0) /\ ListDiffers(ListEntered(0).rows[r], r)
    BY <1>1, <1>3, QueueIs DEF ListDrawn, ListEntered
  <2>2. PICK j \in 1..Len(order) : ListSaved(Waiting(j), r)
    BY <1>1, <2>1 DEF ListBehind
  <2>3. order[j] \in Slots /\ Waiting(j).at = "answered"
    BY QueueIs DEF Waiting
  <2>4. Waiting(j) # Lists!NoCall
    BY <2>3 DEF Lists!NoCall
  <2>5. ListRight(Waiting(j), view)
    BY <2>3, <2>4 DEF ListForms, Waiting
  <2>6. Waiting(j).key # <<"row", r>> /\ Waiting(j).key # <<"modal">>
    BY <1>2, <2>3, <2>4 DEF Waiting
  <2> QED
    BY <2>2, <2>5, <2>6 DEF ListSaved, ListRight, ListOfForm, ListOfRow
<1> QED
  BY <1>1, <1>2, <1>3 DEF ListDiffers

LEMMA ListFormReload ==
    ASSUME ListTyped, ListForms, page = "tasks", Lists!Refresh(Lists!NoKey)
    PROVE  ListForms' /\ ListLeaves
<1>1. Lists!Send(Lists!List(Lists!NoKey)) /\ view' = [view EXCEPT !.loading = TRUE, !.failed = FALSE]
  BY DEF Lists!Refresh
<1>2. PICK s \in Slots : calls' = [calls EXCEPT ![s] = Lists!List(Lists!NoKey)] /\ calls[s] = Lists!NoCall
  BY <1>1, ListFree
<1>3. PICK new : new = Lists!List(Lists!NoKey)
  OBVIOUS
<1>4. new # Lists!NoCall /\ new.at = "sent" /\ new.kind = "list" /\ new.key # <<"modal">>
  BY <1>3, ListListIs DEF Lists!NoKey
<1>5. /\ page' = page /\ server' = server
      /\ view'.modal = view.modal /\ view'.busy = view.busy /\ view'.dialog = view.dialog
      /\ view'.shown = view.shown /\ view'.loading = TRUE
  BY <1>1, ListViewIs DEF ListViewTyped, Lists!Send
<1>6. \A t \in Slots : calls[t] # Lists!NoCall => ListRight(calls[t], view') /\ ListApt(calls[t], server'.doc)
  BY <1>5, ListRightStays DEF ListForms
<1>7. ListRight(new, view') /\ ListApt(new, server'.doc)
  BY <1>4 DEF ListRight, ListApt
<1>8. ListAskedRight(view')
  BY <1>5 DEF ListForms, ListAskedRight
<1>9. calls' = [calls EXCEPT ![s] = new]
  BY <1>2, <1>3
<1>10. ListLeaves
  BY <1>5 DEF ListLeaves
<1> QED
  BY <1>4, <1>5, <1>6, <1>7, <1>8, <1>9, <1>10, ListFormsSlot

LEMMA ListFormConfirm ==
    ASSUME ListTyped, ListForms, page = "tasks", Lists!Confirm
    PROVE  ListForms' /\ ListLeaves
<1>1. PICK new : new = view.dialog
  OBVIOUS
<1>2. /\ new # Lists!NoCall /\ Lists!Send(new)
      /\ view' = [view EXCEPT !.dialog = Lists!NoCall, !.busy = view.busy \union {new.key}]
  BY <1>1 DEF Lists!Confirm
<1>3. new.kind = "remove" /\ new.key = <<"row", new.row>> /\ view.modal = "none" /\ new.row \in Rows
  BY <1>1, <1>2 DEF ListForms, ListAskedRight, ListTyped, ListAsked, ListFits
<1>4. PICK s \in Slots : calls' = [calls EXCEPT ![s] = new] /\ calls[s] = Lists!NoCall
  BY <1>2, ListFree
<1>5. /\ page' = page /\ server' = server
      /\ view'.modal = view.modal /\ view'.busy = view.busy \union {new.key} /\ view'.dialog = Lists!NoCall
      /\ view'.shown = view.shown /\ view'.loading = view.loading /\ view'.failed = view.failed
  BY <1>2, ListViewIs DEF ListViewTyped, Lists!Send
<1>6. \A t \in Slots : calls[t] # Lists!NoCall => ListRight(calls[t], view') /\ ListApt(calls[t], server'.doc)
  BY <1>5, ListRightStays DEF ListForms
<1>7. ListRight(new, view') /\ ListApt(new, server'.doc) /\ new.key # <<"modal">>
  <2>1. view'.modal # new.row
    BY <1>3, <1>5, FormAssumption
  <2> QED
    BY <1>3, <2>1 DEF ListRight, ListOfRow, ListApt
<1>8. ListAskedRight(view') /\ ListLeaves
  BY <1>5 DEF ListAskedRight, ListLeaves
<1> QED
  BY <1>4, <1>5, <1>6, <1>7, <1>8, ListFormsSlot

LEMMA ListFormCancel ==
    ASSUME ListTyped, ListForms, page = "tasks", Lists!Cancel
    PROVE  ListForms' /\ ListLeaves
<1> DEFINE v == [view EXCEPT !.dialog = Lists!NoCall]
<1>1. /\ v.shown = view.shown /\ v.loading = view.loading /\ v.failed = view.failed
      /\ v.dialog = Lists!NoCall /\ v.modal = view.modal /\ v.busy = view.busy
  BY ListViewIs DEF ListViewTyped
<1>2. Lists!Shows(v)
  BY DEF Lists!Cancel
<1> HIDE DEF v
<1>3. \A s \in Slots : calls[s] # Lists!NoCall => ListRight(calls[s], v)
  BY <1>1, ListRightStays DEF ListForms
<1>4. ListAskedRight(v)
  BY <1>1 DEF ListAskedRight
<1> QED
  BY <1>1, <1>2, <1>3, <1>4, ListFormShows

LEMMA ListFormTyped ==
    ASSUME ListTyped, ListForms, page = "tasks", calm, Lists!TaskForm
    PROVE  ListForms' /\ ListLeaves
<1>1. view.modal # "none" /\ view.dialog = Lists!NoCall
  BY DEF Lists!TaskForm, ListForms, ListAskedRight
<1>2. CASE <<"modal">> \notin view.busy /\ \E value \in Lists!Row : Lists!TaskSubmit(value)
  <2>1. PICK value \in Lists!Row, r \in Rows :
          IF view.modal = "new"
          THEN server.doc.rows[r] = Lists!NoRow /\ Lists!Begin(Lists!Call("add", r, value, <<"modal">>))
          ELSE r = view.modal /\ Lists!Begin(Lists!Call("put", r, value, <<"modal">>))
    BY <1>2 DEF Lists!TaskSubmit
  <2>2. PICK new : new = Lists!Call(IF view.modal = "new" THEN "add" ELSE "put", r, value, <<"modal">>)
    OBVIOUS
  <2>3. new # Lists!NoCall /\ new.key = <<"modal">> /\ new.row = r /\ new.kind = IF view.modal = "new" THEN "add" ELSE "put"
    BY <2>2, ListCallIs
  <2>4. Lists!Begin(new)
    BY <2>1, <2>2
  <2>5. ListApt(new, server.doc) /\ (new.kind = "put" => view.modal = new.row)
    BY <2>1, <2>3 DEF ListApt
  <2> QED
    BY <1>1, <1>2, <2>3, <2>4, <2>5, ListFormBegin
<1>3. CASE <<"modal">> \notin view.busy /\ Lists!Shows([view EXCEPT !.modal = "none"])
  <2>1. \A s \in Slots : calls[s] # Lists!NoCall => calls[s].row # "none" /\ calls[s].key # <<"modal">>
    BY <1>3, ListModalFree, FormAssumption DEF ListTyped, ListFits
  <2> QED
    BY <1>3, <2>1, ListFormModal
<1> QED
  BY <1>2, <1>3 DEF Lists!TaskForm

LEMMA ListFormUser ==
    ASSUME ListTyped, Locked, Queued, calm, ListForms, ListBehind, page = "tasks",
           Lists!Acts \/ Lists!Confirm \/ Lists!Cancel \/ Lists!TaskForm
    PROVE  ListForms' /\ ListLeaves
<1>1. ASSUME NEW r \in Rows, Lists!RowFree(r), Lists!TaskToggle(r) PROVE ListForms' /\ ListLeaves
  <2> DEFINE value == [view.shown.rows[r] EXCEPT !.on = ~view.shown.rows[r].on]
  <2>1. value.text = view.shown.rows[r].text
    BY <1>1, ListRowShown DEF Lists!RowFree, Lists!Row
  <2> HIDE DEF value
  <2>2. PICK new : new = Lists!Call("put", r, value, <<"row", r>>)
    OBVIOUS
  <2>3. /\ new # Lists!NoCall /\ new.at = "sent" /\ new.kind = "put" /\ new.row = r /\ new.value = value
        /\ new.key = <<"row", r>>
    BY <2>2, ListCallIs
  <2>4. Lists!Begin(new)
    BY <1>1, <2>2 DEF Lists!TaskToggle, Lists!RowKey, value
  <2>5. ListOfRow(new, view)
    BY <1>1, <2>3, FormAssumption DEF ListOfRow, Lists!RowFree, Lists!Clear
  <2>6. ListApt(new, server.doc)
    BY <1>1, <2>1, <2>3, ListFreeShowsTruth DEF ListApt, Lists!Held
  <2> QED
    BY <2>3, <2>4, <2>5, <2>6, ListFormBegin
<1>2. ASSUME NEW r \in Rows, Lists!RowFree(r), Lists!TaskRunNow(r) PROVE ListForms' /\ ListLeaves
  <2>1. PICK new : new = Lists!Call("touch", r, Lists!NoRow, <<"row", r>>)
    OBVIOUS
  <2>2. new # Lists!NoCall /\ new.kind = "touch" /\ new.row = r /\ new.key = <<"row", r>>
    BY <2>1, ListCallIs
  <2>3. Lists!Begin(new)
    BY <1>2, <2>1 DEF Lists!TaskRunNow, Lists!RowKey
  <2>4. ListOfRow(new, view) /\ ListApt(new, server.doc)
    BY <1>2, <2>2, FormAssumption DEF ListOfRow, ListApt, Lists!RowFree, Lists!Clear
  <2> QED
    BY <2>2, <2>3, <2>4, ListFormBegin
<1>3. ASSUME NEW r \in Rows, Lists!RowFree(r), Lists!TaskDelete(r) PROVE ListForms' /\ ListLeaves
  BY <1>3, ListFormAsk DEF Lists!TaskDelete, Lists!RowKey, Lists!RowFree, Lists!Clear
<1>4. ASSUME NEW r \in Rows, Lists!RowFree(r), Lists!Shows([view EXCEPT !.modal = r]) PROVE ListForms' /\ ListLeaves
  <2>1. view.dialog = Lists!NoCall
    BY <1>4 DEF Lists!RowFree, Lists!Clear
  <2>2. \A s \in Slots : calls[s] # Lists!NoCall => calls[s].key # <<"row", r>> /\ calls[s].key # <<"modal">>
    BY <1>4, ListFreeShowsTruth
  <2>3. \A s \in Slots : calls[s] # Lists!NoCall =>
          calls[s].key # <<"modal">> /\ (calls[s].key = <<"row", calls[s].row>> => calls[s].row # r)
    BY <2>2
  <2> QED
    BY <1>4, <2>1, <2>3, ListFormModal
<1>5. ASSUME Lists!Clear, Lists!Shows([view EXCEPT !.modal = "new"]) PROVE ListForms' /\ ListLeaves
  <2>1. view.dialog = Lists!NoCall /\ view.modal = "none"
    BY <1>5 DEF Lists!Clear
  <2>2. \A s \in Slots : calls[s] # Lists!NoCall => calls[s].row # "new" /\ calls[s].key # <<"modal">>
    BY <2>1, ListModalFree, FormAssumption DEF ListTyped, ListFits
  <2> QED
    BY <1>5, <2>1, <2>2, ListFormModal
<1>6. CASE Lists!TasksTab
  BY <1>1, <1>2, <1>3, <1>4, <1>5, <1>6 DEF Lists!TasksTab
<1>7. CASE Lists!Acts
  BY <1>6, <1>7, ListFormReload DEF Lists!Acts, Lists!Retry
<1> QED
  BY <1>7, ListFormConfirm, ListFormCancel, ListFormTyped

LEMMA ListUserStays ==
    ASSUME ListTyped, Queued, calm, calm' = calm, Lists!Acts \/ Lists!Confirm \/ Lists!Cancel \/ Lists!TaskForm
    PROVE  ListStays
<1>1. Untouched
  <2>1. ListIdle => Untouched
    BY DEF ListIdle, Untouched
  <2>2. ASSUME NEW s \in Slots, NEW new, ListAsks(s, new) PROVE Untouched
    <3>1. calls'[s] = new /\ \A t \in Slots : t # s => calls'[t] = calls[t]
      BY <2>2, ListOneSlot DEF ListAsks
    <3> QED
      BY <2>2, <3>1 DEF ListAsks, Untouched, Lists!NoCall
  <2> QED
    BY <2>1, <2>2, ListUserAsks
<1>2. order' = order
  BY <1>1 DEF Untouched
<1> QED
  BY <1>1, <1>2, RestQueued, QueueIs DEF ListStays

LEMMA ListLeavesBehind ==
    ASSUME ListTyped, ListBehind, page = "tasks", ListStays, ListLeaves
    PROVE  ListBehind'
<1>1. page' = "tasks" /\ server' = server /\ view'.shown = view.shown
  BY DEF ListLeaves
<1>2. \A r : Lists!Held(r)' = Lists!Held(r)
  BY <1>1 DEF Lists!Held
<1>3. ASSUME NEW r \in Rows, NEW i \in 0..Len(order), ListDrawn(i)', ListDiffers(ListEntered(i).rows[r], r)',
             i = 0 => view'.loading # TRUE
      PROVE  \E j \in 1..Len(order) : j > i /\ ListSaved(Waiting(j), r)'
  <2>1. ListDrawn(i) /\ ListEntered(i)' = ListEntered(i) /\ (i = 0 => ~view.loading)
    <3>1. CASE i = 0
      BY <1>1, <1>3, <3>1, ListViewIs DEF ListDrawn, ListEntered, ListLeaves, ListViewTyped
    <3>2. CASE i # 0
      BY <1>3, <3>2 DEF ListDrawn, ListEntered, ListStays
    <3> QED
      BY <3>1, <3>2
  <2>2. ListDiffers(ListEntered(i).rows[r], r)
    BY <1>2, <1>3, <2>1 DEF ListDiffers
  <2>3. PICK j \in 1..Len(order) : j > i /\ ListSaved(Waiting(j), r)
    BY <1>1, <2>1, <2>2 DEF ListBehind
  <2> QED
    BY <2>3 DEF ListStays, ListSaved
<1> QED
  BY <1>1, <1>3, Zenon DEF ListStays, ListBehind

-----------------------------------------------------------------------------
(* What the backend does with tasks. *)

\* Only the request of a row, or of the form open for it, changes the row.
LEMMA ListFormServe ==
    ASSUME ListTyped, Locked, ListRunKeyed, ListForms, page = "tasks", page' = page, calm, NEW s \in Slots,
           Lists!Serve(s)
    PROVE  ListForms'
<1> DEFINE c == calls[s]
<1>1. /\ ListServed(s)
      /\ \/ calls'[s].ok = FALSE /\ server' = server
         \/ server' \in Lists!After(c)
  BY ListServeIs
<1>2. /\ c # Lists!NoCall /\ c.at = "sent" /\ calls' = [calls EXCEPT ![s] = calls'[s]] /\ view' = view
      /\ calls'[s].at = "answered" /\ calls'[s] # Lists!NoCall
      /\ calls'[s].kind = c.kind /\ calls'[s].row = c.row /\ calls'[s].key = c.key
  BY <1>1 DEF ListServed
<1>3. ListFits(c) /\ c.row \in Rows /\ ListRight(c, view) /\ ListApt(c, server.doc)
  BY <1>2 DEF ListTyped, ListFits, ListForms
<1>4. PICK next : next = calls'[s]
  OBVIOUS
<1>5. ListRight(next, view') /\ ListApt(next, server'.doc)
  BY <1>2, <1>3, <1>4 DEF ListRight, ListOfForm, ListOfRow, ListApt
<1>6. next.key = <<"modal">> => \A t \in Slots : t # s /\ calls[t] # Lists!NoCall => calls[t].key # <<"modal">>
  BY <1>2, <1>4 DEF ListForms
<1>7. ASSUME NEW t \in Slots, t # s, calls[t] # Lists!NoCall
      PROVE  ListRight(calls[t], view') /\ ListApt(calls[t], server'.doc)
  <2> DEFINE d == calls[t]
  <2>1. ListRight(d, view) /\ ListApt(d, server.doc) /\ d.row \in Rows
    BY <1>7 DEF ListForms, ListTyped, ListFits
  <2>2. /\ c.key = <<"modal">> => d.key # <<"modal">>
        /\ ListRowKeyed(c) => d.key # c.key
    BY <1>2, <1>7 DEF ListForms, Locked
  <2>3. c.key = <<"row", c.row>> => ListRowKeyed(c)
    BY DEF ListRowKeyed
  <2>4. CASE server'.doc = server.doc
    BY <1>2, <2>1, <2>4
  <2>5. ASSUME NEW row, server'.doc = Lists!Put(c.row, row).doc, c.kind \in {"add", "put", "remove"},
               c.kind = "remove" => row = Lists!NoRow
        PROVE  ListApt(d, server'.doc)
    <3>1. CASE d.row # c.row
      BY <2>1, <2>5, <3>1, <1>3, ListPutIs DEF ListApt
    <3>2. CASE d.row = c.row
      <4>1. server'.doc.rows[d.row] = row
        BY <1>3, <2>5, <3>2, ListPutIs
      <4>2. ASSUME d.at = "sent", d.kind = "put", d.key # <<"modal">> PROVE FALSE
        <5>1. d.key = <<"row", c.row>> /\ view.modal # c.row /\ server.doc.rows[c.row] # Lists!NoRow
          BY <2>1, <3>2, <4>2 DEF ListRight, ListOfForm, ListOfRow, ListApt
        <5>2. c.key # <<"row", c.row>>
          BY <2>2, <2>3, <5>1
        <5> QED
          BY <1>2, <1>3, <2>5, <5>1, <5>2 DEF ListRight, ListOfForm, ListOfRow, ListApt
      <4>3. ASSUME d.at = "sent", d.kind = "add" PROVE row = Lists!NoRow
        <5>1. d.key = <<"modal">> /\ server.doc.rows[c.row] = Lists!NoRow
          BY <2>1, <3>2, <4>3 DEF ListRight, ListOfForm, ListOfRow, ListApt
        <5>2. c.key # <<"modal">>
          BY <2>2, <5>1
        <5> QED
          BY <1>2, <1>3, <2>5, <5>1, <5>2 DEF ListRight, ListOfForm, ListOfRow, ListApt
      <4> QED
        BY <4>1, <4>2, <4>3 DEF ListApt
    <3> QED
      BY <3>1, <3>2
  <2>6. \/ server'.doc = server.doc
        \/ c.kind \in {"add", "put", "remove"} /\ \E row : /\ server'.doc = Lists!Put(c.row, row).doc
                                                           /\ c.kind = "remove" => row = Lists!NoRow
    <3>1. CASE server' = server
      BY <3>1
    <3>2. CASE server' \in Lists!After(c)
      <4>1. /\ c.kind = "add" => server'.doc = Lists!Put(c.row, c.value).doc
            /\ c.kind = "put" => server'.doc = Lists!Put(c.row, c.value).doc
            /\ c.kind = "remove" => server'.doc = Lists!Put(c.row, Lists!NoRow).doc
            /\ c.kind \in {"list", "touch", "restart"} => server'.doc = server.doc
        BY <1>3, <3>2, ListAfterIs
      <4>2. c.kind \in {"add", "put", "remove", "list", "touch"}
        BY <1>3 DEF ListRight, ListOfForm, ListOfRow
      <4> QED
        BY <4>1, <4>2
    <3> QED
      BY <1>1, <3>1, <3>2
  <2>7. ListRight(d, view')
    BY <1>2, <2>1
  <2> QED
    BY <2>4, <2>5, <2>6, <2>7
<1>8. ListAskedRight(view')
  BY <1>2 DEF ListForms
<1>9. calls' = [calls EXCEPT ![s] = next]
  BY <1>2, <1>4
<1> QED
  BY <1>4, <1>5, <1>6, <1>7, <1>8, <1>9, ListFormsSlot

LEMMA ListBehindServe ==
    ASSUME ListTyped, ListRunKeyed, Queued, ListForms, ListBehind, page = "tasks", page' = page, calm,
           calm' = calm,
           NEW s \in Slots, Lists!Serve(s)
    PROVE  ListBehind'
<1> DEFINE c == calls[s]
<1>1. /\ ListServed(s)
      /\ \/ calls'[s].ok = FALSE /\ server' = server
         \/ /\ calls'[s].ok = TRUE /\ server' \in Lists!After(c)
            /\ calls'[s].doc = Lists!AnswerDoc(c)
  BY ListServeIs
<1>2. /\ c # Lists!NoCall /\ view' = view
      /\ calls'[s].kind = c.kind /\ calls'[s].row = c.row
  BY <1>1 DEF ListServed
<1>3. ListFits(c) /\ ListRight(c, view)
  BY <1>2 DEF ListTyped, ListForms
<1>4. calls = [t \in Slots |-> calls[t]] /\ Appended(s)
  BY <1>1 DEF ListTyped, ListServed, Appended
<1>5. /\ Len(order') = Len(order) + 1
      /\ \A i \in 1..Len(order) : order'[i] = order[i] /\ Waiting(i)' = Waiting(i)
      /\ \A i \in 1..Len(order') : i \in 1..Len(order) \/ (i = Len(order) + 1 /\ Waiting(i)' = calls'[s])
  BY <1>4, AnswerQueued
<1>6. Len(order) \in Nat
  BY QueueIs
<1>7. PICK n \in Nat : n = Len(order) + 1
  BY <1>6
<1>8. n \in 1..Len(order') /\ Waiting(n)' = calls'[s] /\ n \notin 1..Len(order) /\ n # 0
  BY <1>5, <1>6, <1>7
<1>9. ASSUME NEW r \in Rows, Lists!Held(r)' # Lists!Held(r) PROVE ListSaved(calls'[s], r)
  <2>1. CASE server' = server
    BY <1>9, <2>1 DEF Lists!Held
  <2>2. CASE calls'[s].ok = TRUE /\ server' \in Lists!After(c)
    <3>1. /\ ListUntold(server', c) /\ c.row \in Rows
          /\ c.kind \in {"list", "touch", "restart"} => server'.doc = server.doc
      BY <1>3, <2>2, ListAfterIs DEF ListFits
    <3>2. c.kind \notin {"list", "touch"}
      BY <1>9, <3>1 DEF Lists!Held
    <3>3. c.row = r
      <4>1. PICK row : server'.doc = Lists!Put(c.row, row).doc
        BY <1>9, <3>1 DEF ListUntold, Lists!Held
      <4> QED
        BY <1>9, <3>1, <4>1, ListPutIs DEF Lists!Held
    <3> QED
      BY <1>2, <2>2, <3>2, <3>3 DEF ListSaved
  <2> QED
    BY <1>1, <2>1, <2>2
<1>10. ASSUME NEW r \in Rows, NEW i \in 0..Len(order), ListDrawn(i)', ListDiffers(ListEntered(i).rows[r], r)',
              ~ (i = 0 /\ view'.loading)
       PROVE  \E j \in 1..Len(order') : j > i /\ ListSaved(Waiting(j), r)'
  <2>1. ListDrawn(i) /\ ListEntered(i)' = ListEntered(i)
    <3>1. CASE i = 0
      BY <1>2, <1>10, <3>1 DEF ListDrawn, ListEntered
    <3>2. CASE i # 0
      <4>1. i \in 1..Len(order) /\ Waiting(i)' = Waiting(i)
        BY <1>5, <1>6, <3>2
      <4> QED
        BY <1>10, <3>2, <4>1 DEF ListDrawn, ListEntered
    <3> QED
      BY <3>1, <3>2
  <2>2. CASE ListSaved(calls'[s], r)
    <3>1. n > i
      BY <1>6, <1>7
    <3>2. ListSaved(Waiting(n), r)'
      BY <1>8, <2>2 DEF ListSaved
    <3> QED
      BY <1>8, <3>1, <3>2
  <2>3. CASE ~ListSaved(calls'[s], r)
    <3>1. ListDiffers(ListEntered(i).rows[r], r)
      BY <1>9, <1>10, <2>1, <2>3 DEF ListDiffers
    <3>2. ~ (i = 0 /\ view.loading)
      BY <1>2, <1>10
    <3>3. PICK j \in 1..Len(order) : j > i /\ ListSaved(Waiting(j), r)
      BY <2>1, <3>1, <3>2 DEF ListBehind
    <3>4. j \in 1..Len(order') /\ ListSaved(Waiting(j), r)'
      BY <1>5, <1>6, <3>3 DEF ListSaved
    <3> QED
      BY <3>3, <3>4
  <2> QED
    BY <2>2, <2>3
<1>11. ASSUME NEW r \in Rows, ListDrawn(n)' PROVE ~ListDiffers(ListEntered(n).rows[r], r)'
  <2>1. calls'[s].ok = TRUE /\ c.kind = "list" /\ ListEntered(n)' = calls'[s].doc
    BY <1>2, <1>8, <1>11 DEF ListDrawn, ListEntered
  <2>2. calls'[s].doc = server'.doc
    BY <1>1, <2>1 DEF Lists!AnswerDoc
  <2> QED
    BY <2>1, <2>2 DEF ListDiffers, Lists!Held
<1>12. \A i \in 0..Len(order') : i \in 0..Len(order) \/ i = n
  BY <1>5, <1>6, <1>7
<1> QED
  BY <1>10, <1>11, <1>12, Zenon DEF ListBehind

-----------------------------------------------------------------------------
(* What arrives for tasks. *)

\* What an answer does to the list, the form and the dialog.
LEMMA ListTaskArrives ==
    ASSUME ListTyped, ListForms, page = "tasks", NEW s \in Slots, Lists!Deliver(s)
    PROVE  /\ page' = page /\ server' = server
           /\ calls[s] # Lists!NoCall /\ ListRight(calls[s], view)
           /\ view'.dialog = view.dialog /\ view'.modal \in {view.modal, "none"}
           /\ calls[s].key # <<"modal">> =>
                view'.modal = view.modal /\ (<<"modal">> \in view.busy => <<"modal">> \in view'.busy)
           /\ \/ calls[s].kind = "list" /\ calls[s].ok = TRUE /\ view'.shown = calls[s].doc
              \/ view'.failed
              \/ view'.loading = TRUE
              \/ /\ calls[s].ok = FALSE /\ view'.shown = view.shown
                 /\ view'.loading = view.loading /\ view'.failed = view.failed
<1> DEFINE c == calls[s]
           v == Lists!Released(c)
<1>1. ListFits(c) /\ c # Lists!NoCall /\ server' = server /\ page' = page
  BY ListFitsCall DEF Lists!Deliver, Lists!Arrives, ListTyped, Lists!NoCall
<1>2. /\ ListViewTyped(v) /\ v.shown = view.shown /\ v.failed = view.failed /\ v.loading = view.loading
      /\ v.modal = view.modal /\ v.dialog = view.dialog /\ v.busy = view.busy \ {c.key}
      /\ ListViewTyped(view)
  BY ListViewIs DEF ListViewTyped, Lists!Released
<1>3. ListRight(c, view)
  BY <1>1 DEF ListForms
<1>4. c.key # <<"modal">> /\ <<"modal">> \in view.busy => <<"modal">> \in v.busy
  BY <1>2
<1>5. c.key \notin {<<"run">>, <<"drop">>} \/ c.kind = "list"
  BY <1>3 DEF ListRight, ListOfForm, ListOfRow
<1>6. c.ok \in BOOLEAN
  BY <1>1 DEF ListFits
<1> HIDE DEF v
<1>7. CASE Lists!ListArrives(s)
  <2>1. /\ c.kind = "list"
        /\ view' = [v EXCEPT !.loading = FALSE, !.failed = v.failed \/ ~c.ok,
                             !.shown = IF c.ok THEN c.doc ELSE v.shown,
                             !.half = IF c.ok THEN {} ELSE v.half]
    BY <1>7 DEF Lists!ListArrives, v
  <2>2. /\ view'.failed = (v.failed \/ ~c.ok) /\ view'.shown = IF c.ok THEN c.doc ELSE v.shown
        /\ view'.modal = v.modal /\ view'.dialog = v.dialog /\ view'.busy = v.busy
    BY <1>2, <2>1 DEF ListViewTyped
  <2> QED
    BY <1>1, <1>2, <1>3, <1>4, <1>6, <2>1, <2>2
<1>8. CASE Lists!FailureArrives(s)
  <2>1. c.key # <<"drop">> /\ c.kind # "list" /\ c.ok = FALSE
    BY <1>5, <1>6, <1>8 DEF Lists!FailureArrives
  <2>2. view' = [v EXCEPT !.half = IF c.kind = "root" THEN v.half \union {c.row} ELSE v.half]
    BY <1>8, <2>1 DEF Lists!FailureArrives, v
  <2>3. /\ view'.shown = v.shown /\ view'.failed = v.failed /\ view'.loading = v.loading
        /\ view'.modal = v.modal /\ view'.dialog = v.dialog /\ view'.busy = v.busy
    BY <1>2, <2>2 DEF ListViewTyped
  <2> QED
    BY <1>1, <1>2, <1>3, <1>4, <2>1, <2>3
<1>9. CASE Lists!EffectArrives(s)
  <2>1. c.key \notin {<<"run">>, <<"drop">>}
    BY <1>5, <1>9 DEF Lists!EffectArrives
  <2>2. view' = [view EXCEPT !.loading = TRUE, !.failed = FALSE,
                             !.modal = IF c.key = <<"modal">> THEN "none" ELSE view.modal,
                             !.busy = IF c.key = <<"modal">> THEN view.busy \ {c.key} ELSE view.busy]
    <3>1. c.key \in {<<"modal">>, <<"drop">>} <=> c.key = <<"modal">>
      BY <2>1
    <3>2. view' = [view EXCEPT !.loading = TRUE, !.failed = FALSE,
                               !.modal = IF c.key = <<"modal">> THEN "none" ELSE view.modal,
                               !.busy = IF c.key \in {<<"modal">>, <<"drop">>} THEN view.busy \ {c.key} ELSE view.busy]
      BY <1>9, <2>1 DEF Lists!EffectArrives
    <3> QED
      BY <3>1, <3>2
  <2>3. /\ view'.loading = TRUE /\ view'.dialog = view.dialog
        /\ view'.modal = IF c.key = <<"modal">> THEN "none" ELSE view.modal
        /\ c.key # <<"modal">> => view'.busy = view.busy
    BY <1>2, <2>2 DEF ListViewTyped
  <2> QED
    BY <1>1, <1>3, <2>3
<1> QED
  BY <1>7, <1>8, <1>9 DEF Lists!Deliver, Lists!DocumentArrives, Lists!AccountArrives

LEMMA ListFormDeliver ==
    ASSUME ListTyped, ListForms, page = "tasks", NEW s \in Slots, Lists!Deliver(s)
    PROVE  ListForms'
<1> DEFINE c == calls[s]
<1>1. /\ page' = page /\ server' = server /\ c # Lists!NoCall /\ ListRight(c, view)
      /\ view'.dialog = view.dialog /\ view'.modal \in {view.modal, "none"}
      /\ c.key # <<"modal">> =>
           view'.modal = view.modal /\ (<<"modal">> \in view.busy => <<"modal">> \in view'.busy)
  BY ListTaskArrives
<1>2. PICK next : /\ calls' = [calls EXCEPT ![s] = next]
                  /\ \/ next = Lists!NoCall
                     \/ next = Lists!List(Lists!NoKey)
                     \/ next = Lists!List(c.key) /\ c.key \notin {<<"run">>, <<"modal">>, <<"drop">>}
  BY ListDeliverNext
<1>3. next # Lists!NoCall => next.kind = "list" /\ next.key # <<"modal">>
  BY <1>2, ListListIs DEF Lists!NoKey
<1>4. next # Lists!NoCall => ListRight(next, view') /\ ListApt(next, server'.doc)
  BY <1>3 DEF ListRight, ListApt
<1>5. ASSUME NEW t \in Slots, t # s, calls[t] # Lists!NoCall
      PROVE  ListRight(calls[t], view') /\ ListApt(calls[t], server'.doc)
  <2>1. ListRight(calls[t], view) /\ ListApt(calls[t], server.doc) /\ calls[t].row \in Rows
    BY <1>5 DEF ListForms, ListTyped, ListFits
  <2>2. CASE c.key # <<"modal">>
    BY <1>1, <2>1, <2>2, ListRightStays
  <2>3. CASE c.key = <<"modal">>
    <3>1. calls[t].key # <<"modal">>
      BY <1>1, <1>5, <2>3 DEF ListForms
    <3>2. calls[t].row # "none"
      BY <2>1, FormAssumption
    <3> QED
      BY <1>1, <2>1, <3>1, <3>2 DEF ListRight, ListOfForm, ListOfRow
  <2> QED
    BY <2>2, <2>3
<1>6. ListAskedRight(view')
  BY <1>1 DEF ListForms, ListAskedRight
<1> QED
  BY <1>1, <1>2, <1>3, <1>4, <1>5, <1>6, ListFormsSlot

LEMMA ListBehindDeliver ==
    ASSUME ListTyped, ListRunKeyed, Queued, ListForms, ListBehind, page = "tasks", calm, calm' = calm,
           NEW s \in Slots, Lists!Deliver(s)
    PROVE  ListBehind'
<1> DEFINE c == calls[s]
<1>1. /\ page' = page /\ server' = server
      /\ \/ c.kind = "list" /\ c.ok = TRUE /\ view'.shown = c.doc
         \/ view'.failed
         \/ view'.loading = TRUE
         \/ /\ c.ok = FALSE /\ view'.shown = view.shown
            /\ view'.loading = view.loading /\ view'.failed = view.failed
  BY ListTaskArrives
<1>2. PICK next : /\ calls' = [calls EXCEPT ![s] = next]
                  /\ next = Lists!NoCall \/ next.at = "sent"
  <2>1. PICK next : /\ calls' = [calls EXCEPT ![s] = next]
                    /\ next = Lists!NoCall \/ next = Lists!List(Lists!NoKey) \/ next = Lists!List(c.key)
    BY ListDeliverNext
  <2>2. next = Lists!NoCall \/ next.at = "sent"
    BY <2>1, ListListIs
  <2> QED
    BY <2>1, <2>2
<1>3. calls = [t \in Slots |-> calls[t]] /\ Taken(s)
  <2>1. calls'[s] = next /\ Lists!Arrives(s)
    BY <1>2, ListOneSlot DEF Lists!Deliver
  <2>2. calls'[s].at # "answered"
    BY <1>2, <2>1 DEF Lists!NoCall
  <2> QED
    BY <1>2, <2>1, <2>2 DEF ListTyped, Taken, Lists!Arrives
<1>4. /\ Len(order) # 0 /\ Waiting(1) = c /\ Len(order') = Len(order) - 1
      /\ \A i \in 1..Len(order') : i + 1 \in 1..Len(order) /\ Waiting(i)' = Waiting(i + 1)
  BY <1>3, ArrivalQueued
<1>5. Len(order) \in Nat
  BY QueueIs
<1>6. \A r : Lists!Held(r)' = Lists!Held(r)
  BY <1>1 DEF Lists!Held
\* What waits behind place k waits behind the next place before it.
<1>7. ASSUME NEW r \in Rows, NEW k \in 0..Len(order), NEW j \in 1..Len(order), j > k, j # 1,
             ListSaved(Waiting(j), r)
      PROVE  \A i \in 0..Len(order') : i <= k /\ (i < k \/ k = 0) =>
               \E m \in 1..Len(order') : m > i /\ ListSaved(Waiting(m), r)'
  <2>1. PICK m \in Nat : m = j - 1
    BY <1>5, <1>7
  <2>2. m \in 1..Len(order') /\ m + 1 = j
    BY <1>4, <1>5, <1>7, <2>1
  <2>3. ListSaved(Waiting(m), r)'
    BY <1>4, <1>7, <2>2 DEF ListSaved
  <2>4. \A i \in 0..Len(order') : i <= k /\ (i < k \/ k = 0) => m > i
    BY <1>4, <1>5, <1>7, <2>2
  <2> QED
    BY <2>2, <2>3, <2>4
<1>8. ASSUME NEW r \in Rows, NEW i \in 0..Len(order'), ListDrawn(i)', ListDiffers(ListEntered(i).rows[r], r)',
             ~ (i = 0 /\ view'.loading)
      PROVE  \E m \in 1..Len(order') : m > i /\ ListSaved(Waiting(m), r)'
  <2>1. CASE i # 0
    <3>1. PICK k \in 1..Len(order) : k = i + 1
      BY <1>4, <1>5, <2>1
    <3>2. i \in 1..Len(order') /\ Waiting(i)' = Waiting(k) /\ k # 0 /\ k \in 0..Len(order)
      BY <1>4, <1>5, <2>1, <3>1
    <3>3. ListDrawn(k) /\ ListEntered(i)' = ListEntered(k)
      BY <1>8, <2>1, <3>2 DEF ListDrawn, ListEntered
    <3>4. ListDiffers(ListEntered(k).rows[r], r)
      BY <1>6, <1>8, <3>3 DEF ListDiffers
    <3>5. PICK j \in 1..Len(order) : j > k /\ ListSaved(Waiting(j), r)
      BY <3>2, <3>3, <3>4 DEF ListBehind
    <3>6. j # 1 /\ i <= k /\ i < k
      BY <1>5, <3>1, <3>2, <3>5
    <3> QED
      BY <1>7, <3>2, <3>5, <3>6
  <2>2. CASE i = 0 /\ c.kind = "list" /\ c.ok = TRUE /\ view'.shown = c.doc
    <3>1. 1 \in 1..Len(order) /\ 1 \in 0..Len(order) /\ 1 # 0
      BY <1>4, <1>5
    <3>2. ListDrawn(1) /\ ListEntered(i)' = ListEntered(1)
      BY <1>4, <2>2, <3>1 DEF ListDrawn, ListEntered
    <3>3. ListDiffers(ListEntered(1).rows[r], r)
      BY <1>6, <1>8, <3>2 DEF ListDiffers
    <3>4. PICK j \in 1..Len(order) : j > 1 /\ ListSaved(Waiting(j), r)
      BY <3>1, <3>2, <3>3 DEF ListBehind
    <3>5. j # 1 /\ i <= 1 /\ i < 1
      BY <2>2, <3>4
    <3> QED
      BY <1>7, <3>1, <3>4, <3>5
  <2>3. CASE /\ i = 0 /\ c.ok = FALSE /\ view'.shown = view.shown
             /\ view'.loading = view.loading /\ view'.failed = view.failed
    <3>1. ListDrawn(0) /\ ListEntered(i)' = ListEntered(0) /\ 0 \in 0..Len(order)
      BY <1>5, <1>8, <2>3 DEF ListDrawn, ListEntered
    <3>2. ListDiffers(ListEntered(0).rows[r], r)
      BY <1>6, <1>8, <3>1 DEF ListDiffers
    <3>3. PICK j \in 1..Len(order) : j > 0 /\ ListSaved(Waiting(j), r)
      BY <1>8, <2>3, <3>1, <3>2 DEF ListBehind
    <3>4. j # 1 /\ i <= 0
      BY <1>4, <2>3, <3>3 DEF ListSaved
    <3> QED
      BY <1>7, <3>1, <3>3, <3>4
  <2>4. i = 0 => ~view'.failed /\ view'.loading # TRUE
    BY <1>8 DEF ListDrawn
  <2> QED
    BY <1>1, <2>1, <2>2, <2>3, <2>4
<1> QED
  BY <1>8, Zenon DEF ListBehind

-----------------------------------------------------------------------------
ListTextsKept == calm => ListForms /\ ListBehind

LEMMA ListInitForms == Lists!Init => ListForms /\ ListBehind
<1> SUFFICES ASSUME Lists!Init PROVE ListForms /\ ListBehind
  OBVIOUS
<1>1. PICK s \in Slots : calls = [t \in Slots |-> IF t = s THEN Lists!List(Lists!NoKey) ELSE Lists!NoCall]
  BY DEF Lists!Init
<1>2. Lists!List(Lists!NoKey).kind = "list" /\ Lists!List(Lists!NoKey).key # <<"modal">>
  BY ListListIs DEF Lists!NoKey
<1>3. \A t \in Slots : calls[t] # Lists!NoCall => calls[t].kind = "list" /\ calls[t].key # <<"modal">>
  BY <1>1, <1>2
<1>4. view.dialog = Lists!NoCall /\ view.loading = TRUE /\ order = <<>>
  BY DEF Lists!Init
<1>5. ListForms
  BY <1>3, <1>4 DEF ListForms, ListRight, ListApt, ListAskedRight
<1>6. \A i \in 0..Len(order) : i = 0
  BY <1>4
<1>7. ListBehind
  BY <1>4, <1>6 DEF ListBehind
<1> QED
  BY <1>5, <1>7

LEMMA ListNextForms ==
    ASSUME Locked, ListTyped, ListSettling, ListTextsKept, ListsStep
    PROVE  ListTextsKept'
<1>1. CASE UNCHANGED vars
  <2>1. /\ calls' = calls /\ order' = order /\ server' = server /\ view' = view
        /\ page' = page /\ calm' = calm
    BY <1>1 DEF vars
  <2>2. ListForms => ListForms'
    BY <2>1 DEF ListForms
  <2>3. ListBehind => ListBehind'
    BY <2>1 DEF ListBehind, ListDrawn, ListEntered, ListDiffers, Lists!Held, ListSaved, Waiting
  <2> QED
    BY <2>1, <2>2, <2>3 DEF ListTextsKept
<1>2. CASE Lists!Next
  <2>1. calm' = calm /\ page' = page
    BY <1>2, ListsFixed DEF Fixed
  <2> SUFFICES ASSUME calm PROVE ListForms' /\ ListBehind'
    BY <2>1 DEF ListTextsKept
  <2>2. Queued /\ ListRunKeyed /\ ListForms /\ ListBehind
    BY DEF ListSettling, ListTextsKept
  <2>3. CASE page # "tasks"
    BY <2>1, <2>3 DEF ListForms, ListBehind
  <2> SUFFICES ASSUME page = "tasks" PROVE ListForms' /\ ListBehind'
    BY <2>3
  <2>4. CASE Lists!Acts \/ Lists!Confirm \/ Lists!Cancel \/ Lists!TaskForm
    BY <2>1, <2>2, <2>4, ListFormUser, ListUserStays, ListLeavesBehind
  <2>5. ASSUME NEW s \in Slots, Lists!Serve(s) PROVE ListForms' /\ ListBehind'
    BY <2>1, <2>2, <2>5, ListFormServe, ListBehindServe
  <2>6. ASSUME NEW s \in Slots, Lists!Deliver(s) PROVE ListForms' /\ ListBehind'
    BY <2>1, <2>2, <2>6, ListFormDeliver, ListBehindDeliver
  <2>7. ~Lists!Elsewhere
    BY DEF Lists!Elsewhere
  <2> QED
    BY <1>2, <2>4, <2>5, <2>6, <2>7 DEF Lists!Next
<1> QED
  BY <1>1, <1>2 DEF ListsStep

(***************************************************************************)
(* The toggle of a task finds the text that it carries, and stores it.     *)
(***************************************************************************)
LEMMA ListTogglesKeep ==
    ASSUME Locked, ListTyped, ListSettling, ListTextsKept, calm, ListsStep
    PROVE  Lists!TogglesKeepEdits
<1> SUFFICES ASSUME NEW s \in Slots, page = "tasks", calls[s].at = "sent", calls'[s].at = "answered",
                    calls[s].kind = "put", calls[s].key # <<"modal">>
             PROVE  server'.doc.rows[calls[s].row].text = server.doc.rows[calls[s].row].text
  BY DEF Lists!TogglesKeepEdits
<1> DEFINE c == calls[s]
<1>1. Queued /\ ListRunKeyed /\ ListForms
  BY DEF ListSettling, ListTextsKept
<1>2. c # Lists!NoCall
  BY DEF Lists!NoCall
<1>3. ListFits(c) /\ c.row \in Rows /\ Lists!Held(c.row).text = c.value.text
  BY <1>1, <1>2 DEF ListTyped, ListFits, ListForms, ListApt, Lists!Held
<1>4. CASE Lists!Serve(s)
  <2>1. server' = server \/ server' \in Lists!After(c)
    BY <1>1, <1>4, ListServeIs
  <2>2. CASE server' \in Lists!After(c)
    <3>1. server'.doc = Lists!Put(c.row, c.value).doc
      BY <1>3, <2>2, ListAfterIs
    <3>2. server'.doc.rows[c.row] = c.value
      BY <1>3, <3>1, ListPutIs
    <3> QED
      BY <1>3, <3>2 DEF Lists!Held
  <2> QED
    BY <2>1, <2>2
<1>5. ASSUME server'.doc # server.doc, NEW t \in Slots, Lists!Serve(t) PROVE t = s
  <2>1. ListServed(t)
    BY <1>1, <1>5, ListServeIs
  <2>2. t # s => calls'[s] = c
    BY <2>1, ListOneSlot DEF ListServed
  <2> QED
    BY <2>2
<1>6. Lists!Next /\ (Lists!Acts \/ Lists!Confirm \/ Lists!Cancel \/ Lists!TaskForm) => server' = server
  BY ListUserAsks DEF ListIdle, ListAsks
<1>7. \A t \in Slots : Lists!Deliver(t) => server' = server
  BY DEF Lists!Deliver, Lists!Arrives
<1>8. ~Lists!Elsewhere /\ (UNCHANGED vars => server' = server)
  BY DEF Lists!Elsewhere, vars
<1> QED
  BY <1>4, <1>5, <1>6, <1>7, <1>8 DEF Lists!Next, ListsStep

-----------------------------------------------------------------------------
(***************************************************************************)
(* The shape of a socket, and of what the hook knows of it.                *)
(***************************************************************************)
LiveIsSocket(c) ==
    /\ c \in [at : {"connecting", "open", "lost", "closing"}, out : {c.out},
              opened : BOOLEAN, mine : BOOLEAN]
    /\ c.at = "connecting" => ~c.opened

LiveIsView(v) ==
    v \in [mounted : BOOLEAN, connected : BOOLEAN, timers : Nat,
          shown : {v.shown}, following : {v.following}]

Sockets ==
    /\ calls = [s \in Slots |-> calls[s]]
    /\ \A s \in Slots : calls[s] = Live!NoCall \/ LiveIsSocket(calls[s])
    /\ LiveIsView(view)

LEMMA LiveNewSocket == LiveIsSocket(Live!Socket) /\ Live!Socket.opened = FALSE /\ Live!Socket.mine
    /\ Live!Socket.at # "closing"
  BY DEF Live!Socket, LiveIsSocket

LEMMA LiveNotACall == \A c : LiveIsSocket(c) => c # Live!NoCall
  BY DEF LiveIsSocket, Live!NoCall

LEMMA LiveSocketChanges ==
    ASSUME NEW c, LiveIsSocket(c)
    PROVE  /\ LiveIsSocket([c EXCEPT !.at = "closing"])
           /\ [c EXCEPT !.at = "closing"].at = "closing"
           /\ LiveIsSocket([c EXCEPT !.mine = FALSE])
           /\ [c EXCEPT !.mine = FALSE].mine = FALSE
  BY DEF LiveIsSocket

LEMMA LiveFree ==
    ASSUME \E s \in Slots : calls[s] = Live!NoCall
    PROVE  Live!FreeSlot \in Slots /\ calls[Live!FreeSlot] = Live!NoCall
  BY DEF Live!FreeSlot

(***************************************************************************)
(* Most steps leave every socket whose it is, and as open as it is.        *)
(***************************************************************************)
LiveSame(s) ==
    \/ calls[s] = Live!NoCall /\ calls'[s] = Live!NoCall
    \/ /\ LiveIsSocket(calls[s]) /\ LiveIsSocket(calls'[s])
       /\ calls'[s].mine = calls[s].mine /\ calls'[s].opened = calls[s].opened
       /\ calls'[s].at = "closing" <=> calls[s].at = "closing"

LiveAllSame ==
    /\ calls' = [s \in Slots |-> calls'[s]]
    /\ \A s \in Slots : LiveSame(s)

LEMMA LiveSameUnchanged ==
    ASSUME Sockets, NEW s \in Slots, calls'[s] = calls[s]
    PROVE  LiveSame(s)
  BY DEF Sockets, LiveSame

LEMMA LiveSameOut ==
    ASSUME NEW s, NEW out, LiveIsSocket(calls[s]), calls'[s] = [calls[s] EXCEPT !.out = out]
    PROVE  LiveSame(s)
<1>1. /\ LiveIsSocket(calls'[s]) /\ calls'[s].at = calls[s].at
      /\ calls'[s].mine = calls[s].mine /\ calls'[s].opened = calls[s].opened
  BY DEF LiveIsSocket
<1> QED
  BY <1>1 DEF LiveSame

LEMMA LiveSameAt ==
    ASSUME NEW s, NEW out, NEW at \in {"open", "lost"}, LiveIsSocket(calls[s]), calls[s].at # "closing",
           calls'[s] = [calls[s] EXCEPT !.at = at, !.out = out]
    PROVE  LiveSame(s)
<1>1. /\ LiveIsSocket(calls'[s]) /\ calls'[s].at = at
      /\ calls'[s].mine = calls[s].mine /\ calls'[s].opened = calls[s].opened
  BY DEF LiveIsSocket
<1> QED
  BY <1>1 DEF LiveSame

\* The three ways to be right.
LEMMA LiveHasSocket ==
    ASSUME NEW s, Live!Mine' = {s}, calls'[s].at # "closing",
           view'.mounted = TRUE, view'.timers = 0, view'.connected = calls'[s].opened
    PROVE  Live!OneSocketOrTimer'
  BY DEF Live!OneSocketOrTimer

LEMMA LiveHasTimer ==
    ASSUME Live!Mine' = {}, view'.mounted = TRUE, view'.timers = 1, view'.connected = FALSE
    PROVE  Live!OneSocketOrTimer'
  BY DEF Live!OneSocketOrTimer

LEMMA LiveIsGone ==
    ASSUME \A s \in Live!Mine' : calls'[s].at = "closing", view'.mounted = FALSE, view'.timers = 0
    PROVE  Live!OneSocketOrTimer'
  BY DEF Live!OneSocketOrTimer

LEMMA LiveSameKeeps ==
    ASSUME Sockets, Live!OneSocketOrTimer, LiveAllSame, LiveIsView(view)',
           view'.mounted = view.mounted, view'.connected = view.connected, view'.timers = view.timers
    PROVE  (Sockets /\ Live!OneSocketOrTimer)'
<1>1. Sockets'
  BY DEF Sockets, LiveAllSame, LiveSame
<1>2. Live!Mine' = Live!Mine
  BY LiveNotACall DEF Live!Mine, LiveAllSame, LiveSame
<1>3. \A s \in Live!Mine : /\ calls'[s].opened = calls[s].opened
                           /\ calls'[s].at = "closing" <=> calls[s].at = "closing"
  BY DEF Live!Mine, LiveAllSame, LiveSame
<1> QED
  BY <1>1, <1>2, <1>3 DEF Live!OneSocketOrTimer

LEMMA LiveInitInv == Live!Init => Sockets /\ Live!OneSocketOrTimer
  BY DEF Live!Init, Sockets, LiveIsView, Live!OneSocketOrTimer, Live!NewView, Live!Mine

LEMMA LiveNextInv ==
    ASSUME Sockets, Live!OneSocketOrTimer, LiveStep
    PROVE  (Sockets /\ Live!OneSocketOrTimer)'
<1> USE DEF Sockets
<1>1. CASE Live!Mount
  <2>1. /\ Live!FreeSlot \in Slots
        /\ calls' = [Live!Orphans EXCEPT ![Live!FreeSlot] = Live!Socket]
        /\ view' = [Live!NewView EXCEPT !.mounted = TRUE]
    BY <1>1, LiveFree DEF Live!Mount, Live!Connect
  <2>2. \A s \in Slots : calls'[s] = IF s = Live!FreeSlot THEN Live!Socket ELSE Live!Orphans[s]
    BY <2>1 DEF Live!Orphans
  <2>3. \A s \in Slots : Live!Orphans[s] = Live!NoCall
          \/ (LiveIsSocket(Live!Orphans[s]) /\ ~Live!Orphans[s].mine)
    BY LiveSocketChanges DEF Live!Orphans
  <2>4. LiveIsView(view') /\ view'.mounted = TRUE /\ view'.timers = 0 /\ view'.connected = FALSE
    BY <2>1 DEF Live!NewView, LiveIsView
  <2>5. Sockets'
    BY <2>1, <2>2, <2>3, <2>4, LiveNewSocket DEF Live!Orphans
  <2>6. Live!Mine' = {Live!FreeSlot}
    BY <2>1, <2>2, <2>3, LiveNewSocket, LiveNotACall DEF Live!Mine
  <2> QED
    BY <2>1, <2>2, <2>4, <2>5, <2>6, LiveNewSocket, LiveHasSocket
<1>2. CASE Live!Unmount
  <2>1. /\ view.mounted
        /\ view' = [view EXCEPT !.mounted = FALSE, !.timers = IF view.timers > 0
                                                               THEN view.timers - 1 ELSE 0]
        /\ calls' = [s \in Slots |-> IF calls[s] # Live!NoCall /\ calls[s].mine
                                     THEN [calls[s] EXCEPT !.at = "closing"] ELSE calls[s]]
    BY <1>2 DEF Live!Unmount, Live!Unmounted
  <2>2. /\ Sockets' /\ \A s \in Live!Mine' : calls'[s].at = "closing"
        /\ view'.mounted = FALSE /\ view'.timers = 0
    <3>1. LiveIsView(view') /\ view'.mounted = FALSE /\ view'.timers = 0
      <4>1. view.timers \in {0, 1}
        BY <2>1 DEF Live!OneSocketOrTimer
      <4>2. (IF view.timers > 0 THEN view.timers - 1 ELSE 0) = 0
        BY <4>1
      <4>3. view' = [view EXCEPT !.mounted = FALSE, !.timers = 0]
        BY <2>1, <4>2
      <4> QED
        BY <4>3 DEF LiveIsView
    <3>2. \A s \in Slots :
            \/ calls'[s] = calls[s] /\ ~(calls[s] # Live!NoCall /\ calls[s].mine)
            \/ LiveIsSocket(calls[s]) /\ calls'[s] = [calls[s] EXCEPT !.at = "closing"]
      BY <2>1
    <3>3. ASSUME NEW s \in Slots
          PROVE  /\ calls'[s] = Live!NoCall \/ LiveIsSocket(calls'[s])
                 /\ calls'[s] # Live!NoCall /\ calls'[s].mine => calls'[s].at = "closing"
      <4>1. CASE calls'[s] = calls[s] /\ ~(calls[s] # Live!NoCall /\ calls[s].mine)
        BY <4>1
      <4>2. CASE LiveIsSocket(calls[s]) /\ calls'[s] = [calls[s] EXCEPT !.at = "closing"]
        BY <4>2, LiveSocketChanges
      <4> QED
        BY <3>2, <4>1, <4>2
    <3>4. \A s \in Live!Mine' : calls'[s].at = "closing"
      BY <3>3 DEF Live!Mine
    <3> QED
      BY <2>1, <3>1, <3>3, <3>4
  <2> QED
    BY <2>2, LiveIsGone
<1>3. CASE Live!TimerFires
  <2>1. /\ view.timers > 0 /\ Live!FreeSlot \in Slots /\ calls[Live!FreeSlot] = Live!NoCall
        /\ calls' = [calls EXCEPT ![Live!FreeSlot] = Live!Socket]
        /\ view' = [view EXCEPT !.timers = view.timers - 1]
    BY <1>3, LiveFree DEF Live!TimerFires, Live!Connect
  <2>2. view.mounted = TRUE /\ Live!Mine = {} /\ view.timers = 1 /\ view.connected = FALSE
    BY <2>1 DEF Live!OneSocketOrTimer, LiveIsView
  <2>3. view' = [view EXCEPT !.timers = 0]
    BY <2>1, <2>2
  <2>4. /\ LiveIsView(view') /\ view'.timers = 0
        /\ view'.mounted = view.mounted /\ view'.connected = view.connected
    BY <2>3 DEF LiveIsView
  <2>5. Sockets' /\ Live!Mine' = {Live!FreeSlot} /\ calls'[Live!FreeSlot] = Live!Socket
    BY <2>1, <2>2, <2>4, LiveNewSocket, LiveNotACall DEF Live!Mine
  <2> QED
    BY <2>2, <2>4, <2>5, LiveNewSocket, LiveHasSocket
<1>4. CASE Live!Emit \/ Live!StatusChanges
  <2>1. PICK msg : calls' = Live!Broadcast(msg) /\ UNCHANGED view
    BY <1>4 DEF Live!Emit, Live!StatusChanges
  <2>2. LiveAllSame
    <3>1. \A s \in Slots :
            calls'[s] = calls[s] \/ (/\ calls[s].at = "open"
                                    /\ calls'[s] = [calls[s] EXCEPT !.out = Append(calls[s].out, msg)])
      BY <2>1 DEF Live!Broadcast
    <3>2. \A s \in Slots : calls[s].at = "open" => LiveIsSocket(calls[s])
      BY DEF Live!NoCall
    <3>3. calls' = [s \in Slots |-> calls'[s]]
      BY <2>1 DEF Live!Broadcast
    <3> QED
      BY <3>1, <3>2, <3>3, LiveSameUnchanged, LiveSameOut DEF LiveAllSame
  <2> QED
    BY <2>1, <2>2, LiveSameKeeps
<1>5. ASSUME NEW s \in Slots, Live!Drop(s) \/ Live!Restart
      PROVE  (Sockets /\ Live!OneSocketOrTimer)'
  <2>1. UNCHANGED view
    BY <1>5 DEF Live!Drop, Live!Restart
  <2>2. \A t \in Slots : \A kept :
          \/ Live!BrokenOff(t, kept) = calls[t]
          \/ /\ LiveIsSocket(calls[t]) /\ calls[t].at # "closing"
             /\ \E out : Live!BrokenOff(t, kept) = [calls[t] EXCEPT !.at = "lost", !.out = out]
    BY DEF Live!BrokenOff
  <2>3. \A t \in Slots : calls'[t] = calls[t] \/ \E kept : calls'[t] = Live!BrokenOff(t, kept)
    BY <1>5 DEF Live!Drop, Live!Restart
  <2>4. LiveAllSame
    <3>1. calls' = [t \in Slots |-> calls'[t]]
      BY <1>5 DEF Live!Drop, Live!Restart
    <3>2. ASSUME NEW t \in Slots PROVE LiveSame(t)
      <4>1. CASE calls'[t] = calls[t]
        BY <4>1, LiveSameUnchanged
      <4>2. CASE calls'[t] # calls[t]
        <5>1. PICK kept : calls'[t] = Live!BrokenOff(t, kept)
          BY <2>3, <4>2
        <5>2. /\ LiveIsSocket(calls[t]) /\ calls[t].at # "closing"
              /\ \E out : Live!BrokenOff(t, kept) = [calls[t] EXCEPT !.at = "lost", !.out = out]
          BY <2>2, <4>2, <5>1
        <5>3. PICK out : Live!BrokenOff(t, kept) = [calls[t] EXCEPT !.at = "lost", !.out = out]
          BY <5>2
        <5> QED
          BY <5>1, <5>2, <5>3, LiveSameAt
      <4> QED
        BY <4>1, <4>2
    <3> QED
      BY <3>1, <3>2 DEF LiveAllSame
  <2> QED
    BY <2>1, <2>4, LiveSameKeeps
<1>6. ASSUME NEW s \in Slots, Live!Upgrade(s) \/ Live!Refuse(s)
      PROVE  (Sockets /\ Live!OneSocketOrTimer)'
  <2>1. calls[s].at = "connecting" /\ LiveIsSocket(calls[s]) /\ UNCHANGED view
    BY <1>6 DEF Live!Upgrade, Live!Refuse, Live!NoCall
  <2>2. calls' = [t \in Slots |-> calls'[t]] /\ \A t \in Slots : t # s => calls'[t] = calls[t]
    BY <1>6 DEF Live!Upgrade, Live!Refuse
  <2>3. LiveSame(s)
    <3>1. CASE Live!Upgrade(s)
      <4>1. PICK out : calls'[s] = [calls[s] EXCEPT !.at = "open", !.out = out]
        BY <3>1 DEF Live!Upgrade
      <4> QED
        BY <2>1, <4>1, LiveSameAt
    <3>2. CASE Live!Refuse(s)
      <4>1. calls'[s] = [calls[s] EXCEPT !.at = "lost"]
        BY <3>2 DEF Live!Refuse
      <4>2. /\ LiveIsSocket(calls'[s]) /\ calls'[s].at = "lost"
            /\ calls'[s].mine = calls[s].mine /\ calls'[s].opened = calls[s].opened
        BY <2>1, <4>1 DEF LiveIsSocket
      <4> QED
        BY <2>1, <4>2 DEF LiveSame
    <3> QED
      BY <1>6, <3>1, <3>2
  <2>4. LiveAllSame
    BY <2>2, <2>3, LiveSameUnchanged DEF LiveAllSame
  <2> QED
    BY <2>1, <2>4, LiveSameKeeps
<1>7. ASSUME NEW s \in Slots, Live!Opens(s)
      PROVE  (Sockets /\ Live!OneSocketOrTimer)'
  <2>1. /\ LiveIsSocket(calls[s]) /\ calls[s].at = "open"
        /\ calls' = [calls EXCEPT ![s] = [calls[s] EXCEPT !.opened = TRUE]]
        /\ view' = IF calls[s].mine THEN [view EXCEPT !.connected = TRUE] ELSE view
    BY <1>7 DEF Live!Opens, Live!NoCall
  <2>2. /\ LiveIsSocket(calls'[s]) /\ calls'[s].opened /\ calls'[s].at = "open"
        /\ calls'[s].mine = calls[s].mine
        /\ \A t \in Slots : t # s => calls'[t] = calls[t]
    BY <2>1 DEF LiveIsSocket
  <2>3. LiveIsView(view') /\ view'.mounted = view.mounted /\ view'.timers = view.timers
    BY <2>1 DEF LiveIsView
  <2>4. Sockets' /\ Live!Mine' = Live!Mine
    BY <2>1, <2>2, <2>3, LiveNotACall DEF Live!Mine
  <2>5. CASE calls[s].mine
    <3>1. view'.connected = TRUE /\ s \in Live!Mine
      BY <2>1, <2>5, LiveNotACall DEF LiveIsView, Live!Mine
    <3>2. view.mounted = TRUE /\ Live!Mine = {s} /\ view.timers = 0
      BY <2>1, <3>1 DEF Live!OneSocketOrTimer, LiveIsView
    <3>3. calls'[s].opened = TRUE
      BY <2>2 DEF LiveIsSocket
    <3> QED
      BY <2>2, <2>3, <2>4, <3>1, <3>2, <3>3, LiveHasSocket
  <2>6. CASE ~calls[s].mine
    <3>1. view' = view /\ s \notin Live!Mine
      BY <2>1, <2>6 DEF Live!Mine
    <3> QED
      BY <2>2, <2>4, <3>1 DEF Live!OneSocketOrTimer, Live!Mine
  <2> QED
    BY <2>5, <2>6
<1>8. ASSUME NEW s \in Slots, Live!Receives(s)
      PROVE  (Sockets /\ Live!OneSocketOrTimer)'
  <2>1. /\ LiveIsSocket(calls[s])
        /\ calls' = [calls EXCEPT ![s] = [calls[s] EXCEPT !.out = Tail(calls[s].out)]]
    BY <1>8 DEF Live!Receives, Live!NoCall
  <2>2. LiveAllSame
    <3>1. calls'[s] = [calls[s] EXCEPT !.out = Tail(calls[s].out)]
      BY <2>1
    <3>2. calls' = [t \in Slots |-> calls'[t]] /\ \A t \in Slots : t # s => calls'[t] = calls[t]
      BY <2>1
    <3> QED
      BY <2>1, <3>1, <3>2, LiveSameUnchanged, LiveSameOut DEF LiveAllSame
  <2>3. \/ view' = view
        \/ \E x : view' = [view EXCEPT !.following = x]
        \/ \E x : view' = [view EXCEPT !.shown = x]
    BY <1>8 DEF Live!Receives
  <2>4. /\ LiveIsView(view') /\ view'.mounted = view.mounted
        /\ view'.connected = view.connected /\ view'.timers = view.timers
    BY <2>3 DEF LiveIsView
  <2> QED
    BY <2>2, <2>4, LiveSameKeeps
<1>9. ASSUME NEW s \in Slots, Live!Closes(s)
      PROVE  (Sockets /\ Live!OneSocketOrTimer)'
  <2>1. /\ LiveIsSocket(calls[s]) /\ calls[s].at \in {"closing", "lost"}
        /\ calls' = [calls EXCEPT ![s] = Live!NoCall]
        /\ view' = IF ~calls[s].mine THEN view
                   ELSE [view EXCEPT !.connected = FALSE,
                                     !.timers = IF view.mounted THEN view.timers + 1 ELSE view.timers]
    BY <1>9 DEF Live!Closes, Live!Ends, Live!NoCall
  <2>2. Live!Mine' = Live!Mine \ {s} /\ \A t \in Live!Mine' : calls'[t] = calls[t]
    BY <2>1 DEF Live!Mine
  <2>3. CASE ~calls[s].mine
    <3>1. view' = view /\ Live!Mine' = Live!Mine
      BY <2>1, <2>2, <2>3 DEF Live!Mine
    <3> QED
      BY <2>1, <2>2, <3>1 DEF Live!OneSocketOrTimer
  <2>4. CASE calls[s].mine
    <3>1. s \in Live!Mine
      BY <2>1, <2>4, LiveNotACall DEF Live!Mine
    <3>2. CASE view.mounted
      <4>1. Live!Mine = {s} /\ view.timers = 0
        BY <3>1, <3>2 DEF Live!OneSocketOrTimer
      <4>2. view' = [view EXCEPT !.connected = FALSE, !.timers = 1]
        BY <2>1, <2>4, <3>2, <4>1
      <4>3. /\ LiveIsView(view') /\ view'.mounted = TRUE
            /\ view'.connected = FALSE /\ view'.timers = 1
        BY <3>2, <4>2 DEF LiveIsView
      <4> QED
        BY <2>1, <2>2, <4>1, <4>3, LiveHasTimer
    <3>3. CASE ~view.mounted
      <4>1. view.timers = 0 /\ \A t \in Live!Mine : calls[t].at = "closing"
        BY <3>3 DEF Live!OneSocketOrTimer
      <4>2. view' = [view EXCEPT !.connected = FALSE, !.timers = 0]
        BY <2>1, <2>4, <3>3, <4>1
      <4>3. LiveIsView(view') /\ view'.mounted = FALSE /\ view'.timers = 0
        BY <3>3, <4>2 DEF LiveIsView
      <4> QED
        BY <2>1, <2>2, <4>1, <4>3, LiveIsGone
    <3> QED
      BY <3>2, <3>3
  <2> QED
    BY <2>3, <2>4
<1>10. CASE UNCHANGED vars
  <2>1. LiveAllSame /\ view' = view
    BY <1>10 DEF vars, LiveAllSame, LiveSame
  <2> QED
    BY <2>1, LiveSameKeeps
<1>11. CASE Slots = {} /\ Live!Restart
  BY <1>11 DEF Live!Restart, Live!OneSocketOrTimer, Live!Mine
<1> QED
  BY <1>1, <1>2, <1>3, <1>4, <1>5, <1>6, <1>7, <1>8, <1>9, <1>10, <1>11 DEF Live!Next, LiveStep

-----------------------------------------------------------------------------
(* Types. *)

\* A history is never longer than the service keeps.
LiveFitting == {msg \in Live!Message : msg.type = "history" => Len(msg.lines) <= HistorySize}
LiveLongest == IF HistorySize > Kept THEN HistorySize ELSE Kept
LiveLines(n) == {lines \in Seq(Nat) : Len(lines) <= n}

LiveServerFits(state) == state \in [log : LiveLines(HistorySize), last : Nat, following : BOOLEAN]
LiveTyped ==
    /\ page \in Live!Pages /\ LiveServerFits(server)
    /\ view.shown \in LiveLines(LiveLongest) /\ view.following \in BOOLEAN
    /\ \A s \in Slots : calls[s] # Live!NoCall => calls[s].out \in Seq(LiveFitting)

LEMMA LiveTypedTypes == Sockets /\ LiveTyped => Live!TypeOK
<1> SUFFICES ASSUME Sockets, LiveTyped PROVE Live!TypeOK
  OBVIOUS
<1>1. /\ server.log \in Seq(Nat) /\ Len(server.log) <= HistorySize /\ server.last \in Nat
      /\ server.following \in BOOLEAN
  BY DEF LiveTyped, LiveServerFits, LiveLines
<1>2. {view.mounted, view.connected, view.following} \subseteq BOOLEAN /\ view.timers \in Nat
  BY DEF Sockets, LiveIsView, LiveTyped
<1>3. view.shown \in Seq(Nat) /\ Len(view.shown) <= LiveLongest
  BY DEF LiveTyped, LiveLines
<1>4. ASSUME NEW s \in Slots, calls[s] # Live!NoCall
      PROVE  calls[s].at \in {"connecting", "open", "lost", "closing"} /\ calls[s].out \in Seq(Live!Message)
  <2>1. calls[s].out \in Seq(LiveFitting) /\ LiveFitting \subseteq Live!Message
    BY <1>4 DEF LiveTyped, LiveFitting
  <2>2. calls[s].at \in {"connecting", "open", "lost", "closing"}
    BY <1>4 DEF Sockets, LiveIsSocket
  <2> QED
    BY <2>1, <2>2
<1> QED
  BY <1>1, <1>2, <1>3, <1>4 DEF Live!TypeOK, LiveLongest, LiveTyped

LEMMA LiveLatestTyped ==
    ASSUME NEW lines \in Seq(Nat), NEW n \in Nat
    PROVE  Live!Latest(lines, n) \in LiveLines(n)
<1>1. CASE Len(lines) > n
  <2>1. Live!Latest(lines, n) = SubSeq(lines, Len(lines) - n + 1, Len(lines))
    BY <1>1 DEF Live!Latest
  <2>2. Len(lines) - n + 1 \in Int /\ \A i \in Len(lines) - n + 1..Len(lines) : lines[i] \in Nat
    BY <1>1
  <2>3. Live!Latest(lines, n) \in Seq(Nat) /\ Len(Live!Latest(lines, n)) <= n
    BY <1>1, <2>1, <2>2, SubSeqProperties
  <2> QED
    BY <2>3 DEF LiveLines
<1>2. CASE ~(Len(lines) > n)
  BY <1>2 DEF Live!Latest, LiveLines
<1> QED
  BY <1>1, <1>2

\* The three messages.
LEMMA LiveMessageTyped ==
    /\ \A lines \in LiveLines(HistorySize) : [type |-> "history", lines |-> lines] \in LiveFitting
    /\ \A n \in Nat : [type |-> "line", line |-> n] \in LiveFitting
    /\ \A b \in BOOLEAN : [type |-> "status", following |-> b] \in LiveFitting
  BY DEF LiveFitting, Live!Message, LiveLines

LEMMA LiveReadMessage ==
    ASSUME NEW msg \in LiveFitting
    PROVE  /\ msg.type \in {"history", "line", "status"}
           /\ msg.type = "history" => msg.lines \in LiveLines(HistorySize)
           /\ msg.type = "line" => msg.line \in Nat
           /\ msg.type = "status" => msg.following \in BOOLEAN
  BY DEF LiveFitting, Live!Message, LiveLines

\* What the view shows after a message.
LEMMA LiveShowsTyped ==
    ASSUME LiveTyped, NEW msg \in LiveFitting, msg.type # "status"
    PROVE  Live!ConsoleShows(msg) \in LiveLines(LiveLongest) /\ Live!DashboardShows(msg) \in LiveLines(LiveLongest)
<1>1. /\ Kept - 1 \in Nat /\ LiveLongest \in Nat /\ Kept <= LiveLongest /\ HistorySize <= LiveLongest
      /\ HistorySize \in Nat
      /\ Kept \in Nat
  BY HistoryAssumption DEF LiveLongest
<1>2. view.shown \in Seq(Nat)
  BY DEF LiveTyped, LiveLines
<1>3. CASE msg.type = "history"
  <2>1. msg.lines \in Seq(Nat) /\ Len(msg.lines) <= HistorySize
    BY <1>3, LiveReadMessage DEF LiveLines
  <2>2. Live!Latest(msg.lines, Kept - 1) \in Seq(Nat) /\ Len(Live!Latest(msg.lines, Kept - 1)) <= Kept - 1
    BY <1>1, <2>1, LiveLatestTyped DEF LiveLines
  <2> QED
    BY <1>1, <1>3, <2>1, <2>2 DEF Live!ConsoleShows, Live!DashboardShows, LiveLines
<1>4. CASE msg.type = "line"
  <2>1. msg.line \in Nat
    BY <1>4, LiveReadMessage
  <2> DEFINE shown == Live!Latest(view.shown, Kept - 1)
  <2>2. shown \in Seq(Nat) /\ Len(shown) <= Kept - 1
    BY <1>1, <1>2, LiveLatestTyped DEF LiveLines
  <2>3. Live!ConsoleShows(msg) = Append(shown, msg.line) /\ Live!DashboardShows(msg) = Append(shown, msg.line)
    BY <1>4 DEF Live!ConsoleShows, Live!DashboardShows
  <2> HIDE DEF shown
  <2>4. Append(shown, msg.line) \in Seq(Nat) /\ Len(Append(shown, msg.line)) <= Kept
    BY <1>1, <2>1, <2>2
  <2> QED
    BY <1>1, <2>3, <2>4 DEF LiveLines
<1> QED
  BY <1>3, <1>4, LiveReadMessage

LEMMA LiveGreetingTyped ==
    ASSUME LiveTyped
    PROVE  Live!Greeting \in Seq(LiveFitting)
<1>1. Live!History \in LiveFitting
  BY LiveMessageTyped DEF Live!History, LiveTyped, LiveServerFits
<1>2. [type |-> "status", following |-> server.following] \in LiveFitting
  BY LiveMessageTyped DEF LiveTyped, LiveServerFits
<1>3. Live!ConsoleGreeting \in Seq(LiveFitting) /\ Live!ScriptsGreeting \in Seq(LiveFitting)
        /\ Live!MetricsGreeting \in Seq(LiveFitting)
  BY <1>1, <1>2 DEF Live!ConsoleGreeting, Live!ScriptsGreeting, Live!MetricsGreeting
<1> QED
  BY <1>3 DEF Live!Greeting, LiveTyped, Live!Pages

\* The sockets' messages.
LiveOutFits(s) == calls'[s] # Live!NoCall => calls'[s].out \in Seq(LiveFitting)

LEMMA LiveOutKept ==
    ASSUME LiveTyped, NEW s \in Slots,
           \/ calls'[s] = calls[s] \/ calls'[s] = Live!NoCall
           \/ calls[s] # Live!NoCall /\ calls'[s].out = calls[s].out
    PROVE  LiveOutFits(s)
  BY DEF LiveOutFits, LiveTyped

LEMMA LiveNewOut ==
    ASSUME NEW s, calls'[s] = Live!Socket
    PROVE  LiveOutFits(s)
<1>1. Live!Socket.out = <<>>
  BY DEF Live!Socket
<1>2. <<>> \in Seq(LiveFitting)
  OBVIOUS
<1> QED
  BY <1>1, <1>2 DEF LiveOutFits

LEMMA LiveNextTyped ==
    ASSUME Sockets, LiveTyped, LiveStep
    PROVE  LiveTyped'
<1> USE DEF Sockets
<1>a. ASSUME page' = page, LiveServerFits(server'), view'.shown \in LiveLines(LiveLongest),
             view'.following \in BOOLEAN,
             \A s \in Slots : LiveOutFits(s)
      PROVE  LiveTyped'
  BY <1>a DEF LiveTyped, LiveOutFits, LiveServerFits, LiveLines, LiveLongest, LiveFitting, Live!Message,
     Live!Pages
<1>b. page' = page
  <2>1. CASE UNCHANGED vars
    BY <2>1 DEF vars
  <2> QED
    BY <2>1, LiveFixed DEF LiveStep, Fixed
<1>c. LiveServerFits(server) /\ view.shown \in LiveLines(LiveLongest) /\ view.following \in BOOLEAN
  BY DEF LiveTyped
<1>1. CASE Live!Mount
  <2>1. /\ Live!FreeSlot \in Slots /\ calls' = [Live!Orphans EXCEPT ![Live!FreeSlot] = Live!Socket]
        /\ view' = [Live!NewView EXCEPT !.mounted = TRUE] /\ server' = server
    BY <1>1, LiveFree DEF Live!Mount, Live!Connect
  <2>2. view'.shown = <<>> /\ view'.following = FALSE
    BY <2>1 DEF Live!NewView
  <2>3. <<>> \in LiveLines(LiveLongest)
    BY HistoryAssumption DEF LiveLines, LiveLongest
  <2>4. ASSUME NEW s \in Slots PROVE LiveOutFits(s)
    <3>1. CASE s = Live!FreeSlot
      <4>1. calls'[s] = Live!Socket
        BY <2>1, <3>1 DEF Live!Orphans
      <4> QED
        BY <4>1, LiveNewOut
    <3>2. CASE s # Live!FreeSlot
      <4>1. calls'[s] = Live!Orphans[s]
        BY <2>1, <3>2 DEF Live!Orphans
      <4>2. calls[s] # Live!NoCall =>
              LiveIsSocket(calls[s]) /\ Live!Orphans[s] = [calls[s] EXCEPT !.mine = FALSE]
        BY DEF Live!Orphans
      <4>3. calls[s] # Live!NoCall => [calls[s] EXCEPT !.mine = FALSE].out = calls[s].out
        BY <4>2 DEF LiveIsSocket
      <4>4. calls[s] = Live!NoCall => Live!Orphans[s] = Live!NoCall
        BY DEF Live!Orphans
      <4> QED
        BY <4>1, <4>2, <4>3, <4>4, LiveOutKept
    <3> QED
      BY <3>1, <3>2
  <2> QED
    BY <1>a, <1>b, <1>c, <2>1, <2>2, <2>3, <2>4
<1>2. CASE Live!Unmount
  <2>1. /\ view' = [view EXCEPT !.mounted = FALSE, !.timers = IF view.timers > 0
                                                               THEN view.timers - 1 ELSE 0]
        /\ calls' = [s \in Slots |-> IF calls[s] # Live!NoCall /\ calls[s].mine
                                     THEN [calls[s] EXCEPT !.at = "closing"] ELSE calls[s]]
        /\ server' = server
    BY <1>2 DEF Live!Unmount, Live!Unmounted
  <2>2. view'.shown = view.shown /\ view'.following = view.following
    <3> DEFINE timers == IF view.timers > 0 THEN view.timers - 1 ELSE 0
    <3> HIDE DEF timers
    <3>1. view' = [view EXCEPT !.mounted = FALSE, !.timers = timers]
      BY <2>1 DEF timers
    <3> QED
      BY <3>1 DEF LiveIsView
  <2>3. ASSUME NEW s \in Slots PROVE LiveOutFits(s)
    <3>1. CASE calls'[s] = calls[s]
      BY <3>1, LiveOutKept
    <3>2. CASE calls'[s] # calls[s]
      <4>1. calls[s] # Live!NoCall /\ LiveIsSocket(calls[s]) /\ calls'[s] = [calls[s] EXCEPT !.at = "closing"]
        BY <2>1, <3>2
      <4> QED
        BY <4>1, LiveOutKept DEF LiveIsSocket
    <3> QED
      BY <3>1, <3>2
  <2> QED
    BY <1>a, <1>b, <1>c, <2>1, <2>2, <2>3
<1>3. CASE Live!TimerFires
  <2>1. /\ Live!FreeSlot \in Slots /\ calls' = [calls EXCEPT ![Live!FreeSlot] = Live!Socket]
        /\ view' = [view EXCEPT !.timers = view.timers - 1] /\ server' = server
    BY <1>3, LiveFree DEF Live!TimerFires, Live!Connect
  <2>2. view'.shown = view.shown /\ view'.following = view.following
    BY <2>1 DEF LiveIsView
  <2>3. ASSUME NEW s \in Slots PROVE LiveOutFits(s)
    <3>1. CASE s = Live!FreeSlot
      <4>1. calls'[s] = Live!Socket
        BY <2>1, <3>1
      <4> QED
        BY <4>1, LiveNewOut
    <3>2. CASE s # Live!FreeSlot
      BY <2>1, <3>2, LiveOutKept
    <3> QED
      BY <3>1, <3>2
  <2> QED
    BY <1>a, <1>b, <1>c, <2>1, <2>2, <2>3
<1>4. CASE Live!Emit \/ Live!StatusChanges
  <2>1. ASSUME NEW msg \in LiveFitting, calls' = Live!Broadcast(msg), NEW s \in Slots
        PROVE  LiveOutFits(s)
    <3>1. \/ calls'[s] = calls[s]
          \/ calls[s].at = "open" /\ calls'[s] = [calls[s] EXCEPT !.out = Append(calls[s].out, msg)]
      BY <2>1 DEF Live!Broadcast
    <3>2. CASE calls'[s] = calls[s]
      BY <3>2, LiveOutKept
    <3>3. CASE calls[s].at = "open" /\ calls'[s] = [calls[s] EXCEPT !.out = Append(calls[s].out, msg)]
      <4>1. LiveIsSocket(calls[s]) /\ calls[s] # Live!NoCall
        BY <3>3 DEF Live!NoCall
      <4>2. calls[s].out \in Seq(LiveFitting)
        BY <4>1 DEF LiveTyped
      <4>3. calls'[s].out = Append(calls[s].out, msg)
        BY <3>3, <4>1 DEF LiveIsSocket
      <4> QED
        BY <4>2, <4>3 DEF LiveOutFits
    <3> QED
      BY <3>1, <3>2, <3>3
  <2>2. CASE Live!Emit
    <3> DEFINE n == server.last + 1
               log == Live!Latest(Append(server.log, n), HistorySize)
    <3>1. /\ server' = [server EXCEPT !.last = n, !.log = log] /\ view' = view
          /\ calls' = Live!Broadcast([type |-> "line", line |-> n])
      BY <2>2 DEF Live!Emit
    <3>2. server.last \in Nat /\ server.log \in Seq(Nat)
      BY DEF LiveTyped, LiveServerFits, LiveLines
    <3>3. n \in Nat
      BY <3>2
    <3>4. log \in LiveLines(HistorySize)
      <4>1. Append(server.log, n) \in Seq(Nat)
        BY <3>2, <3>3
      <4> QED
        BY <4>1, LiveLatestTyped, HistoryAssumption
    <3>5. [type |-> "line", line |-> n] \in LiveFitting
      BY <3>3, LiveMessageTyped
    <3> HIDE DEF n, log
    <3>6. LiveServerFits(server')
      BY <1>c, <3>1, <3>3, <3>4 DEF LiveServerFits
    <3> QED
      BY <1>a, <1>b, <1>c, <2>1, <3>1, <3>5, <3>6
  <2>3. CASE Live!StatusChanges
    <3>1. /\ server' = [server EXCEPT !.following = ~server.following] /\ view' = view
          /\ calls' = Live!Broadcast([type |-> "status", following |-> ~server.following])
      BY <2>3 DEF Live!StatusChanges
    <3>2. [type |-> "status", following |-> ~server.following] \in LiveFitting
      BY LiveMessageTyped
    <3>3. LiveServerFits(server')
      BY <1>c, <3>1 DEF LiveServerFits
    <3> QED
      BY <1>a, <1>b, <1>c, <2>1, <3>1, <3>2, <3>3
  <2> QED
    BY <1>4, <2>2, <2>3
<1>5. ASSUME NEW s \in Slots, Live!Drop(s) \/ Live!Restart
      PROVE  LiveTyped'
  <2>1. ASSUME NEW t \in Slots, NEW n, calls[t] # Live!NoCall, n \in 0..Len(calls[t].out),
               calls'[t] = Live!BrokenOff(t, [u \in Slots |-> n])
        PROVE  LiveOutFits(t)
    <3>1. LiveIsSocket(calls[t]) /\ calls[t].out \in Seq(LiveFitting)
      BY <2>1 DEF LiveTyped
    <3> DEFINE out == IF calls[t].opened THEN SubSeq(calls[t].out, 1, n) ELSE <<>>
    <3>2. calls'[t] = calls[t] \/ calls'[t] = [calls[t] EXCEPT !.at = "lost", !.out = out]
      BY <2>1 DEF Live!BrokenOff
    <3>3. SubSeq(calls[t].out, 1, n) \in Seq(LiveFitting)
      BY <2>1, <3>1, SubSeqProperties
    <3>4. out \in Seq(LiveFitting)
      BY <3>3
    <3> HIDE DEF out
    <3> QED
      BY <3>1, <3>2, <3>4, LiveOutKept DEF LiveOutFits, LiveIsSocket
  <2>2. CASE Live!Drop(s)
    <3>1. PICK n \in 0..Len(calls[s].out) : calls' = [calls EXCEPT ![s] = Live!BrokenOff(s, [t \in Slots |-> n])]
      BY <2>2 DEF Live!Drop
    <3>2. calls[s] # Live!NoCall /\ server' = server /\ view' = view
      BY <2>2 DEF Live!Drop, Live!NoCall
    <3>3. LiveOutFits(s)
      BY <2>1, <3>1, <3>2
    <3>4. \A t \in Slots : t # s => calls'[t] = calls[t]
      BY <3>1
    <3>5. \A t \in Slots : LiveOutFits(t)
      BY <3>3, <3>4, LiveOutKept
    <3> QED
      BY <1>a, <1>b, <1>c, <3>2, <3>5
  <2>3. CASE Live!Restart
    <3>1. /\ server' = [server EXCEPT !.log = <<>>, !.following = FALSE] /\ view' = view
          /\ calls' = [t \in Slots |-> Live!BrokenOff(t, [u \in Slots |-> 0])]
      BY <2>3 DEF Live!Restart
    <3>2. <<>> \in LiveLines(HistorySize)
      BY HistoryAssumption DEF LiveLines
    <3>3. LiveServerFits(server')
      BY <1>c, <3>1, <3>2 DEF LiveServerFits
    <3>4. ASSUME NEW t \in Slots PROVE LiveOutFits(t)
      <4>1. calls'[t] = Live!BrokenOff(t, [u \in Slots |-> 0])
        BY <3>1
      <4>2. CASE calls[t] = Live!NoCall
        BY <4>1, <4>2, LiveOutKept DEF Live!BrokenOff
      <4>3. CASE calls[t] # Live!NoCall
        <5>1. calls[t].out \in Seq(LiveFitting)
          BY <4>3 DEF LiveTyped
        <5>2. 0 \in 0..Len(calls[t].out)
          BY <5>1
        <5> QED
          BY <2>1, <4>1, <4>3, <5>2
      <4> QED
        BY <4>2, <4>3
    <3> QED
      BY <1>a, <1>b, <1>c, <3>1, <3>3, <3>4
  <2> QED
    BY <1>5, <2>2, <2>3
<1>6. ASSUME NEW s \in Slots, Live!Upgrade(s) \/ Live!Refuse(s) \/ Live!Opens(s)
      PROVE  LiveTyped'
  <2>1. LiveIsSocket(calls[s]) /\ calls[s] # Live!NoCall /\ server' = server
    BY <1>6 DEF Live!Upgrade, Live!Refuse, Live!Opens, Live!NoCall
  <2>2. calls[s].out \in Seq(LiveFitting)
    BY <2>1 DEF LiveTyped
  <2>3. view'.shown = view.shown /\ view'.following = view.following
    BY <1>6 DEF Live!Upgrade, Live!Refuse, Live!Opens, LiveIsView
  <2>4. \A t \in Slots : t # s => calls'[t] = calls[t]
    BY <1>6 DEF Live!Upgrade, Live!Refuse, Live!Opens
  <2>5. LiveOutFits(s)
    <3>1. CASE Live!Upgrade(s)
      <4>1. calls'[s] = [calls[s] EXCEPT !.at = "open", !.out = Live!Greeting]
        BY <3>1 DEF Live!Upgrade
      <4>2. calls'[s].out = Live!Greeting
        BY <2>1, <4>1 DEF LiveIsSocket
      <4> QED
        BY <4>2, LiveGreetingTyped DEF LiveOutFits
    <3>2. CASE Live!Refuse(s)
      BY <2>1, <2>2, <3>2 DEF Live!Refuse, LiveOutFits, LiveIsSocket
    <3>3. CASE Live!Opens(s)
      BY <2>1, <2>2, <3>3 DEF Live!Opens, LiveOutFits, LiveIsSocket
    <3> QED
      BY <1>6, <3>1, <3>2, <3>3
  <2>6. \A t \in Slots : LiveOutFits(t)
    BY <2>4, <2>5, LiveOutKept
  <2> QED
    BY <1>a, <1>b, <1>c, <2>1, <2>3, <2>6
<1>7. ASSUME NEW s \in Slots, Live!Receives(s)
      PROVE  LiveTyped'
  <2> DEFINE msg == Head(calls[s].out)
             shown == IF page = "console" THEN Live!ConsoleShows(msg) ELSE Live!DashboardShows(msg)
  <2>1. /\ LiveIsSocket(calls[s]) /\ calls[s] # Live!NoCall /\ server' = server /\ calls[s].out # <<>>
        /\ calls' = [calls EXCEPT ![s] = [calls[s] EXCEPT !.out = Tail(calls[s].out)]]
        /\ \/ view' = view
           \/ msg.type = "status" /\ view' = [view EXCEPT !.following = msg.following]
           \/ msg.type # "status" /\ view' = [view EXCEPT !.shown = shown]
    BY <1>7 DEF Live!Receives, Live!NoCall
  <2>2. calls[s].out \in Seq(LiveFitting)
    BY <2>1 DEF LiveTyped
  <2>3. msg \in LiveFitting /\ Tail(calls[s].out) \in Seq(LiveFitting)
    BY <2>1, <2>2
  <2>4. LiveOutFits(s)
    <3>1. calls'[s].out = Tail(calls[s].out)
      BY <2>1 DEF LiveIsSocket
    <3> QED
      BY <2>3, <3>1 DEF LiveOutFits
  <2>5. \A t \in Slots : LiveOutFits(t)
    BY <2>1, <2>4, LiveOutKept
  <2>6. msg.type # "status" => shown \in LiveLines(LiveLongest)
    BY <2>3, LiveShowsTyped
  <2>7. msg.type = "status" => msg.following \in BOOLEAN
    BY <2>3, LiveReadMessage
  <2> HIDE DEF msg, shown
  <2>8. view'.shown \in LiveLines(LiveLongest) /\ view'.following \in BOOLEAN
    BY <1>c, <2>1, <2>6, <2>7 DEF LiveIsView
  <2> QED
    BY <1>a, <1>b, <1>c, <2>1, <2>5, <2>8
<1>8. ASSUME NEW s \in Slots, Live!Closes(s)
      PROVE  LiveTyped'
  <2>1. /\ server' = server /\ calls' = [calls EXCEPT ![s] = Live!NoCall]
        /\ \/ view' = view
           \/ \E timers : view' = [view EXCEPT !.connected = FALSE, !.timers = timers]
    BY <1>8 DEF Live!Closes, Live!Ends
  <2>2. view'.shown = view.shown /\ view'.following = view.following
    BY <2>1 DEF LiveIsView
  <2>3. \A t \in Slots : LiveOutFits(t)
    BY <2>1, LiveOutKept
  <2> QED
    BY <1>a, <1>b, <1>c, <2>1, <2>2, <2>3
<1>9. CASE UNCHANGED vars
  <2>1. server' = server /\ view' = view /\ \A t \in Slots : LiveOutFits(t)
    BY <1>9, LiveOutKept DEF vars
  <2> QED
    BY <1>a, <1>b, <1>c, <2>1
<1>10. CASE Slots = {} /\ Live!Restart
  <2>1. /\ server' = [server EXCEPT !.log = <<>>, !.following = FALSE] /\ view' = view
    BY <1>10 DEF Live!Restart
  <2>2. <<>> \in LiveLines(HistorySize)
    BY HistoryAssumption DEF LiveLines
  <2>3. LiveServerFits(server')
    BY <1>c, <2>1, <2>2 DEF LiveServerFits
  <2> QED
    BY <1>a, <1>b, <1>c, <1>10, <2>1, <2>3
<1> QED
  BY <1>1, <1>2, <1>3, <1>4, <1>5, <1>6, <1>7, <1>8, <1>9, <1>10 DEF Live!Next, LiveStep

LEMMA LiveInitTyped == Live!Init => LiveTyped
<1> SUFFICES ASSUME Live!Init PROVE LiveTyped
  OBVIOUS
<1>1. <<>> \in LiveLines(HistorySize) /\ <<>> \in LiveLines(LiveLongest)
  BY HistoryAssumption DEF LiveLines, LiveLongest
<1> QED
  BY <1>1 DEF Live!Init, LiveTyped, LiveServerFits, Live!NewView

(***************************************************************************)
(* What the view will show once every message under way is heard.  A run   *)
(* of lines ends with the last line emitted, and misses none.              *)
(***************************************************************************)
LiveRun(lines, last) == lines \in Seq(Nat) /\ \A i \in 1..Len(lines) : lines[i] + Len(lines) = last + i

LEMMA LiveRunAt ==
    ASSUME NEW lines, NEW last \in Nat, LiveRun(lines, last), NEW i \in 1..Len(lines)
    PROVE  lines[i] \in Nat /\ lines[i] = last + i - Len(lines)
<1>1. lines \in Seq(Nat)
  BY DEF LiveRun
<1>2. lines[i] \in Nat /\ i \in Nat /\ Len(lines) \in Nat
  BY <1>1
<1>3. lines[i] + Len(lines) = last + i
  BY DEF LiveRun
<1> QED
  BY <1>2, <1>3

LEMMA LiveLatestRun ==
    ASSUME NEW lines, NEW last \in Nat, NEW n \in Nat, LiveRun(lines, last)
    PROVE  /\ LiveRun(Live!Latest(lines, n), last)
           /\ lines # <<>> /\ n # 0 => Live!Latest(lines, n) # <<>>
<1>0. lines \in Seq(Nat)
  BY DEF LiveRun
<1>1. CASE Len(lines) > n
  <2> DEFINE tail == SubSeq(lines, Len(lines) - n + 1, Len(lines))
  <2>1. Live!Latest(lines, n) = tail
    BY <1>1 DEF Live!Latest
  <2>2. Len(lines) - n + 1 \in Int /\ \A i \in Len(lines) - n + 1..Len(lines) : lines[i] \in Nat
    BY <1>0, <1>1
  <2>3. tail \in Seq(Nat) /\ Len(tail) = n /\ \A i \in 1..n : tail[i] = lines[Len(lines) - n + i]
    BY <1>0, <1>1, <2>2, SubSeqProperties
  <2> HIDE DEF tail
  <2>4. \A i \in 1..n : Len(lines) - n + i \in 1..Len(lines)
    BY <1>0, <1>1
  <2>5. \A i \in 1..n : tail[i] + n = last + i
    <3> SUFFICES ASSUME NEW i \in 1..n PROVE tail[i] + n = last + i
      OBVIOUS
    <3>1. PICK k \in 1..Len(lines) : k = Len(lines) - n + i
      BY <2>4
    <3>2. lines[k] + Len(lines) = last + k /\ lines[k] \in Nat /\ tail[i] = lines[k]
      BY <1>0, <2>3, <3>1 DEF LiveRun
    <3>3. Len(lines) \in Nat /\ i \in Nat
      BY <1>0
    <3> HIDE DEF LiveRun
    <3> QED
      BY <3>1, <3>2, <3>3
  <2> QED
    BY <2>1, <2>3, <2>5 DEF LiveRun
<1>2. CASE ~(Len(lines) > n)
  BY <1>2 DEF Live!Latest
<1> QED
  BY <1>1, <1>2

LEMMA LiveAppendRun ==
    ASSUME NEW lines, NEW last \in Nat, LiveRun(lines, last)
    PROVE  /\ LiveRun(Append(lines, last + 1), last + 1)
           /\ Append(lines, last + 1) # <<>>
<1>1. lines \in Seq(Nat) /\ last + 1 \in Nat
  BY DEF LiveRun
<1> DEFINE more == Append(lines, last + 1)
<1>2. /\ more \in Seq(Nat) /\ Len(more) = Len(lines) + 1 /\ more[Len(lines) + 1] = last + 1
      /\ \A i \in 1..Len(lines) : more[i] = lines[i]
  BY <1>1
<1> HIDE DEF more
<1>3. ASSUME NEW i \in 1..Len(more)
      PROVE  more[i] + Len(more) = last + 1 + i
  <2>1. CASE i = Len(lines) + 1
    BY <1>1, <1>2, <2>1
  <2>2. CASE i # Len(lines) + 1
    <3>1. i \in 1..Len(lines)
      BY <1>1, <1>2, <2>2
    <3>2. lines[i] + Len(lines) = last + i /\ lines[i] \in Nat
      BY <1>1, <3>1 DEF LiveRun
    <3>3. more[i] = lines[i] /\ Len(more) = Len(lines) + 1 /\ Len(lines) \in Nat /\ i \in Nat
      BY <1>1, <1>2, <3>1
    <3> QED
      BY <3>2, <3>3
  <2> QED
    BY <2>1, <2>2
<1>4. more # <<>>
  BY <1>1, <1>2
<1> QED
  BY <1>2, <1>3, <1>4 DEF LiveRun, more

\* Two runs with the same end.
LEMMA LiveRunsAlign ==
    ASSUME NEW s, NEW t, NEW last \in Nat, LiveRun(s, last), LiveRun(t, last), Len(s) <= Len(t)
    PROVE  Live!IsSuffix(s, t)
<1>1. s \in Seq(Nat) /\ t \in Seq(Nat)
  BY DEF LiveRun
<1> DEFINE rs == Live!Reverse(s)
           rt == Live!Reverse(t)
<1>2. Len(rs) = Len(s) /\ Len(rt) = Len(t) /\ rs \in Seq(Nat) /\ rt \in Seq(Nat)
  BY <1>1 DEF Live!Reverse
<1>3. /\ \A i \in 1..Len(s) : rs[i] = s[Len(s) - i + 1]
      /\ \A i \in 1..Len(t) : rt[i] = t[Len(t) - i + 1]
  BY <1>1 DEF Live!Reverse
<1>4. /\ \A j \in 1..Len(s) : s[j] = last + j - Len(s)
      /\ \A k \in 1..Len(t) : t[k] = last + k - Len(t)
  BY LiveRunAt
<1>5. ASSUME NEW i \in 1..Len(s)
      PROVE  rs[i] = rt[i]
  <2>1. Len(s) \in Nat /\ Len(t) \in Nat /\ i \in Nat /\ i \in 1..Len(t)
    BY <1>1
  <2>2. Len(s) - i + 1 \in 1..Len(s) /\ Len(t) - i + 1 \in 1..Len(t)
    BY <2>1
  <2>3. PICK j \in 1..Len(s) : j = Len(s) - i + 1
    BY <2>2
  <2>4. PICK k \in 1..Len(t) : k = Len(t) - i + 1
    BY <2>2
  <2>5. s[j] = last + j - Len(s) /\ t[k] = last + k - Len(t)
    BY <1>4
  <2>6. s[j] = t[k]
    BY <2>1, <2>3, <2>4, <2>5
  <2>7. rs[i] = s[j] /\ rt[i] = t[k]
    BY <1>3, <2>1, <2>3, <2>4
  <2> QED
    BY <2>6, <2>7
<1> HIDE DEF rs, rt
<1>6. SubSeq(rs, 1, Len(rs)) = SubSeq(rt, 1, Len(rs))
  <2>1. Len(rs) \in Nat /\ Len(rt) \in Nat /\ Len(rs) <= Len(rt)
    BY <1>1, <1>2
  <2>2. \A i \in 1..Len(rs) : rs[i] \in Nat /\ rt[i] \in Nat
    BY <1>2, <2>1
  <2>3. /\ SubSeq(rs, 1, Len(rs)) \in Seq(Nat) /\ SubSeq(rt, 1, Len(rs)) \in Seq(Nat)
        /\ Len(SubSeq(rs, 1, Len(rs))) = Len(rs) /\ Len(SubSeq(rt, 1, Len(rs))) = Len(rs)
        /\ \A i \in 1..Len(rs) : SubSeq(rs, 1, Len(rs))[i] = rs[i] /\ SubSeq(rt, 1, Len(rs))[i] = rt[i]
    BY <1>2, <2>1, <2>2, SubSeqProperties
  <2>4. \A i \in 1..Len(rs) : SubSeq(rs, 1, Len(rs))[i] = SubSeq(rt, 1, Len(rs))[i]
    BY <1>2, <1>5, <2>3
  <2> QED
    BY <2>3, <2>4, SeqEqual
<1> QED
  BY <1>2, <1>6 DEF Live!IsSuffix, Live!IsPrefix, rs, rt

\* No line twice.
LEMMA LiveRunDistinct ==
    ASSUME NEW lines, NEW last \in Nat, LiveRun(lines, last)
    PROVE  \A i, j \in DOMAIN lines : lines[i] = lines[j] => i = j
<1>1. lines \in Seq(Nat)
  BY DEF LiveRun
<1>2. DOMAIN lines = 1..Len(lines)
  BY <1>1
<1>3. \A i \in DOMAIN lines : lines[i] + Len(lines) = last + i /\ lines[i] \in Nat /\ i \in Nat
  BY <1>1, <1>2 DEF LiveRun
<1> QED
  BY <1>1, <1>3

-----------------------------------------------------------------------------
(* The view, message by message: shown[i] and following[i] once the first  *)
(* i messages under way are heard.                                         *)

LiveHeardLines(lines, msg) ==
    CASE msg.type = "history" -> IF page = "console" THEN Live!Latest(msg.lines, Kept - 1) ELSE msg.lines
      [] msg.type = "line" -> Append(Live!Latest(lines, Kept - 1), msg.line)
      [] msg.type = "status" -> lines
LiveHeardStatus(following, msg) == IF msg.type = "status" THEN msg.following ELSE following

LiveHears(out, shown, following) ==
    /\ shown[0] = view.shown /\ following[0] = view.following
    /\ \A i \in 1..Len(out) : /\ shown[i] = LiveHeardLines(shown[i - 1], out[i])
                              /\ following[i] = LiveHeardStatus(following[i - 1], out[i])
LiveRight(lines, following) ==
    /\ LiveRun(lines, server.last) /\ (server.log # <<>> => lines # <<>>)
    /\ page = "console" => following = server.following
LiveTold(out) ==
    \E shown, following : LiveHears(out, shown, following) /\ LiveRight(shown[Len(out)], following[Len(out)])

LiveTelling ==
    /\ LiveRun(server.log, server.last)
    /\ \A s \in Live!Mine : calls[s].at = "open" => LiveTold(calls[s].out)

LEMMA LiveInitTelling == Live!Init => LiveTelling
<1> SUFFICES ASSUME Live!Init PROVE LiveTelling
  OBVIOUS
<1>1. server.log = <<>> /\ server.last = 0 /\ Live!Mine = {}
  BY DEF Live!Init, Live!Mine
<1>2. LiveRun(<<>>, 0)
  BY DEF LiveRun
<1> QED
  BY <1>1, <1>2 DEF LiveTelling

LEMMA LiveTellingSettles ==
    ASSUME LiveTyped, LiveTelling
    PROVE  Live!SettledViewIsTruth
<1> SUFFICES ASSUME NEW s \in Live!Mine, calls[s].at = "open", calls[s].out = <<>>
             PROVE  /\ Live!IsSuffix(view.shown, server.log) \/ Live!IsSuffix(server.log, view.shown)
                    /\ \A i, j \in DOMAIN view.shown : view.shown[i] = view.shown[j] => i = j
                    /\ server.log # <<>> => view.shown # <<>>
                    /\ page = "console" => view.following = server.following
  BY DEF Live!SettledViewIsTruth
<1>1. LiveRight(view.shown, view.following)
  <2>1. PICK shown, following :
          LiveHears(<<>>, shown, following) /\ LiveRight(shown[Len(<<>>)], following[Len(<<>>)])
    BY DEF LiveTelling, LiveTold
  <2>2. Len(<<>>) = 0
    OBVIOUS
  <2>3. shown[0] = view.shown /\ following[0] = view.following
    BY <2>1 DEF LiveHears
  <2> QED
    BY <2>1, <2>2, <2>3
<1>2. server.last \in Nat
  BY DEF LiveTyped, LiveServerFits
<1>3. LiveRun(view.shown, server.last) /\ LiveRun(server.log, server.last)
  BY <1>1 DEF LiveTelling, LiveRight
<1>4. Len(view.shown) \in Nat /\ Len(server.log) \in Nat
  BY <1>3 DEF LiveRun
<1>5. Live!IsSuffix(view.shown, server.log) \/ Live!IsSuffix(server.log, view.shown)
  <2>1. CASE Len(view.shown) <= Len(server.log)
    BY <1>2, <1>3, <2>1, LiveRunsAlign
  <2>2. CASE Len(server.log) <= Len(view.shown)
    BY <1>2, <1>3, <2>2, LiveRunsAlign
  <2> QED
    BY <1>4, <2>1, <2>2
<1>6. \A i, j \in DOMAIN view.shown : view.shown[i] = view.shown[j] => i = j
  BY <1>2, <1>3, LiveRunDistinct
<1> QED
  BY <1>1, <1>5, <1>6 DEF LiveRight

-----------------------------------------------------------------------------
(* Each way the messages under way change. *)

LiveSameView == view'.shown = view.shown /\ view'.following = view.following

LEMMA LiveToldStays ==
    ASSUME NEW out, LiveTold(out), server' = server, page' = page, LiveSameView
    PROVE  LiveTold(out)'
<1>1. PICK shown, following :
        LiveHears(out, shown, following) /\ LiveRight(shown[Len(out)], following[Len(out)])
  BY DEF LiveTold
<1>2. LiveHears(out, shown, following)'
  BY <1>1 DEF LiveHears, LiveSameView, LiveHeardLines, LiveHeardStatus
<1>3. LiveRight(shown[Len(out)], following[Len(out)])'
  BY <1>1 DEF LiveRight
<1> QED
  BY <1>2, <1>3 DEF LiveTold

LEMMA LiveToldMore ==
    ASSUME NEW out, out \in Seq(LiveFitting), NEW msg, msg \in LiveFitting, LiveTold(out), page' = page,
           LiveSameView,
           \A lines, following, newlines, newfollowing :
               /\ LiveRight(lines, following)
               /\ newlines = LiveHeardLines(lines, msg) /\ newfollowing = LiveHeardStatus(following, msg)
               => LiveRight(newlines, newfollowing)'
    PROVE  \E more : more = Append(out, msg) /\ LiveTold(more)'
<1>1. PICK shown, following :
        LiveHears(out, shown, following) /\ LiveRight(shown[Len(out)], following[Len(out)])
  BY DEF LiveTold
<1>2. PICK n \in Nat : n = Len(out)
  OBVIOUS
<1>3. PICK more : more = Append(out, msg)
  OBVIOUS
<1>4. Len(more) = n + 1 /\ more[n + 1] = msg /\ \A i \in 1..n : more[i] = out[i]
  BY <1>2, <1>3
<1>5. PICK lines : lines = LiveHeardLines(shown[n], msg)
  OBVIOUS
<1>6. PICK status : status = LiveHeardStatus(following[n], msg)
  OBVIOUS
<1> DEFINE g == [i \in 0..n + 1 |-> IF i = n + 1 THEN lines ELSE shown[i]]
           h == [i \in 0..n + 1 |-> IF i = n + 1 THEN status ELSE following[i]]
<1>7. /\ g[n + 1] = lines /\ \A i \in 0..n : g[i] = shown[i]
      /\ h[n + 1] = status /\ \A i \in 0..n : h[i] = following[i]
  BY <1>2
<1> HIDE DEF g, h
<1>8. g[0] = view'.shown /\ h[0] = view'.following
  BY <1>1, <1>2, <1>7 DEF LiveHears, LiveSameView
<1>9. ASSUME NEW i \in 1..n + 1
      PROVE  g[i] = LiveHeardLines(g[i - 1], more[i]) /\ h[i] = LiveHeardStatus(h[i - 1], more[i])
  <2>1. CASE i = n + 1
    <3>1. i - 1 = n /\ n \in 0..n
      BY <1>2, <2>1
    <3>2. g[i - 1] = shown[n] /\ h[i - 1] = following[n] /\ more[i] = msg
      BY <1>4, <1>7, <2>1, <3>1
    <3> QED
      BY <1>5, <1>6, <1>7, <2>1, <3>2
  <2>2. CASE i # n + 1
    <3>1. i \in 1..n /\ i \in 0..n /\ i - 1 \in 0..n
      BY <1>2, <2>2
    <3>2. g[i] = shown[i] /\ g[i - 1] = shown[i - 1] /\ h[i] = following[i] /\ h[i - 1] = following[i - 1]
          /\ more[i] = out[i]
      BY <1>4, <1>7, <3>1
    <3>3. shown[i] = LiveHeardLines(shown[i - 1], out[i])
            /\ following[i] = LiveHeardStatus(following[i - 1], out[i])
      BY <1>1, <1>2, <3>1 DEF LiveHears
    <3> QED
      BY <3>2, <3>3
  <2> QED
    BY <2>1, <2>2
<1>10. ASSUME NEW i \in 1..n + 1
       PROVE  g[i] = LiveHeardLines(g[i - 1], more[i])' /\ h[i] = LiveHeardStatus(h[i - 1], more[i])
  BY <1>9 DEF LiveHeardLines
<1>11. LiveHears(more, g, h)'
  BY <1>4, <1>8, <1>10 DEF LiveHears, LiveHeardLines, LiveHeardStatus
<1>12. LiveRight(lines, status)'
  BY <1>1, <1>2, <1>5, <1>6
<1>13. LiveRight(g[n + 1], h[n + 1])'
  BY <1>7, <1>12
<1> QED
  BY <1>3, <1>4, <1>11, <1>13 DEF LiveTold

LEMMA LiveToldHeard ==
    ASSUME NEW out, out \in Seq(LiveFitting), out # <<>>, LiveTold(out), server' = server, page' = page,
           view'.shown = LiveHeardLines(view.shown, Head(out)),
           view'.following = LiveHeardStatus(view.following, Head(out))
    PROVE  \E rest : rest = Tail(out) /\ LiveTold(rest)'
<1>1. PICK shown, following :
        LiveHears(out, shown, following) /\ LiveRight(shown[Len(out)], following[Len(out)])
  BY DEF LiveTold
<1>a. Tail(out) \in Seq(LiveFitting)
  OBVIOUS
<1>2. PICK rest \in Seq(LiveFitting) : rest = Tail(out)
  BY <1>a
<1>3. PICK n \in Nat : n = Len(rest)
  BY <1>2
<1>4. Len(out) = n + 1 /\ \A i \in 1..n : rest[i] = out[i + 1]
  BY <1>2, <1>3
<1> DEFINE g == [i \in 0..n |-> shown[i + 1]]
           h == [i \in 0..n |-> following[i + 1]]
<1>5. \A i \in 0..n : g[i] = shown[i + 1] /\ h[i] = following[i + 1]
  OBVIOUS
<1> HIDE DEF g, h
<1>6. \A i \in 1..n + 1 : /\ shown[i] = LiveHeardLines(shown[i - 1], out[i])
                          /\ following[i] = LiveHeardStatus(following[i - 1], out[i])
  BY <1>1, <1>4 DEF LiveHears
<1>7. g[0] = view'.shown /\ h[0] = view'.following
  <2>1. shown[0] = view.shown /\ following[0] = view.following
    BY <1>1 DEF LiveHears
  <2>2. out[1] = Head(out)
    OBVIOUS
  <2>3. 1 \in 1..n + 1 /\ 0 \in 0..n /\ 1 - 1 = 0 /\ 0 + 1 = 1
    BY <1>3
  <2>4. shown[1] = LiveHeardLines(shown[0], out[1]) /\ following[1] = LiveHeardStatus(following[0], out[1])
    BY <1>6, <2>3
  <2>5. g[0] = shown[1] /\ h[0] = following[1]
    BY <1>5, <2>3
  <2> QED
    BY <2>1, <2>2, <2>4, <2>5
<1>8. ASSUME NEW i \in 1..n
      PROVE  g[i] = LiveHeardLines(g[i - 1], rest[i]) /\ h[i] = LiveHeardStatus(h[i - 1], rest[i])
  <2>1. i \in 0..n /\ i - 1 \in 0..n /\ i + 1 \in 1..n + 1 /\ (i - 1) + 1 = i /\ (i + 1) - 1 = i
    BY <1>3
  <2>2. g[i] = shown[i + 1] /\ g[i - 1] = shown[i] /\ h[i] = following[i + 1] /\ h[i - 1] = following[i]
    BY <1>5, <2>1
  <2>3. shown[i + 1] = LiveHeardLines(shown[i], out[i + 1])
        /\ following[i + 1] = LiveHeardStatus(following[i], out[i + 1])
    BY <1>6, <2>1
  <2>4. rest[i] = out[i + 1]
    BY <1>4
  <2> QED
    BY <2>2, <2>3, <2>4
<1>9. LiveHears(rest, g, h)'
  BY <1>3, <1>7, <1>8 DEF LiveHears, LiveHeardLines, LiveHeardStatus
<1>10. LiveRight(g[n], h[n])'
  <2>1. n \in 0..n
    BY <1>3
  <2>2. g[n] = shown[Len(out)] /\ h[n] = following[Len(out)]
    BY <1>4, <1>5, <2>1
  <2> QED
    BY <1>1, <2>2 DEF LiveRight
<1> QED
  BY <1>2, <1>3, <1>9, <1>10 DEF LiveTold

LEMMA LiveToldGreeting ==
    ASSUME LiveTyped, LiveTelling, server' = server, page' = page, LiveSameView
    PROVE  \E out : out = Live!Greeting /\ LiveTold(out)'
<1>1. PICK lines : lines = LiveHeardLines(view.shown, Live!History)
  OBVIOUS
<1>2. LiveRun(lines, server.last) /\ (server.log # <<>> => lines # <<>>)
  <2>1. lines = IF page = "console" THEN Live!Latest(server.log, Kept - 1) ELSE server.log
    BY <1>1 DEF LiveHeardLines, Live!History
  <2>2. LiveRun(server.log, server.last) /\ server.last \in Nat
    BY DEF LiveTelling, LiveTyped, LiveServerFits
  <2>3. Kept - 1 \in Nat /\ Kept - 1 # 0
    BY HistoryAssumption
  <2> QED
    BY <2>1, <2>2, <2>3, LiveLatestRun
<1>3. CASE page = "console"
  <2>1. PICK first : first = [type |-> "status", following |-> server.following]
    OBVIOUS
  <2>2. first.type = "status" /\ first.following = server.following /\ Live!History.type = "history"
    BY <2>1 DEF Live!History
  <2>3. PICK out : out = <<first, Live!History>>
    OBVIOUS
  <2>4. out = Live!Greeting
    BY <1>3, <2>1, <2>3 DEF Live!Greeting, Live!ConsoleGreeting
  <2>a. PICK g : g = [i \in 0..2 |-> IF i = 2 THEN lines ELSE view.shown]
    OBVIOUS
  <2>b. PICK h : h = [i \in 0..2 |-> IF i = 0 THEN view.following ELSE server.following]
    OBVIOUS
  <2>5. /\ g[0] = view.shown /\ g[1] = view.shown /\ g[2] = lines
        /\ h[0] = view.following /\ h[1] = server.following /\ h[2] = server.following
    BY <2>a, <2>b
  <2>6. Len(out) = 2 /\ out[1] = first /\ out[2] = Live!History
    BY <2>3
  <2>7. LiveHeardLines(g[0], first) = g[1] /\ LiveHeardLines(g[1], Live!History) = g[2]
    BY <1>1, <2>2, <2>5 DEF LiveHeardLines
  <2>8. LiveHeardStatus(h[0], first) = h[1] /\ LiveHeardStatus(h[1], Live!History) = h[2]
    BY <2>2, <2>5 DEF LiveHeardStatus
  <2>9. \A i \in 1..2 : g[i] = LiveHeardLines(g[i - 1], out[i]) /\ h[i] = LiveHeardStatus(h[i - 1], out[i])
    <3>1. 1 - 1 = 0 /\ 2 - 1 = 1
      OBVIOUS
    <3>2. g[1] = LiveHeardLines(g[1 - 1], out[1]) /\ h[1] = LiveHeardStatus(h[1 - 1], out[1])
      BY <2>6, <2>7, <2>8, <3>1
    <3>3. g[2] = LiveHeardLines(g[2 - 1], out[2]) /\ h[2] = LiveHeardStatus(h[2 - 1], out[2])
      BY <2>6, <2>7, <2>8, <3>1
    <3> QED
      BY <3>2, <3>3
  <2>10. LiveHears(out, g, h)'
    BY <2>5, <2>6, <2>9 DEF LiveHears, LiveSameView, LiveHeardLines, LiveHeardStatus
  <2>11. LiveRight(g[2], h[2])'
    BY <1>2, <2>5 DEF LiveRight
  <2> QED
    BY <2>4, <2>6, <2>10, <2>11 DEF LiveTold
<1>4. CASE page # "console"
  <2>1. PICK out : out = <<Live!History>>
    OBVIOUS
  <2>2. out = Live!Greeting
    BY <1>4, <2>1 DEF Live!Greeting, Live!ScriptsGreeting, Live!MetricsGreeting, LiveTyped, Live!Pages
  <2>a. PICK g : g = [i \in 0..1 |-> IF i = 1 THEN lines ELSE view.shown]
    OBVIOUS
  <2>b. PICK h : h = [i \in 0..1 |-> view.following]
    OBVIOUS
  <2>3. g[0] = view.shown /\ g[1] = lines /\ h[0] = view.following /\ h[1] = view.following
    BY <2>a, <2>b
  <2>4. Len(out) = 1 /\ out[1] = Live!History
    BY <2>1
  <2>5. LiveHeardLines(g[0], Live!History) = g[1] /\ LiveHeardStatus(h[0], Live!History) = h[1]
    BY <1>1, <2>3 DEF LiveHeardStatus, Live!History
  <2>6. \A i \in 1..1 : g[i] = LiveHeardLines(g[i - 1], out[i]) /\ h[i] = LiveHeardStatus(h[i - 1], out[i])
    BY <2>4, <2>5
  <2>7. LiveHears(out, g, h)'
    BY <2>3, <2>4, <2>6 DEF LiveHears, LiveSameView, LiveHeardLines, LiveHeardStatus
  <2>8. LiveRight(g[1], h[1])'
    BY <1>2, <1>4, <2>3 DEF LiveRight
  <2> QED
    BY <2>2, <2>4, <2>7, <2>8 DEF LiveTold
<1> QED
  BY <1>3, <1>4

-----------------------------------------------------------------------------
\* Where a mounted hook's socket is as open as it was, and nothing else changed.
LEMMA LiveTellingStays ==
    ASSUME LiveTelling, server' = server, page' = page, LiveSameView,
           \A s \in Live!Mine' : calls'[s].at = "open" =>
               s \in Live!Mine /\ calls[s].at = "open" /\ calls'[s].out = calls[s].out
    PROVE  LiveTelling'
<1>1. ASSUME NEW s \in Live!Mine', calls'[s].at = "open"
      PROVE  \E out : out = calls'[s].out /\ LiveTold(out)'
  <2>1. PICK out : out = calls[s].out /\ LiveTold(out)
    BY <1>1 DEF LiveTelling
  <2> QED
    BY <1>1, <2>1, LiveToldStays
<1>2. LiveRun(server.log, server.last)'
  BY DEF LiveTelling
<1> QED
  BY <1>1, <1>2 DEF LiveTelling

\* To every socket that is open.
LEMMA LiveTellingMore ==
    ASSUME Sockets, LiveTyped, LiveTelling, NEW msg, msg \in LiveFitting, calls' = Live!Broadcast(msg),
           view' = view, page' = page,
           LiveRun(server.log, server.last)',
           \A lines, following, newlines, newfollowing :
               /\ LiveRight(lines, following)
               /\ newlines = LiveHeardLines(lines, msg) /\ newfollowing = LiveHeardStatus(following, msg)
               => LiveRight(newlines, newfollowing)'
    PROVE  LiveTelling'
<1>1. ASSUME NEW s \in Live!Mine', calls'[s].at = "open"
      PROVE  \E out : out = calls'[s].out /\ LiveTold(out)'
  <2>1. s \in Slots /\ calls'[s] # Live!NoCall /\ calls'[s].mine
    BY DEF Live!Mine
  <2>2. calls'[s] = IF calls[s].at = "open" THEN [calls[s] EXCEPT !.out = Append(calls[s].out, msg)]
                    ELSE calls[s]
    BY <2>1 DEF Live!Broadcast
  <2>3. calls[s].at = "open"
    BY <1>1, <2>2
  <2>4. LiveIsSocket(calls[s]) /\ calls[s] # Live!NoCall
    BY <2>1, <2>3 DEF Sockets, Live!NoCall
  <2>5. calls'[s].out = Append(calls[s].out, msg) /\ calls'[s].mine = calls[s].mine
    BY <2>2, <2>3, <2>4 DEF LiveIsSocket
  <2>6. s \in Live!Mine /\ calls[s].out \in Seq(LiveFitting)
    BY <2>1, <2>4, <2>5 DEF Live!Mine, LiveTyped
  <2>7. PICK out : out = calls[s].out /\ LiveTold(out)
    BY <2>3, <2>6 DEF LiveTelling
  <2>8. out \in Seq(LiveFitting) /\ LiveSameView
    BY <2>6, <2>7 DEF LiveSameView
  <2>9. \E more : more = Append(out, msg) /\ LiveTold(more)'
    BY <2>7, <2>8, LiveToldMore
  <2> QED
    BY <2>5, <2>7, <2>9
<1> QED
  BY <1>1 DEF LiveTelling

LEMMA LiveNextTelling ==
    ASSUME Sockets, Live!OneSocketOrTimer, LiveTyped, LiveTelling, LiveStep
    PROVE  LiveTelling'
<1> USE DEF Sockets
<1>0. page' = page
  <2>1. CASE UNCHANGED vars
    BY <2>1 DEF vars
  <2> QED
    BY <2>1, LiveFixed DEF LiveStep, Fixed
<1>1. CASE Live!Mount
  <2>1. /\ Live!FreeSlot \in Slots /\ calls' = [Live!Orphans EXCEPT ![Live!FreeSlot] = Live!Socket]
        /\ server' = server
    BY <1>1, LiveFree DEF Live!Mount, Live!Connect
  <2>2. \A s \in Slots : calls'[s] = IF s = Live!FreeSlot THEN Live!Socket ELSE Live!Orphans[s]
    BY <2>1 DEF Live!Orphans
  <2>3. \A s \in Slots : Live!Orphans[s] = Live!NoCall
          \/ (LiveIsSocket(Live!Orphans[s]) /\ ~Live!Orphans[s].mine)
    BY LiveSocketChanges DEF Live!Orphans
  <2>4. Live!Socket.at = "connecting"
    BY DEF Live!Socket
  <2>5. \A s \in Live!Mine' : calls'[s].at # "open"
    BY <2>2, <2>3, <2>4 DEF Live!Mine
  <2> QED
    BY <2>1, <2>5 DEF LiveTelling
<1>2. CASE Live!Unmount
  <2>1. /\ calls' = [s \in Slots |-> IF calls[s] # Live!NoCall /\ calls[s].mine
                                     THEN [calls[s] EXCEPT !.at = "closing"] ELSE calls[s]]
        /\ server' = server
    BY <1>2 DEF Live!Unmount
  <2>2. ASSUME NEW s \in Live!Mine' PROVE calls'[s].at # "open"
    <3>1. s \in Slots /\ calls'[s] # Live!NoCall /\ calls'[s].mine
      BY DEF Live!Mine
    <3>2. calls[s] # Live!NoCall /\ LiveIsSocket(calls[s]) /\ calls'[s] = [calls[s] EXCEPT !.at = "closing"]
      BY <2>1, <3>1
    <3> QED
      BY <3>2, LiveSocketChanges
  <2> QED
    BY <2>1, <2>2 DEF LiveTelling
<1>3. CASE Live!TimerFires
  <2>1. /\ Live!FreeSlot \in Slots /\ calls' = [calls EXCEPT ![Live!FreeSlot] = Live!Socket] /\ server' = server
        /\ view' = [view EXCEPT !.timers = view.timers - 1]
    BY <1>3, LiveFree DEF Live!TimerFires, Live!Connect
  <2>2. LiveSameView
    BY <2>1 DEF LiveSameView, LiveIsView
  <2>3. Live!Socket.at = "connecting"
    BY DEF Live!Socket
  <2>4. \A s \in Live!Mine' : calls'[s].at = "open" =>
          s \in Live!Mine /\ calls[s].at = "open" /\ calls'[s].out = calls[s].out
    BY <2>1, <2>3 DEF Live!Mine
  <2> QED
    BY <1>0, <2>1, <2>2, <2>4, LiveTellingStays
<1>4. CASE Live!Emit
  <2>1. PICK n : n = server.last + 1
    OBVIOUS
  <2>2. PICK log : log = Live!Latest(Append(server.log, n), HistorySize)
    OBVIOUS
  <2>3. PICK msg : msg = [type |-> "line", line |-> n]
    OBVIOUS
  <2>4. /\ server' = [server EXCEPT !.last = n, !.log = log] /\ view' = view /\ calls' = Live!Broadcast(msg)
    BY <1>4, <2>1, <2>2, <2>3 DEF Live!Emit
  <2>5. server.last \in Nat /\ server \in [log : LiveLines(HistorySize), last : Nat, following : BOOLEAN]
    BY DEF LiveTyped, LiveServerFits
  <2>6. server'.last = n /\ server'.log = log /\ server'.following = server.following
    BY <2>4, <2>5
  <2>7. msg \in LiveFitting /\ msg.type = "line" /\ msg.line = n
    BY <2>1, <2>3, <2>5, LiveMessageTyped
  <2>8. LiveRun(log, n)
    <3>1. LiveRun(Append(server.log, n), n)
      BY <2>1, <2>5, LiveAppendRun DEF LiveTelling
    <3> QED
      BY <2>1, <2>2, <2>5, <3>1, HistoryAssumption, LiveLatestRun
  <2>9. ASSUME NEW lines, NEW following, NEW newlines, NEW newfollowing, LiveRight(lines, following),
               newlines = LiveHeardLines(lines, msg), newfollowing = LiveHeardStatus(following, msg)
        PROVE  LiveRight(newlines, newfollowing)'
    <3>1. newlines = Append(Live!Latest(lines, Kept - 1), n) /\ newfollowing = following
      BY <2>7, <2>9 DEF LiveHeardLines, LiveHeardStatus
    <3>2. LiveRun(Live!Latest(lines, Kept - 1), server.last)
      <4>1. Kept - 1 \in Nat
        BY HistoryAssumption
      <4> QED
        BY <2>5, <2>9, <4>1, LiveLatestRun DEF LiveRight
    <3>3. LiveRun(newlines, n) /\ newlines # <<>>
      BY <2>1, <2>5, <3>1, <3>2, LiveAppendRun
    <3> QED
      BY <1>0, <2>6, <2>9, <3>1, <3>3 DEF LiveRight
  <2>10. LiveRun(server.log, server.last)'
    BY <2>6, <2>8
  <2> QED
    BY <1>0, <2>4, <2>7, <2>9, <2>10, LiveTellingMore
<1>5. CASE Live!StatusChanges
  <2>1. PICK now : now = ~server.following
    OBVIOUS
  <2>2. PICK msg : msg = [type |-> "status", following |-> now]
    OBVIOUS
  <2>3. server' = [server EXCEPT !.following = ~server.following] /\ view' = view
    BY <1>5 DEF Live!StatusChanges
  <2>4. calls' = Live!Broadcast(msg)
    BY <1>5, <2>1, <2>2 DEF Live!StatusChanges
  <2>5. server \in [log : LiveLines(HistorySize), last : Nat, following : BOOLEAN]
    BY DEF LiveTyped, LiveServerFits
  <2>6. server'.last = server.last /\ server'.log = server.log /\ server'.following = now
    BY <2>1, <2>3, <2>5
  <2>7. msg \in LiveFitting /\ msg.type = "status" /\ msg.following = now
    BY <2>1, <2>2, LiveMessageTyped
  <2>8. ASSUME NEW lines, NEW following, NEW newlines, NEW newfollowing, LiveRight(lines, following),
               newlines = LiveHeardLines(lines, msg), newfollowing = LiveHeardStatus(following, msg)
        PROVE  LiveRight(newlines, newfollowing)'
    <3>1. newlines = lines /\ newfollowing = now
      BY <2>7, <2>8 DEF LiveHeardLines, LiveHeardStatus
    <3> QED
      BY <1>0, <2>6, <2>8, <3>1 DEF LiveRight
  <2>9. LiveRun(server.log, server.last)'
    BY <2>6 DEF LiveTelling
  <2> QED
    BY <1>0, <2>4, <2>3, <2>7, <2>8, <2>9, LiveTellingMore
<1>6. CASE Live!Restart
  <2>1. /\ server' = [server EXCEPT !.log = <<>>, !.following = FALSE]
        /\ calls' = [t \in Slots |-> Live!BrokenOff(t, [u \in Slots |-> 0])]
    BY <1>6 DEF Live!Restart
  <2>2. server \in [log : LiveLines(HistorySize), last : Nat, following : BOOLEAN]
    BY DEF LiveTyped, LiveServerFits
  <2>3. server'.log = <<>>
    BY <2>1, <2>2
  <2>4. LiveRun(server.log, server.last)'
    BY <2>3 DEF LiveRun
  <2>5. ASSUME NEW s \in Live!Mine' PROVE calls'[s].at # "open"
    <3>1. s \in Slots /\ calls'[s] # Live!NoCall
      BY DEF Live!Mine
    <3> DEFINE out == IF calls[s].opened THEN SubSeq(calls[s].out, 1, [u \in Slots |-> 0][s]) ELSE <<>>
    <3>2. /\ calls'[s] = calls[s] => calls[s] = Live!NoCall \/ calls[s].at = "closing" \/ calls[s].at = "lost"
          /\ calls'[s] # calls[s] =>
               calls[s] # Live!NoCall /\ calls'[s] = [calls[s] EXCEPT !.at = "lost", !.out = out]
      <4>1. calls'[s] = IF calls[s] = Live!NoCall \/ calls[s].at = "closing" THEN calls[s]
                        ELSE [calls[s] EXCEPT !.at = "lost", !.out = out]
        BY <2>1, <3>1 DEF Live!BrokenOff
      <4> HIDE DEF out
      <4>2. calls[s] # Live!NoCall => [calls[s] EXCEPT !.at = "lost", !.out = out].at = "lost"
        BY <3>1 DEF LiveIsSocket
      <4> QED
        BY <4>1, <4>2
    <3> HIDE DEF out
    <3> QED
      BY <3>1, <3>2 DEF LiveIsSocket
  <2> QED
    BY <2>4, <2>5 DEF LiveTelling
<1>7. ASSUME NEW s \in Slots, Live!Drop(s) \/ Live!Refuse(s)
      PROVE  LiveTelling'
  <2>1. server' = server /\ view' = view /\ \A t \in Slots : t # s => calls'[t] = calls[t]
    BY <1>7 DEF Live!Drop, Live!Refuse
  <2>2. LiveIsSocket(calls[s]) /\ calls[s].at \in {"open", "connecting"}
    BY <1>7 DEF Live!Drop, Live!Refuse, Live!NoCall
  <2>3. calls'[s].at # "open"
    <3>1. CASE Live!Refuse(s)
      BY <2>2, <3>1 DEF Live!Refuse, LiveIsSocket
    <3>2. CASE Live!Drop(s)
      <4>1. PICK n : calls' = [calls EXCEPT ![s] = Live!BrokenOff(s, [t \in Slots |-> n])]
        BY <3>2 DEF Live!Drop
      <4> DEFINE out == IF calls[s].opened THEN SubSeq(calls[s].out, 1, [u \in Slots |-> n][s]) ELSE <<>>
      <4>2. calls[s].at = "open" /\ calls[s] # Live!NoCall
        BY <3>2 DEF Live!Drop, Live!NoCall
      <4>3. calls'[s] = [calls[s] EXCEPT !.at = "lost", !.out = out]
        BY <4>1, <4>2 DEF Live!BrokenOff
      <4> HIDE DEF out
      <4> QED
        BY <2>2, <4>3 DEF LiveIsSocket
    <3> QED
      BY <1>7, <3>1, <3>2
  <2>4. \A t \in Live!Mine' : calls'[t].at = "open" =>
          t \in Live!Mine /\ calls[t].at = "open" /\ calls'[t].out = calls[t].out
    BY <2>1, <2>3 DEF Live!Mine
  <2> QED
    BY <1>0, <2>1, <2>4, LiveTellingStays DEF LiveSameView
<1>8. ASSUME NEW s \in Slots, Live!Upgrade(s)
      PROVE  LiveTelling'
  <2>1. server' = server /\ view' = view /\ \A t \in Slots : t # s => calls'[t] = calls[t]
    BY <1>8 DEF Live!Upgrade
  <2>2. LiveIsSocket(calls[s]) /\ calls'[s] = [calls[s] EXCEPT !.at = "open", !.out = Live!Greeting]
    BY <1>8 DEF Live!Upgrade, Live!NoCall
  <2>3. calls'[s].out = Live!Greeting
    BY <2>2 DEF LiveIsSocket
  <2>4. ASSUME NEW t \in Live!Mine', calls'[t].at = "open"
        PROVE  \E out : out = calls'[t].out /\ LiveTold(out)'
    <3>1. CASE t = s
      BY <1>0, <2>1, <2>3, <3>1, LiveToldGreeting DEF LiveSameView
    <3>2. CASE t # s
      <4>1. t \in Live!Mine /\ calls'[t] = calls[t] /\ calls[t].at = "open"
        BY <2>1, <2>4, <3>2 DEF Live!Mine
      <4>2. PICK out : out = calls[t].out /\ LiveTold(out)
        BY <4>1 DEF LiveTelling
      <4> QED
        BY <1>0, <2>1, <4>1, <4>2, LiveToldStays DEF LiveSameView
    <3> QED
      BY <3>1, <3>2
  <2>5. LiveRun(server.log, server.last)'
    BY <2>1 DEF LiveTelling
  <2> QED
    BY <2>4, <2>5 DEF LiveTelling
<1>9. ASSUME NEW s \in Slots, Live!Opens(s)
      PROVE  LiveTelling'
  <2>1. /\ LiveIsSocket(calls[s]) /\ calls[s].at = "open" /\ server' = server
        /\ calls' = [calls EXCEPT ![s] = [calls[s] EXCEPT !.opened = TRUE]]
        /\ view' = IF calls[s].mine THEN [view EXCEPT !.connected = TRUE] ELSE view
    BY <1>9 DEF Live!Opens, Live!NoCall
  <2>2. LiveSameView
    BY <2>1 DEF LiveSameView, LiveIsView
  <2>3. calls'[s].mine = calls[s].mine /\ calls'[s].out = calls[s].out /\ calls[s] # Live!NoCall
    BY <2>1, LiveNotACall DEF LiveIsSocket
  <2>4. \A t \in Live!Mine' : calls'[t].at = "open" =>
          t \in Live!Mine /\ calls[t].at = "open" /\ calls'[t].out = calls[t].out
    BY <2>1, <2>3 DEF Live!Mine
  <2> QED
    BY <1>0, <2>1, <2>2, <2>4, LiveTellingStays
<1>10. ASSUME NEW s \in Slots, Live!Receives(s)
       PROVE  LiveTelling'
  <2>1. PICK msg : msg = Head(calls[s].out)
    OBVIOUS
  <2>2. /\ LiveIsSocket(calls[s]) /\ calls[s] # Live!NoCall /\ server' = server /\ calls[s].out # <<>>
        /\ calls[s].at \in {"open", "lost"}
        /\ calls' = [calls EXCEPT ![s] = [calls[s] EXCEPT !.out = Tail(calls[s].out)]]
    BY <1>10 DEF Live!Receives, Live!NoCall
  <2>3. calls[s].out \in Seq(LiveFitting) /\ msg \in LiveFitting
    BY <2>1, <2>2 DEF LiveTyped
  <2>4. calls'[s].out = Tail(calls[s].out) /\ calls'[s].mine = calls[s].mine /\ calls'[s].at = calls[s].at
    BY <2>2 DEF LiveIsSocket
  <2>5. CASE ~calls[s].mine
    <3>1. view' = view
      BY <1>10, <2>5 DEF Live!Receives
    <3>2. \A t \in Live!Mine' : calls'[t].at = "open" =>
            t \in Live!Mine /\ calls[t].at = "open" /\ calls'[t].out = calls[t].out
      BY <2>2, <2>4, <2>5 DEF Live!Mine
    <3> QED
      BY <1>0, <2>2, <3>1, <3>2, LiveTellingStays DEF LiveSameView
  <2>6. CASE calls[s].mine
    <3>1. s \in Live!Mine
      BY <2>2, <2>6 DEF Live!Mine
    <3>2. view.mounted /\ Live!Mine = {s}
      BY <2>2, <3>1 DEF Live!OneSocketOrTimer
    <3>3. view'.shown = LiveHeardLines(view.shown, msg)
            /\ view'.following = LiveHeardStatus(view.following, msg)
      <4>1. view' = IF msg.type = "status" THEN [view EXCEPT !.following = msg.following]
                    ELSE [view EXCEPT !.shown = IF page = "console" THEN Live!ConsoleShows(msg)
                                                                     ELSE Live!DashboardShows(msg)]
        BY <1>10, <2>1, <2>6 DEF Live!Receives
      <4> DEFINE shown == IF page = "console" THEN Live!ConsoleShows(msg) ELSE Live!DashboardShows(msg)
      <4>2. msg.type # "status" => shown = LiveHeardLines(view.shown, msg)
        BY <2>3, LiveReadMessage DEF LiveHeardLines, Live!ConsoleShows, Live!DashboardShows
      <4> HIDE DEF shown
      <4>3. CASE msg.type = "status"
        BY <4>1, <4>3 DEF LiveIsView, LiveHeardLines, LiveHeardStatus
      <4>4. CASE msg.type # "status"
        <5>1. view' = [view EXCEPT !.shown = shown]
          BY <4>1, <4>4 DEF shown
        <5>2. view'.shown = shown /\ view'.following = view.following
          BY <5>1 DEF LiveIsView
        <5> QED
          BY <4>2, <4>4, <5>2 DEF LiveHeardStatus
      <4> QED
        BY <4>3, <4>4
    <3>4. ASSUME NEW t \in Live!Mine', calls'[t].at = "open"
          PROVE  \E out : out = calls'[t].out /\ LiveTold(out)'
      <4>1. t = s
        BY <2>2, <3>2 DEF Live!Mine
      <4>2. calls[s].at = "open"
        BY <2>4, <3>4, <4>1
      <4>3. PICK out : out = calls[s].out /\ LiveTold(out)
        BY <3>1, <4>2 DEF LiveTelling
      <4>4. out \in Seq(LiveFitting) /\ out # <<>> /\ msg = Head(out)
        BY <2>1, <2>2, <2>3, <4>3
      <4>5. \E rest : rest = Tail(out) /\ LiveTold(rest)'
        BY <1>0, <2>2, <3>3, <4>3, <4>4, LiveToldHeard
      <4> QED
        BY <2>4, <4>1, <4>3, <4>5
    <3>5. LiveRun(server.log, server.last)'
      BY <2>2 DEF LiveTelling
    <3> QED
      BY <3>4, <3>5 DEF LiveTelling
  <2> QED
    BY <2>5, <2>6
<1>11. ASSUME NEW s \in Slots, Live!Closes(s)
       PROVE  LiveTelling'
  <2>1. /\ server' = server /\ calls' = [calls EXCEPT ![s] = Live!NoCall]
        /\ \/ view' = view
           \/ \E timers : view' = [view EXCEPT !.connected = FALSE, !.timers = timers]
    BY <1>11 DEF Live!Closes, Live!Ends
  <2>2. LiveSameView
    BY <2>1 DEF LiveSameView, LiveIsView
  <2>3. \A t \in Live!Mine' : calls'[t].at = "open" =>
          t \in Live!Mine /\ calls[t].at = "open" /\ calls'[t].out = calls[t].out
    BY <2>1 DEF Live!Mine
  <2> QED
    BY <1>0, <2>1, <2>2, <2>3, LiveTellingStays
<1>12. CASE UNCHANGED vars
  <2>1. server' = server /\ view' = view /\ calls' = calls
    BY <1>12 DEF vars
  <2>2. Live!Mine' = Live!Mine
    BY <2>1 DEF Live!Mine
  <2> QED
    BY <1>0, <2>1, <2>2, LiveTellingStays DEF LiveSameView
<1> QED
  BY <1>1, <1>2, <1>3, <1>4, <1>5, <1>6, <1>7, <1>8, <1>9, <1>10, <1>11, <1>12 DEF Live!Next, LiveStep

-----------------------------------------------------------------------------
(***************************************************************************)
(* Lines.  A key is in a file where it stands: the form shows its last     *)
(* line and a save rewrites its first one.                                 *)
(***************************************************************************)
EditFile == Seq(Editor!Line)
EditOnce(file, k) == \A i, j \in Editor!At(file, k) : i = j
EditLastAt(file, k) == CHOOSE i \in Editor!At(file, k) : \A j \in Editor!At(file, k) : i >= j

(***************************************************************************)
(* Sets as sequences, as the library enumerates them.                      *)
(***************************************************************************)
LEMMA EditCounts == \A S : Editor!Cardinality(S) = Cardinality(S)
  BY Zenon DEF Editor!Cardinality, Cardinality

LEMMA EditSetSequence ==
    ASSUME NEW S, IsFiniteSet(S)
    PROVE  /\ Editor!Cardinality(S) \in Nat
           /\ Editor!SetToSeq(S) \in [1..Editor!Cardinality(S) -> S]
           /\ \A i, j \in 1..Editor!Cardinality(S) : Editor!SetToSeq(S)[i] = Editor!SetToSeq(S)[j] => i = j
           /\ \A x \in S : \E i \in 1..Editor!Cardinality(S) : Editor!SetToSeq(S)[i] = x
<1> DEFINE n == Cardinality(S)
           f == Editor!SetToSeq(S)
<1>1. n \in Nat /\ ExistsBijection(1..n, S)
  BY FS_CardinalityType
<1>2. \E g \in [1..n -> S] : IsInjective(g)
  BY <1>1 DEF ExistsBijection, Bijection, Injection
<1>3. f = CHOOSE g \in [1..n -> S] : IsInjective(g)
  BY EditCounts, Zenon DEF Editor!SetToSeq, Editor!IsInjective, IsInjective
<1>4. f \in [1..n -> S] /\ IsInjective(f)
  <2> HIDE DEF n, f
  <2> QED
    BY <1>2, <1>3, Zenon
<1>5. Editor!Cardinality(S) = n
  BY EditCounts
<1> HIDE DEF n, f
<1>6. f \in Injection(1..n, S) /\ IsFiniteSet(1..n) /\ Cardinality(1..n) = n
  BY <1>1, <1>4, FS_Interval DEF Injection
<1>7. f \in Surjection(1..n, S)
  BY <1>6, FS_Injection DEF n
<1>8. /\ \A i, j \in 1..n : f[i] = f[j] => i = j
      /\ \A x \in S : \E i \in 1..n : f[i] = x
  BY <1>4, <1>7 DEF IsInjective, Surjection
<1> QED
  BY <1>1, <1>4, <1>5, <1>8 DEF f

LEMMA EditOnceCounted ==
    ASSUME NEW file \in EditFile, NEW k
    PROVE  /\ IsFiniteSet(Editor!At(file, k))
           /\ Editor!Cardinality(Editor!At(file, k)) <= 1 <=> EditOnce(file, k)
           /\ Editor!Cardinality(Editor!At(file, k)) < 2 <=> EditOnce(file, k)
<1> DEFINE S == Editor!At(file, k)
<1>1. S \subseteq 1..Len(file) /\ Len(file) \in Nat
  BY LenProperties DEF Editor!At, EditFile
<1>2. IsFiniteSet(S) /\ Cardinality(S) \in Nat
  <2>1. IsFiniteSet(1..Len(file))
    BY <1>1, FS_Interval
  <2>2. IsFiniteSet(S)
    BY <1>1, <2>1, FS_Subset
  <2> QED
    BY <2>2, FS_CardinalityType
<1> HIDE DEF S
<1>3. ASSUME Cardinality(S) <= 1, NEW i \in S, NEW j \in S
      PROVE  i = j
  <2>1. S # {} /\ Cardinality(S) # 0
    BY <1>2, FS_EmptySet
  <2>2. Cardinality(S) = 1
    BY <1>2, <1>3, <2>1
  <2> QED
    BY <1>2, <2>2, FS_Singleton
<1>4. ASSUME \A i, j \in S : i = j
      PROVE  Cardinality(S) <= 1
  <2>1. CASE S = {}
    BY <2>1, FS_EmptySet
  <2>2. CASE S # {}
    <3>1. PICK x : x \in S
      BY <2>2
    <3>2. S = {x}
      BY <1>4, <3>1
    <3> QED
      BY <3>2, FS_Singleton
  <2> QED
    BY <2>1, <2>2
<1>5. Editor!Cardinality(S) = Cardinality(S)
  BY EditCounts
<1> QED
  BY <1>2, <1>3, <1>4, <1>5 DEF EditOnce, S

LEMMA EditFirstLine ==
    ASSUME NEW file \in EditFile, NEW k, Editor!At(file, k) # {}
    PROVE  Editor!First(file, k) \in Editor!At(file, k) /\ \A j \in Editor!At(file, k) : Editor!First(file, k) <= j
<1>1. Editor!At(file, k) \subseteq Nat
  BY LenProperties DEF Editor!At, EditFile
<1>2. \E i \in Editor!At(file, k) : \A j \in Editor!At(file, k) : i <= j
  BY <1>1, LeastNumber
<1> QED
  BY <1>2, Zenon DEF Editor!First

LEMMA EditLastLine ==
    ASSUME NEW file \in EditFile, NEW k, Editor!At(file, k) # {}
    PROVE  EditLastAt(file, k) \in Editor!At(file, k) /\ \A j \in Editor!At(file, k) : EditLastAt(file, k) >= j
<1> DEFINE T == {n \in Nat : \A j \in Editor!At(file, k) : n >= j}
<1>1. Len(file) \in Nat /\ Editor!At(file, k) \subseteq 1..Len(file)
  BY LenProperties DEF Editor!At, EditFile
<1>2. Len(file) \in T
  BY <1>1
<1>3. PICK n \in T : \A m \in T : n <= m
  BY <1>2, LeastNumber
<1>4. n \in Editor!At(file, k)
  <2> SUFFICES ASSUME n \notin Editor!At(file, k) PROVE FALSE
    OBVIOUS
  <2>1. n # 0
    BY <1>1
  <2>2. n - 1 \in T
    BY <1>1, <2>1
  <2> QED
    BY <1>3, <2>2
<1>5. \E i \in Editor!At(file, k) : \A j \in Editor!At(file, k) : i >= j
  BY <1>4
<1> QED
  BY <1>5, Zenon DEF EditLastAt

LEMMA EditKeysAt ==
    ASSUME NEW file \in EditFile
    PROVE  /\ Editor!KeysOf(file) \subseteq Keys
           /\ \A k : k \in Editor!KeysOf(file) <=> k # Other /\ Editor!At(file, k) # {}
<1>1. Len(file) \in Nat /\ DOMAIN file = 1..Len(file) /\ \A i \in 1..Len(file) : file[i] \in Editor!Line
  BY LenProperties, ElementOfSeq DEF EditFile
<1> QED
  BY <1>1 DEF Editor!KeysOf, Editor!At, Editor!Line

(***************************************************************************)
(* What a form shows.                                                      *)
(***************************************************************************)
EditForm(values) == values \in [DOMAIN values -> Values] /\ DOMAIN values \subseteq Keys

LEMMA EditParseIs ==
    ASSUME NEW file \in EditFile
    PROVE  /\ EditForm(Editor!Parse(file)) /\ DOMAIN Editor!Parse(file) = Editor!KeysOf(file)
           /\ \A k \in Editor!KeysOf(file) : Editor!Parse(file)[k] = file[EditLastAt(file, k)].value
<1>1. \A k \in Editor!KeysOf(file) : EditLastAt(file, k) \in DOMAIN file
  BY EditKeysAt, EditLastLine DEF Editor!At
<1>2. \A i \in DOMAIN file : file[i] \in Editor!Line
  BY LenProperties, ElementOfSeq DEF EditFile
<1>3. Editor!Parse(file) = [k \in Editor!KeysOf(file) |-> file[EditLastAt(file, k)].value]
  BY DEF Editor!Parse, EditLastAt
<1> QED
  BY <1>1, <1>2, <1>3, EditKeysAt DEF EditForm, Editor!Line

(***************************************************************************)
(* A save rewrites the first line of a key, and adds a key that is new.    *)
(***************************************************************************)
EditFresh(file, updates) == DOMAIN updates \ Editor!KeysOf(file)

EditIsApplied(new, file, updates) ==
    LET n == Len(file)
        m == Editor!Cardinality(EditFresh(file, updates))
        s == Editor!SetToSeq(EditFresh(file, updates))
    IN  /\ new \in EditFile /\ n \in Nat /\ m \in Nat /\ Len(new) = n + m
        /\ \A i \in 1..n : new[i] = IF file[i].key \in DOMAIN updates /\ i = Editor!First(file, file[i].key)
                                    THEN [file[i] EXCEPT !.value = updates[file[i].key]] ELSE file[i]
        /\ \A i \in 1..m : new[n + i] = [key |-> s[i], value |-> updates[s[i]]]

LEMMA EditAppliedLines ==
    ASSUME NEW file \in EditFile, NEW updates, EditForm(updates)
    PROVE  EditIsApplied(Editor!Applied(file, updates), file, updates)
<1> DEFINE N == EditFresh(file, updates)
           m == Editor!Cardinality(N)
           s == Editor!SetToSeq(N)
           left == [i \in DOMAIN file |->
                      IF file[i].key \in DOMAIN updates /\ i = Editor!First(file, file[i].key)
                      THEN [file[i] EXCEPT !.value = updates[file[i].key]] ELSE file[i]]
           right == [i \in 1..m |-> [key |-> s[i], value |-> updates[s[i]]]]
<1>1. Editor!Applied(file, updates) = left \o right
  BY Zenon DEF Editor!Applied, EditFresh
<1>2. Len(file) \in Nat /\ DOMAIN file = 1..Len(file) /\ \A i \in 1..Len(file) : file[i] \in Editor!Line
  BY LenProperties, ElementOfSeq DEF EditFile
<1>3. IsFiniteSet(N)
  <2>1. IsFiniteSet(DOMAIN updates)
    BY LinesAssumption, FS_Subset DEF EditForm
  <2> QED
    BY <2>1, FS_Subset DEF EditFresh
<1>4. m \in Nat /\ s \in [1..m -> N]
  BY <1>3, EditSetSequence
<1> HIDE DEF m, s
<1>5. \A i \in 1..Len(file) : left[i] \in Editor!Line
  BY <1>2 DEF Editor!Line, EditForm
<1>6. left \in Seq(Editor!Line) /\ Len(left) = Len(file)
  <2>1. left \in [1..Len(file) -> Editor!Line]
    BY <1>2, <1>5
  <2> HIDE DEF left
  <2> QED
    BY <1>2, <2>1
<1>7. right \in Seq(Editor!Line) /\ Len(right) = m
  <2>1. \A i \in 1..m : right[i] \in Editor!Line
    BY <1>4 DEF Editor!Line, EditForm, EditFresh
  <2>2. right \in [1..m -> Editor!Line]
    BY <2>1
  <2> HIDE DEF right
  <2> QED
    BY <1>4, <2>2
<1> HIDE DEF left, right
<1>8. /\ left \o right \in Seq(Editor!Line) /\ Len(left \o right) = Len(file) + m
      /\ \A i \in 1..Len(file) + m : (left \o right)[i] =
            IF i <= Len(file) THEN left[i] ELSE right[i - Len(file)]
  <2>1. /\ left \o right \in Seq(Editor!Line) /\ Len(left \o right) = Len(left) + Len(right)
        /\ \A i \in 1..Len(left) + Len(right) : (left \o right)[i] =
              IF i <= Len(left) THEN left[i] ELSE right[i - Len(left)]
    BY <1>6, <1>7, ConcatProperties, Zenon
  <2> QED
    BY <1>6, <1>7, <2>1
<1>9. \A i \in 1..Len(file) : (left \o right)[i] = left[i]
  BY <1>2, <1>4, <1>8
<1>10. \A i \in 1..m : (left \o right)[Len(file) + i] = right[i]
  BY <1>2, <1>4, <1>8
<1>11. \A i \in 1..Len(file) : Editor!Applied(file, updates)[i] =
         IF file[i].key \in DOMAIN updates /\ i = Editor!First(file, file[i].key)
         THEN [file[i] EXCEPT !.value = updates[file[i].key]] ELSE file[i]
  BY <1>1, <1>2, <1>9 DEF left
<1>12. \A i \in 1..m : Editor!Applied(file, updates)[Len(file) + i] = [key |-> s[i], value |-> updates[s[i]]]
  BY <1>1, <1>10 DEF right
<1>13. Editor!Applied(file, updates) \in EditFile /\ Len(Editor!Applied(file, updates)) = Len(file) + m
  BY <1>1, <1>8 DEF EditFile
<1> HIDE DEF N
<1> QED
  BY <1>2, <1>4, <1>11, <1>12, <1>13 DEF m, s, N, EditIsApplied

LEMMA EditAppliedAt ==
    ASSUME NEW file \in EditFile, NEW updates, EditForm(updates), NEW k \in Keys
    PROVE  /\ k \in Editor!KeysOf(file) => Editor!At(Editor!Applied(file, updates), k) = Editor!At(file, k)
           /\ k \in DOMAIN updates /\ k \notin Editor!KeysOf(file) =>
                \E i : Editor!At(Editor!Applied(file, updates), k) = {i}
                  /\ Editor!Applied(file, updates)[i].value = updates[k]
           /\ k \notin DOMAIN updates /\ k \notin Editor!KeysOf(file) =>
                Editor!At(Editor!Applied(file, updates), k) = {}
<1> DEFINE N == EditFresh(file, updates)
           m == Editor!Cardinality(N)
           s == Editor!SetToSeq(N)
           n == Len(file)
           new == Editor!Applied(file, updates)
<1>1. /\ new \in EditFile /\ n \in Nat /\ m \in Nat /\ Len(new) = n + m
      /\ \A i \in 1..n : new[i] = IF file[i].key \in DOMAIN updates /\ i = Editor!First(file, file[i].key)
                                  THEN [file[i] EXCEPT !.value = updates[file[i].key]] ELSE file[i]
      /\ \A i \in 1..m : new[n + i] = [key |-> s[i], value |-> updates[s[i]]]
  <2>1. EditIsApplied(new, file, updates)
    BY EditAppliedLines
  <2> HIDE DEF new
  <2> QED
    BY <2>1 DEF EditIsApplied
<1>2. DOMAIN file = 1..n /\ \A i \in 1..n : file[i] \in Editor!Line
  BY LenProperties, ElementOfSeq DEF EditFile
<1>3. DOMAIN new = 1..n + m
  BY <1>1, LenProperties DEF EditFile
<1>4. /\ s \in [1..m -> N] /\ \A i, j \in 1..m : s[i] = s[j] => i = j
      /\ \A x \in N : \E i \in 1..m : s[i] = x
  <2>1. IsFiniteSet(DOMAIN updates)
    BY LinesAssumption, FS_Subset DEF EditForm
  <2>2. IsFiniteSet(N)
    BY <2>1, FS_Subset DEF EditFresh
  <2> QED
    BY <2>2, EditSetSequence
<1>5. k # Other
  BY LinesAssumption
<1>6. k \in N <=> k \in DOMAIN updates /\ k \notin Editor!KeysOf(file)
  BY DEF EditFresh
<1> HIDE DEF m, s, n, new, N
<1>7. \A i \in 1..n : new[i].key = file[i].key
  BY <1>1, <1>2 DEF Editor!Line
<1>8. ASSUME NEW i \in 1..m PROVE new[n + i].key = s[i] /\ new[n + i].value = updates[s[i]]
  <2>1. new[n + i] = [key |-> s[i], value |-> updates[s[i]]]
    BY <1>1
  <2> QED
    BY <2>1
<1>9. \A i \in 1..n + m : i \in 1..n \/ \E j \in 1..m : i = n + j
  <2> SUFFICES ASSUME NEW i \in 1..n + m, i \notin 1..n PROVE i - n \in 1..m /\ i = n + (i - n)
    OBVIOUS
  <2> QED
    BY <1>1
<1>10. \A i : i \in Editor!At(new, k) <=> i \in Editor!At(file, k) \/ \E j \in 1..m : i = n + j /\ s[j] = k
  <2>1. \A j \in 1..m : n + j \in 1..n + m
    BY <1>1
  <2>2. 1..n \subseteq 1..n + m
    BY <1>1
  <2> QED
    BY <1>2, <1>3, <1>7, <1>8, <1>9, <2>1, <2>2 DEF Editor!At
<1>11. k \in Editor!KeysOf(file) => Editor!At(new, k) = Editor!At(file, k)
  <2>1. k \in Editor!KeysOf(file) => \A j \in 1..m : s[j] # k
    BY <1>4, <1>6
  <2>2. k \in Editor!KeysOf(file) => \A i : i \in Editor!At(new, k) <=> i \in Editor!At(file, k)
    BY <1>10, <2>1
  <2> QED
    BY <2>2
<1>12. k \notin Editor!KeysOf(file) => Editor!At(file, k) = {}
  BY <1>5, EditKeysAt
<1>13. ASSUME k \in N
       PROVE  \E i : Editor!At(new, k) = {i} /\ new[i].value = updates[k]
  <2>1. PICK j \in 1..m : s[j] = k
    BY <1>4, <1>13
  <2>2. \A i : i \in Editor!At(new, k) <=> i = n + j
    BY <1>4, <1>6, <1>10, <1>12, <1>13, <2>1
  <2>3. Editor!At(new, k) = {n + j}
    BY <2>2
  <2> QED
    BY <1>8, <2>1, <2>3
<1>14. k \notin N /\ k \notin Editor!KeysOf(file) => Editor!At(new, k) = {}
  BY <1>4, <1>10, <1>12
<1> QED
  BY <1>6, <1>11, <1>13, <1>14 DEF new

(***************************************************************************)
(* A save leaves the keys alone that it does not name, and those whose     *)
(* value is the one shown; a key it names that stands once gets its value. *)
(***************************************************************************)
LEMMA EditAppliedIs ==
    ASSUME NEW file \in EditFile, NEW updates, EditForm(updates)
    PROVE  /\ Editor!KeysOf(Editor!Applied(file, updates)) = Editor!KeysOf(file) \union DOMAIN updates
           /\ \A k \in Editor!KeysOf(file) \ DOMAIN updates : Editor!Parse(Editor!Applied(file, updates))[k] = Editor!Parse(file)[k]
           /\ \A k \in Editor!KeysOf(file) \intersect DOMAIN updates :
                updates[k] = Editor!Parse(file)[k] =>
                  Editor!Parse(Editor!Applied(file, updates))[k] = Editor!Parse(file)[k]
           /\ \A k \in DOMAIN updates : EditOnce(file, k) =>
                Editor!Parse(Editor!Applied(file, updates))[k] = updates[k]
           /\ \A k \in Editor!KeysOf(file) : ~EditOnce(file, k) =>
                Editor!Parse(Editor!Applied(file, updates))[k] = Editor!Parse(file)[k]
<1> DEFINE new == Editor!Applied(file, updates)
<1>1. /\ new \in EditFile /\ Len(file) \in Nat
      /\ \A i \in 1..Len(file) : new[i] = IF file[i].key \in DOMAIN updates
           /\ i = Editor!First(file, file[i].key)
                                          THEN [file[i] EXCEPT !.value = updates[file[i].key]] ELSE file[i]
  <2>1. EditIsApplied(new, file, updates)
    BY EditAppliedLines
  <2> HIDE DEF new
  <2> QED
    BY <2>1 DEF EditIsApplied
<1>2. DOMAIN file = 1..Len(file) /\ \A i \in 1..Len(file) : file[i] \in Editor!Line
  BY LenProperties, ElementOfSeq DEF EditFile
<1>3. \A k \in Keys : /\ k \in Editor!KeysOf(file) => Editor!At(new, k) = Editor!At(file, k)
                      /\ k \in DOMAIN updates /\ k \notin Editor!KeysOf(file) =>
                           \E i : Editor!At(new, k) = {i} /\ new[i].value = updates[k]
                      /\ k \notin DOMAIN updates /\ k \notin Editor!KeysOf(file) => Editor!At(new, k) = {}
  BY EditAppliedAt
<1> HIDE DEF new
<1>4. DOMAIN updates \subseteq Keys
  BY DEF EditForm
<1>5. Editor!KeysOf(file) \subseteq Keys /\ \A k : k \in Editor!KeysOf(file) <=> k # Other
        /\ Editor!At(file, k) # {}
  BY EditKeysAt
<1>6. Editor!KeysOf(new) \subseteq Keys /\ \A k : k \in Editor!KeysOf(new) <=> k # Other
        /\ Editor!At(new, k) # {}
  BY <1>1, EditKeysAt
<1>7. \A k \in Keys : k # Other
  BY LinesAssumption
<1>8. Editor!KeysOf(new) = Editor!KeysOf(file) \union DOMAIN updates
  <2>1. \A k \in Keys : k \in Editor!KeysOf(new) <=> k \in Editor!KeysOf(file) \union DOMAIN updates
    BY <1>3, <1>4, <1>5, <1>6, <1>7
  <2> QED
    BY <1>4, <1>5, <1>6, <2>1
<1>9. \A k \in Editor!KeysOf(new) : Editor!Parse(new)[k] = new[EditLastAt(new, k)].value
  BY <1>1, EditParseIs
<1>10. \A k \in Editor!KeysOf(file) : Editor!Parse(file)[k] = file[EditLastAt(file, k)].value
  BY EditParseIs
<1>11. ASSUME NEW k \in Editor!KeysOf(file)
       PROVE  /\ EditLastAt(new, k) = EditLastAt(file, k) /\ EditLastAt(file, k) \in Editor!At(file, k)
              /\ EditLastAt(file, k) \in 1..Len(file) /\ file[EditLastAt(file, k)].key = k
  <2>1. EditLastAt(new, k) = EditLastAt(file, k)
    BY <1>3, <1>5, <1>11 DEF EditLastAt
  <2>2. EditLastAt(file, k) \in Editor!At(file, k)
    BY <1>5, EditLastLine
  <2> QED
    BY <1>2, <2>1, <2>2 DEF Editor!At
<1>12. ASSUME NEW k \in Editor!KeysOf(file), k \notin DOMAIN updates
       PROVE  Editor!Parse(new)[k] = Editor!Parse(file)[k]
  <2>1. new[EditLastAt(file, k)] = file[EditLastAt(file, k)]
    BY <1>1, <1>11, <1>12
  <2> QED
    BY <1>8, <1>9, <1>10, <1>11, <2>1
<1>13. ASSUME NEW k \in Editor!KeysOf(file), k \in DOMAIN updates, updates[k] = Editor!Parse(file)[k]
       PROVE  Editor!Parse(new)[k] = Editor!Parse(file)[k]
  <2>1. new[EditLastAt(file, k)].value = file[EditLastAt(file, k)].value
    BY <1>1, <1>2, <1>10, <1>11, <1>13 DEF Editor!Line
  <2> QED
    BY <1>8, <1>9, <1>10, <1>11, <2>1
<1>14. ASSUME NEW k \in DOMAIN updates, EditOnce(file, k)
       PROVE  Editor!Parse(new)[k] = updates[k]
  <2>1. CASE k \in Editor!KeysOf(file)
    <3>1. Editor!First(file, k) \in Editor!At(file, k)
      BY <1>5, <2>1, EditFirstLine
    <3>2. Editor!First(file, k) = EditLastAt(file, k)
      BY <1>11, <1>14, <2>1, <3>1 DEF EditOnce
    <3>3. /\ EditLastAt(file, k) \in 1..Len(file) /\ file[EditLastAt(file, k)].key = k
          /\ file[EditLastAt(file, k)] \in Editor!Line
      BY <1>2, <1>11, <2>1
    <3>4. new[EditLastAt(file, k)] = [file[EditLastAt(file, k)] EXCEPT !.value = updates[k]]
      BY <1>1, <1>14, <3>2, <3>3
    <3>5. new[EditLastAt(file, k)].value = updates[k]
      BY <3>3, <3>4 DEF Editor!Line
    <3> QED
      BY <1>8, <1>9, <1>11, <2>1, <3>5
  <2>2. CASE k \notin Editor!KeysOf(file)
    <3>1. PICK i : Editor!At(new, k) = {i} /\ new[i].value = updates[k]
      BY <1>3, <1>4, <1>14, <2>2
    <3>2. EditLastAt(new, k) \in Editor!At(new, k)
      BY <1>1, <3>1, EditLastLine
    <3>3. EditLastAt(new, k) = i
      BY <3>1, <3>2
    <3> QED
      BY <1>8, <1>9, <1>14, <3>1, <3>3
  <2> QED
    BY <2>1, <2>2
<1>15. ASSUME NEW k \in Editor!KeysOf(file), ~EditOnce(file, k)
       PROVE  Editor!Parse(new)[k] = Editor!Parse(file)[k]
  <2>1. Editor!First(file, k) # EditLastAt(file, k)
    <3>1. SUFFICES ASSUME Editor!First(file, k) = EditLastAt(file, k) PROVE EditOnce(file, k)
      BY <1>15
    <3>2. Editor!At(file, k) \subseteq Nat
      BY <1>2 DEF Editor!At
    <3>3. \A i \in Editor!At(file, k) : Editor!First(file, k) <= i /\ i <= EditLastAt(file, k)
      BY <1>5, EditFirstLine, EditLastLine
    <3>4. EditLastAt(file, k) \in Nat
      BY <1>11, <1>2
    <3> QED
      BY <3>1, <3>2, <3>3, <3>4 DEF EditOnce
  <2>2. EditLastAt(file, k) \in 1..Len(file) /\ file[EditLastAt(file, k)].key = k
    BY <1>11
  <2>3. new[EditLastAt(file, k)] = file[EditLastAt(file, k)]
    BY <1>1, <2>1, <2>2
  <2> QED
    BY <1>8, <1>9, <1>10, <1>11, <2>3
<1> QED
  BY <1>8, <1>12, <1>13, <1>14, <1>15 DEF new

EditParsed(file) == file \in EditFile /\ Editor!Parses(file)

LEMMA EditAppliedParses ==
    ASSUME NEW file, EditParsed(file), NEW updates, EditForm(updates)
    PROVE  EditParsed(Editor!Applied(file, updates))
<1> DEFINE new == Editor!Applied(file, updates)
<1>1. file \in EditFile /\ Editor!Parses(file)
  BY DEF EditParsed
<1>2. new \in EditFile
  <2>1. EditIsApplied(new, file, updates)
    BY <1>1, EditAppliedLines
  <2> HIDE DEF new
  <2> QED
    BY <2>1 DEF EditIsApplied
<1>3. new # Broken
  BY <1>2, LinesAssumption DEF EditFile, Editor!Line
<1>4. ASSUME NEW k \in Keys, EditOnce(file, k)
      PROVE  EditOnce(new, k)
  <2>1. /\ k \in Editor!KeysOf(file) => Editor!At(new, k) = Editor!At(file, k)
        /\ k \in DOMAIN updates /\ k \notin Editor!KeysOf(file) =>
             \E i : Editor!At(new, k) = {i} /\ new[i].value = updates[k]
        /\ k \notin DOMAIN updates /\ k \notin Editor!KeysOf(file) => Editor!At(new, k) = {}
    BY <1>1, EditAppliedAt
  <2> HIDE DEF new
  <2> QED
    BY <1>4, <2>1 DEF EditOnce
<1> HIDE DEF new
<1>5. \A k \in Keys : (Editor!Cardinality(Editor!At(file, k)) <= 1 <=> EditOnce(file, k))
        /\ (Editor!Cardinality(Editor!At(new, k)) <= 1 <=> EditOnce(new, k))
  BY <1>1, <1>2, EditOnceCounted
<1>6. Editor!Parses(new)
  BY <1>1, <1>3, <1>4, <1>5 DEF Editor!Parses
<1> QED
  BY <1>2, <1>6 DEF EditParsed, new

-----------------------------------------------------------------------------
(***************************************************************************)
(* Shapes: every file and every text that is saved parses, a form that is  *)
(* sent is one, and what is sent of a YAML file or of the MOTD is what was *)
(* edited.                                                                 *)
(***************************************************************************)
EditIsCall(c) ==
    /\ c \in [at : {"sent", "read", "answered"}, kind : {"load", "form", "text", "apply"},
              updates : {c.updates}, edited : {c.edited}, text : {c.text}, read : {c.read},
              ok : BOOLEAN, doc : {c.doc}]
    /\ EditForm(c.updates)
    /\ page # "properties" /\ c.kind = "form" => DOMAIN c.updates = c.edited
    /\ c.kind = "text" => EditParsed(c.text)
    /\ c.at = "read" => c.kind = "form" /\ EditParsed(c.read)
    /\ c.at # "answered" => c.ok = FALSE
    /\ c.ok /\ c.kind # "apply" => EditParsed(c.doc)

EditIsView(v) ==
    /\ v \in [mode : {"form", "raw"}, values : {v.values}, touched : SUBSET Keys, raw : EditFile \union {Broken},
              rawDirty : BOOLEAN, loading : BOOLEAN, failed : BOOLEAN, saving : BOOLEAN, applying : BOOLEAN,
              banner : {"none", "shown", "dismissed"}, dialog : {v.dialog}]
    /\ EditForm(v.values)
    /\ page # "properties" => v.touched \subseteq DOMAIN v.values
    /\ v.raw # Broken => EditParsed(v.raw)

EditIsServer(sv) == sv \in [file : EditFile, stale : BOOLEAN] /\ EditParsed(sv.file)

Filled ==
    /\ page \in Editor!Pages /\ EditIsServer(server) /\ EditIsView(view)
    /\ calls = [s \in Slots |-> calls[s]]
    /\ \A s \in Slots : calls[s] = Editor!NoCall \/ EditIsCall(calls[s])

LEMMA EditACall == \A c : EditIsCall(c) => c # Editor!NoCall
  BY DEF EditIsCall, Editor!NoCall

LEMMA EditNewCall ==
    ASSUME NEW kind \in {"load", "form", "text", "apply"}, NEW updates, NEW edited, NEW text, EditForm(updates),
           page # "properties" /\ kind = "form" => DOMAIN updates = edited,
           kind = "text" => EditParsed(text)
    PROVE  EditIsCall(Editor!Request(kind, updates, edited, text))
  BY DEF EditIsCall, Editor!Request

LEMMA EditFree ==
    ASSUME Filled, NEW call, Editor!Send(call)
    PROVE  /\ Editor!FreeSlot \in Slots /\ calls[Editor!FreeSlot] = Editor!NoCall
           /\ calls' = [calls EXCEPT ![Editor!FreeSlot] = call]
<1>1. \E s \in Slots : calls[s] = Editor!NoCall
  BY DEF Editor!Send
<1> QED
  BY <1>1, Zenon DEF Editor!FreeSlot, Editor!Send

LEMMA EditSlotKeeps ==
    ASSUME Filled, page' = page, NEW s \in Slots, NEW c, c = Editor!NoCall \/ EditIsCall(c),
           calls' = [calls EXCEPT ![s] = c], EditIsView(view'), EditIsServer(server')
    PROVE  Filled'
<1>1. calls' = [t \in Slots |-> calls'[t]] /\ \A t \in Slots : calls'[t] = Editor!NoCall
        \/ EditIsCall(calls'[t])
  BY DEF Filled
<1> QED
  BY <1>1 DEF Filled, EditIsView, EditIsServer, EditIsCall, EditParsed, Editor!Parses

LEMMA EditShowsKeeps ==
    ASSUME Filled, NEW v, Editor!Shows(v), EditIsView(v)
    PROVE  Filled'
  BY DEF Filled, Editor!Shows, EditIsView, EditIsServer, EditIsCall, EditParsed, Editor!Parses

LEMMA EditBeginsKeeps ==
    ASSUME Filled, NEW call, NEW v, Editor!Begins(call, v), EditIsCall(call), EditIsView(v)
    PROVE  Filled'
<1>1. Editor!Send(call) /\ view' = v /\ page' = page /\ server' = server
  BY DEF Editor!Begins, Editor!Send
<1>2. Editor!FreeSlot \in Slots /\ calls' = [calls EXCEPT ![Editor!FreeSlot] = call]
  BY <1>1, EditFree
<1>3. EditIsServer(server')
  BY <1>1 DEF Filled
<1> HIDE DEF EditIsCall, EditIsView, EditIsServer
<1> QED
  BY <1>1, <1>2, <1>3, EditSlotKeeps

LEMMA EditTypedKeeps ==
    ASSUME Filled, NEW k \in Keys, NEW value \in Values, Editor!Typed(k, value)
    PROVE  Filled'
<1> DEFINE values == [q \in DOMAIN view.values \union {k} |-> IF q = k THEN value ELSE view.values[q]]
           v == [view EXCEPT !.values = values, !.touched = @ \union {k}, !.dialog = Editor!NoDialog]
<1>1. Editor!Shows(v)
  BY DEF Editor!Typed
<1>2. EditForm(values) /\ DOMAIN values = DOMAIN view.values \union {k}
  BY DEF EditForm, Filled, EditIsView
<1> HIDE DEF values
<1>3. EditIsView(v)
  BY <1>2 DEF Filled, EditIsView
<1> QED
  BY <1>1, <1>3, EditShowsKeeps

LEMMA EditFormKeeps ==
    ASSUME Filled, \/ page = "properties" /\ (Editor!PropertiesForm \/ Editor!AskName \/ Editor!NameGiven)
                   \/ Editor!YamlForm \/ Editor!MotdForm \/ Editor!TypeText \/ Editor!ChangeMode
                        \/ Editor!Dismiss
    PROVE  Filled'
<1>1. ASSUME page = "properties", Editor!PropertiesForm
      PROVE  Filled'
  <2>1. CASE \E k \in Keys, value \in Values : Editor!Typed(k, value)
    BY <2>1, EditTypedKeeps
  <2>2. ASSUME NEW k \in Keys,
               Editor!Shows([view EXCEPT !.values = [q \in DOMAIN @ \ {k} |-> @[q]], !.touched = @ \union {k}])
        PROVE  Filled'
    <3> DEFINE values == [q \in DOMAIN view.values \ {k} |-> view.values[q]]
               v == [view EXCEPT !.values = values, !.touched = @ \union {k}]
    <3>1. EditForm(values)
      BY DEF EditForm, Filled, EditIsView
    <3> HIDE DEF values
    <3>2. EditIsView(v)
      BY <1>1, <3>1 DEF Filled, EditIsView
    <3>3. Editor!Shows(v)
      BY <2>2 DEF values
    <3> QED
      BY <3>2, <3>3, EditShowsKeeps
  <2> QED
    BY <1>1, <2>1, <2>2 DEF Editor!PropertiesForm
<1>2. CASE Editor!AskName
  <2>1. EditIsView([view EXCEPT !.dialog = DOMAIN view.values])
    BY DEF Filled, EditIsView
  <2> QED
    BY <1>2, <2>1, EditShowsKeeps DEF Editor!AskName
<1>3. CASE Editor!NameGiven
  <2>1. EditIsView([view EXCEPT !.dialog = Editor!NoDialog])
    BY DEF Filled, EditIsView
  <2> QED
    BY <1>3, <2>1, EditShowsKeeps, EditTypedKeeps DEF Editor!NameGiven
<1>4. CASE Editor!YamlForm \/ Editor!MotdForm
  BY <1>4, EditTypedKeeps DEF Editor!YamlForm, Editor!MotdForm
<1>5. CASE Editor!TypeText
  <2>1. PICK text \in Editor!Drafts : Editor!Shows([view EXCEPT !.raw = text, !.rawDirty = TRUE])
    BY <1>5 DEF Editor!TypeText
  <2>2. text = Broken \/ EditParsed(text)
    BY <2>1, LinesAssumption DEF Editor!Drafts, EditParsed, EditFile, Editor!Line
  <2>3. EditIsView([view EXCEPT !.raw = text, !.rawDirty = TRUE])
    BY <2>2 DEF Filled, EditIsView, EditParsed
  <2> QED
    BY <2>1, <2>3, EditShowsKeeps
<1>6. CASE Editor!ChangeMode
  <2>1. EditIsView([view EXCEPT !.mode = IF @ = "form" THEN "raw" ELSE "form"])
    BY DEF Filled, EditIsView
  <2> QED
    BY <1>6, <2>1, EditShowsKeeps DEF Editor!ChangeMode
<1>7. CASE Editor!Dismiss
  <2>1. EditIsView([view EXCEPT !.banner = "dismissed"])
    BY DEF Filled, EditIsView
  <2> QED
    BY <1>7, <2>1, EditShowsKeeps DEF Editor!Dismiss
<1> QED
  BY <1>1, <1>2, <1>3, <1>4, <1>5, <1>6, <1>7

LEMMA EditNoForm == EditForm(<<>>)
  BY DEF EditForm

LEMMA EditSavesKeep ==
    ASSUME Filled, NEW updates, EditForm(updates), Editor!Saves(updates),
           page # "properties" => DOMAIN updates = view.touched
    PROVE  Filled'
<1>1. EditIsView([view EXCEPT !.saving = TRUE])
  BY DEF Filled, EditIsView
<1>2. CASE view.mode = "raw"
  <2>1. EditParsed(view.raw)
    BY <1>2 DEF Editor!Saves, Filled, EditIsView
  <2>2. EditIsCall(Editor!Request("text", <<>>, {}, view.raw))
    BY <2>1, EditNoForm, EditNewCall
  <2> QED
    BY <1>1, <1>2, <2>2, EditBeginsKeeps DEF Editor!Saves
<1>3. CASE view.mode # "raw"
  <2>1. EditIsCall(Editor!Request("form", updates, view.touched, <<>>))
    BY EditNewCall
  <2> QED
    BY <1>1, <1>3, <2>1, EditBeginsKeeps DEF Editor!Saves
<1> QED
  BY <1>2, <1>3

LEMMA EditAsksKeeps ==
    ASSUME Filled, \/ page = "properties" /\ Editor!PropertiesSave
                   \/ page # "properties" /\ (Editor!YamlSave \/ Editor!MotdSave)
                   \/ Editor!Retry \/ Editor!YamlRestart \/ Editor!MotdReload
    PROVE  Filled'
<1>1. CASE page = "properties" /\ Editor!PropertiesSave
  BY <1>1, EditSavesKeep DEF Editor!PropertiesSave, Filled, EditIsView
<1>2. CASE page # "properties" /\ (Editor!YamlSave \/ Editor!MotdSave)
  <2>1. EditForm(Editor!Edits(view.values, view.touched))
          /\ DOMAIN Editor!Edits(view.values, view.touched) = view.touched
    BY <1>2 DEF Editor!Edits, EditForm, Filled, EditIsView
  <2> QED
    BY <1>2, <2>1, EditSavesKeep DEF Editor!YamlSave, Editor!MotdSave
<1>3. CASE Editor!Retry
  <2>1. EditIsView([view EXCEPT !.loading = TRUE, !.failed = FALSE])
    BY DEF Filled, EditIsView
  <2> QED
    BY <1>3, <2>1, EditNoForm, EditNewCall, EditBeginsKeeps DEF Editor!Retry, Editor!Load
<1>4. CASE Editor!YamlRestart \/ Editor!MotdReload
  <2>1. EditIsView([view EXCEPT !.applying = TRUE])
    BY DEF Filled, EditIsView
  <2> QED
    BY <1>4, <2>1, EditNoForm, EditNewCall, EditBeginsKeeps DEF Editor!YamlRestart, Editor!MotdReload,
       Editor!Applies
<1> QED
  BY <1>1, <1>2, <1>3, <1>4

LEMMA EditReadKeeps ==
    ASSUME Filled, NEW s \in Slots, Editor!Read(s)
    PROVE  Filled'
<1> DEFINE c == [calls[s] EXCEPT !.at = "read", !.read = server.file]
<1>1. EditIsCall(calls[s])
  BY DEF Filled, Editor!Read, Editor!NoCall
<1>2. EditIsCall(c)
  BY <1>1 DEF EditIsCall, Editor!Read, Filled, EditIsServer
<1>3. calls' = [calls EXCEPT ![s] = c]
  BY DEF Editor!Read
<1> HIDE DEF c
<1> QED
  BY <1>2, <1>3, EditSlotKeeps DEF Editor!Read, Filled

LEMMA EditAnswerKeeps ==
    ASSUME Filled, NEW s \in Slots, EditIsCall(calls[s]), NEW ok \in BOOLEAN, NEW doc,
           Editor!Answer(s, ok, doc),
           EditIsServer(server'), ok /\ calls[s].kind # "apply" => EditParsed(doc)
    PROVE  Filled'
<1> DEFINE c == [calls[s] EXCEPT !.at = "answered", !.ok = ok, !.doc = doc]
<1>1. EditIsCall(c)
  BY DEF EditIsCall
<1>2. calls' = [calls EXCEPT ![s] = c]
  BY DEF Editor!Answer
<1> HIDE DEF c
<1> QED
  BY <1>1, <1>2, EditSlotKeeps DEF Editor!Answer, Filled

LEMMA EditWriteKeeps ==
    ASSUME Filled, NEW s \in Slots, EditIsCall(calls[s]), NEW file, EditParsed(file), Editor!Write(s, file)
    PROVE  Filled'
<1>1. Editor!Answer(s, TRUE, file) \/ Editor!Answer(s, FALSE, <<>>)
  BY DEF Editor!Write, Editor!PropertiesPut, Editor!YamlPut, Editor!MotdPut, Editor!Stored
<1>2. server' \in {[server EXCEPT !.file = file], [file |-> file, stale |-> TRUE]}
  BY DEF Editor!Write, Editor!PropertiesPut, Editor!YamlPut, Editor!MotdPut
<1>3. EditIsServer(server')
  <2>1. EditIsServer(server) /\ file \in EditFile /\ Editor!Parses(file)
    BY DEF Filled, EditParsed
  <2>2. CASE server' = [server EXCEPT !.file = file]
    BY <2>1, <2>2 DEF EditIsServer, EditParsed
  <2>3. CASE server' = [file |-> file, stale |-> TRUE]
    BY <2>1, <2>3 DEF EditIsServer, EditParsed
  <2> QED
    BY <1>2, <2>2, <2>3
<1> QED
  BY <1>1, <1>3, EditAnswerKeeps

LEMMA EditServeKeeps ==
    ASSUME Filled, NEW s \in Slots, Editor!Serve(s)
    PROVE  Filled'
<1> DEFINE c == calls[s]
<1>1. EditIsCall(c)
  <2>1. c.at \in {"sent", "read"}
    BY DEF Editor!Serve
  <2> QED
    BY <2>1 DEF Filled, Editor!NoCall
<1>2. EditIsServer(server) /\ EditParsed(server.file)
  BY DEF Filled, EditIsServer
<1>3. CASE c.at = "read" /\ Editor!Write(s, Editor!Applied(c.read, c.updates))
  <2>1. EditParsed(Editor!Applied(c.read, c.updates))
    BY <1>1, <1>3, EditAppliedParses DEF EditIsCall
  <2> QED
    BY <1>1, <1>3, <2>1, EditWriteKeeps
<1>4. CASE c.at = "sent" /\ c.kind = "text" /\ Editor!Write(s, c.text)
  <2>1. EditParsed(c.text)
    BY <1>1, <1>4 DEF EditIsCall
  <2> QED
    BY <1>1, <1>4, <2>1, EditWriteKeeps
<1>5. CASE c.at = "sent" /\ c.kind = "load" /\ UNCHANGED server /\ Editor!Answer(s, TRUE, server.file)
  BY <1>1, <1>2, <1>5, EditAnswerKeeps
<1>6. CASE c.kind = "apply" /\ server' = [server EXCEPT !.stale = FALSE] /\ Editor!Answer(s, TRUE, <<>>)
  <2>1. EditIsServer(server')
    BY <1>2, <1>6 DEF EditIsServer
  <2> QED
    BY <1>1, <1>6, <2>1, EditAnswerKeeps
<1>7. CASE UNCHANGED server /\ Editor!Answer(s, FALSE, <<>>)
  BY <1>1, <1>2, <1>7, EditAnswerKeeps
<1> QED
  BY <1>3, <1>4, <1>5, <1>6, <1>7 DEF Editor!Serve

LEMMA EditReloadedView ==
    ASSUME Filled, NEW file, EditParsed(file)
    PROVE  EditIsView(Editor!Reloaded(file))
<1>1. EditForm(Editor!Parse(file))
  BY EditParseIs DEF EditParsed
<1>2. Editor!Reloaded(file) = [view EXCEPT !.values = Editor!Parse(file), !.touched = {}, !.raw = file, !.rawDirty = FALSE]
  BY DEF Editor!Reloaded
<1> HIDE DEF Editor!Parse
<1> QED
  BY <1>1, <1>2 DEF Filled, EditIsView, EditParsed

LEMMA EditDeliverKeeps ==
    ASSUME Filled, NEW s \in Slots, Editor!Deliver(s)
    PROVE  Filled'
<1> DEFINE c == calls[s]
           v == IF c.ok THEN Editor!Reloaded(c.doc) ELSE view
<1>1. EditIsCall(c) /\ calls' = [calls EXCEPT ![s] = Editor!NoCall] /\ page' = page /\ server' = server
  BY DEF Filled, Editor!Deliver, Editor!Arrives, Editor!Ends, Editor!NoCall
<1>2. c.kind # "apply" => EditIsView(v)
  BY <1>1, EditReloadedView DEF EditIsCall, Filled
<1>3. /\ c.kind = "load" => view' = [v EXCEPT !.loading = FALSE, !.failed = ~c.ok]
      /\ c.kind = "apply" => view' = [view EXCEPT !.applying = FALSE, !.banner = IF c.ok THEN "none" ELSE @]
      /\ c.kind \notin {"load", "apply"} =>
           view' = [v EXCEPT !.saving = FALSE, !.banner = IF c.ok /\ page = "yaml" THEN "shown" ELSE @]
  BY DEF Editor!Deliver, Editor!Loaded, Editor!SaveArrived
<1> HIDE DEF v
<1>4. CASE c.kind = "load"
  <2>1. (~c.ok) \in BOOLEAN
    OBVIOUS
  <2>2. EditIsView(view')
    BY <1>2, <1>3, <1>4, <2>1 DEF EditIsView
  <2> QED
    BY <1>1, <2>2, EditSlotKeeps DEF Filled
<1>5. CASE c.kind = "apply"
  <2>1. EditIsView(view')
    BY <1>3, <1>5 DEF Filled, EditIsView
  <2> QED
    BY <1>1, <2>1, EditSlotKeeps DEF Filled
<1>6. CASE c.kind \notin {"load", "apply"}
  <2>1. EditIsView(view')
    BY <1>2, <1>3, <1>6 DEF EditIsView
  <2> QED
    BY <1>1, <2>1, EditSlotKeeps DEF Filled
<1> QED
  BY <1>4, <1>5, <1>6

LEMMA EditInitFilled == Editor!Init => Filled
<1> SUFFICES ASSUME Editor!Init PROVE Filled
  OBVIOUS
<1>1. page \in Editor!Pages
  BY DEF Editor!Init
<1>2. EditIsServer(server)
  <2>1. PICK f \in Files : server = [file |-> f, stale |-> FALSE] /\ Editor!Parses(f)
    BY DEF Editor!Init
  <2>2. f \in EditFile
    BY LinesAssumption DEF EditFile, Editor!Line
  <2> QED
    BY <2>1, <2>2 DEF EditIsServer, EditParsed
<1>3. EditForm(<<>>) /\ <<>> \in EditFile
  BY EditNoForm, EmptySeq DEF EditFile
<1>4. EditParsed(<<>>)
  <2>1. \A k : Editor!At(<<>>, k) = {}
    BY DEF Editor!At
  <2>2. \A k : Editor!Cardinality(Editor!At(<<>>, k)) <= 1
    BY <1>3, <2>1, EditOnceCounted DEF EditOnce
  <2> QED
    BY <1>3, <2>2, LinesAssumption DEF EditParsed, Editor!Parses, EditFile, Editor!Line
<1>5. EditIsView(view)
  <2>1. view = [mode |-> "form", values |-> <<>>, touched |-> {}, raw |-> <<>>, rawDirty |-> FALSE,
               loading |-> TRUE, failed |-> FALSE, saving |-> FALSE, applying |-> FALSE,
               banner |-> "none", dialog |-> Editor!NoDialog]
    BY DEF Editor!Init
  <2> QED
    BY <1>3, <1>4, <2>1 DEF EditIsView
<1>6. EditIsCall(Editor!Load)
  BY <1>3, EditNewCall DEF Editor!Load
<1>7. \E s : calls = [t \in Slots |-> IF t = s THEN Editor!Load ELSE Editor!NoCall]
  BY DEF Editor!Init
<1> QED
  BY <1>1, <1>2, <1>5, <1>6, <1>7 DEF Filled

LEMMA EditNextFilled ==
    ASSUME Filled, EditorStep
    PROVE  Filled'
<1>1. CASE UNCHANGED vars
  BY <1>1 DEF vars, Filled, EditIsView, EditIsServer, EditIsCall, EditParsed, Editor!Parses
<1>2. CASE Editor!Elsewhere
  <2>1. PICK f \in Files : Editor!Parses(f) /\ server' = [server EXCEPT !.file = f]
    BY <1>2 DEF Editor!Elsewhere
  <2>2. EditParsed(f)
    BY <2>1, LinesAssumption DEF EditParsed, EditFile, Editor!Line
  <2>3. EditIsServer(server')
    BY <2>1, <2>2 DEF Filled, EditIsServer, EditParsed
  <2> QED
    BY <1>2, <2>3 DEF Editor!Elsewhere, Filled, EditIsView, EditIsServer, EditIsCall, EditParsed,
       Editor!Parses
<1>3. CASE Editor!Acts
  BY <1>3, EditFormKeeps, EditAsksKeeps DEF Editor!Acts, Editor!PropertiesTab, Editor!YamlTab,
     Editor!MotdTab, Editor!Pages
<1>4. ASSUME NEW s \in Slots, Editor!Read(s) \/ Editor!Serve(s) \/ Editor!Deliver(s)
      PROVE  Filled'
  BY <1>4, EditReadKeeps, EditServeKeeps, EditDeliverKeeps
<1> QED
  BY <1>1, <1>2, <1>3, <1>4 DEF Editor!Next, EditorStep

LEMMA EditFilledTypes == Filled => Editor!TypeOK
  BY DEF Filled, EditIsView, EditIsServer, EditParsed, Editor!TypeOK, EditFile, EditForm

-----------------------------------------------------------------------------
(***************************************************************************)
(* When calm: a file is loaded once, and saved by one request at a time;   *)
(* nothing is edited before it was loaded; and what was not edited is what *)
(* the file has, on the screen and in a form that is being saved.          *)
(***************************************************************************)
EditLoads(s) == calls[s] # Editor!NoCall /\ calls[s].kind = "load"
EditStores(s) == calls[s] # Editor!NoCall /\ calls[s].kind \in {"form", "text"}
EditSaved(s) == EditStores(s) /\ calls[s].ok = TRUE

EditAgree(values, edited, file) ==
    \A k \in Keys \ edited :
        (k \in DOMAIN values <=> k \in Editor!KeysOf(file))
          /\ (k \in DOMAIN values => values[k] = Editor!Parse(file)[k])

EditOneLoad ==
    /\ view.loading => \E s \in Slots : EditLoads(s)
    /\ \A s \in Slots : EditLoads(s) => view.loading /\ (calls[s].ok => calls[s].doc = server.file)
    /\ \A s, t \in Slots : EditLoads(s) /\ EditLoads(t) => s = t
EditOneSave ==
    /\ \A s \in Slots : EditStores(s) => /\ view.saving /\ ~view.loading /\ ~view.failed
                                         /\ calls[s].ok => calls[s].doc = server.file
    /\ \A s, t \in Slots : EditStores(s) /\ EditStores(t) => s = t
EditNothingEdited == view.touched = {} /\ ~view.rawDirty /\ view.dialog = Editor!NoDialog
EditShowsFile ==
    /\ EditAgree(view.values, view.touched, server.file)
    /\ ~view.rawDirty => view.raw = server.file
EditSendsFile ==
    \A s \in Slots : calls[s] # Editor!NoCall /\ calls[s].kind = "form" /\ calls[s].at # "answered" =>
        EditAgree(calls[s].updates, calls[s].edited, server.file)

Current ==
    calm =>
        /\ EditOneLoad /\ EditOneSave
        /\ view.loading \/ view.failed => EditNothingEdited
        /\ view.dialog # Editor!NoDialog => ~view.saving
        /\ ~view.loading /\ ~view.failed /\ (\A s \in Slots : ~EditSaved(s)) => EditShowsFile
        /\ page = "properties" => EditSendsFile

LEMMA EditShowsCurrent ==
    ASSUME Filled, Current, calm, NEW v, Editor!Shows(v),
           v.loading = view.loading, v.failed = view.failed, v.saving = view.saving,
           v.dialog # Editor!NoDialog => ~v.saving,
           view.loading \/ view.failed => v.touched = view.touched /\ v.rawDirty = view.rawDirty /\ v.dialog = view.dialog,
           EditAgree(view.values, view.touched, server.file) => EditAgree(v.values, v.touched, server.file),
           ~v.rawDirty => ~view.rawDirty /\ v.raw = view.raw
    PROVE  Current'
<1>1. view' = v /\ page' = page /\ calm' = calm /\ server' = server /\ calls' = calls
  BY DEF Editor!Shows
<1>2. /\ EditOneLoad' /\ EditOneSave'
      /\ page' = "properties" => EditSendsFile'
      /\ \A s \in Slots : EditSaved(s)' <=> EditSaved(s)
  BY <1>1 DEF Current, EditOneLoad, EditOneSave, EditSendsFile, EditSaved, EditStores, EditLoads
<1>3. view'.loading \/ view'.failed => EditNothingEdited'
  BY <1>1 DEF Current, EditNothingEdited
<1>4. EditShowsFile => EditShowsFile'
  BY <1>1 DEF EditShowsFile
<1> QED
  BY <1>1, <1>2, <1>3, <1>4 DEF Current

LEMMA EditTypedCurrent ==
    ASSUME Filled, Current, calm, NEW k \in Keys, NEW value \in Values, Editor!Typed(k, value), ~view.loading,
           ~view.failed
    PROVE  Current'
<1> DEFINE values == [q \in DOMAIN view.values \union {k} |-> IF q = k THEN value ELSE view.values[q]]
           v == [view EXCEPT !.values = values, !.touched = @ \union {k}, !.dialog = Editor!NoDialog]
<1>1. Editor!Shows(v)
  BY DEF Editor!Typed
<1>2. \A q : q # k => (q \in DOMAIN values <=> q \in DOMAIN view.values)
                      /\ (q \in DOMAIN values => values[q] = view.values[q])
  OBVIOUS
<1> HIDE DEF values
<1>3. /\ v.values = values /\ v.touched = view.touched \union {k} /\ v.dialog = Editor!NoDialog
      /\ v.loading = view.loading /\ v.failed = view.failed /\ v.saving = view.saving
      /\ v.rawDirty = view.rawDirty /\ v.raw = view.raw
  BY DEF Filled, EditIsView
<1> HIDE DEF v
<1>4. EditAgree(view.values, view.touched, server.file) => EditAgree(v.values, v.touched, server.file)
  BY <1>2, <1>3 DEF EditAgree
<1> QED
  BY <1>1, <1>3, <1>4, EditShowsCurrent

\* What can be edited was loaded, and is not being saved.
LEMMA EditOpened ==
    ASSUME Filled, Current, calm
    PROVE  /\ \A mode : Editor!Open(mode) => ~view.loading /\ ~view.failed /\ ~view.saving
           /\ ~Editor!Clear => ~view.loading /\ ~view.failed /\ ~view.saving
  BY DEF Editor!Open, Editor!Clear, Current, EditNothingEdited

LEMMA EditFormCurrent ==
    ASSUME Filled, Current, calm,
           \/ page = "properties" /\ ((Editor!Open("form") /\ Editor!PropertiesForm) \/ Editor!AskName \/ Editor!NameGiven)
           \/ (Editor!Open("form") /\ (Editor!YamlForm \/ Editor!MotdForm)) \/ Editor!TypeText
                \/ Editor!ChangeMode \/ Editor!Dismiss
    PROVE  Current'
<1> DEFINE Same(v) == /\ v.loading = view.loading /\ v.failed = view.failed /\ v.saving = view.saving
<1>1. CASE Editor!Open("form") /\ Editor!PropertiesForm
  <2>1. ~view.loading /\ ~view.failed
    BY <1>1, EditOpened
  <2>2. CASE \E k \in Keys, value \in Values : Editor!Typed(k, value)
    BY <2>1, <2>2, EditTypedCurrent
  <2>3. ASSUME NEW k \in Keys,
               Editor!Shows([view EXCEPT !.values = [q \in DOMAIN @ \ {k} |-> @[q]], !.touched = @ \union {k}])
        PROVE  Current'
    <3> DEFINE values == [q \in DOMAIN view.values \ {k} |-> view.values[q]]
               v == [view EXCEPT !.values = values, !.touched = @ \union {k}]
    <3>1. Editor!Shows(v)
      BY <2>3
    <3>2. \A q : q # k => (q \in DOMAIN values <=> q \in DOMAIN view.values)
                          /\ (q \in DOMAIN values => values[q] = view.values[q])
      OBVIOUS
    <3> HIDE DEF values
    <3>3. /\ v.values = values /\ v.touched = view.touched \union {k} /\ v.dialog = view.dialog
          /\ v.loading = view.loading /\ v.failed = view.failed /\ v.saving = view.saving
          /\ v.rawDirty = view.rawDirty /\ v.raw = view.raw
      BY DEF Filled, EditIsView
    <3> HIDE DEF v
    <3>4. EditAgree(view.values, view.touched, server.file) => EditAgree(v.values, v.touched, server.file)
      BY <3>2, <3>3 DEF EditAgree
    <3>5. v.dialog # Editor!NoDialog => ~v.saving
      BY <1>1, <3>3 DEF Editor!Open, Editor!Clear
    <3> QED
      BY <2>1, <3>1, <3>3, <3>4, <3>5, EditShowsCurrent
  <2> QED
    BY <1>1, <2>2, <2>3 DEF Editor!PropertiesForm
<1>2. CASE Editor!AskName
  <2>1. ~view.loading /\ ~view.failed /\ ~view.saving
    BY <1>2, EditOpened DEF Editor!AskName
  <2> DEFINE v == [view EXCEPT !.dialog = DOMAIN view.values]
  <2>2. /\ v.values = view.values /\ v.touched = view.touched
        /\ v.loading = view.loading /\ v.failed = view.failed /\ v.saving = view.saving
        /\ v.rawDirty = view.rawDirty /\ v.raw = view.raw
    BY DEF Filled, EditIsView
  <2>3. Editor!Shows(v)
    BY <1>2 DEF Editor!AskName
  <2> HIDE DEF v
  <2> QED
    BY <2>1, <2>2, <2>3, EditShowsCurrent
<1>3. CASE Editor!NameGiven
  <2>1. ~view.loading /\ ~view.failed /\ ~view.saving
    BY <1>3, EditOpened DEF Editor!NameGiven
  <2> DEFINE v == [view EXCEPT !.dialog = Editor!NoDialog]
  <2>2. /\ v.values = view.values /\ v.touched = view.touched /\ v.dialog = Editor!NoDialog
        /\ v.loading = view.loading /\ v.failed = view.failed /\ v.saving = view.saving
        /\ v.rawDirty = view.rawDirty /\ v.raw = view.raw
    BY DEF Filled, EditIsView
  <2> HIDE DEF v
  <2>3. Editor!Shows(v) => Current'
    BY <2>1, <2>2, EditShowsCurrent
  <2> QED
    BY <1>3, <2>1, <2>3, EditTypedCurrent DEF Editor!NameGiven, v
<1>4. CASE Editor!Open("form") /\ (Editor!YamlForm \/ Editor!MotdForm)
  <2>1. ~view.loading /\ ~view.failed
    BY <1>4, EditOpened
  <2> QED
    BY <1>4, <2>1, EditTypedCurrent DEF Editor!YamlForm, Editor!MotdForm
<1>5. CASE Editor!TypeText
  <2>1. PICK text \in Editor!Drafts : Editor!Shows([view EXCEPT !.raw = text, !.rawDirty = TRUE])
    BY <1>5 DEF Editor!TypeText
  <2> DEFINE v == [view EXCEPT !.raw = text, !.rawDirty = TRUE]
  <2>2. ~view.loading /\ ~view.failed /\ ~view.saving
    BY <1>5, EditOpened DEF Editor!TypeText
  <2>3. /\ v.values = view.values /\ v.touched = view.touched
        /\ v.loading = view.loading /\ v.failed = view.failed /\ v.saving = view.saving
        /\ v.rawDirty = TRUE
    BY DEF Filled, EditIsView
  <2>4. Editor!Shows(v)
    BY <2>1
  <2> HIDE DEF v
  <2> QED
    BY <2>2, <2>3, <2>4, EditShowsCurrent
<1>6. CASE Editor!ChangeMode \/ Editor!Dismiss
  <2>1. PICK v : /\ Editor!Shows(v)
                 /\ v \in {[view EXCEPT !.mode = IF @ = "form" THEN "raw" ELSE "form"], [view EXCEPT !.banner = "dismissed"]}
    BY <1>6 DEF Editor!ChangeMode, Editor!Dismiss
  <2>2. /\ v.values = view.values /\ v.touched = view.touched /\ v.dialog = view.dialog
        /\ v.loading = view.loading /\ v.failed = view.failed /\ v.saving = view.saving
        /\ v.rawDirty = view.rawDirty /\ v.raw = view.raw
    BY <2>1 DEF Filled, EditIsView
  <2>3. v.dialog # Editor!NoDialog => ~v.saving
    BY <2>2 DEF Current
  <2> QED
    BY <2>1, <2>2, <2>3, EditShowsCurrent
<1> QED
  BY <1>1, <1>2, <1>3, <1>4, <1>5, <1>6

LEMMA EditSentCurrent ==
    ASSUME Filled, NEW call, NEW v, Editor!Begins(call, v)
    PROVE  /\ page' = page /\ calm' = calm /\ server' = server /\ view' = v
           /\ Editor!FreeSlot \in Slots /\ calls[Editor!FreeSlot] = Editor!NoCall
           /\ calls'[Editor!FreeSlot] = call
           /\ \A t \in Slots : t # Editor!FreeSlot => calls'[t] = calls[t]
<1>1. Editor!Send(call)
  BY DEF Editor!Begins
<1>2. Editor!FreeSlot \in Slots /\ calls[Editor!FreeSlot] = Editor!NoCall
        /\ calls' = [calls EXCEPT ![Editor!FreeSlot] = call]
  BY <1>1, EditFree
<1> QED
  BY <1>2 DEF Editor!Begins, Editor!Send, Filled

LEMMA EditSavesCurrent ==
    ASSUME Filled, Current, calm, NEW updates, Editor!Saves(updates), ~view.failed,
           page = "properties" => updates = view.values
    PROVE  Current'
<1> DEFINE v == [view EXCEPT !.saving = TRUE]
           call == IF view.mode = "raw" THEN Editor!Request("text", <<>>, {}, view.raw)
                   ELSE Editor!Request("form", updates, view.touched, <<>>)
           f == Editor!FreeSlot
<1>1. /\ page' = page /\ calm' = calm /\ server' = server /\ view' = v
      /\ f \in Slots /\ calls[f] = Editor!NoCall /\ calls'[f] = call
      /\ \A t \in Slots : t # f => calls'[t] = calls[t]
  BY EditSentCurrent DEF Editor!Saves
<1>2. /\ call.kind \in {"form", "text"} /\ call.ok = FALSE /\ call # Editor!NoCall
      /\ call.kind = "form" => call.updates = updates /\ call.edited = view.touched
  BY DEF Editor!Request, Editor!NoCall
<1>3. /\ v.values = view.values /\ v.touched = view.touched /\ v.dialog = view.dialog
      /\ v.loading = view.loading /\ v.failed = view.failed /\ v.saving = TRUE
      /\ v.rawDirty = view.rawDirty /\ v.raw = view.raw
  BY DEF Filled, EditIsView
<1>4. ~view.saving /\ ~view.loading /\ ~view.failed /\ view.dialog = Editor!NoDialog
  BY DEF Editor!Saves, Editor!Clear
<1> HIDE DEF v, call, f
<1>5. \A s \in Slots : ~EditLoads(s) /\ ~EditStores(s)
  BY <1>4 DEF Current, EditOneLoad, EditOneSave
<1>6. \A s \in Slots : ~EditLoads(s)' /\ ~EditSaved(s)' /\ (EditStores(s)' => s = f)
  BY <1>1, <1>2, <1>5 DEF EditLoads, EditStores, EditSaved
<1>7. EditShowsFile
  BY <1>4, <1>5 DEF Current, EditSaved
<1>8. EditShowsFile' /\ EditOneLoad'
  BY <1>1, <1>3, <1>4, <1>6, <1>7 DEF EditShowsFile, EditOneLoad
<1>9. EditOneSave'
  BY <1>1, <1>2, <1>3, <1>4, <1>6 DEF EditOneSave
<1>10. page = "properties" => EditSendsFile'
  <2>1. \A t \in Slots : t # f => ~(calls'[t] # Editor!NoCall /\ calls'[t].kind = "form")
    BY <1>1, <1>5 DEF EditStores
  <2>2. page = "properties" /\ call.kind = "form" => EditAgree(call.updates, call.edited, server.file)
    BY <1>2, <1>7 DEF EditShowsFile
  <2> QED
    BY <1>1, <2>1, <2>2 DEF EditSendsFile
<1> QED
  BY <1>1, <1>3, <1>4, <1>8, <1>9, <1>10 DEF Current

LEMMA EditAsksCurrent ==
    ASSUME Filled, Current, calm,
           \/ page = "properties" /\ Editor!PropertiesSave
           \/ page # "properties" /\ (Editor!YamlSave \/ Editor!MotdSave)
           \/ Editor!Retry \/ Editor!YamlRestart \/ Editor!MotdReload
    PROVE  Current'
<1>1. CASE (page = "properties" /\ Editor!PropertiesSave)
           \/ (page # "properties" /\ (Editor!YamlSave \/ Editor!MotdSave))
  <2>1. ~view.failed
    BY <1>1 DEF Editor!PropertiesSave, Editor!YamlSave, Editor!MotdSave, Editor!Dirty, Current,
       EditNothingEdited
  <2>2. CASE page = "properties" /\ Editor!PropertiesSave
    BY <2>1, <2>2, EditSavesCurrent DEF Editor!PropertiesSave
  <2>3. CASE page # "properties" /\ (Editor!YamlSave \/ Editor!MotdSave)
    BY <2>1, <2>3, EditSavesCurrent DEF Editor!YamlSave, Editor!MotdSave
  <2> QED
    BY <1>1, <2>2, <2>3
<1>2. CASE Editor!Retry
  <2> DEFINE v == [view EXCEPT !.loading = TRUE, !.failed = FALSE]
             f == Editor!FreeSlot
  <2>1. /\ page' = page /\ calm' = calm /\ server' = server /\ view' = v
        /\ f \in Slots /\ calls[f] = Editor!NoCall /\ calls'[f] = Editor!Load
        /\ \A t \in Slots : t # f => calls'[t] = calls[t]
    BY <1>2, EditSentCurrent DEF Editor!Retry
  <2>2. Editor!Load.kind = "load" /\ Editor!Load.ok = FALSE /\ Editor!Load # Editor!NoCall
    BY DEF Editor!Load, Editor!Request, Editor!NoCall
  <2>3. /\ v.touched = view.touched /\ v.dialog = view.dialog /\ v.rawDirty = view.rawDirty
        /\ v.loading = TRUE /\ v.failed = FALSE
    BY DEF Filled, EditIsView
  <2>4. view.failed /\ ~view.loading /\ view.dialog = Editor!NoDialog
    BY <1>2 DEF Editor!Retry, Editor!Clear
  <2> HIDE DEF v, f
  <2>5. \A s \in Slots : ~EditLoads(s) /\ ~EditStores(s)
    BY <2>4 DEF Current, EditOneLoad, EditOneSave
  <2>6. \A s \in Slots : ~EditStores(s)' /\ (EditLoads(s)' <=> s = f)
    BY <2>1, <2>2, <2>5 DEF EditLoads, EditStores
  <2>7. EditOneLoad' /\ EditOneSave'
    BY <2>1, <2>2, <2>3, <2>6 DEF EditOneLoad, EditOneSave
  <2>8. EditNothingEdited'
    BY <2>1, <2>3, <2>4 DEF Current, EditNothingEdited
  <2>9. EditSendsFile'
    BY <2>6 DEF EditSendsFile, EditStores
  <2> QED
    BY <2>1, <2>3, <2>7, <2>8, <2>9 DEF Current, EditNothingEdited
<1>3. CASE Editor!YamlRestart \/ Editor!MotdReload
  <2> DEFINE v == [view EXCEPT !.applying = TRUE]
             f == Editor!FreeSlot
             call == Editor!Request("apply", <<>>, {}, <<>>)
  <2>1. /\ page' = page /\ calm' = calm /\ server' = server /\ view' = v
        /\ f \in Slots /\ calls[f] = Editor!NoCall /\ calls'[f] = call
        /\ \A t \in Slots : t # f => calls'[t] = calls[t]
    BY <1>3, EditSentCurrent DEF Editor!YamlRestart, Editor!MotdReload, Editor!Applies
  <2>2. call.kind = "apply" /\ call # Editor!NoCall
    BY DEF Editor!Request, Editor!NoCall
  <2>3. /\ v.values = view.values /\ v.touched = view.touched /\ v.dialog = view.dialog
        /\ v.loading = view.loading /\ v.failed = view.failed /\ v.saving = view.saving
        /\ v.rawDirty = view.rawDirty /\ v.raw = view.raw
    BY DEF Filled, EditIsView
  <2> HIDE DEF v, f, call
  <2>4. \A s \in Slots : /\ EditLoads(s)' <=> EditLoads(s)
                         /\ EditStores(s)' <=> EditStores(s)
                         /\ EditSaved(s)' <=> EditSaved(s)
                         /\ EditLoads(s) \/ EditStores(s) => calls'[s] = calls[s]
    BY <2>1, <2>2 DEF EditLoads, EditStores, EditSaved
  <2>5. EditOneLoad' /\ EditOneSave'
    BY <2>1, <2>3, <2>4 DEF Current, EditOneLoad, EditOneSave
  <2>6. page = "properties" => EditSendsFile'
    BY <2>1, <2>4 DEF Current, EditSendsFile, EditStores
  <2>7. EditShowsFile => EditShowsFile'
    BY <2>1, <2>3 DEF EditShowsFile
  <2> QED
    BY <2>1, <2>3, <2>4, <2>5, <2>6, <2>7 DEF Current, EditNothingEdited
<1> QED
  BY <1>1, <1>2, <1>3

LEMMA EditReadCurrent ==
    ASSUME Filled, Current, calm, NEW s \in Slots, Editor!Read(s)
    PROVE  Current'
<1>1. /\ page' = page /\ calm' = calm /\ server' = server /\ view' = view
      /\ calls' = [calls EXCEPT ![s] = [calls[s] EXCEPT !.at = "read", !.read = server.file]]
      /\ EditIsCall(calls[s])
  <2>1. calls' = [calls EXCEPT ![s] = [calls[s] EXCEPT !.at = "read", !.read = server.file]]
    BY DEF Editor!Read
  <2>2. page' = page /\ calm' = calm /\ server' = server /\ view' = view /\ calls[s].at = "sent"
    BY DEF Editor!Read
  <2> QED
    BY <2>1, <2>2 DEF Filled, Editor!NoCall
<1>2. /\ calls'[s] # Editor!NoCall /\ calls[s] # Editor!NoCall /\ calls[s].at # "answered"
      /\ calls'[s].kind = calls[s].kind
      /\ calls'[s].ok = calls[s].ok /\ calls'[s].doc = calls[s].doc
      /\ calls'[s].updates = calls[s].updates /\ calls'[s].edited = calls[s].edited
      /\ \A t \in Slots : t # s => calls'[t] = calls[t]
  BY <1>1 DEF EditIsCall, Editor!NoCall, Filled, Editor!Read
<1>3. \A t \in Slots : /\ EditLoads(t)' <=> EditLoads(t)
                       /\ EditStores(t)' <=> EditStores(t)
                       /\ EditSaved(t)' <=> EditSaved(t)
                       /\ calls'[t].ok = calls[t].ok /\ calls'[t].doc = calls[t].doc
  BY <1>2 DEF EditLoads, EditStores, EditSaved
<1>4. EditOneLoad' /\ EditOneSave'
  BY <1>1, <1>3 DEF Current, EditOneLoad, EditOneSave
<1>5. page = "properties" => EditSendsFile'
  BY <1>1, <1>2 DEF Current, EditSendsFile
<1> QED
  BY <1>1, <1>3, <1>4, <1>5 DEF Current, EditNothingEdited, EditShowsFile

\* An answer that changes the file is that of a save.
LEMMA EditAnswerCurrent ==
    ASSUME Filled, Current, calm, NEW s \in Slots, EditIsCall(calls[s]), calls[s].at # "answered",
           NEW ok \in BOOLEAN, NEW doc, Editor!Answer(s, ok, doc),
           ok /\ calls[s].kind # "apply" => doc = server'.file,
           server'.file = server.file \/ (ok /\ EditStores(s))
    PROVE  Current'
<1>1. /\ page' = page /\ calm' = calm /\ view' = view
      /\ calls' = [calls EXCEPT ![s] = [calls[s] EXCEPT !.at = "answered", !.ok = ok, !.doc = doc]]
  BY DEF Editor!Answer
<1>2. /\ calls'[s] # Editor!NoCall /\ calls[s] # Editor!NoCall /\ calls'[s].at = "answered"
      /\ calls'[s].kind = calls[s].kind
      /\ calls'[s].ok = ok /\ calls'[s].doc = doc /\ calls[s].ok = FALSE
      /\ \A t \in Slots : t # s => calls'[t] = calls[t]
  <2>1. /\ calls'[s] = [calls[s] EXCEPT !.at = "answered", !.ok = ok, !.doc = doc]
        /\ \A t \in Slots : t # s => calls'[t] = calls[t]
    BY <1>1 DEF Filled
  <2>2. /\ calls'[s].at = "answered" /\ calls'[s].kind = calls[s].kind
        /\ calls'[s].ok = ok /\ calls'[s].doc = doc /\ calls[s].ok = FALSE
    BY <2>1 DEF EditIsCall
  <2>3. calls'[s] # Editor!NoCall /\ calls[s] # Editor!NoCall
    BY <2>2, EditACall DEF Editor!NoCall
  <2> QED
    BY <2>1, <2>2, <2>3
<1>3. \A t \in Slots : /\ EditLoads(t)' <=> EditLoads(t)
                       /\ EditStores(t)' <=> EditStores(t)
                       /\ t # s => (EditSaved(t)' <=> EditSaved(t))
  BY <1>2 DEF EditLoads, EditStores, EditSaved
<1>4. ok /\ EditStores(s) => \A t \in Slots : ~EditLoads(t) /\ (EditStores(t) => t = s)
  BY DEF Current, EditOneLoad, EditOneSave
<1>5. \A t \in Slots : EditLoads(t) \/ EditStores(t) => (calls'[t].ok => calls'[t].doc = server'.file)
  <2> SUFFICES ASSUME NEW t \in Slots, EditLoads(t) \/ EditStores(t), calls'[t].ok PROVE calls'[t].doc = server'.file
    OBVIOUS
  <2>1. CASE t = s
    BY <1>2, <2>1 DEF EditLoads, EditStores
  <2>2. CASE t # s
    <3>1. server'.file = server.file
      BY <1>4, <2>2
    <3> QED
      BY <1>2, <2>2, <3>1 DEF Current, EditOneLoad, EditOneSave
  <2> QED
    BY <2>1, <2>2
<1>6. EditOneLoad' /\ EditOneSave'
  BY <1>1, <1>3, <1>5 DEF Current, EditOneLoad, EditOneSave
<1>7. page = "properties" => EditSendsFile'
  <2>1. ASSUME NEW t \in Slots, page = "properties", calls'[t] # Editor!NoCall, calls'[t].kind = "form",
               calls'[t].at # "answered"
        PROVE  EditAgree(calls'[t].updates, calls'[t].edited, server'.file)
    <3>1. t # s /\ calls'[t] = calls[t] /\ EditStores(t)
      BY <1>2, <2>1 DEF EditStores
    <3>2. server'.file = server.file
      BY <1>4, <3>1
    <3> QED
      BY <2>1, <3>1, <3>2 DEF Current, EditSendsFile
  <2> QED
    BY <2>1 DEF EditSendsFile
<1>8. ASSUME ~view.loading, ~view.failed, \A t \in Slots : ~EditSaved(t)'
      PROVE  EditShowsFile'
  <2>1. \A t \in Slots : ~EditSaved(t)
    BY <1>2, <1>3, <1>8 DEF EditSaved
  <2>2. server'.file = server.file
    BY <1>2, <1>3, <1>8 DEF EditSaved
  <2> QED
    BY <1>1, <1>8, <2>1, <2>2 DEF Current, EditShowsFile
<1> QED
  BY <1>1, <1>6, <1>7, <1>8 DEF Current, EditNothingEdited

LEMMA EditServeCurrent ==
    ASSUME Filled, Current, calm, NEW s \in Slots, Editor!Serve(s)
    PROVE  Current'
<1> DEFINE c == calls[s]
<1>1. EditIsCall(c) /\ c.at # "answered"
  <2>1. c.at \in {"sent", "read"}
    BY DEF Editor!Serve
  <2> QED
    BY <2>1 DEF Filled, Editor!NoCall
<1>2. \A file : Editor!Write(s, file) => server'.file = file /\ Editor!Answer(s, TRUE, file)
  <2>1. EditIsServer(server)
    BY DEF Filled
  <2> SUFFICES ASSUME NEW file, Editor!Write(s, file) PROVE server'.file = file /\ Editor!Answer(s, TRUE, file)
    OBVIOUS
  <2>2. Editor!Answer(s, TRUE, file)
    BY DEF Editor!Write, Editor!PropertiesPut, Editor!YamlPut, Editor!MotdPut, Editor!Stored
  <2>3. server' = [server EXCEPT !.file = file] \/ server' = [file |-> file, stale |-> TRUE]
    BY DEF Editor!Write, Editor!PropertiesPut, Editor!YamlPut, Editor!MotdPut
  <2>4. server'.file = file
    BY <2>1, <2>3 DEF EditIsServer
  <2> QED
    BY <2>2, <2>4
<1>3. CASE \E file : Editor!Write(s, file) /\ c.kind \in {"form", "text"}
  <2>1. EditStores(s)
    BY <1>1, <1>3, EditACall DEF EditStores
  <2> QED
    BY <1>1, <1>2, <1>3, <2>1, EditAnswerCurrent
<1>4. CASE c.kind = "load" /\ UNCHANGED server /\ Editor!Answer(s, TRUE, server.file)
  BY <1>1, <1>4, EditAnswerCurrent
<1>5. CASE c.kind = "apply" /\ server' = [server EXCEPT !.stale = FALSE] /\ Editor!Answer(s, TRUE, <<>>)
  <2>1. server'.file = server.file
    BY <1>5 DEF Filled, EditIsServer
  <2> QED
    BY <1>1, <1>5, <2>1, EditAnswerCurrent
<1>6. CASE UNCHANGED server /\ Editor!Answer(s, FALSE, <<>>)
  BY <1>1, <1>6, EditAnswerCurrent
<1>7. c.at = "read" => c.kind = "form"
  BY <1>1 DEF EditIsCall
<1> QED
  BY <1>3, <1>4, <1>5, <1>6, <1>7 DEF Editor!Serve

LEMMA EditDeliverCurrent ==
    ASSUME Filled, Current, calm, NEW s \in Slots, Editor!Deliver(s)
    PROVE  Current'
<1> DEFINE c == calls[s]
           v == IF c.ok THEN Editor!Reloaded(c.doc) ELSE view
<1>1. /\ page' = page /\ calm' = calm /\ server' = server
      /\ calls' = [calls EXCEPT ![s] = Editor!NoCall] /\ EditIsCall(c) /\ c # Editor!NoCall
  BY DEF Editor!Deliver, Editor!Arrives, Editor!Ends, Filled, Editor!NoCall
<1>2. calls'[s] = Editor!NoCall /\ \A t \in Slots : t # s => calls'[t] = calls[t]
  BY <1>1 DEF Filled
<1>3. \A t \in Slots : /\ EditLoads(t)' <=> EditLoads(t) /\ t # s
                       /\ EditStores(t)' <=> EditStores(t) /\ t # s
                       /\ EditSaved(t)' <=> EditSaved(t) /\ t # s
                       /\ t # s => calls'[t].ok = calls[t].ok /\ calls'[t].doc = calls[t].doc
  BY <1>2 DEF EditLoads, EditStores, EditSaved
<1>4. page = "properties" => EditSendsFile'
  BY <1>1, <1>2 DEF Current, EditSendsFile
<1>5. /\ v.loading = view.loading /\ v.failed = view.failed /\ v.saving = view.saving /\ v.dialog = view.dialog
      /\ c.ok => v.values = Editor!Parse(c.doc) /\ v.touched = {} /\ v.raw = c.doc /\ v.rawDirty = FALSE
      /\ ~c.ok => v = view
      /\ c.kind # "apply" => EditIsView(v)
  <2>1. c.kind # "apply" => EditIsView(v)
    BY <1>1, EditReloadedView DEF EditIsCall, Filled
  <2> HIDE DEF Editor!Parse
  <2> QED
    BY <2>1 DEF Filled, EditIsView, Editor!Reloaded
<1>6. /\ c.kind = "load" => view' = [v EXCEPT !.loading = FALSE, !.failed = ~c.ok]
      /\ c.kind = "apply" => view' = [view EXCEPT !.applying = FALSE, !.banner = IF c.ok THEN "none" ELSE @]
      /\ c.kind \notin {"load", "apply"} =>
           view' = [v EXCEPT !.saving = FALSE, !.banner = IF c.ok /\ page = "yaml" THEN "shown" ELSE @]
  BY DEF Editor!Deliver, Editor!Loaded, Editor!SaveArrived
<1> HIDE DEF v
<1>7. c.ok /\ c.kind # "apply" /\ c.doc = server.file /\ view'.values = v.values /\ view'.touched = v.touched
        /\ view'.raw = v.raw => EditShowsFile'
  <2>1. ASSUME c.ok PROVE EditAgree(Editor!Parse(server.file), {}, server.file)
    <3>1. server.file \in EditFile
      BY DEF Filled, EditIsServer
    <3> QED
      BY <3>1, EditParseIs DEF EditAgree
  <2> QED
    BY <1>1, <1>5, <2>1 DEF EditShowsFile
<1>8. CASE c.kind = "load"
  <2>1. EditLoads(s) /\ view.loading /\ (c.ok => c.doc = server.file)
    BY <1>1, <1>8 DEF EditLoads, Current, EditOneLoad
  <2>2. \A t \in Slots : ~EditStores(t) /\ (EditLoads(t) => t = s)
    BY <2>1 DEF Current, EditOneLoad, EditOneSave
  <2>3. /\ view'.loading = FALSE /\ view'.failed = ~c.ok /\ view'.saving = view.saving
        /\ view'.dialog = view.dialog /\ view'.values = v.values /\ view'.touched = v.touched
        /\ view'.raw = v.raw /\ view'.rawDirty = v.rawDirty
    BY <1>5, <1>6, <1>8 DEF EditIsView
  <2>4. EditOneLoad' /\ EditOneSave'
    BY <1>3, <2>2, <2>3 DEF EditOneLoad, EditOneSave
  <2>5. EditNothingEdited'
    BY <1>5, <2>1, <2>3 DEF Current, EditNothingEdited
  <2>6. c.ok => EditShowsFile'
    BY <1>7, <1>8, <2>1, <2>3
  <2> QED
    BY <1>1, <1>4, <2>3, <2>4, <2>5, <2>6 DEF Current, EditNothingEdited
<1>9. CASE c.kind = "apply"
  <2>1. /\ view'.loading = view.loading /\ view'.failed = view.failed /\ view'.saving = view.saving
        /\ view'.dialog = view.dialog /\ view'.values = view.values /\ view'.touched = view.touched
        /\ view'.raw = view.raw /\ view'.rawDirty = view.rawDirty
    BY <1>6, <1>9 DEF Filled, EditIsView
  <2>2. ~EditLoads(s) /\ ~EditStores(s) /\ ~EditSaved(s)
    BY <1>9 DEF EditLoads, EditStores, EditSaved
  <2>3. EditOneLoad' /\ EditOneSave' /\ \A t \in Slots : EditSaved(t)' <=> EditSaved(t)
    BY <1>1, <1>3, <2>1, <2>2 DEF Current, EditOneLoad, EditOneSave
  <2>4. EditShowsFile => EditShowsFile'
    BY <1>1, <2>1 DEF EditShowsFile
  <2> QED
    BY <1>1, <1>4, <2>1, <2>3, <2>4 DEF Current, EditNothingEdited
<1>10. CASE c.kind \notin {"load", "apply"}
  <2>1. EditStores(s) /\ view.saving /\ ~view.loading /\ ~view.failed /\ (c.ok => c.doc = server.file)
    BY <1>1, <1>10 DEF EditStores, Current, EditOneSave, EditIsCall
  <2>2. \A t \in Slots : ~EditLoads(t) /\ (EditStores(t) => t = s)
    BY <2>1 DEF Current, EditOneLoad, EditOneSave
  <2>3. /\ view'.loading = view.loading /\ view'.failed = view.failed /\ view'.saving = FALSE
        /\ view'.dialog = view.dialog /\ view'.values = v.values /\ view'.touched = v.touched
        /\ view'.raw = v.raw /\ view'.rawDirty = v.rawDirty
    BY <1>5, <1>6, <1>10 DEF EditIsView
  <2>4. EditOneLoad' /\ EditOneSave'
    BY <1>3, <2>1, <2>2, <2>3 DEF EditOneLoad, EditOneSave
  <2>5. EditShowsFile'
    <3>1. CASE c.ok
      BY <1>7, <1>10, <2>1, <2>3, <3>1
    <3>2. CASE ~c.ok
      <4>1. \A t \in Slots : ~EditSaved(t)
        BY <2>2, <3>2 DEF EditSaved
      <4>2. EditShowsFile
        BY <2>1, <4>1 DEF Current
      <4>3. v = view
        BY <1>5, <3>2
      <4> QED
        BY <1>1, <2>3, <4>2, <4>3 DEF EditShowsFile
    <3> QED
      BY <3>1, <3>2
  <2> QED
    BY <1>1, <1>4, <2>1, <2>3, <2>4, <2>5 DEF Current, EditNothingEdited
<1> QED
  BY <1>8, <1>9, <1>10

LEMMA EditNextCurrent ==
    ASSUME Filled, Current, EditorStep
    PROVE  Current'
<1>1. calm' = calm
  <2>1. CASE UNCHANGED vars
    BY <2>1 DEF vars
  <2> QED
    BY <2>1, EditorFixed DEF EditorStep, Fixed
<1> SUFFICES ASSUME calm PROVE Current'
  BY <1>1 DEF Current
<1>2. CASE UNCHANGED vars
  BY <1>2 DEF vars, Current, EditOneLoad, EditOneSave, EditNothingEdited, EditShowsFile, EditSendsFile,
     EditLoads, EditStores, EditSaved
<1>3. ~Editor!Elsewhere
  BY DEF Editor!Elsewhere
<1>4. CASE Editor!Acts
  BY <1>4, EditFormCurrent, EditAsksCurrent DEF Editor!Acts, Editor!PropertiesTab, Editor!YamlTab,
     Editor!MotdTab, Editor!Pages
<1>5. ASSUME NEW s \in Slots, Editor!Read(s) \/ Editor!Serve(s) \/ Editor!Deliver(s)
      PROVE  Current'
  BY <1>5, EditReadCurrent, EditServeCurrent, EditDeliverCurrent
<1> QED
  BY <1>2, <1>3, <1>4, <1>5 DEF Editor!Next, EditorStep

LEMMA EditInitCurrent == Editor!Init => Current
<1> SUFFICES ASSUME Editor!Init, calm PROVE Current
  BY DEF Current
<1>1. view.loading = TRUE /\ view.failed = FALSE /\ view.touched = {} /\ view.rawDirty = FALSE
        /\ view.dialog = Editor!NoDialog
      /\ view.saving = FALSE
  BY DEF Editor!Init
<1>2. PICK s : s = (CHOOSE t \in Slots : TRUE) /\ calls = [t \in Slots |-> IF t = s THEN Editor!Load ELSE Editor!NoCall]
  BY DEF Editor!Init
<1>3. Editor!Load.kind = "load" /\ Editor!Load.ok = FALSE /\ Editor!Load # Editor!NoCall
  BY DEF Editor!Load, Editor!Request, Editor!NoCall
<1>4. \A t \in Slots : (EditLoads(t) <=> t = s) /\ ~EditStores(t)
  BY <1>2, <1>3 DEF EditLoads, EditStores
<1>5. s \in Slots
  BY <1>2, SlotsAssumption
<1>6. EditOneLoad
  BY <1>1, <1>2, <1>3, <1>4, <1>5 DEF EditOneLoad
<1>7. EditOneSave /\ EditSendsFile
  BY <1>4 DEF EditOneSave, EditSendsFile, EditStores
<1> QED
  BY <1>1, <1>6, <1>7 DEF Current, EditNothingEdited

LEMMA EditCurrentSettles ==
    ASSUME Filled, Current, calm
    PROVE  Editor!SettledViewIsTruth
<1> SUFFICES ASSUME Editor!Quiet, ~view.failed, view.touched = {}, ~view.rawDirty
             PROVE  view.raw = server.file /\ view.values = Editor!Parse(server.file)
  BY DEF Editor!SettledViewIsTruth
<1>1. \A s \in Slots : ~EditLoads(s) /\ ~EditSaved(s)
  BY DEF Editor!Quiet, EditLoads, EditSaved, EditStores
<1>2. ~view.loading
  BY <1>1 DEF Current, EditOneLoad
<1>3. EditAgree(view.values, {}, server.file) /\ view.raw = server.file
  BY <1>1, <1>2 DEF Current, EditShowsFile
<1>4. /\ EditForm(view.values) /\ EditForm(Editor!Parse(server.file))
      /\ DOMAIN Editor!Parse(server.file) = Editor!KeysOf(server.file)
  BY EditParseIs DEF Filled, EditIsView, EditIsServer
<1>5. DOMAIN view.values = DOMAIN Editor!Parse(server.file)
  BY <1>3, <1>4 DEF EditAgree, EditForm
<1>6. \A k \in DOMAIN view.values : view.values[k] = Editor!Parse(server.file)[k]
  BY <1>3, <1>4 DEF EditAgree, EditForm
<1> HIDE DEF Editor!Parse
<1> QED
  BY <1>3, <1>4, <1>5, <1>6 DEF EditForm

(***************************************************************************)
(* A form that is saved changes no value that was not edited.              *)
(***************************************************************************)
LEMMA EditFormWrites ==
    ASSUME Filled, Current, page = "properties" => calm, EditorStep
    PROVE  Editor!FormSaveWritesOnlyEdits
<1> SUFFICES ASSUME NEW s \in Slots, calls[s].at = "read", calls'[s].at = "answered",
                    server.file = calls[s].read
             PROVE  LET was == Editor!Parse(server.file)
                        now == Editor!Parse(server'.file)
                        written == {k \in calls[s].edited \intersect DOMAIN calls[s].updates :
                                      Editor!Cardinality(Editor!At(calls[s].read, k)) < 2}
                    IN /\ \A k \in Keys \ written :
                            (k \in DOMAIN was <=> k \in DOMAIN now) /\ (k \in DOMAIN was => now[k] = was[k])
                       /\ calls'[s].ok => \A k \in written : now[k] = calls[s].updates[k]
  BY DEF Editor!FormSaveWritesOnlyEdits
<1> DEFINE c == calls[s]
           new == Editor!Applied(c.read, c.updates)
<1>1. EditIsCall(c) /\ c.kind = "form" /\ EditParsed(c.read) /\ c.read \in EditFile /\ EditForm(c.updates)
        /\ c # Editor!NoCall
  BY DEF Filled, Editor!NoCall, EditIsCall, EditParsed
<1>2. Editor!Serve(s)
  <2>1. ~UNCHANGED vars
    BY DEF vars
  <2>2. ~Editor!Elsewhere
    BY DEF Editor!Elsewhere
  <2>3. ~Editor!Acts
    <3>1. \A v : ~Editor!Shows(v)
      BY DEF Editor!Shows
    <3>2. \A call, v : ~Editor!Begins(call, v)
      <4> SUFFICES ASSUME NEW call, NEW v, Editor!Begins(call, v) PROVE FALSE
        OBVIOUS
      <4>1. Editor!FreeSlot # s /\ calls'[s] = calls[s]
        BY <1>1, EditSentCurrent
      <4> QED
        BY <4>1
    <3>3. \A k, value : ~Editor!Typed(k, value)
      BY <3>1 DEF Editor!Typed
    <3>4. \A updates : ~Editor!Saves(updates)
      BY <3>2 DEF Editor!Saves
    <3>5. ~Editor!PropertiesTab
      BY <3>1, <3>3, <3>4 DEF Editor!PropertiesTab, Editor!PropertiesForm, Editor!AskName,
         Editor!NameGiven, Editor!PropertiesSave
    <3>6. ~Editor!YamlTab
      BY <3>1, <3>2, <3>3, <3>4 DEF Editor!YamlTab, Editor!YamlForm, Editor!YamlSave, Editor!YamlRestart,
         Editor!Applies, Editor!Dismiss
    <3>7. ~Editor!MotdTab
      BY <3>2, <3>3, <3>4 DEF Editor!MotdTab, Editor!MotdForm, Editor!MotdSave, Editor!MotdReload,
         Editor!Applies
    <3> QED
      BY <3>1, <3>2, <3>5, <3>6, <3>7 DEF Editor!Acts, Editor!TypeText, Editor!ChangeMode, Editor!Retry
  <2>4. \A t \in Slots : ~Editor!Deliver(t)
    <3> SUFFICES ASSUME NEW t \in Slots, Editor!Deliver(t) PROVE FALSE
      OBVIOUS
    <3>1. calls' = [calls EXCEPT ![t] = Editor!NoCall] /\ calls[t].at = "answered"
      BY DEF Editor!Deliver, Editor!Ends, Editor!Arrives
    <3> QED
      BY <3>1 DEF Filled, Editor!NoCall
  <2>5. \A t \in Slots : ~Editor!Read(t)
    <3> SUFFICES ASSUME NEW t \in Slots, Editor!Read(t) PROVE FALSE
      OBVIOUS
    <3>1. calls' = [calls EXCEPT ![t].at = "read", ![t].read = server.file] /\ calls[t].at = "sent"
      BY DEF Editor!Read
    <3> QED
      BY <3>1 DEF Filled
  <2>6. \A t \in Slots : Editor!Serve(t) => t = s
    <3> SUFFICES ASSUME NEW t \in Slots, Editor!Serve(t), t # s PROVE FALSE
      OBVIOUS
    <3>1. \E ok, doc : Editor!Answer(t, ok, doc)
      BY DEF Editor!Serve, Editor!Write, Editor!PropertiesPut, Editor!YamlPut, Editor!MotdPut, Editor!Stored
    <3>2. calls'[s] = calls[s]
      BY <3>1 DEF Editor!Answer, Filled
    <3> QED
      BY <3>2
  <2> QED
    BY <2>1, <2>2, <2>3, <2>4, <2>5, <2>6 DEF EditorStep, Editor!Next
<1>3. server'.file = new \/ (server' = server /\ calls'[s].ok = FALSE)
  <2>1. \A file : Editor!Write(s, file) => server'.file = file
    <3> SUFFICES ASSUME NEW file, Editor!Write(s, file) PROVE server'.file = file
      OBVIOUS
    <3>1. server' = [server EXCEPT !.file = file] \/ server' = [file |-> file, stale |-> TRUE]
      BY DEF Editor!Write, Editor!PropertiesPut, Editor!YamlPut, Editor!MotdPut
    <3>2. EditIsServer(server)
      BY DEF Filled
    <3> QED
      BY <3>1, <3>2 DEF EditIsServer
  <2>2. Editor!Write(s, new) \/ (UNCHANGED server /\ Editor!Answer(s, FALSE, <<>>))
    BY <1>2 DEF Editor!Serve
  <2>3. Editor!Answer(s, FALSE, <<>>) => calls'[s].ok = FALSE
    BY <1>1 DEF Editor!Answer, Filled, EditIsCall
  <2> HIDE DEF new
  <2> QED
    BY <2>1, <2>2, <2>3
<1>4. /\ Editor!KeysOf(new) = Editor!KeysOf(c.read) \union DOMAIN c.updates
      /\ \A k \in Editor!KeysOf(c.read) \ DOMAIN c.updates : Editor!Parse(new)[k] = Editor!Parse(c.read)[k]
      /\ \A k \in Editor!KeysOf(c.read) \intersect DOMAIN c.updates :
           c.updates[k] = Editor!Parse(c.read)[k] => Editor!Parse(new)[k] = Editor!Parse(c.read)[k]
      /\ \A k \in DOMAIN c.updates : EditOnce(c.read, k) => Editor!Parse(new)[k] = c.updates[k]
      /\ \A k \in Editor!KeysOf(c.read) : ~EditOnce(c.read, k) => Editor!Parse(new)[k] = Editor!Parse(c.read)[k]
  BY <1>1, EditAppliedIs
<1>5. DOMAIN Editor!Parse(new) = Editor!KeysOf(new) /\ DOMAIN Editor!Parse(c.read) = Editor!KeysOf(c.read)
  BY DEF Editor!Parse
<1>6. \A k : Editor!Cardinality(Editor!At(c.read, k)) < 2 <=> EditOnce(c.read, k)
  BY <1>1, EditOnceCounted
<1>7. \A k \in Keys \ c.edited : k \in DOMAIN c.updates =>
        page = "properties" /\ k \in Editor!KeysOf(c.read) /\ c.updates[k] = Editor!Parse(c.read)[k]
  <2>1. CASE page # "properties"
    BY <1>1, <2>1 DEF EditIsCall
  <2>2. CASE page = "properties"
    BY <1>1, <2>2 DEF Current, EditSendsFile, EditAgree
  <2> QED
    BY <2>1, <2>2
<1> DEFINE written == {k \in c.edited \intersect DOMAIN c.updates : Editor!Cardinality(Editor!At(c.read, k)) < 2}
<1>10. \A k \in Keys \ written : k \in DOMAIN c.updates =>
         k \in Editor!KeysOf(c.read) /\ (~EditOnce(c.read, k) \/ c.updates[k] = Editor!Parse(c.read)[k])
  <2> SUFFICES ASSUME NEW k \in Keys \ written, k \in DOMAIN c.updates
               PROVE  k \in Editor!KeysOf(c.read) /\ (~EditOnce(c.read, k) \/ c.updates[k] = Editor!Parse(c.read)[k])
    OBVIOUS
  <2>1. CASE k \notin c.edited
    BY <1>7, <2>1
  <2>2. CASE k \in c.edited
    <3>1. ~EditOnce(c.read, k)
      BY <1>6, <2>2
    <3>2. k \in Editor!KeysOf(c.read)
      BY <1>1, <3>1, EditKeysAt, LinesAssumption DEF EditOnce
    <3> QED
      BY <3>1, <3>2
  <2> QED
    BY <2>1, <2>2
<1>11. \A k \in written : k \in DOMAIN c.updates /\ EditOnce(c.read, k)
  BY <1>6
<1> HIDE DEF new, written
<1>8. CASE server'.file = new
  <2>1. \A k \in Keys \ written : k \in Editor!KeysOf(new) <=> k \in Editor!KeysOf(c.read)
    BY <1>4, <1>10
  <2>2. \A k \in Keys \ written : k \in Editor!KeysOf(c.read) => Editor!Parse(new)[k] = Editor!Parse(c.read)[k]
    BY <1>4, <1>10
  <2>3. \A k \in written : Editor!Parse(new)[k] = c.updates[k]
    BY <1>4, <1>11
  <2> QED
    BY <1>5, <1>8, <2>1, <2>2, <2>3 DEF written
<1>9. CASE server' = server /\ calls'[s].ok = FALSE
  BY <1>9
<1> QED
  BY <1>3, <1>8, <1>9

-----------------------------------------------------------------------------
(***************************************************************************)
(* The banner of a YAML file: what made the file wait for a restart has    *)
(* shown it, or is an answer under way, and no restart came after it.      *)
(***************************************************************************)
EditAnnounces(i) ==
    IF i = 0 THEN view.banner # "none" ELSE Waiting(i).kind \in {"form", "text"} /\ Waiting(i).ok = TRUE
EditRestarts(i) == Waiting(i).kind = "apply" /\ Waiting(i).ok = TRUE

Announced ==
    calm /\ server.stale =>
        /\ page = "yaml"
        /\ \E i \in 0..Len(order) : EditAnnounces(i) /\ \A j \in i + 1..Len(order) : ~EditRestarts(j)

\* What a step does to the queue.
LEMMA EditActsQueue ==
    ASSUME Filled, Editor!Acts
    PROVE  Untouched /\ server' = server /\ page' = page
<1>1. \A v : Editor!Shows(v) => Untouched /\ server' = server /\ page' = page
  BY DEF Editor!Shows, Untouched
<1>2. ASSUME NEW call, NEW v, call.at = "sent", Editor!Begins(call, v)
      PROVE  Untouched /\ server' = server /\ page' = page
  <2>1. Editor!FreeSlot \in Slots /\ calls[Editor!FreeSlot] = Editor!NoCall
          /\ calls' = [calls EXCEPT ![Editor!FreeSlot] = call]
    BY <1>2, EditFree DEF Editor!Begins
  <2>2. calls[Editor!FreeSlot].at # "answered" /\ calls'[Editor!FreeSlot].at # "answered"
    BY <1>2, <2>1 DEF Editor!NoCall, Filled
  <2> QED
    BY <1>2, <2>1, <2>2 DEF Editor!Begins, Editor!Send, Untouched, Filled
<1>3. \A kind, updates, edited, text : Editor!Request(kind, updates, edited, text).at = "sent"
  BY DEF Editor!Request
<1>4. \A k, value : Editor!Typed(k, value) => Untouched /\ server' = server /\ page' = page
  BY <1>1 DEF Editor!Typed
<1>5. \A updates : Editor!Saves(updates) \/ Editor!Applies => Untouched /\ server' = server /\ page' = page
  <2>1. \A updates : Editor!Saves(updates) => Untouched /\ server' = server /\ page' = page
    BY <1>2, <1>3 DEF Editor!Saves
  <2>2. Editor!Applies => Untouched /\ server' = server /\ page' = page
    BY <1>2, <1>3 DEF Editor!Applies
  <2> QED
    BY <2>1, <2>2
<1>6. CASE Editor!PropertiesTab
  BY <1>1, <1>4, <1>5, <1>6 DEF Editor!PropertiesTab, Editor!PropertiesForm, Editor!AskName,
     Editor!NameGiven, Editor!PropertiesSave
<1>7. CASE Editor!YamlTab
  BY <1>1, <1>4, <1>5, <1>7 DEF Editor!YamlTab, Editor!YamlForm, Editor!YamlSave, Editor!YamlRestart,
     Editor!Dismiss
<1>8. CASE Editor!MotdTab
  BY <1>4, <1>5, <1>8 DEF Editor!MotdTab, Editor!MotdForm, Editor!MotdSave, Editor!MotdReload
<1>9. CASE Editor!TypeText \/ Editor!ChangeMode
  BY <1>1, <1>9 DEF Editor!TypeText, Editor!ChangeMode
<1>10. CASE Editor!Retry
  BY <1>2, <1>3, <1>10 DEF Editor!Retry, Editor!Load
<1> QED
  BY <1>6, <1>7, <1>8, <1>9, <1>10 DEF Editor!Acts

LEMMA EditReadQueue ==
    ASSUME Filled, NEW s \in Slots, Editor!Read(s)
    PROVE  Untouched /\ server' = server /\ view' = view /\ page' = page
<1>1. calls' = [calls EXCEPT ![s].at = "read", ![s].read = server.file] /\ calls[s].at = "sent"
        /\ order' = order
  BY DEF Editor!Read
<1>2. \A t \in Slots : calls'[t] = calls[t] \/ (calls[t].at # "answered" /\ calls'[t].at # "answered")
  <2>1. calls'[s].at = "read"
    <3>1. EditIsCall(calls[s])
      BY <1>1 DEF Filled, Editor!NoCall
    <3> QED
      BY <1>1, <3>1 DEF Filled, EditIsCall
  <2> QED
    BY <1>1, <2>1 DEF Filled
<1> QED
  BY <1>1, <1>2 DEF Editor!Read, Untouched

LEMMA EditServeQueue ==
    ASSUME Filled, calm, NEW s \in Slots, Editor!Serve(s)
    PROVE  /\ Appended(s) /\ view' = view /\ page' = page
           /\ calls'[s].kind = calls[s].kind
           /\ server'.stale => \/ server.stale /\ (calls'[s].kind = "apply" => ~calls'[s].ok)
                               \/ page = "yaml" /\ calls'[s].kind \in {"form", "text"} /\ calls'[s].ok = TRUE
<1> DEFINE c == calls[s]
<1>1. EditIsCall(c) /\ c.at # "answered"
  <2>1. c.at \in {"sent", "read"}
    BY DEF Editor!Serve
  <2> QED
    BY <2>1 DEF Filled, Editor!NoCall
<1>2. ASSUME NEW ok, NEW doc, Editor!Answer(s, ok, doc)
      PROVE  Appended(s) /\ view' = view /\ page' = page /\ calls'[s].kind = c.kind /\ calls'[s].ok = ok
  <2>1. /\ calls' = [calls EXCEPT ![s] = [calls[s] EXCEPT !.at = "answered", !.ok = ok, !.doc = doc]]
        /\ order' = Append(order, s) /\ view' = view /\ page' = page
    BY <1>2 DEF Editor!Answer
  <2>2. calls'[s] = [calls[s] EXCEPT !.at = "answered", !.ok = ok, !.doc = doc]
    BY <2>1 DEF Filled
  <2>3. calls' = [calls EXCEPT ![s] = calls'[s]]
    BY <2>1, <2>2
  <2>4. calls'[s].at = "answered" /\ calls'[s].kind = c.kind /\ calls'[s].ok = ok
    BY <1>1, <2>2 DEF EditIsCall
  <2> QED
    BY <1>1, <2>1, <2>3, <2>4 DEF Appended
<1>3. EditIsServer(server)
  BY DEF Filled
<1>4. CASE \E file : Editor!Write(s, file) /\ c.kind \in {"form", "text"}
  <2>1. PICK file : Editor!Write(s, file)
    BY <1>4
  <2>2. Editor!Answer(s, TRUE, file)
    BY <2>1 DEF Editor!Write, Editor!PropertiesPut, Editor!YamlPut, Editor!MotdPut, Editor!Stored
  <2>3. page = "yaml" \/ server' = [server EXCEPT !.file = file]
    BY <2>1 DEF Editor!Write, Editor!PropertiesPut, Editor!MotdPut
  <2>4. server'.stale => server.stale \/ page = "yaml"
    BY <1>3, <2>3 DEF EditIsServer
  <2> QED
    BY <1>2, <1>4, <2>2, <2>4
<1>5. CASE c.kind = "load" /\ UNCHANGED server /\ Editor!Answer(s, TRUE, server.file)
  BY <1>2, <1>5
<1>6. CASE server' = [server EXCEPT !.stale = FALSE] /\ Editor!Answer(s, TRUE, <<>>)
  <2>1. server'.stale = FALSE
    BY <1>3, <1>6 DEF EditIsServer
  <2> QED
    BY <1>2, <1>6, <2>1
<1>7. CASE UNCHANGED server /\ Editor!Answer(s, FALSE, <<>>)
  BY <1>2, <1>7
<1>8. c.at = "read" => c.kind = "form"
  BY <1>1 DEF EditIsCall
<1> QED
  BY <1>4, <1>5, <1>6, <1>7, <1>8 DEF Editor!Serve

LEMMA EditDeliverQueue ==
    ASSUME Filled, calm, NEW s \in Slots, Editor!Deliver(s)
    PROVE  Taken(s) /\ server' = server /\ page' = page
<1>1. /\ calls' = [calls EXCEPT ![s] = Editor!NoCall] /\ calls[s].at = "answered" /\ Head(order) = s
      /\ order' = Tail(order) /\ server' = server /\ page' = page
  BY DEF Editor!Deliver, Editor!Ends, Editor!Arrives
<1>2. calls'[s] = Editor!NoCall /\ Editor!NoCall.at # "answered"
  BY <1>1 DEF Filled, Editor!NoCall
<1> QED
  BY <1>1, <1>2 DEF Taken

LEMMA EditNextQueued ==
    ASSUME Filled, Queued, EditorStep
    PROVE  Queued'
<1>1. calm' = calm
  <2>1. CASE UNCHANGED vars
    BY <2>1 DEF vars
  <2> QED
    BY <2>1, EditorFixed DEF EditorStep, Fixed
<1> SUFFICES ASSUME calm PROVE Queued'
  BY <1>1 DEF Queued
<1>2. calls = [t \in Slots |-> calls[t]]
  BY DEF Filled
<1>3. CASE UNCHANGED vars
  BY <1>3 DEF vars, Queued
<1>4. CASE Editor!Acts
  BY <1>1, <1>4, EditActsQueue, RestQueued
<1>5. ASSUME NEW s \in Slots, Editor!Read(s) PROVE Queued'
  BY <1>1, <1>5, EditReadQueue, RestQueued
<1>6. ASSUME NEW s \in Slots, Editor!Serve(s) PROVE Queued'
  BY <1>1, <1>2, <1>6, EditServeQueue, AnswerQueued
<1>7. ASSUME NEW s \in Slots, Editor!Deliver(s) PROVE Queued'
  BY <1>1, <1>2, <1>7, EditDeliverQueue, ArrivalQueued
<1>8. ~Editor!Elsewhere
  BY DEF Editor!Elsewhere
<1> QED
  BY <1>3, <1>4, <1>5, <1>6, <1>7, <1>8 DEF Editor!Next, EditorStep

LEMMA EditInitQueued == Editor!Init => Queued
<1> SUFFICES ASSUME Editor!Init PROVE Queued
  OBVIOUS
<1>1. \A s \in Slots : calls[s].at # "answered"
  <2>1. PICK s : calls = [t \in Slots |-> IF t = s THEN Editor!Load ELSE Editor!NoCall]
    BY DEF Editor!Init
  <2> QED
    BY <2>1 DEF Editor!Load, Editor!Request, Editor!NoCall
<1>2. order = <<>>
  BY DEF Editor!Init
<1> QED
  BY <1>1, <1>2, EmptySeq DEF Queued

LEMMA EditNextAnnounced ==
    ASSUME Filled, Queued, Announced, EditorStep
    PROVE  Announced'
<1>1. calm' = calm
  <2>1. CASE UNCHANGED vars
    BY <2>1 DEF vars
  <2> QED
    BY <2>1, EditorFixed DEF EditorStep, Fixed
<1> SUFFICES ASSUME calm, server'.stale PROVE Announced'
  BY <1>1 DEF Announced
<1>2. calls = [t \in Slots |-> calls[t]]
  BY DEF Filled
<1>3. order \in Seq(Slots) /\ Len(order) \in Nat
  BY QueueIs
<1>4. CASE UNCHANGED vars
  BY <1>4 DEF vars, Announced, EditAnnounces, EditRestarts, Waiting
<1>5. ASSUME Untouched, server' = server, page' = page, view.banner # "none" => view'.banner # "none"
      PROVE  Announced'
  <2>1. PICK i \in 0..Len(order) : EditAnnounces(i) /\ \A j \in i + 1..Len(order) : ~EditRestarts(j)
    BY <1>5 DEF Announced
  <2>2. order' = order /\ \A j \in 1..Len(order) : Waiting(j)' = Waiting(j)
    BY <1>1, <1>5, RestQueued DEF Untouched
  <2>3. i \in 0..Len(order') /\ EditAnnounces(i)'
    BY <1>3, <1>5, <2>1, <2>2 DEF EditAnnounces
  <2>4. \A j \in i + 1..Len(order') : ~EditRestarts(j)'
    BY <1>3, <2>1, <2>2 DEF EditRestarts
  <2> QED
    BY <1>5, <2>3, <2>4 DEF Announced
<1>6. CASE Editor!Acts
  <2>1. Untouched /\ server' = server /\ page' = page
    BY <1>6, EditActsQueue
  <2>2. view.banner # "none" => view'.banner # "none"
    <3>1. \A call, v : v.banner = view.banner /\ Editor!Begins(call, v) => view'.banner = view.banner
      BY DEF Editor!Begins
    <3>2. \A v : Editor!Shows(v) => view' = v
      BY DEF Editor!Shows
    <3>3. view = [mode |-> view.mode, values |-> view.values, touched |-> view.touched, raw |-> view.raw,
                  rawDirty |-> view.rawDirty, loading |-> view.loading, failed |-> view.failed,
                  saving |-> view.saving, applying |-> view.applying, banner |-> view.banner, dialog |-> view.dialog]
      BY DEF Filled, EditIsView
    <3>4. \A k, value : Editor!Typed(k, value) => view'.banner = view.banner
      BY <3>2, <3>3 DEF Editor!Typed
    <3>5. \A updates : Editor!Saves(updates) \/ Editor!Applies => view'.banner = view.banner
      BY <3>3 DEF Editor!Saves, Editor!Applies, Editor!Begins
    <3>6. CASE Editor!PropertiesTab
      BY <3>2, <3>3, <3>4, <3>5, <3>6 DEF Editor!PropertiesTab, Editor!PropertiesForm, Editor!AskName,
         Editor!NameGiven, Editor!PropertiesSave
    <3>7. CASE Editor!YamlTab
      BY <3>2, <3>3, <3>4, <3>5, <3>7 DEF Editor!YamlTab, Editor!YamlForm, Editor!YamlSave,
         Editor!YamlRestart, Editor!Dismiss
    <3>8. CASE Editor!MotdTab
      BY <3>4, <3>5, <3>8 DEF Editor!MotdTab, Editor!MotdForm, Editor!MotdSave, Editor!MotdReload
    <3>9. CASE Editor!TypeText \/ Editor!ChangeMode \/ Editor!Retry
      BY <3>2, <3>3, <3>9 DEF Editor!TypeText, Editor!ChangeMode, Editor!Retry, Editor!Begins
    <3> QED
      BY <1>6, <3>6, <3>7, <3>8, <3>9 DEF Editor!Acts
  <2> QED
    BY <1>5, <2>1, <2>2
<1>7. ASSUME NEW s \in Slots, Editor!Read(s) PROVE Announced'
  BY <1>5, <1>7, EditReadQueue
<1>8. ASSUME NEW s \in Slots, Editor!Serve(s) PROVE Announced'
  <2>1. /\ Appended(s) /\ view' = view /\ page' = page /\ calls'[s].kind = calls[s].kind
        /\ \/ server.stale /\ (calls'[s].kind = "apply" => ~calls'[s].ok)
           \/ page = "yaml" /\ calls'[s].kind \in {"form", "text"} /\ calls'[s].ok = TRUE
    BY <1>8, EditServeQueue
  <2>2. /\ Len(order') = Len(order) + 1
        /\ \A j \in 1..Len(order) : Waiting(j)' = Waiting(j)
        /\ \A j \in 1..Len(order') : j \in 1..Len(order) \/ (j = Len(order) + 1 /\ Waiting(j)' = calls'[s])
    BY <1>1, <1>2, <2>1, AnswerQueued
  <2>3. CASE page = "yaml" /\ calls'[s].kind \in {"form", "text"} /\ calls'[s].ok = TRUE
    <3> DEFINE n == Len(order) + 1
    <3>1. n \in 1..Len(order') /\ n \notin 1..Len(order)
      BY <1>3, <2>2
    <3>2. \A j \in 1..Len(order') : j = n => Waiting(j)' = calls'[s]
      BY <2>2, <3>1
    <3>3. \A j \in 1..Len(order') : j = n => EditAnnounces(j)'
      BY <1>3, <2>3, <3>2 DEF EditAnnounces
    <3>4. n \in 0..Len(order') /\ \A j \in n + 1..Len(order') : FALSE
      BY <1>3, <2>2
    <3> HIDE DEF n
    <3>5. \E i \in 0..Len(order') : EditAnnounces(i)' /\ \A j \in i + 1..Len(order') : ~EditRestarts(j)'
      BY <3>1, <3>3, <3>4
    <3> QED
      BY <2>1, <2>3, <3>5 DEF Announced
  <2>4. CASE server.stale /\ (calls'[s].kind = "apply" => ~calls'[s].ok)
    <3>1. PICK i \in 0..Len(order) : EditAnnounces(i) /\ \A j \in i + 1..Len(order) : ~EditRestarts(j)
      BY <2>4 DEF Announced
    <3>2. i \in 0..Len(order') /\ EditAnnounces(i)'
      BY <1>3, <2>1, <2>2, <3>1 DEF EditAnnounces
    <3>3. ASSUME NEW j \in i + 1..Len(order') PROVE ~EditRestarts(j)'
      <4>1. j \in 1..Len(order')
        BY <1>3, <2>2, <3>1
      <4>2. CASE j \in 1..Len(order)
        <5>1. j \in i + 1..Len(order) /\ Waiting(j)' = Waiting(j)
          BY <1>3, <2>2, <3>1, <4>2
        <5> QED
          BY <3>1, <5>1 DEF EditRestarts
      <4>3. CASE j = Len(order) + 1 /\ Waiting(j)' = calls'[s]
        BY <2>4, <4>3 DEF EditRestarts
      <4> QED
        BY <2>2, <4>1, <4>2, <4>3
    <3> QED
      BY <2>1, <2>4, <3>2, <3>3 DEF Announced
  <2> QED
    BY <2>1, <2>3, <2>4
<1>9. ASSUME NEW s \in Slots, Editor!Deliver(s) PROVE Announced'
  <2>1. Taken(s) /\ server' = server /\ page' = page
    BY <1>9, EditDeliverQueue
  <2>2. /\ Len(order) # 0 /\ Waiting(1) = calls[s] /\ Len(order') = Len(order) - 1
        /\ \A j \in 1..Len(order') : j + 1 \in 1..Len(order) /\ Waiting(j)' = Waiting(j + 1)
    BY <1>1, <1>2, <2>1, ArrivalQueued
  <2>3. PICK i \in 0..Len(order) : page = "yaml" /\ EditAnnounces(i)
          /\ \A j \in i + 1..Len(order) : ~EditRestarts(j)
    BY <2>1 DEF Announced
  <2>4. \/ view'.banner = view.banner \/ view'.banner = "shown"
        \/ Waiting(1).kind = "apply" /\ Waiting(1).ok = TRUE
    <3>1. EditIsCall(calls[s])
      BY <2>1 DEF Taken, Filled, Editor!NoCall
    <3>2. calls[s].kind # "apply" => calls[s].kind = "load" \/ calls[s].kind \notin {"load", "apply"}
      OBVIOUS
    <3>3. ASSUME NEW v, v \in {view, Editor!Reloaded(calls[s].doc)}
          PROVE  /\ [v EXCEPT !.loading = FALSE, !.failed = ~calls[s].ok].banner = view.banner
                 /\ [v EXCEPT !.saving = FALSE, !.banner = "shown"].banner = "shown"
                 /\ [v EXCEPT !.saving = FALSE, !.banner = view.banner].banner = view.banner
                 /\ v.banner = view.banner
      BY <3>3 DEF Filled, EditIsView, Editor!Reloaded
    <3>4. CASE calls[s].kind = "apply"
      BY <1>9, <2>2, <3>1, <3>4 DEF Editor!Deliver, EditIsCall, Filled, EditIsView
    <3>5. CASE calls[s].kind = "load"
      BY <1>9, <3>3, <3>5 DEF Editor!Deliver, Editor!Loaded
    <3>6. CASE calls[s].kind \notin {"load", "apply"}
      BY <1>9, <2>3, <3>1, <3>3, <3>6 DEF Editor!Deliver, Editor!SaveArrived, EditIsCall
    <3> QED
      BY <3>4, <3>5, <3>6
  <2>5. CASE i \in {0, 1}
    <3>1. view'.banner # "none"
      <4>1. CASE i = 0
        <5>1. 1 \in i + 1..Len(order)
          BY <1>3, <2>2, <4>1
        <5> QED
          BY <2>3, <2>4, <4>1, <5>1 DEF EditAnnounces, EditRestarts
      <4>2. CASE i = 1
        <5>1. calls[s].kind \in {"form", "text"} /\ calls[s].ok = TRUE
          BY <2>2, <2>3, <4>2 DEF EditAnnounces
        <5>2. view' = [Editor!Reloaded(calls[s].doc) EXCEPT !.saving = FALSE, !.banner = "shown"]
          BY <1>9, <2>3, <5>1 DEF Editor!Deliver, Editor!SaveArrived
        <5> QED
          BY <5>2 DEF Editor!Reloaded, Filled, EditIsView
      <4> QED
        BY <2>5, <4>1, <4>2
    <3>2. ASSUME NEW j \in 1..Len(order') PROVE ~EditRestarts(j)'
      <4>1. j + 1 \in i + 1..Len(order) /\ Waiting(j)' = Waiting(j + 1)
        BY <1>3, <2>2, <2>5
      <4> QED
        BY <2>3, <4>1 DEF EditRestarts
    <3>3. 0 \in 0..Len(order')
      BY <1>3, <2>2
    <3>4. \A k \in 0..Len(order') : k = 0 =>
            EditAnnounces(k)' /\ \A j \in k + 1..Len(order') : ~EditRestarts(j)'
      BY <3>1, <3>2 DEF EditAnnounces
    <3>5. \E k \in 0..Len(order') : EditAnnounces(k)' /\ \A j \in k + 1..Len(order') : ~EditRestarts(j)'
      BY <3>3, <3>4
    <3> QED
      BY <2>1, <2>3, <3>5 DEF Announced
  <2>6. CASE i \notin {0, 1}
    <3>1. i - 1 \in 1..Len(order') /\ i - 1 + 1 = i /\ i - 1 \in 0..Len(order') /\ i - 1 # 0
      BY <1>3, <2>2, <2>6
    <3>2. \A k \in 1..Len(order') : k + 1 = i => EditAnnounces(k)'
      BY <1>3, <2>2, <2>3 DEF EditAnnounces
    <3>3. ASSUME NEW j \in i - 1 + 1..Len(order') PROVE ~EditRestarts(j)'
      <4>1. j \in 1..Len(order') /\ j + 1 \in i + 1..Len(order) /\ Waiting(j)' = Waiting(j + 1)
        BY <1>3, <2>2, <3>1
      <4> QED
        BY <2>3, <4>1 DEF EditRestarts
    <3>4. \E k \in 0..Len(order') : EditAnnounces(k)' /\ \A j \in k + 1..Len(order') : ~EditRestarts(j)'
      BY <3>1, <3>2, <3>3
    <3> QED
      BY <2>1, <2>3, <3>4 DEF Announced
  <2> QED
    BY <2>5, <2>6
<1>10. ~Editor!Elsewhere
  BY DEF Editor!Elsewhere
<1> QED
  BY <1>4, <1>6, <1>7, <1>8, <1>9, <1>10 DEF Editor!Next, EditorStep

LEMMA EditInitAnnounced == Editor!Init => Announced
<1> SUFFICES ASSUME Editor!Init PROVE ~server.stale
  BY DEF Announced
<1>1. \E f : server = [file |-> f, stale |-> FALSE]
  BY DEF Editor!Init
<1> QED
  BY <1>1

LEMMA EditBannerShown ==
    ASSUME Filled, Queued, Announced, calm
    PROVE  Editor!RestartAnnounced
<1> SUFFICES ASSUME Editor!Quiet, server.stale PROVE view.banner # "none"
  BY DEF Editor!RestartAnnounced
<1>1. Len(order) \in Nat /\ \A i \in 1..Len(order) : order[i] \in Slots /\ calls[order[i]].at = "answered"
  BY QueueIs
<1>2. \A i \in 1..Len(order) : FALSE
  BY <1>1 DEF Editor!Quiet, Editor!NoCall
<1>3. Len(order) = 0
  BY <1>1, <1>2
<1> QED
  BY <1>3 DEF Announced, EditAnnounces
=============================================================================
