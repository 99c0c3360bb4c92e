----------------------------- MODULE LuckPermsTab -----------------------------
(***************************************************************************)
(* The LuckPerms tab (sidebar, and a panel for the group, user or track    *)
(* that is selected), the luckperms routes, and what they ask of the       *)
(* LuckPerms REST API, which is external.                                  *)
(*                                                                         *)
(* What the API keeps for an entity (docs) is a set of nodes for a group   *)
(* or a user and an ordered list of groups for a track.  Nodes are a       *)
(* permission, a prefix, a piece of metadata, the groups that are parents, *)
(* and the weights and the display names (titles) a group may have.        *)
(***************************************************************************)
EXTENDS PanelRequests, FiniteSets, SequencesExt

CONSTANTS Groups, Track, User, Weights, Titles, Perm, Prefix, Meta, Gone, None,
    Api             \* what the API may have at the start

Entities == Groups \union {Track, User}
Nodes(e) == {Perm, Prefix, Meta} \union Groups \union IF e = User THEN {} ELSE Weights \union Titles
IsDoc(e, doc) == doc = Gone \/ IF e = Track THEN doc \in Seq(Groups) ELSE doc \subseteq Nodes(e)

TypeOK ==
    /\ \A e \in Entities : IsDoc(e, server[e])
    /\ view.health \in {"checking", "unset", "down", "up"}
    /\ view.selected \in Entities \union {None, "search", "browse"}
    /\ view.lists \subseteq Groups \union {Track} /\ view.recent \union view.found \subseteq Entities
    /\ view.shown.of \in Entities => IsDoc(view.shown.of, view.shown.doc)
    /\ view.busy \subseteq {"track", "weight", "title", "move", "delete", "lookup", "search"}

Call(kind, e, value, key) ==
    [at |-> "sent", kind |-> kind, of |-> e, value |-> value, seen |-> Gone, key |-> key,
     mounted |-> TRUE, ok |-> FALSE, doc |-> Gone]
Lists == Call("lists", User, Gone, "none")
NothingShown == [of |-> None, doc |-> Gone]

Init ==
    /\ page = "luckperms"
    /\ server \in Api
    /\ view = [health |-> "checking", lists |-> {}, listsLoading |-> FALSE, listsFailed |-> FALSE,
               selected |-> None, shown |-> NothingShown, loading |-> FALSE, failed |-> FALSE,
               busy |-> {}, recent |-> {}, found |-> {}, dialog |-> NoCall]
    /\ LET s == CHOOSE t \in Slots : TRUE IN
       calls = [t \in Slots |-> IF t = s THEN Call("health", User, Gone, "none") ELSE NoCall]
    /\ order = <<>> /\ acts = 0 /\ calm \in BOOLEAN

-----------------------------------------------------------------------------
(* The selection.  A panel has its entity as its key: another selection is *)
(* another panel, and what the old one still waits for no longer shows.    *)

Edits == {"add", "remove", "weight", "title", "move", "set", "delete"}
EditInFlight == \E s \in Slots : calls[s] # NoCall /\ calls[s].kind \in Edits

\* Slip: the panel has no key.
UnmountedNone(s) == calls[s]
Unmounted(s) ==
    IF calls[s] = NoCall \/ calls[s].kind \notin Edits \union {"load", "search", "browse"} THEN calls[s]
    ELSE [calls[s] EXCEPT !.mounted = FALSE]
\* UsersBrowserPanel lists the users when it is mounted.
Browse == Call("browse", User, Gone, "none")
Panel(v, e) ==
    [v EXCEPT !.selected = e, !.shown = NothingShown, !.loading = e \in Entities, !.failed = FALSE,
                 !.busy = @ \intersect {"lookup"}, !.found = {}]

\* setSelected(): the effect of the new panel uses the slot given.
Mounts(e, s) ==
    calls' = [t \in Slots |->
                 IF t # s THEN Unmounted(t)
                 ELSE IF e \in Entities THEN Call("load", e, Gone, "none")
                 ELSE IF e = "browse" THEN Browse ELSE NoCall]
Clear == view.health = "up" /\ view.dialog = NoCall
Sidebar == Clear /\ ~view.listsFailed /\ (view.listsLoading => view.lists # {})
Offered == IF Sidebar THEN view.lists \union view.recent \union {"search", "browse"} ELSE {}
Select ==
    /\ Clear /\ Acting /\ \E s \in Slots : calls[s] = NoCall
    /\ calm => ~EditInFlight
    /\ \E e \in (Offered \union view.found) \ {view.selected} :
         Mounts(e, FreeSlot) /\ view' = Panel(view, e)
    /\ UNCHANGED <<page, calm, server, order>>

-----------------------------------------------------------------------------
(* What the user can do *)

Begins(call) == Acting /\ Send(call) /\ view' = [view EXCEPT !.busy = @ \union ({call.key} \ {"none"})]
Open(e) == Clear /\ view.selected = e /\ ~view.loading /\ ~view.failed
Shows(newView) == view' = newView /\ UNCHANGED <<page, calm, server, calls, order, acts>>

\* onAdd() and onRemove(): a node of the group or the user that is open.
AddNode(n) == \E e \in Groups \union {User} : Open(e) /\ n \in Nodes(e) /\ Begins(Call("add", e, n, "none"))
RemoveNode(n) ==
    \E e \in Groups \union {User} : Open(e) /\ n \in view.shown.doc /\ Begins(Call("remove", e, n, "none"))

\* Four sub-tabs; their flags are forgotten when another of them is shown.
PermissionsPanel == AddNode(Perm) \/ RemoveNode(Perm)
ParentsPanel ==
    \E g \in Groups :
        \/ g \in view.lists /\ g # view.selected /\ g \notin view.shown.doc /\ AddNode(g)
        \/ RemoveNode(g)
ChatMetaPanel == AddNode(Prefix) \/ RemoveNode(Prefix)
MetaPanel == AddNode(Meta) \/ RemoveNode(Meta)
EditNodes ==
    /\ \E e \in Groups \union {User} : Open(e)
    /\ PermissionsPanel \/ ParentsPanel \/ ChatMetaPanel \/ MetaPanel

\* Slip: the button stays enabled.
FreeAlways(key) == TRUE
Free(key) == key \notin view.busy
\* GroupInfo: the weight (or the display name) shown, if any, is removed, then
\* the one given, if any, is added.
SaveInfo(key, those) ==
    \E e \in Groups :
        LET shown == view.shown.doc \intersect those IN
        /\ Open(e) /\ Free(key)
        /\ \/ \E w \in those : shown = {} /\ Begins(Call("add", e, w, key))
           \/ \E x \in shown : Begins(Call("remove", e, x, key))
           \/ \E x \in shown, w \in those : Begins([Call(key, e, w, key) EXCEPT !.seen = x])
SaveWeight == SaveInfo("weight", Weights)
SaveDisplayName == SaveInfo("title", Titles)

\* TrackEditor: every change sends the whole list.
Rearranged(list) ==
    {[list EXCEPT ![i] = list[i + 1], ![i + 1] = list[i]] : i \in 1..Len(list) - 1}
    \union {RemoveAt(list, i) : i \in DOMAIN list}
    \union {Append(list, g) : g \in (view.lists \intersect Groups) \ ToSet(list)}
EditTrack ==
    /\ Open(Track) /\ Free("track")
    /\ \E list \in Rearranged(view.shown.doc) :
         Begins([Call("set", Track, list, "track") EXCEPT !.seen = view.shown.doc])

\* Promote and demote; lookups and searches.
MoveUser == Open(User) /\ Free("move") /\ Track \in view.lists
            /\ \E up \in BOOLEAN : Begins(Call("move", User, up, "move"))
Lookup == Sidebar /\ Free("lookup") /\ (calm => Quiet) /\ Begins(Call("lookup", User, Gone, "lookup"))
Search == Clear /\ view.selected = "search" /\ Free("search") /\ Begins(Call("search", User, Gone, "search"))

\* A name is asked for, or a deletion confirmed.
AskName == Sidebar /\ \E e \in Groups \union {Track} : Shows([view EXCEPT !.dialog = Call("create", e, Gone, "none")])
AskDelete(e) == Open(e) /\ Free("delete") /\ Shows([view EXCEPT !.dialog = Call("delete", e, Gone, "delete")])
DeleteGroup == \E g \in Groups : AskDelete(g)
DeleteTrack == AskDelete(Track)
Answered ==
    /\ view.dialog # NoCall
    /\ \/ Shows([view EXCEPT !.dialog = NoCall])
       \/ /\ calm => Quiet
          /\ Acting /\ Send(view.dialog)
          /\ view' = [view EXCEPT !.dialog = NoCall, !.busy = @ \union ({view.dialog.key} \ {"none"})]

\* The two Retry buttons.  There is none where LuckPerms is not configured.
Retry ==
    \/ view.health = "down" /\ Acting /\ Send(Call("health", User, Gone, "none"))
       /\ view' = [view EXCEPT !.health = "checking"]
    \/ Clear /\ view.listsFailed /\ ~view.listsLoading /\ Acting /\ Send(Lists)
       /\ view' = [view EXCEPT !.listsLoading = TRUE, !.listsFailed = FALSE]

-----------------------------------------------------------------------------
(* The routes, and the API *)

\* A user moves along the track by one place; off its lower end at the first.
Moved(parents, list, up) ==
    LET at == {i \in DOMAIN list : list[i] \in parents}
        from == IF at = {} THEN IF up THEN 0 ELSE 1 ELSE CHOOSE i \in at : TRUE
        to == IF up THEN from + 1 ELSE from - 1
    IN IF Cardinality(at) > 1 \/ to > Len(list) THEN parents
       ELSE (parents \ {list[i] : i \in at}) \union {list[i] : i \in {to} \ {0}}

\* The nodes of a group or a user; the track; what is created or deleted.
NodesAfter(c, nodes) ==
    CASE c.kind = "add" -> nodes \union {c.value}
      [] c.kind = "remove" -> nodes \ {c.value}
      [] c.kind \in {"weight", "title"} -> nodes \ {c.seen}
      [] c.kind = "move" -> Moved(nodes, server[Track], c.value)
GroupAfter(c, nodes) ==
    CASE c.kind = "create" -> IF nodes = Gone THEN {} ELSE nodes
      [] c.kind = "delete" -> Gone
      [] OTHER -> NodesAfter(c, nodes)
TrackAfter(c, list) ==
    CASE c.kind = "create" -> IF list = Gone THEN <<>> ELSE list
      [] c.kind = "delete" -> Gone
      [] OTHER -> c.value
After(c) ==
    CASE c.of = User -> NodesAfter(c, server[User])
      [] c.of = Track -> TrackAfter(c, server[Track])
      [] OTHER -> GroupAfter(c, server[c.of])

Mutates(c) == c.kind \in Edits \union {"create"}
Existing == {e \in Groups \union {Track} : server[e] # Gone}
Change(s) ==
    LET c == calls[s] IN
    /\ c.at = "sent" /\ Mutates(c)
    /\ server[c.of] # Gone \/ c.kind = "create"
    /\ c.kind = "move" => server[Track] # Gone
    /\ server' = [server EXCEPT ![c.of] = After(c)]
    /\ calls' = [calls EXCEPT ![s].at = "changed"]
    /\ UNCHANGED <<page, calm, view, order, acts>>

\* What is read after a change, or for a question.
Found(c) ==
    CASE c.kind = "lists" -> Existing
      [] c.kind = "search" -> (Existing \ {Track}) \union {User}
      [] c.kind = "browse" -> {User}
      [] c.kind \in {"health", "delete"} -> Gone
      [] OTHER -> server[c.of]
\* Any call of the API may fail; when not calm, also the audit record of a
\* change or the read that follows it.
Serve(s) ==
    /\ calls[s].at = IF calls[s] # NoCall /\ Mutates(calls[s]) THEN "changed" ELSE "sent"
    /\ calls[s].kind \in {"health", "lists", "search", "browse", "delete"} \/ server[calls[s].of] # Gone
    /\ Answer(s, TRUE, Found(calls[s])) /\ UNCHANGED server
Fail(s) ==
    /\ calls[s].at = "sent" \/ (calls[s].at = "changed" /\ (calm => calls[s].kind # "delete" /\ server[calls[s].of] = Gone))
    /\ Answer(s, FALSE, Gone) /\ UNCHANGED server

\* Another admin, or the plugin itself.
Elsewhere ==
    /\ ~calm /\ Acting
    /\ \E e \in Entities : server' = [server EXCEPT ![e] = IF e = Track THEN <<>> ELSE {}]
    /\ UNCHANGED <<page, calm, view, calls, order>>

-----------------------------------------------------------------------------
(* Answers *)

Freed(c) == [view EXCEPT !.busy = @ \ {c.key}]

\* Down: the API does not answer, or the request failed.  Unset: the backend
\* has no address of it.
HealthArrives(s) ==
    LET c == calls[s] IN
    /\ c.kind = "health"
    /\ \E health \in IF c.ok THEN {"up"} ELSE {"down", "unset"} :
         view' = [view EXCEPT !.health = health, !.listsLoading = c.ok]
    /\ IF c.ok THEN Continues(s, Lists) ELSE Ends(s)

\* refreshLists(); after a creation what was created is selected.
ListsArrive(s) ==
    LET c == calls[s]
        listed == [view EXCEPT !.listsLoading = FALSE, !.listsFailed = @ \/ ~c.ok,
                               !.lists = IF c.ok THEN c.doc ELSE @,
                               !.busy = IF c.ok THEN @ ELSE @ \ {"lookup"},
                               !.recent = IF c.ok THEN @ ELSE {}]
    IN
    /\ c.kind = "lists"
    /\ IF c.value = Gone \/ c.value = view.selected THEN view' = listed /\ Ends(s)
       ELSE view' = Panel(listed, c.value) /\ Mounts(c.value, s)

\* A panel that is still there shows what came.
LoadArrives(s) ==
    LET c == calls[s] IN
    /\ c.kind = "load" /\ Ends(s)
    /\ view' = IF ~c.mounted THEN view
               ELSE IF c.ok THEN [view EXCEPT !.shown = [of |-> c.of, doc |-> c.doc], !.loading = FALSE]
               ELSE [view EXCEPT !.loading = FALSE, !.failed = TRUE]
EditArrives(s) ==
    LET c == calls[s] IN
    /\ c.kind \in Edits \ {"weight", "title", "delete"} /\ Ends(s)
    /\ view' = IF ~c.mounted THEN view
               ELSE IF c.ok THEN [Freed(c) EXCEPT !.shown = [of |-> c.of, doc |-> c.doc]] ELSE Freed(c)
\* The old weight, or name, is gone: the new one follows.
InfoArrives(s) ==
    LET c == calls[s] IN
    /\ c.kind \in {"weight", "title"}
    /\ IF c.ok
       THEN /\ Continues(s, [c EXCEPT !.kind = "add", !.at = "sent"])
            /\ view' = IF c.mounted THEN [view EXCEPT !.shown = [of |-> c.of, doc |-> c.doc]] ELSE view
       ELSE Ends(s) /\ view' = IF c.mounted THEN Freed(c) ELSE view
SearchArrives(s) ==
    LET c == calls[s] IN
    /\ c.kind = "search" /\ Ends(s)
    /\ view' = IF ~c.mounted THEN view
               ELSE [Freed(c) EXCEPT !.found = IF c.ok THEN c.doc ELSE @]
BrowseArrives(s) ==
    LET c == calls[s] IN
    /\ c.kind = "browse" /\ Ends(s)
    /\ view' = IF c.mounted /\ c.ok THEN [view EXCEPT !.found = c.doc] ELSE view

\* A user who is found is remembered, and selected: that one's panel may be
\* there already.
Remembered(c) == [Freed(c) EXCEPT !.recent = IF c.ok THEN {User} ELSE @]
LookupArrives(s) ==
    LET c == calls[s] IN
    /\ c.kind = "lookup"
    /\ IF c.ok /\ view.selected # User
       THEN view' = Panel(Remembered(c), User) /\ Mounts(User, s)
       ELSE view' = Remembered(c) /\ Ends(s)

\* handleCreateGroup() goes on with the lists, and then selects what is new.
CreateArrives(s) ==
    LET c == calls[s] IN
    /\ c.kind = "create"
    /\ IF c.ok
       THEN /\ Continues(s, [Lists EXCEPT !.value = c.of])
            /\ view' = [view EXCEPT !.listsLoading = TRUE, !.listsFailed = FALSE]
       ELSE Ends(s) /\ UNCHANGED view
\* onDeleted(): whatever is selected by now.
DeleteArrives(s) ==
    LET c == calls[s] IN
    /\ c.kind = "delete"
    /\ IF c.ok
       THEN /\ calls' = [t \in Slots |-> IF t = s THEN Lists ELSE Unmounted(t)]
            /\ view' = [Panel(view, None) EXCEPT !.listsLoading = TRUE, !.listsFailed = FALSE]
       ELSE Ends(s) /\ view' = IF c.mounted THEN Freed(c) ELSE view

Deliver(s) ==
    /\ Arrives(s)
    /\ \/ HealthArrives(s) \/ ListsArrive(s) \/ LookupArrives(s)
       \/ LoadArrives(s) \/ EditArrives(s) \/ InfoArrives(s) \/ SearchArrives(s) \/ BrowseArrives(s)
       \/ CreateArrives(s) \/ DeleteArrives(s)

Next ==
    \/ Select \/ EditNodes \/ SaveWeight \/ SaveDisplayName \/ EditTrack \/ MoveUser \/ Lookup \/ Search
    \/ AskName \/ DeleteGroup \/ DeleteTrack \/ Answered \/ Retry \/ Elsewhere
    \/ \E s \in Slots : Change(s) \/ Serve(s) \/ Fail(s) \/ Deliver(s)

Spec == Init /\ [][Next]_vars

-----------------------------------------------------------------------------
(***************************************************************************)
(* Once every answer has arrived, the sidebar and the panel show what the  *)
(* API has.                                                                *)
(***************************************************************************)
SettledViewIsTruth ==
    Quiet /\ view.health = "up" =>
        /\ view.listsFailed \/ view.lists = Existing
        /\ \/ view.selected \notin Entities \/ view.failed
           \/ view.shown = [of |-> view.selected, doc |-> server[view.selected]]

(***************************************************************************)
(* What a panel shows, and would edit, is the entity that is selected,     *)
(* in whatever order answers come.                                         *)
(***************************************************************************)
ShownIsSelected == view.shown.of \in {None, view.selected}

(***************************************************************************)
(* A track is saved as a whole list.  The list that replaces it was made   *)
(* from the list it replaces: no earlier edit is lost.                     *)
(***************************************************************************)
TrackEditsKeepEdits ==
    \A s \in Slots :
        calls[s] # NoCall /\ calls[s].kind = "set" /\ calls[s].at = "sent" /\ calls'[s].at = "changed" =>
            server[Track] = calls[s].seen

(***************************************************************************)
(* A weight is replaced by two requests.  A group never has two weights.   *)
(* (When a weight is stored and the answer fails, the panel still shows    *)
(* none, and a second attempt adds a second weight.)                       *)
(***************************************************************************)
OneWeight ==
    \A g \in Groups : server[g] # Gone => Cardinality(server[g] \intersect Weights) <= 1
=============================================================================
