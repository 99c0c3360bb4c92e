------------------------------- MODULE Explorer -------------------------------
(***************************************************************************)
(* The file manager: SftpManager with its breadcrumbs and FileEditor, the  *)
(* sftp routes, and the service behind them (SFTP, or sudo over SSH).      *)
(*                                                                         *)
(* A path is the sequence of its names; Up is "..", which only the user    *)
(* can bring in, in a name that is asked for.  A file's text is a value.   *)
(* The path a restricted account is confined to is server.root.            *)
(***************************************************************************)
EXTENDS PanelRequests, FiniteSets, SequencesExt

CONSTANTS Names, Up, Texts,
    Given,          \* what may be given as a name
    Tree,           \* the files at the start
    Setups          \* which root (<<>>: not confined), and whether files are handled by sudo

Torn == "torn"
Dir == "dir"
Parent(p) == SubSeq(p, 1, Len(p) - 1)

\* normalizePath(), and joinPath() with basename().
Enter(q, n) == IF n # Up THEN Append(q, n) ELSE IF q = <<>> THEN q ELSE Parent(q)
Normalized(p) ==
    LET upTo[n \in 0..Len(p)] == IF n = 0 THEN <<>> ELSE Enter(upTo[n - 1], p[n])
    IN  upTo[Len(p)]
Within(p) == IsPrefix(server.root, p)
\* Slip: a directory goes without what is in it.
UnderItself(fs, p) == {q \in DOMAIN fs : q = p}
Under(fs, p) == {q \in DOMAIN fs : IsPrefix(p, q)}
IsDir(fs, p) == p \in DOMAIN fs /\ fs[p] = Dir

Entries(fs, p) == {[path |-> q, dir |-> fs[q] = Dir] : q \in {x \in Under(fs, p) : Len(x) = Len(p) + 1}}

-----------------------------------------------------------------------------
(* The tab *)

NoEditor == [path |-> "none"]
NoDialog == [kind |-> "none"]
NoKey == <<"none">>
MkdirKey == <<"mkdir">>
EditorKey == <<"editor">>
Call(kind, path, to, dir, key) ==
    [at |-> "sent", kind |-> kind, path |-> path, to |-> to, dir |-> dir, key |-> key,
     text |-> Torn, of |-> <<>>, ok |-> FALSE, doc |-> {}]
List(path, key) == Call("list", path, <<>>, path, key)

TypeOK ==
    /\ <<>> \in DOMAIN server.fs /\ \A p \in DOMAIN server.fs : p # <<>> => IsDir(server.fs, Parent(p))
    /\ [root |-> server.root, sudo |-> server.sudo] \in Setups
    /\ {view.loading, view.failed, view.half} \subseteq BOOLEAN
    /\ view.editor # NoEditor => view.editor.text \in Texts \union {Torn}

Init ==
    /\ page = "files"
    /\ \E setup \in Setups : server = [fs |-> Tree, root |-> setup.root, sudo |-> setup.sudo]
    /\ view = [path |-> <<>>, entries |-> {}, loading |-> TRUE, failed |-> FALSE, busy |-> {},
               selected |-> {}, dialog |-> NoDialog, editor |-> NoEditor, half |-> FALSE]
    /\ LET s == CHOOSE t \in Slots : TRUE IN
       calls = [t \in Slots |-> IF t = s THEN Call("default", <<>>, <<>>, <<>>, NoKey) ELSE NoCall]
    /\ order = <<>> /\ acts = 0 /\ calm \in BOOLEAN

Shows(newView) == view' = newView /\ UNCHANGED <<page, calm, server, calls, order, acts>>
Clear == view.dialog = NoDialog /\ view.editor = NoEditor
Shown(e) == Clear /\ ~view.loading /\ ~view.failed /\ e \in view.entries
Begins(call) == Acting /\ Send(call) /\ view' = [view EXCEPT !.busy = @ \union {call.key}]

Leaves == [view EXCEPT !.loading = TRUE, !.failed = FALSE]

\* Breadcrumbs: from the root of the account down to the path.
Crumbs == {server.root} \union {SubSeq(view.path, 1, n) : n \in Len(server.root) + 1 .. Len(view.path)}
ShownDirs == {e.path : e \in {x \in view.entries : Shown(x) /\ x.dir}}

\* refresh(): a directory, a breadcrumb, the refresh button or Retry.
Navigate ==
    /\ Clear /\ Acting
    /\ \E path \in ShownDirs \union Crumbs \union {view.path} : Send(List(path, NoKey))
    /\ view' = Leaves

\* Slip: the editor opens at once, and its text comes later.
OpeningAtOnce(e) ==
    [view EXCEPT !.busy = @ \union {e.path},
                 !.editor = [path |-> e.path, of |-> <<>>, text |-> Torn, dirty |-> FALSE, saving |-> FALSE]]
Opening(e) == [view EXCEPT !.busy = @ \union {e.path}]
\* openEntry(): a text file that is not too large.
OpenFile ==
    \E e \in view.entries :
        /\ Shown(e) /\ ~e.dir /\ Acting
        /\ calm => Quiet
        /\ Send(Call("read", e.path, <<>>, view.path, e.path)) /\ view' = Opening(e)

\* A prompt or a confirmation keeps the path it was opened at.
AskMkdir ==
    /\ Clear /\ MkdirKey \notin view.busy
    /\ Shows([view EXCEPT !.dialog = Call("mkdir", view.path, <<>>, view.path, MkdirKey)])
AskAbout(kind) ==
    \E e \in view.entries :
        /\ Shown(e) /\ e.path \notin view.busy
        /\ Shows([view EXCEPT !.dialog = Call(kind, e.path, <<>>, view.path, e.path)])
AskRename == AskAbout("rename")
AskDelete == AskAbout("delete")
Answered ==
    LET c == view.dialog
        goes(call) == Acting /\ Send(call)
                      /\ view' = [view EXCEPT !.dialog = NoDialog, !.busy = @ \union {call.key}]
    IN
    /\ c # NoDialog
    /\ \/ Shows([view EXCEPT !.dialog = NoDialog])
       \/ c.kind = "delete" /\ goes(c)
       \/ \E name \in Given :
            \/ c.kind = "mkdir" /\ goes([c EXCEPT !.path = c.dir \o name])
            \/ c.kind = "rename" /\ goes([c EXCEPT !.to = c.dir \o name])

\* handleMoveTo(): a row dragged onto a directory or a breadcrumb.
Drag ==
    /\ Acting /\ \E e \in view.entries : Shown(e) /\ view' = [view EXCEPT !.selected = {e.path}]
    /\ UNCHANGED <<page, calm, server, calls, order>>
MoveTo ==
    /\ Clear
    /\ \E from \in view.selected :
         \E dir \in ShownDirs \union Crumbs :
           LET to == Append(dir, Last(from)) IN
           /\ from # dir /\ to # from
           /\ Begins(Call("move", from, to, view.path, from))

\* onDropFiles(): one file or several, `to` being the names after the first.
Upload ==
    /\ Clear /\ \E name \in Names, rest \in {<<>>} \union {<<n>> : n \in Names}, text \in Texts :
         Begins([Call("upload", Append(view.path, name), rest, view.path, NoKey) EXCEPT !.text = text])

\* FileEditor; `of` is where its text was read.
Type ==
    /\ view.editor # NoEditor /\ (calm => ~view.editor.saving)
    /\ \E text \in Texts : Shows([view EXCEPT !.editor.text = text, !.editor.dirty = TRUE])
Save ==
    LET e == view.editor IN
    /\ e # NoEditor /\ e.dirty /\ ~e.saving /\ Acting
    /\ Send([Call("write", e.path, <<>>, view.path, EditorKey) EXCEPT !.text = e.text, !.of = e.of])
    /\ view' = [view EXCEPT !.editor.saving = TRUE]
\* A save under way goes on without its editor.
Close ==
    /\ view.editor # NoEditor /\ (calm => ~view.editor.saving)
    /\ view' = [view EXCEPT !.editor = NoEditor]
    /\ calls' = [s \in Slots |-> IF calls[s] # NoCall /\ calls[s].key = EditorKey
                                 THEN [calls[s] EXCEPT !.key = NoKey] ELSE calls[s]]
    /\ UNCHANGED <<page, calm, server, order, acts>>

-----------------------------------------------------------------------------
(* The routes and the service *)

\* Slip: a destination is not checked.
AllowedFrom(c) == Within(Normalized(c.path))
\* scopedPath() of each path of the request.
Allowed(c) ==
    Within(Normalized(c.path)) /\ (c.kind \in {"rename", "move"} => Within(Normalized(c.to)))

\* What SFTP or the sudo command can do.
Possible(c, p, q) ==
    LET fs == server.fs IN
    CASE c.kind = "default" -> TRUE
      [] c.kind = "list" -> IsDir(fs, p)
      [] c.kind = "read" -> p \in DOMAIN fs /\ ~IsDir(fs, p)
      [] c.kind = "mkdir" -> IF p \in DOMAIN fs THEN server.sudo /\ IsDir(fs, p) ELSE IsDir(fs, Parent(p))
      [] c.kind \in {"rename", "move"} ->
           /\ p \in DOMAIN fs /\ p # <<>> /\ q # <<>> /\ ~IsPrefix(p, q) /\ IsDir(fs, Parent(q))
           /\ q \notin DOMAIN fs \/ (server.sudo /\ Under(fs, q) = {q} /\ (IsDir(fs, p) <=> IsDir(fs, q)))
      [] c.kind = "delete" -> p # <<>> /\ (server.sudo \/ p \in DOMAIN fs)
      [] OTHER -> p # <<>> /\ ~IsDir(fs, p) /\ IsDir(fs, Parent(p))

Moved(fs, p, q) ==
    LET gone == Under(fs, p)
        to(x) == q \o SubSeq(x, Len(p) + 1, Len(x))
    IN [x \in (DOMAIN fs \ gone) \union {to(y) : y \in gone} |->
           IF IsPrefix(q, x) THEN fs[p \o SubSeq(x, Len(q) + 1, Len(x))] ELSE fs[x]]
Without(fs, gone) == [x \in DOMAIN fs \ gone |-> fs[x]]
With(fs, p, what) == [x \in DOMAIN fs \union {p} |-> IF x = p THEN what ELSE fs[x]]

After(c, p, q) ==
    LET fs == server.fs IN
    CASE c.kind = "mkdir" -> With(fs, p, Dir)
      [] c.kind \in {"rename", "move"} -> Moved(fs, p, q)
      [] c.kind = "delete" -> Without(fs, Under(fs, p))
      [] c.kind \in {"write", "upload"} -> With(fs, p, c.text)
      [] OTHER -> fs

\* A failure may come halfway: a directory emptied in part, a file cut short.
Halfway(c, p) ==
    LET fs == server.fs IN
    IF c.kind = "delete" THEN {Without(fs, {x}) : x \in {y \in Under(fs, p) : Under(fs, y) = {y} /\ y # <<>>}}
    ELSE IF c.kind \in {"write", "upload"} THEN {With(fs, p, Torn)}
    ELSE {}

Found(c, p) ==
    CASE c.kind = "default" -> server.root
      [] c.kind = "list" -> Entries(server.fs, p)
      [] c.kind = "read" -> server.fs[p]
      [] OTHER -> {}

Serve(s) ==
    LET c == calls[s]
        p == Normalized(c.path)
        q == Normalized(c.to)
    IN
    /\ c.at = "sent"
    /\ \/ /\ c.kind = "default" \/ Allowed(c)
          /\ Possible(c, p, q)
          /\ \/ /\ c.kind = "upload" => c.to = <<>>
                /\ server' = [server EXCEPT !.fs = After(c, p, q)] /\ Answer(s, TRUE, Found(c, p))
             \/ /\ \E fs \in Halfway(c, p) : server' = [server EXCEPT !.fs = fs]
                /\ Answer(s, FALSE, {})
       \/ UNCHANGED server /\ Answer(s, FALSE, {})

\* The upload route writes one file after the other: what it has written stays
\* when a later one fails.
Uploads(s) ==
    LET c == calls[s]
        p == Normalized(c.path)
    IN
    /\ c.at = "sent" /\ c.kind = "upload" /\ c.to # <<>>
    /\ Allowed(c) /\ Possible(c, p, p)
    /\ server' = [server EXCEPT !.fs = With(@, p, c.text)]
    /\ calls' = [calls EXCEPT ![s].path = Append(c.dir, Head(c.to)), ![s].to = Tail(c.to)]
    /\ UNCHANGED <<page, calm, view, order, acts>>

Elsewhere ==
    /\ ~calm /\ Acting
    /\ \E p \in DOMAIN server.fs \ {<<>>} :
         server' = [server EXCEPT !.fs = Without(@, Under(@, p))]
    /\ UNCHANGED <<page, calm, view, calls, order>>

-----------------------------------------------------------------------------
(* Answers *)

Released(c) == [view EXCEPT !.busy = @ \ {c.key}]

\* Slip: the path is left to the click.
ArrivedAt(c) == view.path
Arrived(c) == Normalized(c.path)
\* The path and its entries change together.
ListArrives(s) ==
    LET c == calls[s] IN
    /\ c.kind = "list" /\ Ends(s)
    /\ view' = [Released(c) EXCEPT !.loading = FALSE, !.failed = @ \/ ~c.ok,
                                   !.entries = IF c.ok THEN c.doc ELSE @,
                                   !.path = IF c.ok THEN Arrived(c) ELSE @,
                                   !.half = @ /\ ~c.ok,
                                   !.selected = IF c.text = "move" THEN {} ELSE @]

DefaultArrives(s) ==
    LET c == calls[s]
        path == IF c.ok THEN c.doc ELSE <<>>
    IN /\ c.kind = "default" /\ Continues(s, List(path, NoKey)) /\ view' = Leaves

\* An editor that is open already only learns the new path.
Opened(c) ==
    IF view.editor = NoEditor
    THEN [path |-> c.path, of |-> c.path, text |-> c.doc, dirty |-> FALSE, saving |-> FALSE]
    ELSE [view.editor EXCEPT !.path = c.path]
ReadArrives(s) ==
    LET c == calls[s] IN
    /\ c.kind = "read" /\ Ends(s)
    /\ view' = IF c.ok THEN [Released(c) EXCEPT !.editor = Opened(c)] ELSE Released(c)

\* Nothing is listed again: a file that was moved away while it was opened is back, unlisted.
Unlisted(path) == \A e \in view.entries : e.path # path
WriteArrives(s) ==
    LET c == calls[s] IN
    /\ c.kind = "write" /\ Ends(s)
    /\ view' = IF c.key # EditorKey THEN view
               ELSE [view EXCEPT !.editor.saving = FALSE, !.editor.dirty = @ /\ ~c.ok,
                                 !.half = @ \/ Unlisted(c.path)]

\* What was done is followed by the list of the directory it was done from.
EffectArrives(s) ==
    LET c == calls[s] IN
    /\ c.kind \in {"mkdir", "rename", "move", "delete", "upload"}
    /\ IF c.ok
       THEN /\ Continues(s, [List(c.dir, c.key) EXCEPT !.text = c.kind])
            /\ view' = Leaves
       ELSE /\ Ends(s)
            /\ view' = [Released(c) EXCEPT !.selected = IF c.kind = "move" THEN {} ELSE @, !.half = TRUE]

Deliver(s) ==
    /\ Arrives(s)
    /\ ListArrives(s) \/ DefaultArrives(s) \/ ReadArrives(s) \/ WriteArrives(s) \/ EffectArrives(s)

Next ==
    \/ Navigate \/ OpenFile \/ AskMkdir \/ AskRename \/ AskDelete \/ Answered \/ Drag \/ MoveTo \/ Upload
    \/ Type \/ Save \/ Close \/ Elsewhere
    \/ \E s \in Slots : Serve(s) \/ Uploads(s) \/ Deliver(s)

Spec == Init /\ [][Next]_vars

-----------------------------------------------------------------------------
(***************************************************************************)
(* Once every answer has arrived the list shown is that of the path shown, *)
(* unless something failed halfway, or a file that was moved away while it *)
(* was opened has been saved: the list is not loaded again then.           *)
(***************************************************************************)
SettledViewIsTruth ==
    Quiet /\ ~view.failed /\ ~view.half => view.entries = Entries(server.fs, view.path)

(***************************************************************************)
(* The name typed for a row is put after the directory the row is in, in   *)
(* whatever order listings arrive.  (A name with dots leads on from there; *)
(* moves are not meant.)                                                   *)
(***************************************************************************)
RenamesStayInDirectory ==
    \A s \in Slots : calls[s] # NoCall /\ calls[s].kind = "rename" =>
        calls[s].to \in {Parent(calls[s].path) \o name : name \in Given}

(***************************************************************************)
(* What the editor saves to a file is what was read from that file and     *)
(* edited, while files are opened one at a time.  (Of two that are opened  *)
(* at once, the first text stays and is saved under the second name.)      *)
(***************************************************************************)
SavesGoWhereLoaded ==
    \A s \in Slots : calls[s] # NoCall /\ calls[s].kind = "write" => calls[s].path = calls[s].of

(***************************************************************************)
(* Nothing a confined account asks for changes a path outside its root,    *)
(* whatever names it gives, even when the operation fails halfway.         *)
(***************************************************************************)
ConfinedToRoot ==
    calls' # calls =>
        \A p \in DOMAIN server.fs \union DOMAIN server'.fs :
            Within(p) \/ (/\ p \in DOMAIN server.fs /\ p \in DOMAIN server'.fs
                          /\ server.fs[p] = server'.fs[p])
=============================================================================
