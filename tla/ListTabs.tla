------------------------------- MODULE ListTabs -------------------------------
(***************************************************************************)
(* The tabs that show a list and act on its rows: Whitelist, Ops, Backups, *)
(* ScheduledTasks with TaskFormModal, InstalledPlugins and Users, with the *)
(* confirmation dialog they ask first.                                     *)
(*                                                                         *)
(* A row is a player, a backup, a task, a jar or an account.  Its `on` is  *)
(* "enabled" (task, jar) or "admin" (account); its `text` the level, the   *)
(* other fields of a task, the permissions, or 1 when a jar is there both  *)
(* enabled and disabled (of the two the user acts on the first); `root`    *)
(* the SFTP root.  A list's `flag` says that the whitelist is on.  Buttons *)
(* are disabled by the keys in `busy`: a row's, or that of a form.         *)
(***************************************************************************)
EXTENDS PanelRequests

CONSTANTS Rows, Me      \* Me: the row, among Rows, of the account that is logged in

Tabs == {"whitelist", "ops", "backups", "tasks", "plugins", "users"}
NoRow == [is |-> "absent"]
Row == [on : BOOLEAN, text : {0, 1}, root : {0, 1}]
Fresh == [on |-> FALSE, text |-> 0, root |-> 0]
Doc == [rows : [Rows -> Row \union {NoRow}], flag : BOOLEAN]
NoDoc == [rows |-> [r \in Rows |-> NoRow], flag |-> FALSE]

Kinds == {"list", "add", "remove", "put", "on", "text", "root", "flag", "restart", "touch"}

TypeOK ==
    /\ page \in Tabs
    /\ server.doc \in Doc /\ server.stale \in BOOLEAN
    /\ view.shown \in Doc
    /\ {view.loading, view.failed, view.timer} \subseteq BOOLEAN
    /\ view.modal \in Rows \union {"none", "new"}
    /\ view.banner \in {"none", "shown", "dismissed"}
    /\ view.half \subseteq Rows
    /\ \A s \in Slots : calls[s] # NoCall => calls[s].kind \in Kinds /\ calls[s].row \in Rows

-----------------------------------------------------------------------------
(* Requests *)

NoKey == <<"none">>
Call(kind, r, value, key) ==
    [at |-> "sent", kind |-> kind, row |-> r, value |-> value, key |-> key,
     ok |-> FALSE, doc |-> NoDoc]
List(key) == Call("list", Me, NoRow, key)

\* The mounted tab loads its list.
Init ==
    /\ page \in Tabs
    /\ \E others \in {NoRow, Fresh} :
         server = [doc |-> [rows |-> [r \in Rows |-> IF r = Me THEN [Fresh EXCEPT !.on = TRUE] ELSE others],
                            flag |-> FALSE], stale |-> FALSE]
    /\ view = [shown |-> NoDoc, loading |-> TRUE, failed |-> FALSE, busy |-> {},
               dialog |-> NoCall, modal |-> "none", banner |-> "none", timer |-> FALSE,
               half |-> {}]
    /\ \E s \in Slots : calls = [t \in Slots |-> IF t = s THEN List(NoKey) ELSE NoCall] /\ s = CHOOSE t \in Slots : TRUE
    /\ order = <<>> /\ acts = 0 /\ calm \in BOOLEAN

\* A renamed jar is another file name, hence another key.
RowKey(r) ==
    IF page = "plugins" THEN <<"row", r, view.shown.rows[r].on>> ELSE <<"row", r>>

\* Nothing lies over the page.
Clear == view.dialog = NoCall /\ (page = "tasks" => view.modal = "none")
FormFree(key) == Clear /\ key \notin view.busy
\* Slip: the table stays while the list is loading.
RowFreeAlways(r) ==
    /\ Clear /\ ~view.failed
    /\ view.shown.rows[r] # NoRow /\ RowKey(r) \notin view.busy
\* Slip: buttons are not disabled.
RowFreeUnlocked(r) == Clear /\ ~view.loading /\ ~view.failed /\ view.shown.rows[r] # NoRow
RowFree(r) ==
    /\ Clear /\ ~view.loading /\ ~view.failed
    /\ view.shown.rows[r] # NoRow /\ RowKey(r) \notin view.busy

\* withBusy(), or the form's own flag.
Begin(call) ==
    /\ Acting /\ Send(call)
    /\ view' = [view EXCEPT !.busy = @ \union {call.key}]
Shows(newView) == view' = newView /\ UNCHANGED <<page, calm, server, calls, order, acts>>

Refresh(key) ==
    /\ Send(List(key)) /\ UNCHANGED acts
    /\ view' = [view EXCEPT !.loading = TRUE, !.failed = FALSE]

\* dialog.confirm(), dialog.prompt() and close().
Ask(call) == Shows([view EXCEPT !.dialog = call])
Confirm ==
    /\ view.dialog # NoCall /\ Acting /\ Send(view.dialog)
    /\ view' = [view EXCEPT !.dialog = NoCall, !.busy = @ \union {view.dialog.key}]
Cancel == view.dialog # NoCall /\ Shows([view EXCEPT !.dialog = NoCall])

-----------------------------------------------------------------------------
(* What the user can do in each tab: the handlers, then the tab, which says *)
(* when its buttons call them.                                             *)

WhitelistAdd(r) == Begin(Call("add", r, Fresh, <<"add">>))
WhitelistRemove(r) == Ask(Call("remove", r, NoRow, RowKey(r)))
WhitelistReload == Begin(Call("touch", Me, NoRow, <<"reload">>))
WhitelistToggle == Begin(Call("flag", Me, [on |-> ~view.shown.flag], <<"flag">>))
WhitelistTab ==
    \/ FormFree(<<"flag">>) /\ ~view.loading /\ WhitelistToggle
    \/ FormFree(<<"reload">>) /\ WhitelistReload
    \/ FormFree(<<"add">>) /\ \E r \in Rows : WhitelistAdd(r)
    \/ \E r \in Rows : RowFree(r) /\ WhitelistRemove(r)

OpAdd(r) == Begin(Call("add", r, Fresh, <<"add">>))
OpRemove(r) == Ask(Call("remove", r, NoRow, RowKey(r)))
OpLevel(r) == Begin(Call("text", r, [text |-> 1 - view.shown.rows[r].text], RowKey(r)))
OpsRestart == Begin(Call("restart", Me, NoRow, <<"restart">>))
OpsTab ==
    \/ view.banner = "shown" /\ FormFree(<<"restart">>) /\ OpsRestart
    \/ view.banner = "shown" /\ Clear /\ Shows([view EXCEPT !.banner = "dismissed"])
    \/ FormFree(<<"add">>) /\ \E r \in Rows : OpAdd(r)
    \/ \E r \in Rows : RowFree(r) /\ (OpLevel(r) \/ OpRemove(r))

RunBackup == Begin(Call("touch", Me, NoRow, <<"run">>))
BackupTimer ==
    /\ view.timer /\ Send(List(NoKey)) /\ UNCHANGED acts
    /\ view' = [view EXCEPT !.timer = FALSE, !.loading = TRUE, !.failed = FALSE]
BackupDelete(r) == Ask(Call("remove", r, NoRow, RowKey(r)))
BackupsTab ==
    \/ FormFree(<<"run">>) /\ RunBackup
    \/ Clear /\ Refresh(NoKey)
    \/ \E r \in Rows : RowFree(r) /\ BackupDelete(r)

TaskToggle(r) == Begin(Call("put", r, [view.shown.rows[r] EXCEPT !.on = ~@], RowKey(r)))
TaskRunNow(r) == Begin(Call("touch", r, NoRow, RowKey(r)))
TaskDelete(r) == Ask(Call("remove", r, NoRow, RowKey(r)))
TasksTab ==
    \/ \E r \in Rows :
         RowFree(r) /\ (TaskToggle(r) \/ TaskRunNow(r) \/ TaskDelete(r) \/ Shows([view EXCEPT !.modal = r]))
    \/ Clear /\ Shows([view EXCEPT !.modal = "new"])

\* TaskFormModal: what is typed is any task.
TaskSubmit(value) ==
    \E r \in Rows :
        IF view.modal = "new"
        THEN server.doc.rows[r] = NoRow /\ Begin(Call("add", r, value, <<"modal">>))
        ELSE r = view.modal /\ Begin(Call("put", r, value, <<"modal">>))
TaskForm ==
    /\ page = "tasks" /\ view.modal # "none"
    /\ \/ /\ <<"modal">> \notin view.busy
          /\ \E value \in Row : value.root = 0 /\ TaskSubmit(value)
       \/ /\ calm => <<"modal">> \notin view.busy
          /\ Shows([view EXCEPT !.modal = "none"])

PluginToggle(r) == Begin(Call("on", r, view.shown.rows[r], RowKey(r)))
PluginDelete(r) == Ask(Call("remove", r, view.shown.rows[r], RowKey(r)))
PluginInstallUrl(r) == Begin(Call("add", r, Fresh, <<"add">>))
PluginDrop(r) == Begin(Call("add", r, Fresh, <<"drop">>))
PluginsTab ==
    \/ \E r \in Rows : RowFree(r) /\ (PluginToggle(r) \/ PluginDelete(r))
    \/ FormFree(<<"add">>) /\ \E r \in Rows : PluginInstallUrl(r)
    \/ Clear /\ \E r \in Rows : PluginDrop(r)

LastShown(r) ==
    view.shown.rows[r].on /\ \A q \in Rows \ {r} : view.shown.rows[q] = NoRow \/ ~view.shown.rows[q].on
UserAdd(r) == Begin(Call("add", r, Fresh, <<"add">>))
UserRole(r) == Begin(Call("on", r, [on |-> ~view.shown.rows[r].on], RowKey(r)))
UserResetPassword(r) == Ask(Call("touch", r, NoRow, RowKey(r)))
UserRemove(r) == Ask(Call("remove", r, NoRow, RowKey(r)))
\* startEditingPermissions() and handleSavePermissions(); any selection may be made.
UserEdit(r) ==
    \/ /\ ~view.shown.rows[r].on
       /\ Shows([view EXCEPT !.modal = IF @ = r THEN "none" ELSE r])
    \/ /\ view.modal = r
       /\ \E text, root \in {0, 1} : Begin(Call("text", r, [text |-> text, root |-> root], RowKey(r)))
UsersTab ==
    \/ FormFree(<<"add">>) /\ \E r \in Rows : UserAdd(r)
    \/ \E r \in Rows :
         /\ RowFree(r)
         /\ \/ ~LastShown(r) /\ (UserRole(r) \/ (r # Me /\ UserRemove(r)))
            \/ UserResetPassword(r) \/ UserEdit(r)

Retry == view.failed /\ ~view.loading /\ Clear /\ Refresh(NoKey)

Acts ==
    \/ page = "whitelist" /\ WhitelistTab
    \/ page = "ops" /\ OpsTab
    \/ page = "backups" /\ (BackupsTab \/ BackupTimer)
    \/ page = "tasks" /\ TasksTab
    \/ page = "plugins" /\ PluginsTab
    \/ page = "users" /\ UsersTab
    \/ page # "tasks" /\ Retry                 \* ScheduledTasks has no such button

-----------------------------------------------------------------------------
(* The backend *)

\* What the server may have after a request that is carried out; nothing for
\* one that it refuses.
Held(r) == server.doc.rows[r]
Put(r, row) == [server EXCEPT !.doc.rows[r] = row]
Added(c) == IF Held(c.row) = NoRow THEN c.value ELSE Held(c.row)

WhitelistAfter(c) ==
    CASE c.kind = "add" -> {Put(c.row, Added(c))}
      [] c.kind = "remove" -> {Put(c.row, NoRow)}
      [] c.kind = "flag" -> {[server EXCEPT !.doc.flag = c.value.on]}
      [] OTHER -> {server}

\* A changed level is read by the game server when it restarts.
OpsAfter(c) ==
    CASE c.kind = "add" -> {Put(c.row, Added(c))}
      [] c.kind = "remove" -> {Put(c.row, NoRow)}
      [] c.kind = "text" -> {[Put(c.row, [row EXCEPT !.text = c.value.text]) EXCEPT !.stale = TRUE] :
                                row \in {Held(c.row)} \ {NoRow}}
      [] c.kind = "restart" -> {[server EXCEPT !.stale = FALSE]}
      [] OTHER -> {server}

BackupsAfter(c) ==
    IF c.kind = "remove" THEN {Put(c.row, NoRow) : row \in {Held(c.row)} \ {NoRow}} ELSE {server}

TasksAfter(c) ==
    CASE c.kind = "add" -> {Put(c.row, c.value)}
      [] c.kind = "put" -> {Put(c.row, c.value) : row \in {Held(c.row)} \ {NoRow}}
      [] c.kind = "remove" -> {Put(c.row, NoRow)}
      [] OTHER -> {server}

\* A jar may lie there enabled, disabled, or both; toggling one that is there
\* twice replaces the other (sudo) or fails (SFTP).
JarThere(r, on) == Held(r) # NoRow /\ (Held(r).on = on \/ Held(r).text = 1)
JarInstalled(r) ==
    Put(r, [Fresh EXCEPT !.on = TRUE, !.text = IF JarThere(r, FALSE) THEN 1 ELSE 0])
JarRenamed(r, on) == Put(r, [Held(r) EXCEPT !.on = ~on, !.text = 0])
JarDeleted(r, on) == IF Held(r).text = 1 THEN JarRenamed(r, on) ELSE Put(r, NoRow)
PluginsAfter(c) ==
    CASE c.kind = "add" -> {JarInstalled(c.row)}
      [] c.kind = "on" /\ JarThere(c.row, c.value.on) -> {JarRenamed(c.row, c.value.on)}
      [] c.kind = "remove" /\ JarThere(c.row, c.value.on) -> {JarDeleted(c.row, c.value.on)}
      [] c.kind = "list" -> {server}
      [] OTHER -> {}

OnlyAdmin(r) == Held(r).on /\ \A q \in Rows \ {r} : Held(q) = NoRow \/ ~Held(q).on
\* An admin has every permission and no root.
UserChanged(c, row) ==
    CASE c.kind = "remove" -> IF OnlyAdmin(c.row) THEN {} ELSE {Put(c.row, NoRow)}
      [] c.kind = "on" ->
           IF c.value.on THEN {Put(c.row, [on |-> TRUE, text |-> 1, root |-> 0])}
           ELSE IF OnlyAdmin(c.row) THEN {} ELSE {Put(c.row, [row EXCEPT !.on = FALSE])}
      [] c.kind = "text" -> {IF row.on THEN server ELSE Put(c.row, [row EXCEPT !.text = c.value.text])}
      [] c.kind = "root" -> {Put(c.row, [row EXCEPT !.root = c.value.root])}
      [] OTHER -> {server}
UsersAfter(c) ==
    CASE c.kind = "list" -> {server}
      [] c.kind = "add" -> IF Held(c.row) = NoRow THEN {Put(c.row, c.value)} ELSE {}
      [] OTHER -> IF Held(c.row) = NoRow THEN {} ELSE UserChanged(c, Held(c.row))

After(c) ==
    CASE page = "whitelist" -> WhitelistAfter(c)
      [] page = "ops" -> OpsAfter(c)
      [] page = "backups" -> BackupsAfter(c)
      [] page = "tasks" -> TasksAfter(c)
      [] page = "plugins" -> PluginsAfter(c)
      [] page = "users" -> UsersAfter(c)

\* Whitelist and Ops answer with the document, Users with the account.
AnswerDoc(c) ==
    IF c.kind = "list" \/ page \in {"whitelist", "ops", "users"} THEN server'.doc ELSE NoDoc

\* Any request may fail; when not calm, also after it took effect.
Serve(s) ==
    /\ calls[s].at = "sent"
    /\ \/ /\ \E after \in After(calls[s]) : server' = after
          /\ Answer(s, TRUE, AnswerDoc(calls[s])) \/ (~calm /\ Answer(s, FALSE, NoDoc))
       \/ UNCHANGED server /\ Answer(s, FALSE, NoDoc)

\* Another admin, a script or the game server.
Elsewhere ==
    /\ ~calm /\ Acting
    /\ \E r \in Rows \ {Me}, row \in {NoRow, Fresh, [Fresh EXCEPT !.text = 1]} :
         server' = [server EXCEPT !.doc.rows[r] = row]
    /\ UNCHANGED <<page, calm, view, calls, order>>

-----------------------------------------------------------------------------
(* Answers *)

Released(c) == [view EXCEPT !.busy = @ \ {c.key}]

\* refresh(), after its await.
ListArrives(s) ==
    LET c == calls[s] IN
    /\ c.kind = "list"
    /\ view' = [Released(c) EXCEPT !.loading = FALSE, !.failed = @ \/ ~c.ok,
                                   !.shown = IF c.ok THEN c.doc ELSE @,
                                   !.half = IF c.ok THEN {} ELSE @]
    /\ Ends(s)

\* A toast, and a dropped file reloads the list all the same.
FailureArrives(s) ==
    LET c == calls[s] IN
    /\ c.kind # "list" /\ ~c.ok
    /\ IF c.key = <<"drop">>
       THEN /\ Continues(s, List(NoKey))
            /\ view' = [Released(c) EXCEPT !.loading = TRUE, !.failed = FALSE]
       ELSE /\ Ends(s)
            /\ view' = [Released(c) EXCEPT !.half = IF c.kind = "root" THEN @ \union {c.row} ELSE @]

\* Slip: the banner is left to its button.
BannerOnce(c) == IF c.kind = "restart" THEN "none" ELSE view.banner
BannerAfter(c) ==
    CASE c.kind = "restart" -> "none"
      [] c.kind = "text" -> "shown"
      [] OTHER -> view.banner

\* Whitelist and Ops: the answer is what is shown.
DocumentArrives(s) ==
    LET c == calls[s] IN
    /\ page \in {"whitelist", "ops"} /\ c.kind # "list" /\ c.ok
    /\ view' = [Released(c) EXCEPT !.shown = IF c.kind = "restart" THEN @ ELSE c.doc,
                                   !.banner = BannerAfter(c)]
    /\ Ends(s)

\* Slip: the list is not loaded again.
EffectArrivesBare(s) ==
    /\ page \in {"backups", "tasks", "plugins"} /\ calls[s].kind # "list" /\ calls[s].ok
    /\ view' = [Released(calls[s]) EXCEPT !.modal = "none"]
    /\ Ends(s)
\* Backups, ScheduledTasks, InstalledPlugins: the list is loaded again, by the
\* timer after a backup; a form is closed first, a row stays busy.
EffectArrives(s) ==
    LET c == calls[s] IN
    /\ page \in {"backups", "tasks", "plugins"} /\ c.kind # "list" /\ c.ok
    /\ IF c.key = <<"run">>
       THEN view' = [Released(c) EXCEPT !.timer = TRUE] /\ Ends(s)
       ELSE LET form == c.key \in {<<"modal">>, <<"drop">>} IN
            /\ view' = [view EXCEPT !.loading = TRUE, !.failed = FALSE,
                                    !.modal = IF c.key = <<"modal">> THEN "none" ELSE @,
                                    !.busy = IF form THEN @ \ {c.key} ELSE @]
            /\ Continues(s, List(IF form THEN NoKey ELSE c.key))

\* Users: the account in the answer replaces, joins or leaves the list; new
\* permissions are followed by a new root.
AccountArrives(s) ==
    LET c == calls[s]
        edited == c.kind \in {"text", "root"}
    IN
    /\ page = "users" /\ c.kind # "list" /\ c.ok
    /\ IF c.kind = "text" /\ view.shown.rows[c.row] # NoRow /\ c.value.root # view.shown.rows[c.row].root
       THEN Continues(s, [c EXCEPT !.kind = "root", !.at = "sent"]) /\ UNCHANGED view
       ELSE /\ view' = [Released(c) EXCEPT !.shown.rows[c.row] =
                                             IF c.kind = "touch" \/ (c.kind # "add" /\ @ = NoRow) THEN @
                                             ELSE IF c.kind = "remove" THEN NoRow ELSE c.doc.rows[c.row],
                                           !.modal = IF edited THEN "none" ELSE @,
                                           !.half = IF c.kind = "touch" THEN @ ELSE @ \ {c.row}]
            /\ Ends(s)

Deliver(s) ==
    /\ Arrives(s)
    /\ \/ ListArrives(s) \/ FailureArrives(s)
       \/ DocumentArrives(s) \/ EffectArrives(s) \/ AccountArrives(s)

Next ==
    \/ Acts \/ Confirm \/ Cancel \/ TaskForm \/ Elsewhere
    \/ \E s \in Slots : Serve(s) \/ Deliver(s)

Spec == Init /\ [][Next]_vars

-----------------------------------------------------------------------------
(***************************************************************************)
(* Once every answer has arrived the tab shows what the server has, save   *)
(* for the rows whose save failed halfway (permissions stored, root        *)
(* refused): those still show what they were.                              *)
(***************************************************************************)
SettledViewIsTruth ==
    Quiet /\ ~view.failed =>
        /\ view.shown.flag = server.doc.flag
        /\ \A r \in Rows \ view.half : view.shown.rows[r] = server.doc.rows[r]

(***************************************************************************)
(* The toggle of a task sends the whole task as shown.  It must not undo   *)
(* an edit that has been saved since.                                      *)
(***************************************************************************)
TogglesKeepEdits ==
    \A s \in Slots :
        /\ page = "tasks" /\ calls[s].at = "sent" /\ calls'[s].at = "answered"
        /\ calls[s].kind = "put" /\ calls[s].key # <<"modal">>
        /\ server.doc.rows[calls[s].row] # NoRow
        => server'.doc.rows[calls[s].row].text = server.doc.rows[calls[s].row].text

RowCall(s) == calls[s].at = "sent" /\ calls[s].key[1] = "row" /\ calls[s].kind # "list"

(***************************************************************************)
(* The backend never has two requests of one tab about one row (for jars,  *)
(* one file) to serve, however answers are reordered or lost and whatever  *)
(* else changes.                                                           *)
(***************************************************************************)
OneRequestPerRow ==
    \A s, t \in Slots : RowCall(s) /\ RowCall(t) /\ calls[s].key = calls[t].key => s = t

(***************************************************************************)
(* A level that waits for a restart is announced until the restart, or     *)
(* until the banner is dismissed.                                          *)
(***************************************************************************)
RestartAnnounced == Quiet /\ server.stale => view.banner # "none"
=============================================================================
