------------------------------ MODULE EditorTabs ------------------------------
(***************************************************************************)
(* The tabs that edit a file of the game server, as a form or as text, and *)
(* the routes behind them: PropertiesEditor, YamlFileEditor (bukkit.yml or *)
(* spigot.yml) and Motd.  The routes read the file, change the lines the   *)
(* form names, and write it.                                               *)
(*                                                                         *)
(* A file is its lines: a property, a known YAML field or a known section  *)
(* of the MOTD is a key with a value; a comment or anything the form does  *)
(* not know is the key Other.  Text that does not parse is Broken.         *)
(***************************************************************************)
EXTENDS PanelRequests, FiniteSets, SequencesExt

CONSTANTS Keys, Other, Values, Broken,
    Known,      \* the keys server.properties always has a row for
    Files       \* the sequences of lines a file or a text may be

Line == [key : Keys \union {Other}, value : Values]

Pages == {"properties", "yaml", "motd"}
KeysOf(file) == {file[i].key : i \in DOMAIN file} \ {Other}
At(file, k) == {i \in DOMAIN file : file[i].key = k}
First(file, k) == CHOOSE i \in At(file, k) : \A j \in At(file, k) : i <= j

\* A key stands once in a YAML file; text that repeats one does not parse.
Parses(file) == file # Broken /\ (page = "properties" \/ \A k \in Keys : Cardinality(At(file, k)) <= 1)
Drafts == {f \in Files : Parses(f)} \union (IF page = "properties" THEN {} ELSE {Broken})

\* parseProperties(), extractKnownValues(), extractMotdValues().
Parse(file) ==
    [k \in KeysOf(file) |-> file[CHOOSE i \in At(file, k) : \A j \in At(file, k) : i >= j].value]

\* applyProperties(), applyKnownUpdates(), applyMotdUpdate(): the first line
\* of a key is rewritten, a new key is added at the end.
Applied(file, updates) ==
    [i \in DOMAIN file |->
        IF file[i].key \in DOMAIN updates /\ i = First(file, file[i].key)
        THEN [file[i] EXCEPT !.value = updates[file[i].key]] ELSE file[i]]
    \o [i \in 1..Cardinality(DOMAIN updates \ KeysOf(file)) |->
           LET k == SetToSeq(DOMAIN updates \ KeysOf(file))[i] IN [key |-> k, value |-> updates[k]]]

-----------------------------------------------------------------------------
(* The tab *)

NoDialog == {Other}
TypeOK ==
    /\ page \in Pages
    /\ server.file \in Seq(Line) /\ Parses(server.file) /\ server.stale \in BOOLEAN
    /\ DOMAIN view.values \subseteq Keys /\ view.touched \subseteq Keys
    /\ view.raw \in Seq(Line) \union {Broken}
    /\ {view.rawDirty, view.loading, view.failed, view.saving, view.applying} \subseteq BOOLEAN
    /\ view.mode \in {"form", "raw"} /\ view.banner \in {"none", "shown", "dismissed"}

Request(kind, updates, edited, text) ==
    [at |-> "sent", kind |-> kind, updates |-> updates, edited |-> edited, text |-> text,
     read |-> <<>>, ok |-> FALSE, doc |-> <<>>]
Load == Request("load", <<>>, {}, <<>>)

Init ==
    /\ page \in Pages
    /\ \E f \in Files : server = [file |-> f, stale |-> FALSE] /\ Parses(f)
    /\ view = [mode |-> "form", values |-> <<>>, touched |-> {}, raw |-> <<>>, rawDirty |-> FALSE,
               loading |-> TRUE, failed |-> FALSE, saving |-> FALSE, applying |-> FALSE,
               banner |-> "none", dialog |-> NoDialog]
    /\ LET s == CHOOSE t \in Slots : TRUE IN calls = [t \in Slots |-> IF t = s THEN Load ELSE NoCall]
    /\ order = <<>> /\ acts = 0 /\ calm \in BOOLEAN

Shows(newView) == view' = newView /\ UNCHANGED <<page, calm, server, calls, order, acts>>
Clear == view.dialog = NoDialog
Open(mode) ==
    /\ Clear /\ ~view.loading /\ ~view.failed /\ view.mode = mode
    /\ calm => ~view.saving

Typed(k, value) ==
    Shows([view EXCEPT !.values = [q \in DOMAIN @ \union {k} |-> IF q = k THEN value ELSE @[q]],
                       !.touched = @ \union {k}, !.dialog = NoDialog])
\* The forms: server.properties has a row for every known or present key, and
\* "Remove" for the others; the YAML files have their known fields; what is
\* changed in the MOTD is one of its sections.
PropertiesForm ==
    \E k \in Keys :
        \/ k \in Known \union DOMAIN view.values /\ \E value \in Values : Typed(k, value)
        \/ /\ k \in DOMAIN view.values \ Known
           /\ Shows([view EXCEPT !.values = [q \in DOMAIN @ \ {k} |-> @[q]], !.touched = @ \union {k}])
YamlForm == \E k \in Keys, value \in Values : Typed(k, value)
MotdForm == \E k \in Keys, value \in Values : Typed(k, value)
\* handleAddProperty(): the name is asked for, and compared with the names
\* there were when it was asked for.
AskName == Open("form") /\ Shows([view EXCEPT !.dialog = DOMAIN view.values])
NameGiven ==
    /\ ~Clear /\ \E k \in Keys, value \in Values :
         IF k \in view.dialog THEN Shows([view EXCEPT !.dialog = NoDialog]) ELSE Typed(k, value)

\* handleRawChange().
TypeText == Open("raw") /\ \E text \in Drafts : Shows([view EXCEPT !.raw = text, !.rawDirty = TRUE])
ChangeMode == Clear /\ Shows([view EXCEPT !.mode = IF @ = "form" THEN "raw" ELSE "form"])

\* Slip: the form sends all it shows.
EditsAll(values, touched) == values
Edits(values, touched) == [k \in touched |-> values[k]]

Begins(call, newView) == Acting /\ Send(call) /\ view' = newView
Saves(updates) ==
    /\ Clear /\ ~view.saving /\ ~view.loading
    /\ view.mode = "raw" => view.raw # Broken
    /\ Begins(IF view.mode = "raw" THEN Request("text", <<>>, {}, view.raw)
              ELSE Request("form", updates, view.touched, <<>>),
              [view EXCEPT !.saving = TRUE])
Dirty == IF view.mode = "raw" THEN view.rawDirty ELSE view.touched # {}
\* server.properties sends the whole form, the others what was touched.
PropertiesSave == (view.rawDirty \/ view.touched # {}) /\ Saves(view.values)
YamlSave == Dirty /\ Saves(Edits(view.values, view.touched))
MotdSave == Dirty /\ ~view.failed /\ Saves(Edits(view.values, view.touched))
Retry == Clear /\ view.failed /\ ~view.loading
         /\ Begins(Load, [view EXCEPT !.loading = TRUE, !.failed = FALSE])

\* The banner's restart after a YAML file, and the "Reload BetterMOTD" button.
Applies == Clear /\ ~view.applying /\ Begins(Request("apply", <<>>, {}, <<>>), [view EXCEPT !.applying = TRUE])
YamlRestart == view.banner = "shown" /\ Applies
MotdReload == ~view.loading /\ ~view.failed /\ Applies
Dismiss == Clear /\ view.banner = "shown" /\ Shows([view EXCEPT !.banner = "dismissed"])


PropertiesTab == (Open("form") /\ PropertiesForm) \/ AskName \/ NameGiven \/ PropertiesSave
YamlTab == (Open("form") /\ YamlForm) \/ YamlSave \/ YamlRestart \/ Dismiss
MotdTab == (Open("form") /\ MotdForm) \/ MotdSave \/ MotdReload
Acts ==
    \/ page = "properties" /\ PropertiesTab
    \/ page = "yaml" /\ YamlTab
    \/ page = "motd" /\ MotdTab
    \/ TypeText \/ ChangeMode \/ Retry

-----------------------------------------------------------------------------
(* The routes *)

\* A form save reads the file first.
Read(s) ==
    /\ calls[s].at = "sent" /\ calls[s].kind = "form"
    /\ calls' = [calls EXCEPT ![s].at = "read", ![s].read = server.file]
    /\ UNCHANGED <<page, calm, server, view, order, acts>>

\* The new file is written and audited; only when not calm may a save fail
\* after it was written.  A YAML file waits for a restart; the MOTD is reloaded,
\* and a reload that fails does not fail the save.
Stored(s, file) == Answer(s, TRUE, file) \/ (~calm /\ Answer(s, FALSE, <<>>))
PropertiesPut(s, file) == server' = [server EXCEPT !.file = file] /\ Stored(s, file)
YamlPut(s, file) == server' = [file |-> file, stale |-> TRUE] /\ Stored(s, file)
MotdPut(s, file) == server' = [server EXCEPT !.file = file] /\ Stored(s, file)
Write(s, file) ==
    \/ page = "properties" /\ PropertiesPut(s, file)
    \/ page = "yaml" /\ YamlPut(s, file)
    \/ page = "motd" /\ MotdPut(s, file)
Serve(s) ==
    LET c == calls[s] IN
    \/ c.at = "read" /\ Write(s, Applied(c.read, c.updates))
    \/ c.at = "sent" /\ c.kind = "text" /\ Write(s, c.text)
    \/ c.at = "sent" /\ c.kind = "load" /\ UNCHANGED server /\ Answer(s, TRUE, server.file)
    \/ c.at = "sent" /\ c.kind = "apply"
       /\ server' = [server EXCEPT !.stale = FALSE] /\ Answer(s, TRUE, <<>>)
    \/ c.at \in {"sent", "read"} /\ UNCHANGED server /\ Answer(s, FALSE, <<>>)

\* Another admin, or the game server, writes the file.
Elsewhere ==
    /\ ~calm /\ Acting
    /\ \E f \in Files : Parses(f) /\ server' = [server EXCEPT !.file = f]
    /\ UNCHANGED <<page, calm, view, calls, order>>

-----------------------------------------------------------------------------
(* Answers *)

\* Slip: the text is left as it was typed.
ReloadedForm(file) == [view EXCEPT !.values = Parse(file), !.touched = {}, !.rawDirty = FALSE]
Reloaded(file) == [view EXCEPT !.values = Parse(file), !.touched = {}, !.raw = file, !.rawDirty = FALSE]

Loaded(c) == [(IF c.ok THEN Reloaded(c.doc) ELSE view) EXCEPT !.loading = FALSE, !.failed = ~c.ok]
SaveArrived(c) ==
    [(IF c.ok THEN Reloaded(c.doc) ELSE view)
        EXCEPT !.saving = FALSE, !.banner = IF c.ok /\ page = "yaml" THEN "shown" ELSE @]
Deliver(s) ==
    LET c == calls[s] IN
    /\ Arrives(s) /\ Ends(s)
    /\ view' = CASE c.kind = "load" -> Loaded(c)
                 [] c.kind = "apply" -> [view EXCEPT !.applying = FALSE,
                                                     !.banner = IF c.ok THEN "none" ELSE @]
                 [] OTHER -> SaveArrived(c)

Next ==
    \/ Acts \/ Elsewhere
    \/ \E s \in Slots : Read(s) \/ Serve(s) \/ Deliver(s)

Spec == Init /\ [][Next]_vars

-----------------------------------------------------------------------------
(***************************************************************************)
(* Once every answer has arrived, a tab without unsaved edits shows the    *)
(* file, as form and as text.                                              *)
(***************************************************************************)
SettledViewIsTruth ==
    Quiet /\ ~view.failed /\ view.touched = {} /\ ~view.rawDirty =>
        view.raw = server.file /\ view.values = Parse(server.file)

(***************************************************************************)
(* A YAML file that was saved and waits for a restart is announced until   *)
(* the restart, or until the banner is dismissed.                          *)
(***************************************************************************)
RestartAnnounced == Quiet /\ server.stale => view.banner # "none"

(***************************************************************************)
(* A save of the form changes, of all the values of the file, only those   *)
(* of the rows that were edited, however old the shown values are          *)
(* (README.md:644), and when it is reported done these are in the file.    *)
(* An edit counts that is still a row of the form when it is saved and     *)
(* whose key stands once in the file: every other value stays what it was. *)
(* So "Remove" removes nothing, for the route only rewrites and adds       *)
(* (PropertiesEditor.tsx:53, propertiesFile.ts:25-46), and the edit of a   *)
(* repeated key has no effect, both though the save is reported done.      *)
(* What somebody writes between the read and the write of one save is      *)
(* lost; that is not claimed.                                              *)
(***************************************************************************)
FormSaveWritesOnlyEdits ==
    \A s \in Slots : LET c == calls[s] IN
        c.at = "read" /\ calls'[s].at = "answered" /\ server.file = c.read =>
            LET was == Parse(server.file)
                now == Parse(server'.file)
                written == {k \in c.edited \intersect DOMAIN c.updates : Cardinality(At(c.read, k)) < 2}
            IN /\ \A k \in Keys \ written :
                    (k \in DOMAIN was <=> k \in DOMAIN now) /\ (k \in DOMAIN was => now[k] = was[k])
               /\ calls'[s].ok => \A k \in written : now[k] = c.updates[k]
=============================================================================
