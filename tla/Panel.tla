-------------------------------- MODULE Panel --------------------------------
(***************************************************************************)
(* The tabs of the panel.  A behaviour is that of one mounted tab (page)   *)
(* under one assumption: calm or not (PanelRequests), chosen at the start  *)
(* and never changed.  A property that needs calm says so; the README says *)
(* what happens without it.                                                *)
(***************************************************************************)
EXTENDS PanelLists, PanelFiles

OnLists == page \in Lists!Tabs
OnEditor == page \in Editor!Pages
OnManager == page = "files"
OnPerms == page = "luckperms"
OnLive == page \in Live!Pages

Init == Lists!Init \/ Editor!Init \/ Manager!Init \/ Perms!Init \/ Live!Init

Next ==
    \/ OnLists /\ Lists!Next
    \/ OnEditor /\ Editor!Next
    \/ OnManager /\ Manager!Next
    \/ OnPerms /\ Perms!Next
    \/ OnLive /\ Live!Next

Spec == Init /\ [][Next]_vars

\* The server.properties editor, while others write the file.
PropertiesSpec == Init /\ page = "properties" /\ ~calm /\ [][Next]_vars

-----------------------------------------------------------------------------
(***************************************************************************)
(* The type invariant of the tab at hand.                                  *)
(***************************************************************************)
TypeOK ==
    /\ calm \in BOOLEAN
    /\ OnLists => Lists!TypeOK
    /\ OnEditor => Editor!TypeOK
    /\ OnManager => Manager!TypeOK
    /\ OnPerms => Perms!TypeOK
    /\ OnLive => Live!TypeOK

(***************************************************************************)
(* When nothing is under way any more, a tab shows what the server has.    *)
(***************************************************************************)
SettledViewIsTruth ==
    calm =>
        /\ OnLists => Lists!SettledViewIsTruth
        /\ OnEditor => Editor!SettledViewIsTruth
        /\ OnManager => Manager!SettledViewIsTruth
        /\ OnPerms => Perms!SettledViewIsTruth
        /\ OnLive => Live!SettledViewIsTruth

(***************************************************************************)
(* What waits for a restart is announced (Ops, YamlFileEditor).            *)
(***************************************************************************)
RestartAnnounced ==
    calm =>
        /\ OnLists => Lists!RestartAnnounced
        /\ OnEditor => Editor!RestartAnnounced

(***************************************************************************)
(* The backend never has two requests about one row to serve (withBusy()). *)
(***************************************************************************)
OneRequestPerRow == OnLists => Lists!OneRequestPerRow

(***************************************************************************)
(* What is sent as a whole, a task that is toggled or a track that is      *)
(* rearranged, undoes no edit that was saved since it was shown.           *)
(***************************************************************************)
WholeSavesKeepEdits ==
    [][calm => /\ OnLists => Lists!TogglesKeepEdits
               /\ OnPerms => Perms!TrackEditsKeepEdits]_vars

(***************************************************************************)
(* A form changes no value that was not edited, even when others write the *)
(* file before it is saved (YamlFileEditor, Motd); PropertiesEditor does:  *)
(* next.  Removed rows and repeated keys keep their value in the file.     *)
(***************************************************************************)
FormSaveWritesOnlyEdits ==
    [][OnEditor /\ (page = "properties" => calm) => Editor!FormSaveWritesOnlyEdits]_vars

(***************************************************************************)
(* "Saving only rewrites the specific lines that changed" (README.md:644)  *)
(* of PropertiesEditor, which sends the whole form as it was shown.        *)
(***************************************************************************)
PropertiesSaveWritesOnlyEdits == [][Editor!FormSaveWritesOnlyEdits]_vars

(***************************************************************************)
(* A file or directory is renamed from its own directory on, not from one  *)
(* that was shown since (handleRename()).                                  *)
(***************************************************************************)
RenamesStayInDirectory == OnManager => Manager!RenamesStayInDirectory

(***************************************************************************)
(* FileEditor saves a text to the file it was read from.                   *)
(***************************************************************************)
SavesGoWhereLoaded == OnManager /\ calm => Manager!SavesGoWhereLoaded

(***************************************************************************)
(* Nothing outside the root of a confined account changes (scopedPath()).  *)
(***************************************************************************)
ConfinedToRoot == [][OnManager => Manager!ConfinedToRoot]_vars

(***************************************************************************)
(* A LuckPerms panel shows the entity that is selected.                    *)
(***************************************************************************)
ShownIsSelected == OnPerms => Perms!ShownIsSelected

(***************************************************************************)
(* A group has one weight at most (GroupInfo.saveWeight()).                *)
(***************************************************************************)
OneWeight == OnPerms /\ calm => Perms!OneWeight

(***************************************************************************)
(* A live view has one socket or one timer (useSocket()), in a production  *)
(* build: StrictMode's second mount opens a second socket.                 *)
(***************************************************************************)
OneSocketOrTimer == OnLive => Live!OneSocketOrTimer
=============================================================================
