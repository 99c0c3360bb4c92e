----------------------------- MODULE Panel_proof -----------------------------
(***************************************************************************)
(* What holds of the panel: the theorems about its tabs, each of which is  *)
(* an invariant of the tab that is mounted, and follows from the lemmas    *)
(* about that tab.                                                         *)
(***************************************************************************)
EXTENDS Panel, PanelLists_proof, PanelFiles_proof

-----------------------------------------------------------------------------
(* A step of the panel is one of the tab that is mounted. *)

LEMMA OneTab ==
    ASSUME [Next]_vars
    PROVE  /\ page' = page /\ calm' = calm
           /\ OnLists => ListsStep
           /\ OnEditor => EditorStep
           /\ OnManager => ManagerStep
           /\ OnPerms => PermsStep
           /\ OnLive => LiveStep
<1>1. CASE UNCHANGED vars
  BY <1>1 DEF vars, ListsStep, EditorStep, ManagerStep, PermsStep, LiveStep
<1>2. CASE Next
  <2>1. Fixed
    BY <1>2, ListsFixed, EditorFixed, ManagerFixed, PermsFixed, LiveFixed DEF Next, Fixed, FileFixed
  <2> QED
    BY <1>2, <2>1 DEF Next, Fixed, FileFixed, OnLists, OnEditor, OnManager, OnPerms, OnLive, Lists!Tabs,
       Editor!Pages, Live!Pages, ListsStep, EditorStep, ManagerStep, PermsStep, LiveStep
<1> QED
  BY <1>1, <1>2

LEMMA InitTab ==
    ASSUME Init
    PROVE  /\ OnLists => Lists!Init
           /\ OnEditor => Editor!Init
           /\ OnManager => Manager!Init
           /\ OnPerms => Perms!Init
           /\ OnLive => Live!Init
<1>1. /\ Lists!Init => page \in Lists!Tabs
      /\ Editor!Init => page \in Editor!Pages
      /\ Manager!Init => page = "files"
      /\ Perms!Init => page = "luckperms"
      /\ Live!Init => page \in Live!Pages
  BY DEF Lists!Init, Editor!Init, Manager!Init, Perms!Init, Live!Init
<1> QED
  BY <1>1 DEF Init, OnLists, OnEditor, OnManager, OnPerms, OnLive, Lists!Tabs, Editor!Pages, Live!Pages

-----------------------------------------------------------------------------
(***************************************************************************)
(* Once nothing is under way, a tab shows what the server has, when calm:  *)
(* every row and flag of a list, the file a form was filled from, the      *)
(* entries of a directory, the groups, the track and the entity of         *)
(* LuckPerms, the last lines of the console; unless the tab says that a    *)
(* load failed, or a change stopped half way.  Until then, whatever is     *)
(* shown and wrong will be replaced by an answer or a message under way.   *)
(***************************************************************************)
THEOREM ViewsSettle == Spec => []SettledViewIsTruth
<1> DEFINE Inv == /\ OnLists => Locked /\ ListTyped /\ ListSettling
                  /\ OnEditor => Filled /\ Current
                  /\ OnManager => Pathed /\ FileSettling
                  /\ OnPerms => Keyed /\ PermTyped /\ PermSolid
                  /\ OnLive => Sockets /\ Live!OneSocketOrTimer /\ LiveTyped /\ LiveTelling
<1>1. Init => Inv
  BY InitTab, ListInitLocked, ListInitTyped, ListInitSettling, EditInitFilled, EditInitCurrent,
     FileInitPathed, FileInitSettling,
     PermInitKeyed, PermInitTyped, PermInitSolid, LiveInitInv, LiveInitTyped, LiveInitTelling
<1>2. Inv /\ [Next]_vars => Inv'
  <2> SUFFICES ASSUME Inv, [Next]_vars PROVE Inv'
    OBVIOUS
  <2>1. (OnLists => Locked /\ ListTyped /\ ListSettling)'
    BY OneTab, ListNextLocked, ListNextTyped, ListNextSettling DEF OnLists
  <2>2. (OnEditor => Filled /\ Current)'
    BY OneTab, EditNextFilled, EditNextCurrent DEF OnEditor
  <2>3. (OnManager => Pathed /\ FileSettling)'
    BY OneTab, FileNextPathed, FileNextSettling DEF OnManager
  <2>4. (OnPerms => Keyed /\ PermTyped /\ PermSolid)'
    BY OneTab, PermNextKeyed, PermNextTyped, PermNextSolid DEF OnPerms
  <2>5. (OnLive => Sockets /\ Live!OneSocketOrTimer /\ LiveTyped /\ LiveTelling)'
    BY OneTab, LiveNextInv, LiveNextTyped, LiveNextTelling DEF OnLive
  <2> QED
    BY <2>1, <2>2, <2>3, <2>4, <2>5
<1>3. Inv => SettledViewIsTruth
  <2> SUFFICES ASSUME Inv, calm PROVE SettledViewIsTruth
    BY DEF SettledViewIsTruth
  <2>1. OnLists => Lists!SettledViewIsTruth
    BY ListCurrentSettles
  <2>2. OnEditor => Editor!SettledViewIsTruth
    BY EditCurrentSettles
  <2>3. OnManager => Manager!SettledViewIsTruth
    BY FileFreshSettles
  <2>4. OnPerms => Perms!SettledViewIsTruth
    BY PermShelvedSettles DEF PermSolid
  <2>5. OnLive => Live!SettledViewIsTruth
    BY LiveTellingSettles
  <2> QED
    BY <2>1, <2>2, <2>3, <2>4, <2>5 DEF SettledViewIsTruth
<1> HIDE DEF Inv
<1> QED
  BY <1>1, <1>2, <1>3, PTL DEF Spec

(***************************************************************************)
(* What is sent as a whole was edited from what the server has, when calm: *)
(* a task that is toggled undoes no edit of its form, for any number of    *)
(* tasks and of requests, and a track that is rearranged loses no group    *)
(* that the user did not remove.                                           *)
(***************************************************************************)
THEOREM WholeSavesUndoNothing == Spec => WholeSavesKeepEdits
<1> DEFINE Inv == /\ OnLists => Locked /\ ListTyped /\ ListSettling /\ ListTextsKept
                  /\ OnPerms => Keyed /\ PermTyped /\ PermSolid
           Keep == calm => /\ OnLists => Lists!TogglesKeepEdits
                           /\ OnPerms => Perms!TrackEditsKeepEdits
<1>1. Init => Inv
  <2>1. Lists!Init => ListTextsKept
    BY ListInitForms DEF ListTextsKept
  <2> QED
    BY <2>1, InitTab, ListInitLocked, ListInitTyped, ListInitSettling, PermInitKeyed, PermInitTyped,
       PermInitSolid
<1>2. Inv /\ [Next]_vars => Inv'
  <2> SUFFICES ASSUME Inv, [Next]_vars PROVE Inv'
    OBVIOUS
  <2>1. (OnLists => Locked /\ ListTyped /\ ListSettling /\ ListTextsKept)'
    BY OneTab, ListNextLocked, ListNextTyped, ListNextSettling, ListNextForms DEF OnLists
  <2>2. (OnPerms => Keyed /\ PermTyped /\ PermSolid)'
    BY OneTab, PermNextKeyed, PermNextTyped, PermNextSolid DEF OnPerms
  <2> QED
    BY <2>1, <2>2
<1>3. Inv /\ [Next]_vars => [Keep]_vars
  <2> SUFFICES ASSUME Inv, [Next]_vars, vars' # vars, calm PROVE Keep
    OBVIOUS
  <2>1. OnLists => Lists!TogglesKeepEdits
    BY OneTab, ListTogglesKeep
  <2>2. OnPerms => Perms!TrackEditsKeepEdits
    BY OneTab, PermSolidTrack DEF PermSolid, PermsStep
  <2> QED
    BY <2>1, <2>2
<1> HIDE DEF Inv, Keep
<1>4. Spec => [][Keep]_vars
  BY <1>1, <1>2, <1>3, PTL DEF Spec
<1> QED
  BY <1>4 DEF Keep, WholeSavesKeepEdits

-----------------------------------------------------------------------------
(***************************************************************************)
(* Whatever the user clicks, and however answers are delayed, lost or      *)
(* reordered, a tab never has two requests about one row under way, for    *)
(* any number of rows and of requests.                                     *)
(***************************************************************************)
THEOREM RowsLocked == Spec => []OneRequestPerRow
<1> DEFINE Inv == OnLists => Locked
<1>1. Init => Inv
  BY InitTab, ListInitLocked
<1>2. Inv /\ [Next]_vars => Inv'
  BY OneTab, ListNextLocked DEF OnLists
<1>3. Inv => OneRequestPerRow
  BY DEF Locked, OneRequestPerRow, Lists!OneRequestPerRow, Lists!RowCall, ListRowKeyed, Lists!NoCall
<1> HIDE DEF Inv
<1> QED
  BY <1>1, <1>2, <1>3, PTL DEF Spec

(***************************************************************************)
(* A mounted view has one socket or one timer, never both and never none,  *)
(* however sockets are refused, break, and close late, and whenever the    *)
(* view is left and mounted again; one that was left tries no more.        *)
(***************************************************************************)
THEOREM OneAtATime == Spec => []OneSocketOrTimer
<1> DEFINE Inv == OnLive => Sockets /\ Live!OneSocketOrTimer
<1>1. Init => Inv
  BY InitTab, LiveInitInv
<1>2. Inv /\ [Next]_vars => Inv'
  BY OneTab, LiveNextInv DEF OnLive
<1>3. Inv => OneSocketOrTimer
  BY DEF OneSocketOrTimer
<1> HIDE DEF Inv
<1> QED
  BY <1>1, <1>2, <1>3, PTL DEF Spec

(***************************************************************************)
(* What the LuckPerms panel shows, and would edit, is the entity that is   *)
(* selected, for any number of groups and of requests, in whatever order   *)
(* answers come and whoever changes the selection: a click, a creation, a  *)
(* lookup or a deletion.                                                   *)
(***************************************************************************)
THEOREM RightPanel == Spec => []ShownIsSelected
<1> DEFINE Inv == OnPerms => Keyed
<1>1. Init => Inv
  BY InitTab, PermInitKeyed
<1>2. Inv /\ [Next]_vars => Inv'
  BY OneTab, PermNextKeyed DEF OnPerms
<1>3. Inv => ShownIsSelected
  BY DEF Keyed, ShownIsSelected
<1> HIDE DEF Inv
<1> QED
  BY <1>1, <1>2, <1>3, PTL DEF Spec

(***************************************************************************)
(* A group never has two weights, when calm: a weight is added only where  *)
(* the panel showed none, or after the one that was shown is gone, and     *)
(* what the panel showed was true, or was about to be corrected by an      *)
(* answer that the button of the weight was waiting for.                   *)
(***************************************************************************)
THEOREM SingleWeight == Spec => []OneWeight
<1> DEFINE Inv == OnPerms => Keyed /\ PermTyped /\ PermSolid
<1>1. Init => Inv
  BY InitTab, PermInitKeyed, PermInitTyped, PermInitSolid
<1>2. Inv /\ [Next]_vars => Inv'
  BY OneTab, PermNextKeyed, PermNextTyped, PermNextSolid DEF OnPerms
<1>3. Inv => OneWeight
  BY PermSolidWeights DEF OneWeight, PermSolid, PermTruth
<1> HIDE DEF Inv
<1> QED
  BY <1>1, <1>2, <1>3, PTL DEF Spec

-----------------------------------------------------------------------------
(***************************************************************************)
(* A rename that is sent has as its target the directory of the entry it   *)
(* names, followed by what was typed, whatever listings arrive while the   *)
(* dialog is open, for every tree and every name.  (A name with dots leads *)
(* where the dots lead.  Moves are not meant.)                             *)
(***************************************************************************)
THEOREM RenamesStay == Spec => []RenamesStayInDirectory
<1> DEFINE Inv == OnManager => Pathed
<1>1. Init => Inv
  BY InitTab, FileInitPathed
<1>2. Inv /\ [Next]_vars => Inv'
  BY OneTab, FileNextPathed DEF OnManager
<1>3. Inv => RenamesStayInDirectory
  BY PathedRenames DEF RenamesStayInDirectory
<1> HIDE DEF Inv
<1> QED
  BY <1>1, <1>2, <1>3, PTL DEF Spec

(***************************************************************************)
(* Whatever a confined account asks for, by name, by path or by dragging,  *)
(* nothing outside its root changes: scopedPath() suffices.                *)
(***************************************************************************)
THEOREM Scoped == Spec => ConfinedToRoot
<1> DEFINE Inv == OnManager => Pathed
<1>1. Init => Inv
  BY InitTab, FileInitPathed
<1>2. Inv /\ [Next]_vars => Inv'
  BY OneTab, FileNextPathed DEF OnManager
<1>3. Inv /\ Inv' /\ [Next]_vars => [OnManager => Manager!ConfinedToRoot]_vars
  BY OneTab, Confined DEF OnManager
<1> HIDE DEF Inv
<1> QED
  BY <1>1, <1>2, <1>3, PTL DEF Spec, ConfinedToRoot

(***************************************************************************)
(* The editor saves a text to the file it was read from, when answers come *)
(* in the order they were given: every read and write that is under way    *)
(* belongs to the file that is open.                                       *)
(***************************************************************************)
THEOREM SavedWhereLoaded == Spec => []SavesGoWhereLoaded
<1> DEFINE Inv == OnManager => Pathed /\ (calm => Edited)
<1>1. Init => Inv
  BY InitTab, FileInitPathed, FileInitEdited
<1>2. Inv /\ [Next]_vars => Inv'
  BY OneTab, FileNextPathed, FileNextEdited DEF OnManager
<1>3. Inv => SavesGoWhereLoaded
  BY DEF SavesGoWhereLoaded, Manager!SavesGoWhereLoaded, Edited
<1> HIDE DEF Inv
<1> QED
  BY <1>1, <1>2, <1>3, PTL DEF Spec

-----------------------------------------------------------------------------
(***************************************************************************)
(* A form changes no value but those of the rows that were edited, and     *)
(* when it reports that it saved these are in the file, for every file and *)
(* every sequence of edits: YamlFileEditor and Motd even when others wrote *)
(* the file since it was shown, PropertiesEditor when nobody did.  A row   *)
(* that was removed, and a key that stands twice, keep the value they had. *)
(***************************************************************************)
THEOREM FormWritesOnlyEdits == Spec => FormSaveWritesOnlyEdits
<1> DEFINE Inv == OnEditor => Filled /\ Current
<1>1. Init => Inv
  BY InitTab, EditInitFilled, EditInitCurrent
<1>2. Inv /\ [Next]_vars => Inv'
  BY OneTab, EditNextFilled, EditNextCurrent DEF OnEditor
<1>3. Inv /\ Inv' /\ [Next]_vars =>
        [OnEditor /\ (page = "properties" => calm) => Editor!FormSaveWritesOnlyEdits]_vars
  BY OneTab, EditFormWrites
<1> HIDE DEF Inv
<1> QED
  BY <1>1, <1>2, <1>3, PTL DEF Spec, FormSaveWritesOnlyEdits

(***************************************************************************)
(* What waits for a restart is announced, when calm (one user, and answers *)
(* in the order they were given): the save it waits for has shown the      *)
(* banner, or will with an answer that is under way, and no restart came   *)
(* after it.                                                               *)
(***************************************************************************)
THEOREM RestartShown == Spec => []RestartAnnounced
<1> DEFINE Inv == /\ OnLists => ListTyped /\ Queued /\ ListAnnounced
                  /\ OnEditor => Filled /\ Queued /\ Announced
<1>1. Init => Inv
  BY InitTab, ListInitTyped, ListInitQueued, ListInitAnnounced, EditInitFilled, EditInitQueued,
     EditInitAnnounced
<1>2. Inv /\ [Next]_vars => Inv'
  <2> SUFFICES ASSUME Inv, [Next]_vars PROVE Inv'
    OBVIOUS
  <2>1. OnLists' => ListTyped' /\ Queued' /\ ListAnnounced'
    BY OneTab, ListNextTyped, ListNextQueued, ListNextAnnounced DEF OnLists
  <2>2. OnEditor' => Filled' /\ Queued' /\ Announced'
    BY OneTab, EditNextFilled, EditNextQueued, EditNextAnnounced DEF OnEditor
  <2> QED
    BY <2>1, <2>2
<1>3. Inv => RestartAnnounced
  BY ListBannerShown, EditBannerShown DEF RestartAnnounced
<1> HIDE DEF Inv
<1> QED
  BY <1>1, <1>2, <1>3, PTL DEF Spec

(***************************************************************************)
(* The types of every tab.                                                 *)
(***************************************************************************)
THEOREM TypeCorrect == Spec => []TypeOK
<1> DEFINE Inv == /\ calm \in BOOLEAN
                  /\ OnLists => ListTyped
                  /\ OnEditor => Filled
                  /\ OnManager => Pathed
                  /\ OnPerms => Keyed /\ PermTyped
                  /\ OnLive => Sockets /\ Live!OneSocketOrTimer /\ LiveTyped
<1>1. Init => Inv
  <2>1. Init => calm \in BOOLEAN
    BY DEF Init, Lists!Init, Editor!Init, Manager!Init, Perms!Init, Live!Init
  <2> QED
    BY <2>1, InitTab, ListInitTyped, EditInitFilled, FileInitPathed, PermInitKeyed, PermInitTyped,
       LiveInitInv, LiveInitTyped
<1>2. Inv /\ [Next]_vars => Inv'
  <2> SUFFICES ASSUME Inv, [Next]_vars PROVE Inv'
    OBVIOUS
  <2>1. calm' \in BOOLEAN
    BY OneTab
  <2>2. (OnLists => ListTyped)'
    BY OneTab, ListNextTyped DEF OnLists
  <2>3. (OnEditor => Filled)'
    BY OneTab, EditNextFilled DEF OnEditor
  <2>4. (OnManager => Pathed)'
    BY OneTab, FileNextPathed DEF OnManager
  <2>5. (OnPerms => Keyed /\ PermTyped)'
    BY OneTab, PermNextKeyed, PermNextTyped DEF OnPerms
  <2>6. (OnLive => Sockets /\ Live!OneSocketOrTimer /\ LiveTyped)'
    BY OneTab, LiveNextInv, LiveNextTyped DEF OnLive
  <2> QED
    BY <2>1, <2>2, <2>3, <2>4, <2>5, <2>6
<1>3. Inv => TypeOK
  BY ListTyping, EditFilledTypes, PathedTypes, PermTypedTypes, LiveTypedTypes DEF TypeOK
<1> HIDE DEF Inv
<1> QED
  BY <1>1, <1>2, <1>3, PTL DEF Spec
=============================================================================
