----------------------------- MODULE PanelLists ------------------------------
(***************************************************************************)
(* The tabs that show a list, a form or what happens, with what they are   *)
(* given.                                                                  *)
(***************************************************************************)
EXTENDS PanelRequests, FiniteSets

CONSTANTS
    SocketActs,                                     \* bound on what happens to sockets
    Rows, Me,                                       \* ListTabs
    Keys, Known, Other, Values, Broken, Files,      \* EditorTabs
    HistorySize, Kept                               \* LiveSockets

\* The administrator who is logged in has a row of the users tab.
ASSUME MeAssumption == Me \in Rows

\* A form that is closed, or open for a new row, is open for none of the rows.
ASSUME FormAssumption == "none" \notin Rows /\ "new" \notin Rows

\* A file is a sequence of lines; Other is no field, and broken text no file.
ASSUME LinesAssumption ==
    /\ IsFiniteSet(Keys) /\ Other \notin Keys
    /\ Files \subseteq Seq([key : Keys \union {Other}, value : Values])
    /\ Broken \notin Seq([key : Keys \union {Other}, value : Values])

\* The service keeps the last lines, and a view the last of those and a line
\* more (Console.tsx:46,49, Dashboard.tsx:66,72).
ASSUME HistoryAssumption == HistorySize \in Nat /\ Kept \in Nat \ {0, 1}

Lists == INSTANCE ListTabs
Editor == INSTANCE EditorTabs
Live == INSTANCE LiveSockets WITH MaxActs <- SocketActs
=============================================================================
