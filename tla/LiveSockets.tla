----------------------------- MODULE LiveSockets -----------------------------
(***************************************************************************)
(* The live views: useSocket() in the browser, the WebSocket gateway, and  *)
(* what the Console tab and the Dashboard show of the lines (or samples)   *)
(* the services emit.                                                      *)
(*                                                                         *)
(* A slot of calls is a WebSocket: connecting; open (for the gateway, and  *)
(* for the browser once `opened`) with its messages under way in `out`;    *)
(* lost; or closing (by the hook).  `mine` says that its handlers belong   *)
(* to the hook that is mounted.  A line is its number.                     *)
(*                                                                         *)
(* The build is the production build: in development React's StrictMode    *)
(* mounts a hook twice, with its refs kept.                                *)
(***************************************************************************)
EXTENDS PanelRequests, SequencesExt

CONSTANTS HistorySize, Kept     \* lines the service keeps, lines the view keeps

Pages == {"console", "scripts", "metrics"}
Latest(lines, n) == IF Len(lines) > n THEN SubSeq(lines, Len(lines) - n + 1, Len(lines)) ELSE lines

Message == [type : {"history"}, lines : Seq(Nat)] \union [type : {"line"}, line : Nat]
           \union [type : {"status"}, following : BOOLEAN]
TypeOK ==
    /\ page \in Pages
    /\ server.log \in Seq(Nat) /\ Len(server.log) <= HistorySize /\ server.last \in Nat
    /\ server.following \in BOOLEAN
    /\ {view.mounted, view.connected, view.following} \subseteq BOOLEAN /\ view.timers \in Nat
    /\ view.shown \in Seq(Nat) /\ Len(view.shown) <= IF HistorySize > Kept THEN HistorySize ELSE Kept
    /\ \A s \in Slots : calls[s] # NoCall =>
           calls[s].at \in {"connecting", "open", "lost", "closing"} /\ calls[s].out \in Seq(Message)

Socket == [at |-> "connecting", out |-> <<>>, opened |-> FALSE, mine |-> TRUE]
NewView == [mounted |-> FALSE, connected |-> FALSE, timers |-> 0, shown |-> <<>>, following |-> FALSE]

Init ==
    /\ page \in Pages
    /\ server = [log |-> <<>>, last |-> 0, following |-> FALSE]
    /\ view = NewView
    /\ calls = [s \in Slots |-> NoCall]
    /\ order = <<>> /\ acts = 0
    /\ calm = TRUE     \* which is about requests: sockets break all the same

-----------------------------------------------------------------------------
(* The hook *)

\* connect(): the socket is the one the ref names from now on.
Connect(sockets) ==
    /\ \E s \in Slots : calls[s] = NoCall
    /\ calls' = [sockets EXCEPT ![FreeSlot] = Socket]
    /\ UNCHANGED <<page, calm, server, order>>
Orphans == [s \in Slots |-> IF calls[s] = NoCall THEN NoCall ELSE [calls[s] EXCEPT !.mine = FALSE]]
Mount ==
    /\ ~view.mounted /\ Acting /\ Connect(Orphans)
    /\ view' = [NewView EXCEPT !.mounted = TRUE]

\* Slip: the timer is left armed.
UnmountedArmed == [view EXCEPT !.mounted = FALSE]
Unmounted == [view EXCEPT !.mounted = FALSE, !.timers = IF @ > 0 THEN @ - 1 ELSE 0]
Unmount ==
    /\ view.mounted /\ Acting /\ view' = Unmounted
    /\ calls' = [s \in Slots |-> IF calls[s] # NoCall /\ calls[s].mine
                                 THEN [calls[s] EXCEPT !.at = "closing"] ELSE calls[s]]
    /\ UNCHANGED <<page, calm, server, order>>

TimerFires ==
    /\ view.timers > 0 /\ Connect(calls)
    /\ view' = [view EXCEPT !.timers = @ - 1] /\ UNCHANGED acts

Opens(s) ==
    /\ calls[s].at = "open" /\ ~calls[s].opened
    /\ calls' = [calls EXCEPT ![s].opened = TRUE]
    /\ view' = IF calls[s].mine THEN [view EXCEPT !.connected = TRUE] ELSE view
    /\ UNCHANGED <<page, calm, server, order, acts>>

\* Slip: what is shown stays in front of the history.
ConsoleShowsBoth(msg) ==
    IF msg.type = "history" THEN view.shown \o msg.lines ELSE Append(Latest(view.shown, Kept - 1), msg.line)
\* onMessage().
ConsoleShows(msg) ==
    IF msg.type = "history" THEN Latest(msg.lines, Kept - 1) ELSE Append(Latest(view.shown, Kept - 1), msg.line)
DashboardShows(msg) ==
    IF msg.type = "history" THEN msg.lines ELSE Append(Latest(view.shown, Kept - 1), msg.line)
Receives(s) ==
    /\ calls[s].at \in {"open", "lost"} /\ calls[s].opened /\ calls[s].out # <<>>
    /\ LET msg == Head(calls[s].out) IN
       view' = IF ~calls[s].mine THEN view
               ELSE IF msg.type = "status" THEN [view EXCEPT !.following = msg.following]
               ELSE [view EXCEPT !.shown = IF page = "console" THEN ConsoleShows(msg) ELSE DashboardShows(msg)]
    /\ calls' = [calls EXCEPT ![s].out = Tail(@)]
    /\ UNCHANGED <<page, calm, server, order, acts>>

\* onclose; what had arrived before is delivered before.
Closes(s) ==
    /\ calls[s].at = "closing" \/ (calls[s].at = "lost" /\ calls[s].out = <<>>)
    /\ view' = IF ~calls[s].mine THEN view
               ELSE [view EXCEPT !.connected = FALSE, !.timers = IF view.mounted THEN @ + 1 ELSE @]
    /\ Ends(s) /\ UNCHANGED <<page, calm, server, order, acts>>

-----------------------------------------------------------------------------
(* The gateway and the services *)

\* What a handler sends first.
History == [type |-> "history", lines |-> server.log]
ConsoleGreeting == <<[type |-> "status", following |-> server.following], History>>
ScriptsGreeting == <<History>>
MetricsGreeting == <<History>>
Greeting ==
    CASE page = "console" -> ConsoleGreeting
      [] page = "scripts" -> ScriptsGreeting
      [] page = "metrics" -> MetricsGreeting

\* The upgrade: the account is looked up, and the handler sends what there is
\* and listens, without an await in between; or the socket is destroyed.
Upgrade(s) ==
    /\ calls[s].at = "connecting"
    /\ calls' = [calls EXCEPT ![s] = [@ EXCEPT !.at = "open", !.out = Greeting]]
    /\ UNCHANGED <<page, calm, server, view, order, acts>>
Refuse(s) ==
    /\ calls[s].at = "connecting" /\ Acting
    /\ calls' = [calls EXCEPT ![s].at = "lost"]
    /\ UNCHANGED <<page, calm, server, view, order>>

\* To every socket that is open.
Broadcast(msg) ==
    [s \in Slots |-> IF calls[s].at = "open" THEN [calls[s] EXCEPT !.out = Append(@, msg)] ELSE calls[s]]
Emit ==
    LET n == server.last + 1 IN
    /\ Acting
    /\ server' = [server EXCEPT !.last = n, !.log = Latest(Append(@, n), HistorySize)]
    /\ calls' = Broadcast([type |-> "line", line |-> n])
    /\ UNCHANGED <<page, calm, view, order>>
StatusChanges ==
    /\ page = "console" /\ Acting
    /\ server' = [server EXCEPT !.following = ~@]
    /\ calls' = Broadcast([type |-> "status", following |-> ~server.following])
    /\ UNCHANGED <<page, calm, view, order>>

\* The connection breaks, with or without what was under way; or the panel
\* restarts, and forgets its history.
BrokenOff(s, kept) ==
    IF calls[s] = NoCall \/ calls[s].at = "closing" THEN calls[s]
    ELSE [calls[s] EXCEPT !.at = "lost", !.out = IF calls[s].opened THEN SubSeq(@, 1, kept[s]) ELSE <<>>]
Drop(s) ==
    /\ calls[s].at = "open" /\ Acting
    /\ \E n \in 0..Len(calls[s].out) : calls' = [calls EXCEPT ![s] = BrokenOff(s, [t \in Slots |-> n])]
    /\ UNCHANGED <<page, calm, server, view, order>>
Restart ==
    /\ Acting
    /\ server' = [server EXCEPT !.log = <<>>, !.following = FALSE]
    /\ calls' = [s \in Slots |-> BrokenOff(s, [t \in Slots |-> 0])]
    /\ UNCHANGED <<page, calm, view, order>>

Next ==
    \/ Mount \/ Unmount \/ TimerFires \/ Emit \/ StatusChanges \/ Restart
    \/ \E s \in Slots : Upgrade(s) \/ Refuse(s) \/ Drop(s) \/ Opens(s) \/ Receives(s) \/ Closes(s)

Spec == Init /\ [][Next]_vars

-----------------------------------------------------------------------------
Mine == {s \in Slots : calls[s] # NoCall /\ calls[s].mine}

(***************************************************************************)
(* When a socket is open and has delivered everything, the view shows the  *)
(* last lines that were emitted, each once and none missing, and the       *)
(* status, however often the connection broke in between.                  *)
(***************************************************************************)
SettledViewIsTruth ==
    \A s \in Mine : calls[s].at = "open" /\ calls[s].opened /\ calls[s].out = <<>> =>
        /\ IsSuffix(view.shown, server.log) \/ IsSuffix(server.log, view.shown)
        /\ \A i, j \in DOMAIN view.shown : view.shown[i] = view.shown[j] => i = j
        /\ server.log # <<>> => view.shown # <<>>
        /\ page = "console" => view.following = server.following

(***************************************************************************)
(* A mounted hook has one socket or one timer, so it never gives up and    *)
(* never hears a line twice, and `connected` says whether its socket is    *)
(* open.  Once unmounted it has no timer, and its socket is on its way     *)
(* out.                                                                    *)
(***************************************************************************)
OneSocketOrTimer ==
    IF view.mounted
    THEN /\ \A s \in Mine : calls[s].at # "closing"
         /\ \/ view.timers = 0 /\ \E s \in Mine : Mine = {s} /\ view.connected = calls[s].opened
            \/ view.timers = 1 /\ Mine = {} /\ ~view.connected
    ELSE view.timers = 0 /\ \A s \in Mine : calls[s].at = "closing"
=============================================================================
