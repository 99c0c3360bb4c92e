---------------------------- MODULE PanelRequests ----------------------------
(***************************************************************************)
(* What the tabs of the panel share: one mounted component (view), what    *)
(* the backend answers from (server), and requests in between (calls).  A  *)
(* request is sent, served, and its answer arrives: three steps, with      *)
(* anything in between.                                                    *)
(*                                                                         *)
(* Calm: one person works alone, waits for a form that is being submitted, *)
(* and answers arrive in the order the backend gave them.  The browser     *)
(* promises none of this: without Calm, answers overtake each other, are   *)
(* lost, and the server changes on its own.                                *)
(***************************************************************************)
EXTENDS Naturals, Sequences

CONSTANTS
    Slots,      \* requests in flight at once
    MaxActs     \* bound on what the user does

\* A request can be made.
ASSUME SlotsAssumption == Slots # {}

VARIABLES
    page,       \* which tab is mounted; never changes
    server, view, calls,
    order,      \* when calm: the answers under way, oldest first
    acts,
    calm        \* which of the two it is; never changes

vars == <<page, server, view, calls, order, acts, calm>>

NoCall == [at |-> "free"]
Quiet == \A s \in Slots : calls[s] = NoCall
FreeSlot == CHOOSE s \in Slots : calls[s] = NoCall

\* What is not calm branches more, and is bounded sooner.
Bound == IF calm THEN MaxActs ELSE MaxActs - 1
Acting == acts < Bound /\ acts' = acts + 1

\* api.get(), api.post() ...: the request leaves.
Send(call) ==
    /\ ~ \A s \in Slots : calls[s] # NoCall
    /\ calls' = [calls EXCEPT ![FreeSlot] = call]
    /\ UNCHANGED <<page, calm, server, order>>

\* The backend answered slot s.
Answer(s, ok, doc) ==
    /\ calls' = [calls EXCEPT ![s] = [@ EXCEPT !.at = "answered", !.ok = ok, !.doc = doc]]
    /\ order' = IF calm THEN Append(order, s) ELSE order
    /\ UNCHANGED <<page, calm, view, acts>>

\* The answer in slot s reaches the component.
Arrives(s) ==
    /\ calls[s].at = "answered"
    /\ calm => Head(order) = s
    /\ order' = IF calm THEN Tail(order) ELSE order
    /\ UNCHANGED <<page, calm, server, acts>>

\* The handler ends, or sends its next request.
Ends(s) == calls' = [calls EXCEPT ![s] = NoCall]
Continues(s, call) == calls' = [calls EXCEPT ![s] = call]
=============================================================================
