----------------------------- MODULE SshService ------------------------------
(***************************************************************************)
(* services/ssh.service.ts: the one SSH connection shared by metrics,      *)
(* scripts, the console and the sudo file manager.                         *)
(*                                                                         *)
(* conn[c] is the ssh2 Client of attempt c, c also naming the promise that *)
(* attempt made; the fields of SshService are client (connected is TRUE    *)
(* exactly when it is set), promise, timer and backoff.  A call is an      *)
(* exec()/execChannel() in progress.  Every listener runs to its end       *)
(* before another does; actions are the listeners and the entry points.    *)
(*                                                                         *)
(* What the network and ssh2 may do depends on `world`, chosen at the      *)
(* start for good, so that a property can name what it assumes.  Faults    *)
(* are bounded by MaxFaults: when they are spent the server stays          *)
(* reachable.                                                              *)
(***************************************************************************)
EXTENDS ConnectionConstants

VARIABLES
    conn,       \* what each client is doing
    stripped,   \* clients whose listeners were removed
    client,     \* this.client
    promise,    \* this.connectPromise
    timer,      \* this.reconnectTimer is armed
    backoff,    \* steps above MIN_BACKOFF_MS
    call,       \* the callers: idle, waiting for an attempt, executing on a client
    faults,     \* faults spent
    alive,      \* FALSE once an 'error' event met no listener: Node exits
    world       \* what the network and ssh2 do

vars == <<conn, stripped, client, promise, timer, backoff, call, faults, alive, world>>

Worlds == {"ssh", "ssh late close", "ssh unreadable key", "ssh any"}

\* Reading the key file may throw.
KeyFaults == world \in {"ssh unreadable key", "ssh any"}
\* The peer may close before 'ready' with no 'error' event.
BareClose == world = "ssh any"
\* 'close' may follow 'error' after any delay.
LateClose == world \in {"ssh late close", "ssh any"}

\* "closing": 'error' was emitted, 'close' is to come.  "closed": gone, but its
\* promise is still pending.  "thrown": connect() threw, its promise is rejected.
ConnState == {"free", "connecting", "ready", "closing", "closed", "thrown"}
IdleCall == [at |-> "idle", on |-> None]

Fields ==
    /\ conn \in [Clients -> ConnState]
    /\ stripped \subseteq Clients
    /\ {client, promise} \subseteq Clients \union {None}
    /\ backoff \in 0..MaxBackoff /\ faults \in 0..MaxFaults
    /\ call \in [Calls -> [at : {"idle", "waiting", "executing"}, on : Clients \union {None}]]
Flags == timer \in BOOLEAN /\ alive \in BOOLEAN
TypeOK == Fields /\ Flags /\ world \in Worlds

\* start() has just run: the first attempt is in flight.
Init ==
    /\ \E c \in Clients :
         /\ conn = [d \in Clients |-> IF d = c THEN "connecting" ELSE "free"]
         /\ promise = c
    /\ stripped = {} /\ client = None /\ timer = FALSE /\ backoff = 0
    /\ call = [k \in Calls |-> IdleCall]
    /\ faults = 0 /\ alive = TRUE /\ world \in Worlds

-----------------------------------------------------------------------------
Fault == faults < MaxFaults /\ faults' = faults + 1

\* Slip: the backoff is not capped.
GrownUncapped(b) == b + 1
Grown(b) == IF b < MaxBackoff THEN b + 1 ELSE b

\* The two early returns of ensureConnected() not taken.
\* Slip: the attempt in flight is overlooked.
DownBesideAttempt == client = None
Down == client = None /\ promise = None

\* A slot is used again only when no event of its last client can come.
Free(c) == conn[c] = "free" /\ \A k \in Calls : call[k].on # c

\* The part of ensureConnected() after its two early returns.  A throw in the
\* executor clears connectPromise, which the assignment around it sets again.
NewAttempt(c) ==
    /\ Free(c)
    /\ \/ conn' = [conn EXCEPT ![c] = "connecting"] /\ UNCHANGED faults
       \/ KeyFaults /\ Fault /\ conn' = [conn EXCEPT ![c] = "thrown"]
    /\ promise' = c
    /\ timer' = FALSE
    /\ stripped' = stripped \ {c}

\* Slip: no retry is scheduled.
HandleDisconnectForGood ==
    /\ stripped' = stripped \union ({client} \ {None})
    /\ client' = None
    /\ UNCHANGED timer
HandleDisconnect ==
    /\ stripped' = stripped \union ({client} \ {None})
    /\ client' = None
    /\ timer' = TRUE

\* The callers of a promise that settled, or of a client that went away.
\* Slip: the callers are not told.
SettleNobody(c) == call
Settle(c) == [k \in Calls |-> IF call[k].on = c THEN IdleCall ELSE call[k]]

-----------------------------------------------------------------------------
\* exec() and execChannel(): the await of ensureConnected().
CallConnected(k) ==
    /\ alive /\ call[k] = IdleCall /\ client # None
    /\ call' = [call EXCEPT ![k] = [at |-> "executing", on |-> client]]
    /\ UNCHANGED <<conn, stripped, client, promise, timer, backoff, faults, alive, world>>

CallJoins(k) ==
    /\ alive /\ call[k] = IdleCall /\ client = None /\ promise # None
    /\ conn[promise] # "thrown"             \* a rejected promise answers at once
    /\ call' = [call EXCEPT ![k] = [at |-> "waiting", on |-> promise]]
    /\ UNCHANGED <<conn, stripped, client, promise, timer, backoff, faults, alive, world>>

CallConnects(k) ==
    /\ alive /\ call[k] = IdleCall /\ Down
    /\ \E c \in Clients :
         /\ NewAttempt(c)
         /\ call' = IF conn'[c] = "thrown" THEN call
                    ELSE [call EXCEPT ![k] = [at |-> "waiting", on |-> c]]
    /\ UNCHANGED <<client, backoff, alive, world>>

\* The channel closed (or the request was refused): the caller is answered.
ExecDone(k) ==
    /\ call[k].at = "executing"
    /\ call' = [call EXCEPT ![k] = IdleCall]
    /\ UNCHANGED <<conn, stripped, client, promise, timer, backoff, faults, alive, world>>

TimerFires ==
    /\ alive /\ timer
    /\ backoff' = Grown(backoff)
    /\ IF Down
       THEN \E c \in Clients : NewAttempt(c)
       ELSE timer' = FALSE /\ UNCHANGED <<conn, stripped, promise, faults>>
    /\ UNCHANGED <<client, call, alive, world>>

\* 'ready'
Ready(c) ==
    /\ alive /\ conn[c] = "connecting"
    /\ conn' = [conn EXCEPT ![c] = "ready"]
    /\ client' = c /\ promise' = None /\ backoff' = 0
    /\ call' = [k \in Calls |-> IF call[k] = [at |-> "waiting", on |-> c]
                                THEN [at |-> "executing", on |-> c] ELSE call[k]]
    /\ UNCHANGED <<stripped, timer, faults, alive, world>>

\* 'error', on an attempt or on an established connection, with the 'close'
\* that follows it at once or later.
Error(c) ==
    /\ alive /\ Fault /\ conn[c] \in {"connecting", "ready"} /\ c \notin stripped
    /\ conn' = [conn EXCEPT ![c] = IF LateClose THEN "closing" ELSE "free"]
    /\ promise' = None
    /\ HandleDisconnect
    /\ call' = Settle(c)
    /\ UNCHANGED <<backoff, alive, world>>

\* 'close' with no 'error' before it.
Close(c) ==
    /\ alive /\ Fault
    /\ \/ conn[c] = "connecting" /\ BareClose /\ conn' = [conn EXCEPT ![c] = "closed"]
          /\ UNCHANGED call
       \/ conn[c] = "ready" /\ conn' = [conn EXCEPT ![c] = "free"] /\ call' = Settle(c)
    /\ IF c \in stripped THEN UNCHANGED <<stripped, client, timer>> ELSE HandleDisconnect
    /\ UNCHANGED <<promise, backoff, alive, world>>

\* 'close' long after 'error'.
ClosedLate(c) ==
    /\ alive /\ conn[c] = "closing"
    /\ conn' = [conn EXCEPT ![c] = "free"]
    /\ IF c \in stripped THEN UNCHANGED <<stripped, client, timer>> ELSE HandleDisconnect
    /\ UNCHANGED <<promise, backoff, call, faults, alive, world>>

\* 'error' on a client whose listeners were removed: EventEmitter throws it.
UnhandledError(c) ==
    /\ alive /\ Fault /\ conn[c] = "ready" /\ c \in stripped
    /\ alive' = FALSE
    /\ UNCHANGED <<conn, stripped, client, promise, timer, backoff, call, world>>

Next ==
    \/ TimerFires
    \/ \E k \in Calls : CallConnected(k) \/ CallJoins(k) \/ CallConnects(k) \/ ExecDone(k)
    \/ \E c \in Clients :
         Ready(c) \/ Error(c) \/ Close(c) \/ ClosedLate(c) \/ UnhandledError(c)

Spec == Init /\ [][Next]_vars

-----------------------------------------------------------------------------
(***************************************************************************)
(* While the service is down, something is on its way to bring it up: an   *)
(* attempt whose events are still to come, or the timer.                   *)
(***************************************************************************)
DownIsBeingRetried ==
    client = None => timer \/ (promise # None /\ conn[promise] = "connecting")

(***************************************************************************)
(* A caller that waits, waits for an attempt that will still settle its    *)
(* promise.                                                                *)
(***************************************************************************)
WaitersHaveAnAttempt ==
    \A k \in Calls : call[k].at = "waiting" => conn[call[k].on] = "connecting"

(***************************************************************************)
(* The shared connection is one connection: no second one is open or being *)
(* opened beside it.                                                       *)
(***************************************************************************)
SingleConnection ==
    \A c, d \in Clients : {conn[c], conn[d]} \subseteq {"connecting", "ready"} => c = d

\* A key file that cannot be read, and nothing else out of the ordinary.
KeyFaultSpec == Init /\ world = "ssh unreadable key" /\ [][Next]_vars
=============================================================================
