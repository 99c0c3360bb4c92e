----------------------------- MODULE RconService -----------------------------
(***************************************************************************)
(* services/rcon.service.ts: the one RCON connection every RCON-backed     *)
(* feature shares.                                                         *)
(*                                                                         *)
(* conn[c] is the rcon-client object of attempt c.  connect() opens the    *)
(* socket and sends the password; when the answer to the password does not *)
(* come in time the promise rejects, and the socket stays open with the    *)
(* listeners of the attempt on it ("lingering", only when Lingering).      *)
(* Faults are bounded; when they are spent the server answers.  `world`,   *)
(* chosen at the start for good, says whether sockets linger.              *)
(***************************************************************************)
EXTENDS ConnectionConstants

VARIABLES
    conn,       \* what each rcon-client is doing
    client,     \* this.client (connected is TRUE exactly when it is set)
    promise,    \* this.connectPromise
    timer,      \* this.reconnectTimer is armed
    backoff,    \* steps above MIN_BACKOFF_MS
    call,       \* the callers: idle, waiting for an attempt, sending on a client
    faults,
    world       \* what the network and rcon-client do

vars == <<conn, client, promise, timer, backoff, call, faults, world>>

Worlds == {"rcon", "rcon lingering"}

\* A rejected connect() may leave its socket open.
Lingering == world = "rcon lingering"

\* "ended": the socket is gone, connect() is still waiting for its timeout.
ConnState == {"free", "connecting", "ended", "lingering", "ready"}
IdleCall == [at |-> "idle", on |-> None]

Fields ==
    /\ conn \in [Clients -> ConnState]
    /\ {client, promise} \subseteq Clients \union {None}
    /\ backoff \in 0..MaxBackoff /\ faults \in 0..MaxFaults
    /\ call \in [Calls -> [at : {"idle", "waiting", "sending"}, on : Clients \union {None}]]
TypeOK == Fields /\ timer \in BOOLEAN /\ world \in Worlds

\* start() has just run.
Init ==
    /\ \E c \in Clients :
         /\ conn = [d \in Clients |-> IF d = c THEN "connecting" ELSE "free"]
         /\ promise = c
    /\ client = None /\ timer = FALSE /\ backoff = 0 /\ faults = 0
    /\ call = [k \in Calls |-> IdleCall] /\ world \in Worlds

-----------------------------------------------------------------------------
Fault == faults < MaxFaults /\ faults' = faults + 1

\* Slip: the backoff is not capped.
GrownUncapped(b) == b + 1
Grown(b) == IF b < MaxBackoff THEN b + 1 ELSE b

\* The two early returns of ensureConnected() not taken.
\* Slip: the attempt in flight is overlooked.
DownBesideAttempt == client = None
Down == client = None /\ promise = None

NewAttempt(c) ==
    /\ conn[c] = "free" /\ \A k \in Calls : call[k].on # c
    /\ conn' = [conn EXCEPT ![c] = "connecting"]
    /\ promise' = c
    /\ timer' = FALSE

\* handleDisconnect() is not told which client it is called for.
\* Slip: no retry is scheduled.
HandleDisconnectForGood == client' = None /\ UNCHANGED timer
HandleDisconnect == client' = None /\ timer' = TRUE

-----------------------------------------------------------------------------
\* execute(): the await of ensureConnected().
CallConnected(k) ==
    /\ call[k] = IdleCall /\ client # None
    /\ call' = [call EXCEPT ![k] = [at |-> "sending", on |-> client]]
    /\ UNCHANGED <<conn, client, promise, timer, backoff, faults, world>>

CallJoins(k) ==
    /\ call[k] = IdleCall /\ client = None /\ promise # None
    /\ call' = [call EXCEPT ![k] = [at |-> "waiting", on |-> promise]]
    /\ UNCHANGED <<conn, client, promise, timer, backoff, faults, world>>

CallConnects(k) ==
    /\ call[k] = IdleCall /\ Down
    /\ \E c \in Clients :
         /\ NewAttempt(c)
         /\ call' = [call EXCEPT ![k] = [at |-> "waiting", on |-> c]]
    /\ UNCHANGED <<client, backoff, faults, world>>

\* The reply came, or the packet's own timeout rejected the send.
Answered(k) ==
    /\ call[k].at = "sending"
    /\ call' = [call EXCEPT ![k] = IdleCall]
    /\ UNCHANGED <<conn, client, promise, timer, backoff, faults, world>>

TimerFires ==
    /\ timer
    /\ backoff' = Grown(backoff)
    /\ IF Down
       THEN \E c \in Clients : NewAttempt(c)
       ELSE timer' = FALSE /\ UNCHANGED <<conn, promise>>
    /\ UNCHANGED <<client, call, faults, world>>

\* connect() resolved.
Connected(c) ==
    /\ conn[c] = "connecting"
    /\ conn' = [conn EXCEPT ![c] = "ready"]
    /\ client' = c /\ promise' = None /\ backoff' = 0
    /\ call' = [k \in Calls |-> IF call[k] = [at |-> "waiting", on |-> c]
                                THEN [at |-> "sending", on |-> c] ELSE call[k]]
    /\ UNCHANGED <<timer, faults, world>>

\* The callers of a promise that rejected.
\* Slip: the callers are not told.
SettleNobody(c) == call
Settle(c) == [k \in Calls |-> IF call[k] = [at |-> "waiting", on |-> c]
                              THEN IdleCall ELSE call[k]]

\* connect() rejected: the catch block.
ConnectFails(c) ==
    /\ \/ conn[c] = "connecting" /\ Fault
          /\ conn' \in {[conn EXCEPT ![c] = s] :
                          s \in {"free"} \union (IF Lingering THEN {"lingering"} ELSE {})}
       \/ conn[c] = "ended" /\ conn' = [conn EXCEPT ![c] = "free"] /\ UNCHANGED faults
    /\ client' = None /\ promise' = None /\ timer' = TRUE
    /\ call' = Settle(c)
    /\ UNCHANGED <<backoff, world>>

\* 'end' or 'error' of a socket: in use, still authenticating, left open by a
\* rejected connect(), or no longer this.client.
Ended(c) ==
    /\ \/ conn[c] \in {"connecting", "ready"} /\ Fault
       \/ conn[c] = "lingering" /\ UNCHANGED faults
    /\ conn' = [conn EXCEPT ![c] = IF @ = "connecting" THEN "ended" ELSE "free"]
    /\ HandleDisconnect
    /\ UNCHANGED <<promise, backoff, call, world>>

Next ==
    \/ TimerFires
    \/ \E k \in Calls : CallConnected(k) \/ CallJoins(k) \/ CallConnects(k) \/ Answered(k)
    \/ \E c \in Clients : Connected(c) \/ ConnectFails(c) \/ Ended(c)

Spec == Init /\ [][Next]_vars

-----------------------------------------------------------------------------
(***************************************************************************)
(* While the service is down, something is on its way to bring it up: an   *)
(* attempt that will settle, or the timer.                                 *)
(***************************************************************************)
DownIsBeingRetried ==
    client = None => timer \/ (promise # None /\ conn[promise] \in {"connecting", "ended"})

(***************************************************************************)
(* A waiting caller waits for an attempt that will settle.                 *)
(***************************************************************************)
WaitersHaveAnAttempt ==
    \A k \in Calls : call[k].at = "waiting" => conn[call[k].on] \in {"connecting", "ended"}

(***************************************************************************)
(* There is one RCON connection: never two authenticated ones, nor one     *)
(* being opened beside one that works.                                     *)
(***************************************************************************)
SingleConnection ==
    \A c, d \in Clients : {conn[c], conn[d]} \subseteq {"connecting", "ready"} => c = d
=============================================================================
