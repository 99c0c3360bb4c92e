----------------------------- MODULE SftpService -----------------------------
(***************************************************************************)
(* services/sftp.service.ts: the connection of the plain-SFTP file         *)
(* manager.  It differs from SshService in three ways that matter: being   *)
(* connected takes two steps ('ready', then the SFTP subsystem), nothing   *)
(* listens to the client's 'close', and a call does not disarm the timer.  *)
(*                                                                         *)
(* conn[c] is the ssh2 Client of attempt c with its SFTP channel.  A       *)
(* client may outlive its use by the service: with SubsystemFaults the     *)
(* channel may be refused, or closed under a connection that stays up.     *)
(* `world`, chosen at the start for good, says what may happen.            *)
(***************************************************************************)
EXTENDS ConnectionConstants

VARIABLES
    conn,       \* what each client is doing
    stripped,   \* clients whose listeners were removed
    client,     \* this.client (this.sftp and connected go with it)
    promise,    \* this.connectPromise
    timer,      \* this.reconnectTimer is armed
    backoff,    \* steps above MIN_BACKOFF_MS
    call,       \* the callers: idle, waiting for an attempt, using a client
    faults,
    alive,      \* FALSE once an 'error' event met no listener: Node exits
    world       \* what the network and ssh2 do

vars == <<conn, stripped, client, promise, timer, backoff, call, faults, alive, world>>

Worlds == {"sftp", "sftp channel", "sftp unreadable key", "sftp any"}

\* The channel may fail while its connection lives.
SubsystemFaults == world \in {"sftp channel", "sftp any"}
\* Reading the key file may throw.
KeyFaults == world \in {"sftp unreadable key", "sftp any"}
\* The peer may close before 'ready' with no 'error' event.
BareClose == world = "sftp any"

\* "opening": connected, the channel was asked for.  "unused": connected, and
\* its channel refused, or closed since.  "closed": gone, its promise pending.
\* "thrown": connect() threw, its promise is rejected.
ConnState == {"free", "connecting", "opening", "ready", "unused", "closed", "thrown"}
IdleCall == [at |-> "idle", on |-> None]

Fields ==
    /\ conn \in [Clients -> ConnState]
    /\ stripped \subseteq Clients
    /\ {client, promise} \subseteq Clients \union {None}
    /\ backoff \in 0..MaxBackoff /\ faults \in 0..MaxFaults
    /\ call \in [Calls -> [at : {"idle", "waiting", "using"}, on : Clients \union {None}]]
Flags == timer \in BOOLEAN /\ alive \in BOOLEAN
TypeOK == Fields /\ Flags /\ world \in Worlds

\* start() has just run.
Init ==
    /\ \E c \in Clients :
         /\ conn = [d \in Clients |-> IF d = c THEN "connecting" ELSE "free"]
         /\ promise = c
    /\ stripped = {} /\ client = None /\ timer = FALSE /\ backoff = 0
    /\ call = [k \in Calls |-> IdleCall]
    /\ faults = 0 /\ alive = TRUE /\ world \in Worlds

-----------------------------------------------------------------------------
Fault == faults < MaxFaults /\ faults' = faults + 1

\* Slip: the backoff is not capped.
GrownUncapped(b) == b + 1
Grown(b) == IF b < MaxBackoff THEN b + 1 ELSE b

\* The two early returns of ensureConnected() not taken.
\* Slip: the attempt in flight is overlooked.
DownBesideAttempt == client = None
Down == client = None /\ promise = None

\* The part of ensureConnected() after its two early returns.  A throw in the
\* executor clears connectPromise, which the assignment around it sets again.
NewAttempt(c) ==
    /\ conn[c] = "free" /\ \A k \in Calls : call[k].on # c
    /\ \/ conn' = [conn EXCEPT ![c] = "connecting"] /\ UNCHANGED faults
       \/ KeyFaults /\ Fault /\ conn' = [conn EXCEPT ![c] = "thrown"]
    /\ promise' = c
    /\ stripped' = stripped \ {c}

\* Slip: no retry is scheduled.
HandleDisconnectForGood ==
    /\ stripped' = stripped \union ({client} \ {None})
    /\ client' = None
    /\ UNCHANGED timer
HandleDisconnect ==
    /\ stripped' = stripped \union ({client} \ {None})
    /\ client' = None
    /\ timer' = TRUE

\* Slip: the callers are not told.
SettleNobody(c) == call
Settle(c) == [k \in Calls |-> IF call[k].on = c THEN IdleCall ELSE call[k]]

-----------------------------------------------------------------------------
\* Every operation begins with the await of ensureConnected().
CallConnected(k) ==
    /\ alive /\ call[k] = IdleCall /\ client # None
    /\ call' = [call EXCEPT ![k] = [at |-> "using", on |-> client]]
    /\ UNCHANGED <<conn, stripped, client, promise, timer, backoff, faults, alive, world>>

CallJoins(k) ==
    /\ alive /\ call[k] = IdleCall /\ client = None /\ promise # None
    /\ conn[promise] # "thrown"             \* a rejected promise answers at once
    /\ call' = [call EXCEPT ![k] = [at |-> "waiting", on |-> promise]]
    /\ UNCHANGED <<conn, stripped, client, promise, timer, backoff, faults, alive, world>>

\* An armed timer stays armed.
CallConnects(k) ==
    /\ alive /\ call[k] = IdleCall /\ Down
    /\ \E c \in Clients :
         /\ NewAttempt(c)
         /\ call' = IF conn'[c] = "thrown" THEN call
                    ELSE [call EXCEPT ![k] = [at |-> "waiting", on |-> c]]
    /\ UNCHANGED <<client, timer, backoff, alive, world>>

Done(k) ==
    /\ call[k].at = "using"
    /\ call' = [call EXCEPT ![k] = IdleCall]
    /\ UNCHANGED <<conn, stripped, client, promise, timer, backoff, faults, alive, world>>

TimerFires ==
    /\ alive /\ timer
    /\ timer' = FALSE
    /\ backoff' = Grown(backoff)
    /\ IF Down
       THEN \E c \in Clients : NewAttempt(c)
       ELSE UNCHANGED <<conn, stripped, promise, faults>>
    /\ UNCHANGED <<client, call, alive, world>>

\* 'ready': ask for the SFTP channel.
Ready(c) ==
    /\ alive /\ conn[c] = "connecting"
    /\ conn' = [conn EXCEPT ![c] = "opening"]
    /\ UNCHANGED <<stripped, client, promise, timer, backoff, call, faults, alive, world>>

\* client.sftp() called back with a channel.
Opened(c) ==
    /\ alive /\ conn[c] = "opening"
    /\ conn' = [conn EXCEPT ![c] = "ready"]
    /\ client' = c /\ promise' = None /\ backoff' = 0
    /\ call' = [k \in Calls |-> IF call[k] = [at |-> "waiting", on |-> c]
                                THEN [at |-> "using", on |-> c] ELSE call[k]]
    /\ UNCHANGED <<stripped, timer, faults, alive, world>>

\* client.sftp() called back with an error: the connection is left open.
Refused(c) ==
    /\ alive /\ SubsystemFaults /\ Fault /\ conn[c] = "opening"
    /\ conn' = [conn EXCEPT ![c] = "unused"]
    /\ promise' = None /\ timer' = TRUE
    /\ call' = Settle(c)
    /\ UNCHANGED <<stripped, client, backoff, alive, world>>

\* 'error' of a client that still has its listeners; the channel's 'close',
\* when there is one, follows and calls handleDisconnect() again.
Error(c) ==
    /\ alive /\ Fault /\ c \notin stripped
    /\ conn[c] \in {"connecting", "opening", "ready", "unused"}
    /\ conn' = [conn EXCEPT ![c] = "free"]
    /\ promise' = None
    /\ HandleDisconnect
    /\ call' = Settle(c)
    /\ UNCHANGED <<backoff, alive, world>>

\* The peer ends the connection with no error.  Before 'ready' nothing hears
\* it; a channel being opened calls back with an error; an open one closes.
Ended(c) ==
    /\ alive /\ Fault
    /\ \/ conn[c] = "connecting" /\ BareClose /\ conn' = [conn EXCEPT ![c] = "closed"]
          /\ UNCHANGED <<stripped, client, promise, timer, call>>
       \/ conn[c] = "opening" /\ conn' = [conn EXCEPT ![c] = "free"]
          /\ promise' = None /\ timer' = TRUE /\ call' = Settle(c)
          /\ UNCHANGED <<stripped, client>>
       \/ conn[c] = "ready" /\ conn' = [conn EXCEPT ![c] = "free"]
          /\ HandleDisconnect /\ call' = Settle(c) /\ UNCHANGED promise
       \/ conn[c] = "unused" /\ conn' = [conn EXCEPT ![c] = "free"]
          /\ UNCHANGED <<stripped, client, promise, timer, call>>
    /\ UNCHANGED <<backoff, alive, world>>

\* The channel closes under a connection that stays up.
ChannelCloses(c) ==
    /\ alive /\ SubsystemFaults /\ Fault /\ conn[c] = "ready"
    /\ conn' = [conn EXCEPT ![c] = "unused"]
    /\ HandleDisconnect
    /\ call' = Settle(c)
    /\ UNCHANGED <<promise, backoff, alive, world>>

\* 'error' on a client whose listeners were removed: EventEmitter throws it.
UnhandledError(c) ==
    /\ alive /\ Fault /\ c \in stripped /\ conn[c] \in {"ready", "unused"}
    /\ alive' = FALSE
    /\ UNCHANGED <<conn, stripped, client, promise, timer, backoff, call, world>>

Next ==
    \/ TimerFires
    \/ \E k \in Calls : CallConnected(k) \/ CallJoins(k) \/ CallConnects(k) \/ Done(k)
    \/ \E c \in Clients :
         \/ Ready(c) \/ Opened(c) \/ Refused(c) \/ Error(c)
         \/ Ended(c) \/ ChannelCloses(c) \/ UnhandledError(c)

Spec == Init /\ [][Next]_vars

-----------------------------------------------------------------------------
InFlight == {"connecting", "opening"}

(***************************************************************************)
(* While the service is down, something is on its way to bring it up: an   *)
(* attempt whose events are still to come, or the timer.                   *)
(***************************************************************************)
DownIsBeingRetried == client = None => timer \/ \E c \in Clients : conn[c] \in InFlight

(***************************************************************************)
(* A caller that waits, waits for an attempt that will still settle.       *)
(***************************************************************************)
WaitersHaveAnAttempt ==
    \A k \in Calls : call[k].at = "waiting" => conn[call[k].on] \in InFlight

(***************************************************************************)
(* At most one connection to the server's SSH port is open or being opened *)
(* for the file manager: none is left behind, unused.                      *)
(***************************************************************************)
SingleConnection ==
    \A c, d \in Clients :
        {conn[c], conn[d]} \subseteq InFlight \union {"ready", "unused"} => c = d
=============================================================================
