----------------------------- MODULE Connections -----------------------------
(***************************************************************************)
(* The three connection services.  A behaviour is one of one service under *)
(* one assumption about the network: `world` is chosen at the start and    *)
(* never changes.                                                          *)
(*                                                                         *)
(*   "ssh", "sftp", "rcon"   attempts fail and connections drop            *)
(*   "ssh late close"        'close' comes any time after 'error'          *)
(*   "ssh unreadable key", "sftp unreadable key"                           *)
(*                           reading the key file may throw                *)
(*   "sftp channel"          the SFTP channel may fail by itself           *)
(*   "rcon lingering"        a rejected connect() leaves its socket open   *)
(*   "ssh any", "sftp any"   everything the modules can do                 *)
(*                                                                         *)
(* Each property is claimed in the worlds its definition names; the README *)
(* says what happens in the others.                                        *)
(***************************************************************************)
EXTENDS ConnectionConstants

VARIABLES conn, stripped, client, promise, timer, backoff, call, faults, alive, world

Ssh == INSTANCE SshService
Sftp == INSTANCE SftpService
Rcon == INSTANCE RconService

vars == <<conn, stripped, client, promise, timer, backoff, call, faults, alive, world>>

\* The worlds in which nothing breaks the assumption of one live connection.
SteadyWorlds == {"ssh", "sftp", "rcon"}

Init ==
    \/ Ssh!Init
    \/ Sftp!Init
    \/ Rcon!Init /\ stripped = {} /\ alive = TRUE

InSsh(A) == world \in Ssh!Worlds /\ A
InSftp(A) == world \in Sftp!Worlds /\ A
InRcon(A) == world \in Rcon!Worlds /\ A /\ UNCHANGED <<stripped, alive>>

Next == InSsh(Ssh!Next) \/ InSftp(Sftp!Next) \/ InRcon(Rcon!Next)

\* Timers fire, a server that is reachable answers and connect() settles, a
\* command ends: in the worlds where liveness is claimed.
LivelyWorlds == SteadyWorlds \union {"rcon lingering"}
TimerFires ==
    /\ world \in LivelyWorlds
    /\ (InSsh(Ssh!TimerFires) \/ InSftp(Sftp!TimerFires) \/ InRcon(Rcon!TimerFires))
Answers(c) ==
    /\ world \in LivelyWorlds
    /\ \/ InSsh(Ssh!Ready(c)) \/ InSftp(Sftp!Ready(c)) \/ InSftp(Sftp!Opened(c))
       \/ InRcon(Rcon!Connected(c)) \/ InRcon(conn[c] = "ended" /\ Rcon!ConnectFails(c))
Done(k) ==
    /\ world \in LivelyWorlds
    /\ (InSsh(Ssh!ExecDone(k)) \/ InSftp(Sftp!Done(k)) \/ InRcon(Rcon!Answered(k)))

Fairness ==
    /\ WF_vars(TimerFires)
    /\ \A c \in Clients : WF_vars(Answers(c))
    /\ \A k \in Calls : WF_vars(Done(k))

Spec == Init /\ [][Next]_vars /\ Fairness

-----------------------------------------------------------------------------
(***************************************************************************)
(* The type invariant of the service at hand.                              *)
(***************************************************************************)
TypeOK ==
    /\ world \in Ssh!Worlds \union Sftp!Worlds \union Rcon!Worlds
    /\ world \in Ssh!Worlds => Ssh!TypeOK
    /\ world \in Sftp!Worlds => Sftp!TypeOK
    /\ world \in Rcon!Worlds => Rcon!TypeOK

(***************************************************************************)
(* While a service is down, an attempt that will still settle or an armed  *)
(* timer is on its way to bring it up (the three scheduleReconnect()).     *)
(***************************************************************************)
DownIsBeingRetried ==
    /\ world \in {"ssh", "ssh late close"} => Ssh!DownIsBeingRetried
    /\ world \in {"sftp", "sftp channel"} => Sftp!DownIsBeingRetried
    /\ world \in Rcon!Worlds => Rcon!DownIsBeingRetried

(***************************************************************************)
(* A caller that awaits connectPromise awaits an attempt that will settle. *)
(***************************************************************************)
WaitersHaveAnAttempt ==
    /\ world \in {"ssh", "ssh late close"} => Ssh!WaitersHaveAnAttempt
    /\ world \in {"sftp", "sftp channel"} => Sftp!WaitersHaveAnAttempt
    /\ world \in Rcon!Worlds => Rcon!WaitersHaveAnAttempt

(***************************************************************************)
(* A shared connection is one connection: no second one is open, or being  *)
(* opened, beside it.                                                      *)
(***************************************************************************)
SingleConnection ==
    /\ world = "ssh" => Ssh!SingleConnection
    /\ world = "sftp" => Sftp!SingleConnection
    /\ world = "rcon" => Rcon!SingleConnection

(***************************************************************************)
(* handleDisconnect() is not told which client it is called for, and still *)
(* never drops a connection that was not lost in that step.                *)
(***************************************************************************)
OnlyLostConnectionsAreDropped ==
    [][client # None /\ client' # client /\ world \in SteadyWorlds
         => conn[client] # conn'[client]]_vars

(***************************************************************************)
(* Once its server answers, a service is connected for good.               *)
(***************************************************************************)
Reconnects == world \in LivelyWorlds => <>[](client # None)

(***************************************************************************)
(* Every caller of a service is answered.                                  *)
(***************************************************************************)
CallersAnswered ==
    world \in LivelyWorlds =>
        \A k \in Calls : (call[k] # Ssh!IdleCall) ~> (call[k] = Ssh!IdleCall)
=============================================================================
