-------------------------- MODULE Connections_proof --------------------------
(***************************************************************************)
(* What holds of the three connection services for every number of         *)
(* attempts, callers, backoff steps and faults.  Each service is reasoned  *)
(* about on its own, over its own steps; the theorems at the end put the   *)
(* services together.  A lemma names as hypotheses what it assumes about   *)
(* the network.                                                            *)
(***************************************************************************)
EXTENDS Connections, TLAPS

SshStep == Ssh!Next \/ UNCHANGED vars
SftpStep == Sftp!Next \/ UNCHANGED vars
RconStep == Rcon!Next \/ UNCHANGED vars

-----------------------------------------------------------------------------
(***************************************************************************)
(* The SSH connection: types.                                              *)
(***************************************************************************)
LEMMA SshInitTypeOK == Ssh!Init => Ssh!TypeOK
<1>1. Ssh!Init => Ssh!Fields
  BY ConnectionAssumption
     DEF ConnectionAssumption, Ssh!Init, Ssh!Fields, Ssh!ConnState, Ssh!IdleCall
<1>2. Ssh!Init => Ssh!Flags
  BY DEF Ssh!Init, Ssh!Flags
<1> QED
  BY <1>1, <1>2 DEF Ssh!TypeOK, Ssh!Init

\* The flags are only ever set to TRUE or FALSE.
LEMMA SshFlags == Ssh!Flags /\ SshStep => Ssh!Flags'
  BY DEF SshStep, Ssh!Flags, Ssh!Next, vars, Ssh!TimerFires, Ssh!CallConnected, Ssh!CallJoins,
         Ssh!CallConnects, Ssh!ExecDone, Ssh!Ready, Ssh!Error, Ssh!Close, Ssh!ClosedLate,
         Ssh!UnhandledError, Ssh!NewAttempt, Ssh!HandleDisconnect

LEMMA SshWorld == SshStep => world' = world
  BY DEF SshStep, Ssh!Next, vars, Ssh!TimerFires, Ssh!CallConnected, Ssh!CallJoins,
         Ssh!CallConnects, Ssh!ExecDone, Ssh!Ready, Ssh!Error, Ssh!Close, Ssh!ClosedLate,
         Ssh!UnhandledError

LEMMA SshFields == Ssh!Fields /\ SshStep => Ssh!Fields'
<1> SUFFICES ASSUME Ssh!Fields, SshStep PROVE Ssh!Fields'
  OBVIOUS
<1> USE ConnectionAssumption DEF ConnectionAssumption, Ssh!Fields, Ssh!ConnState, Ssh!IdleCall
<1>1. CASE Ssh!TimerFires
  BY <1>1 DEF Ssh!TimerFires, Ssh!Grown, Ssh!Down, Ssh!NewAttempt, Ssh!Free, Ssh!Fault
<1>2. ASSUME NEW k \in Calls, Ssh!CallConnected(k)
      PROVE  Ssh!Fields'
  BY <1>2 DEF Ssh!CallConnected
<1>3. ASSUME NEW k \in Calls, Ssh!CallJoins(k)
      PROVE  Ssh!Fields'
  BY <1>3 DEF Ssh!CallJoins
<1>4. ASSUME NEW k \in Calls, Ssh!CallConnects(k)
      PROVE  Ssh!Fields'
  BY <1>4 DEF Ssh!CallConnects, Ssh!NewAttempt, Ssh!Free, Ssh!Fault, Ssh!Down
<1>5. ASSUME NEW k \in Calls, Ssh!ExecDone(k)
      PROVE  Ssh!Fields'
  BY <1>5 DEF Ssh!ExecDone
<1>6. ASSUME NEW c \in Clients, Ssh!Ready(c)
      PROVE  Ssh!Fields'
  BY <1>6 DEF Ssh!Ready
<1>7. ASSUME NEW c \in Clients, Ssh!Error(c)
      PROVE  Ssh!Fields'
  BY <1>7 DEF Ssh!Error, Ssh!Fault, Ssh!HandleDisconnect, Ssh!Settle
<1>8. ASSUME NEW c \in Clients, Ssh!Close(c)
      PROVE  Ssh!Fields'
  BY <1>8 DEF Ssh!Close, Ssh!Fault, Ssh!HandleDisconnect, Ssh!Settle
<1>9. ASSUME NEW c \in Clients, Ssh!ClosedLate(c)
      PROVE  Ssh!Fields'
  BY <1>9 DEF Ssh!ClosedLate, Ssh!HandleDisconnect
<1>10. ASSUME NEW c \in Clients, Ssh!UnhandledError(c)
       PROVE  Ssh!Fields'
  BY <1>10 DEF Ssh!UnhandledError, Ssh!Fault
<1>11. CASE UNCHANGED vars
  BY <1>11 DEF vars
<1> QED
  BY <1>1, <1>2, <1>3, <1>4, <1>5, <1>6, <1>7, <1>8, <1>9, <1>10, <1>11 DEF SshStep, Ssh!Next

-----------------------------------------------------------------------------
(***************************************************************************)
(* Why an SSH service that is down is being retried.  connectPromise is    *)
(* set exactly for an attempt in flight: every way out of "connecting"     *)
(* clears it.  So when the timer finds the service down and no promise, it *)
(* starts an attempt, and when it finds a promise it may go off for        *)
(* nothing.                                                                *)
(***************************************************************************)
SshPromised == promise # None => conn[promise] = "connecting"
SshAwaited ==
    \A k \in Calls : call[k].at = "waiting" =>
                       call[k].on \in Clients /\ conn[call[k].on] = "connecting"
DownIsPromised == client = None => timer \/ promise # None

LEMMA SshInitRetrying == Ssh!Init => SshPromised /\ SshAwaited /\ DownIsPromised
<1>1. Ssh!Init => SshPromised
  BY DEF Ssh!Init, SshPromised
<1>2. Ssh!Init => SshAwaited
  BY DEF Ssh!Init, SshAwaited, Ssh!IdleCall
<1>3. Ssh!Init => DownIsPromised
  BY ConnectionAssumption DEF ConnectionAssumption, Ssh!Init, DownIsPromised
<1> QED
  BY <1>1, <1>2, <1>3

\* Only TimerFires and an attempt disarm the timer.
LEMMA SshDownIsPromised ==
    ASSUME Ssh!Fields, DownIsPromised, SshStep
    PROVE  DownIsPromised'
<1> USE ConnectionAssumption DEF ConnectionAssumption, DownIsPromised
<1>1. CASE Ssh!TimerFires
  BY <1>1 DEF Ssh!TimerFires, Ssh!Down, Ssh!NewAttempt
<1>2. ASSUME NEW k \in Calls,
             Ssh!CallConnected(k) \/ Ssh!CallJoins(k) \/ Ssh!CallConnects(k) \/ Ssh!ExecDone(k)
      PROVE  DownIsPromised'
  BY <1>2 DEF Ssh!CallConnected, Ssh!CallJoins, Ssh!CallConnects, Ssh!NewAttempt, Ssh!ExecDone
<1>3. ASSUME NEW c \in Clients,
             \/ Ssh!Ready(c) \/ Ssh!Error(c) \/ Ssh!Close(c)
             \/ Ssh!ClosedLate(c) \/ Ssh!UnhandledError(c)
      PROVE  DownIsPromised'
  BY <1>3 DEF Ssh!Ready, Ssh!Error, Ssh!Close, Ssh!ClosedLate, Ssh!UnhandledError,
              Ssh!HandleDisconnect
<1>4. CASE UNCHANGED vars
  BY <1>4 DEF vars
<1> QED
  BY <1>1, <1>2, <1>3, <1>4 DEF SshStep, Ssh!Next

\* An attempt that can read its key goes to a client nobody waits for.
LEMMA SshAttempt ==
    ASSUME ~Ssh!KeyFaults, NEW c \in Clients, Ssh!NewAttempt(c)
    PROVE  /\ conn' = [conn EXCEPT ![c] = "connecting"]
           /\ promise' = c
           /\ \A k \in Calls : call[k].on # c
  BY Zenon DEF Ssh!NewAttempt, Ssh!Free

LEMMA SshPromiseStays ==
    ASSUME ~Ssh!KeyFaults, ~Ssh!BareClose, Ssh!Fields, SshPromised, SshStep
    PROVE  SshPromised'
<1> USE ConnectionAssumption DEF ConnectionAssumption, Ssh!Fields, Ssh!ConnState, SshPromised
<1>1. CASE Ssh!TimerFires
  BY <1>1, SshAttempt DEF Ssh!TimerFires
<1>2. ASSUME NEW k \in Calls,
             Ssh!CallConnected(k) \/ Ssh!CallJoins(k) \/ Ssh!CallConnects(k) \/ Ssh!ExecDone(k)
      PROVE  SshPromised'
  BY <1>2, SshAttempt DEF Ssh!CallConnected, Ssh!CallJoins, Ssh!CallConnects, Ssh!ExecDone
<1>3. ASSUME NEW c \in Clients,
             \/ Ssh!Ready(c) \/ Ssh!Error(c) \/ Ssh!Close(c)
             \/ Ssh!ClosedLate(c) \/ Ssh!UnhandledError(c)
      PROVE  SshPromised'
  BY <1>3 DEF Ssh!Ready, Ssh!Error, Ssh!Close, Ssh!ClosedLate, Ssh!UnhandledError
<1>4. CASE UNCHANGED vars
  BY <1>4 DEF vars
<1> QED
  BY <1>1, <1>2, <1>3, <1>4 DEF SshStep, Ssh!Next

LEMMA SshAwaitedStays ==
    ASSUME ~Ssh!KeyFaults, ~Ssh!BareClose, Ssh!Fields, SshPromised, SshAwaited, SshStep
    PROVE  SshAwaited'
<1> SUFFICES ASSUME NEW k \in Calls, call'[k].at = "waiting"
             PROVE  call'[k].on \in Clients /\ conn'[call'[k].on] = "connecting"
  BY DEF SshAwaited
<1> DEFINE Goal == call'[k].on \in Clients /\ conn'[call'[k].on] = "connecting"
<1> USE DEF Ssh!Fields, Ssh!ConnState, Ssh!IdleCall, SshAwaited
<1>1. CASE Ssh!TimerFires
  BY <1>1, SshAttempt DEF Ssh!TimerFires
<1>2. ASSUME NEW j \in Calls, Ssh!CallConnected(j) \/ Ssh!ExecDone(j)
      PROVE  Goal
  BY <1>2 DEF Ssh!CallConnected, Ssh!ExecDone
<1>3. ASSUME NEW j \in Calls, Ssh!CallJoins(j)
      PROVE  Goal
  BY <1>3 DEF Ssh!CallJoins, SshPromised
<1>4. ASSUME NEW j \in Calls, Ssh!CallConnects(j)
      PROVE  Goal
  BY <1>4, SshAttempt DEF Ssh!CallConnects
<1>5. ASSUME NEW c \in Clients, Ssh!Ready(c)
      PROVE  Goal
  BY <1>5 DEF Ssh!Ready
<1>6. ASSUME NEW c \in Clients, Ssh!Error(c)
      PROVE  Goal
  BY <1>6 DEF Ssh!Error, Ssh!Settle
<1>7. ASSUME NEW c \in Clients, Ssh!Close(c)
      PROVE  Goal
  BY <1>7 DEF Ssh!Close, Ssh!Settle
<1>8. ASSUME NEW c \in Clients, Ssh!ClosedLate(c) \/ Ssh!UnhandledError(c)
      PROVE  Goal
  BY <1>8 DEF Ssh!ClosedLate, Ssh!UnhandledError
<1>9. CASE UNCHANGED vars
  BY <1>9 DEF vars
<1> QED
  BY <1>1, <1>2, <1>3, <1>4, <1>5, <1>6, <1>7, <1>8, <1>9 DEF SshStep, Ssh!Next

-----------------------------------------------------------------------------
(***************************************************************************)
(* Why there is one SSH connection when 'close' is right behind 'error':   *)
(* the attempt in flight is the promise's, the one that is up is the       *)
(* client, there is no promise beside a client, and a client whose         *)
(* listeners were removed is gone.  So the events that reach               *)
(* handleDisconnect(), which does not ask whose they are, are those of the *)
(* client in use.                                                          *)
(***************************************************************************)
SshSteady ==
    /\ \A c \in Clients :
         /\ conn[c] \in {"free", "connecting", "ready"}
         /\ conn[c] = "connecting" => promise = c
         /\ conn[c] = "ready" <=> client = c
         /\ c \in stripped => conn[c] = "free"
    /\ promise # None => client = None

\* A connection is dropped only in the step in which it is lost.
DropsOnlyLost == client # None /\ client' # client => conn[client] # conn'[client]

LEMMA SshInitSteady == Ssh!Init => SshSteady
  BY ConnectionAssumption DEF ConnectionAssumption, Ssh!Init, SshSteady

LEMMA SshSteadyStays ==
    ASSUME ~Ssh!KeyFaults, ~Ssh!BareClose, ~Ssh!LateClose, Ssh!Fields, SshSteady, SshStep
    PROVE  SshSteady'
<1> USE ConnectionAssumption DEF ConnectionAssumption, Ssh!Fields, Ssh!ConnState, SshSteady
<1>1. ASSUME NEW c \in Clients, Ssh!Down, Ssh!NewAttempt(c), UNCHANGED client
      PROVE  SshSteady'
  <2>1. stripped' = stripped \ {c}
    BY <1>1 DEF Ssh!NewAttempt
  <2> QED
    BY <1>1, <2>1, SshAttempt DEF Ssh!Down
<1>2. CASE Ssh!TimerFires
  BY <1>1, <1>2 DEF Ssh!TimerFires
<1>3. ASSUME NEW k \in Calls,
             Ssh!CallConnected(k) \/ Ssh!CallJoins(k) \/ Ssh!CallConnects(k) \/ Ssh!ExecDone(k)
      PROVE  SshSteady'
  BY <1>1, <1>3 DEF Ssh!CallConnected, Ssh!CallJoins, Ssh!CallConnects, Ssh!ExecDone
<1>4. ASSUME NEW c \in Clients, Ssh!Ready(c)
      PROVE  SshSteady'
  BY <1>4 DEF Ssh!Ready
<1>5. ASSUME NEW c \in Clients, Ssh!Error(c)
      PROVE  SshSteady'
  BY <1>5 DEF Ssh!Error, Ssh!HandleDisconnect
<1>6. ASSUME NEW c \in Clients, Ssh!Close(c)
      PROVE  SshSteady'
  BY <1>6 DEF Ssh!Close, Ssh!HandleDisconnect
<1>7. ASSUME NEW c \in Clients, Ssh!ClosedLate(c) \/ Ssh!UnhandledError(c)
      PROVE  SshSteady'
  BY <1>7 DEF Ssh!ClosedLate, Ssh!UnhandledError
<1>8. CASE UNCHANGED vars
  BY <1>8 DEF vars
<1> QED
  BY <1>2, <1>3, <1>4, <1>5, <1>6, <1>7, <1>8 DEF SshStep, Ssh!Next

LEMMA SshDropsOnlyLost ==
    ASSUME ~Ssh!KeyFaults, ~Ssh!BareClose, ~Ssh!LateClose, Ssh!Fields, SshSteady, SshStep
    PROVE  DropsOnlyLost
<1> USE DEF DropsOnlyLost
<1>1. ASSUME NEW c \in Clients, Ssh!Ready(c)
      PROVE  DropsOnlyLost
  BY <1>1, ConnectionAssumption DEF ConnectionAssumption, Ssh!Ready, SshSteady
<1>2. ASSUME NEW c \in Clients, Ssh!Error(c) \/ Ssh!Close(c)
      PROVE  DropsOnlyLost
  <2>1. conn[c] # conn'[c] /\ (client # None => client = c)
    BY <1>2, ConnectionAssumption
       DEF ConnectionAssumption, Ssh!Fields, SshSteady, Ssh!Error, Ssh!Close
  <2> QED
    BY <2>1
<1>3. ASSUME NEW c \in Clients, Ssh!ClosedLate(c) \/ Ssh!UnhandledError(c)
      PROVE  DropsOnlyLost
  BY <1>3 DEF Ssh!ClosedLate, Ssh!UnhandledError, SshSteady
<1>4. CASE Ssh!TimerFires
  BY <1>4 DEF Ssh!TimerFires
<1>5. ASSUME NEW k \in Calls,
             Ssh!CallConnected(k) \/ Ssh!CallJoins(k) \/ Ssh!CallConnects(k) \/ Ssh!ExecDone(k)
      PROVE  DropsOnlyLost
  BY <1>5 DEF Ssh!CallConnected, Ssh!CallJoins, Ssh!CallConnects, Ssh!ExecDone
<1>6. CASE UNCHANGED vars
  BY <1>6 DEF vars
<1> QED
  BY <1>1, <1>2, <1>3, <1>4, <1>5, <1>6 DEF SshStep, Ssh!Next

-----------------------------------------------------------------------------
(***************************************************************************)
(* The SFTP connection: types.                                             *)
(***************************************************************************)
LEMMA SftpInitTypeOK == Sftp!Init => Sftp!TypeOK
<1>1. Sftp!Init => Sftp!Fields
  BY ConnectionAssumption
     DEF ConnectionAssumption, Sftp!Init, Sftp!Fields, Sftp!ConnState, Sftp!IdleCall
<1>2. Sftp!Init => Sftp!Flags
  BY DEF Sftp!Init, Sftp!Flags
<1> QED
  BY <1>1, <1>2 DEF Sftp!TypeOK, Sftp!Init

LEMMA SftpFlags == Sftp!Flags /\ SftpStep => Sftp!Flags'
  BY DEF SftpStep, Sftp!Flags, Sftp!Next, vars, Sftp!TimerFires, Sftp!CallConnected,
         Sftp!CallJoins, Sftp!CallConnects, Sftp!Done, Sftp!Ready, Sftp!Opened, Sftp!Refused,
         Sftp!Error, Sftp!Ended, Sftp!ChannelCloses, Sftp!UnhandledError,
         Sftp!HandleDisconnect

LEMMA SftpWorld == SftpStep => world' = world
  BY DEF SftpStep, Sftp!Next, vars, Sftp!TimerFires, Sftp!CallConnected, Sftp!CallJoins,
         Sftp!CallConnects, Sftp!Done, Sftp!Ready, Sftp!Opened, Sftp!Refused, Sftp!Error,
         Sftp!Ended, Sftp!ChannelCloses, Sftp!UnhandledError

LEMMA SftpFields == Sftp!Fields /\ SftpStep => Sftp!Fields'
<1> SUFFICES ASSUME Sftp!Fields, SftpStep PROVE Sftp!Fields'
  OBVIOUS
<1> USE ConnectionAssumption DEF ConnectionAssumption, Sftp!Fields, Sftp!ConnState, Sftp!IdleCall
<1>1. CASE Sftp!TimerFires
  BY <1>1 DEF Sftp!TimerFires, Sftp!Grown, Sftp!Down, Sftp!NewAttempt, Sftp!Fault
<1>2. ASSUME NEW k \in Calls, Sftp!CallConnected(k) \/ Sftp!CallJoins(k) \/ Sftp!Done(k)
      PROVE  Sftp!Fields'
  BY <1>2 DEF Sftp!CallConnected, Sftp!CallJoins, Sftp!Done
<1>3. ASSUME NEW k \in Calls, Sftp!CallConnects(k)
      PROVE  Sftp!Fields'
  BY <1>3 DEF Sftp!CallConnects, Sftp!NewAttempt, Sftp!Fault, Sftp!Down
<1>4. ASSUME NEW c \in Clients, Sftp!Ready(c)
      PROVE  Sftp!Fields'
  BY <1>4 DEF Sftp!Ready
<1>5. ASSUME NEW c \in Clients, Sftp!Opened(c)
      PROVE  Sftp!Fields'
  BY <1>5 DEF Sftp!Opened
<1>6. ASSUME NEW c \in Clients, Sftp!Refused(c)
      PROVE  Sftp!Fields'
  BY <1>6 DEF Sftp!Refused, Sftp!Fault, Sftp!Settle
<1>7. ASSUME NEW c \in Clients, Sftp!Error(c)
      PROVE  Sftp!Fields'
  BY <1>7 DEF Sftp!Error, Sftp!Fault, Sftp!HandleDisconnect, Sftp!Settle
<1>8. ASSUME NEW c \in Clients, Sftp!Ended(c)
      PROVE  Sftp!Fields'
  BY <1>8 DEF Sftp!Ended, Sftp!Fault, Sftp!HandleDisconnect, Sftp!Settle
<1>9. ASSUME NEW c \in Clients, Sftp!ChannelCloses(c)
      PROVE  Sftp!Fields'
  BY <1>9 DEF Sftp!ChannelCloses, Sftp!Fault, Sftp!HandleDisconnect, Sftp!Settle
<1>10. ASSUME NEW c \in Clients, Sftp!UnhandledError(c)
       PROVE  Sftp!Fields'
  BY <1>10 DEF Sftp!UnhandledError, Sftp!Fault
<1>11. CASE UNCHANGED vars
  BY <1>11 DEF vars
<1> QED
  BY <1>1, <1>2, <1>3, <1>4, <1>5, <1>6, <1>7, <1>8, <1>9, <1>10, <1>11 DEF SftpStep, Sftp!Next

-----------------------------------------------------------------------------
(***************************************************************************)
(* Why an SFTP service that is down is being retried: its promise is that  *)
(* of an attempt that is connecting or waiting for its channel, and a      *)
(* refused channel, like a failure, clears the promise and arms the timer. *)
(***************************************************************************)
SftpPromised == promise # None => conn[promise] \in Sftp!InFlight
SftpAwaited ==
    \A k \in Calls : call[k].at = "waiting" =>
                       call[k].on \in Clients /\ conn[call[k].on] \in Sftp!InFlight

LEMMA SftpInitRetrying == Sftp!Init => SftpPromised /\ SftpAwaited /\ DownIsPromised
<1>1. Sftp!Init => SftpPromised
  BY DEF Sftp!Init, SftpPromised, Sftp!InFlight
<1>2. Sftp!Init => SftpAwaited
  BY DEF Sftp!Init, SftpAwaited, Sftp!IdleCall
<1>3. Sftp!Init => DownIsPromised
  BY ConnectionAssumption DEF ConnectionAssumption, Sftp!Init, DownIsPromised
<1> QED
  BY <1>1, <1>2, <1>3

\* Only TimerFires disarms the timer.
LEMMA SftpDownIsPromised ==
    ASSUME Sftp!Fields, DownIsPromised, SftpStep
    PROVE  DownIsPromised'
<1> USE ConnectionAssumption DEF ConnectionAssumption, DownIsPromised
<1>1. CASE Sftp!TimerFires
  BY <1>1 DEF Sftp!TimerFires, Sftp!Down, Sftp!NewAttempt
<1>2. ASSUME NEW k \in Calls, \/ Sftp!CallConnected(k) \/ Sftp!CallJoins(k)
                              \/ Sftp!CallConnects(k) \/ Sftp!Done(k)
      PROVE  DownIsPromised'
  BY <1>2 DEF Sftp!CallConnected, Sftp!CallJoins, Sftp!CallConnects, Sftp!NewAttempt, Sftp!Done
<1>3. ASSUME NEW c \in Clients, Sftp!Ready(c) \/ Sftp!Opened(c) \/ Sftp!Refused(c) \/ Sftp!Error(c)
      PROVE  DownIsPromised'
  BY <1>3 DEF Sftp!Ready, Sftp!Opened, Sftp!Refused, Sftp!Error, Sftp!HandleDisconnect
<1>4. ASSUME NEW c \in Clients, Sftp!Ended(c) \/ Sftp!ChannelCloses(c) \/ Sftp!UnhandledError(c)
      PROVE  DownIsPromised'
  BY <1>4 DEF Sftp!Ended, Sftp!ChannelCloses, Sftp!UnhandledError, Sftp!HandleDisconnect
<1>5. CASE UNCHANGED vars
  BY <1>5 DEF vars
<1> QED
  BY <1>1, <1>2, <1>3, <1>4, <1>5 DEF SftpStep, Sftp!Next

\* An attempt that can read its key goes to a client nobody waits for.
LEMMA SftpAttempt ==
    ASSUME ~Sftp!KeyFaults, NEW c \in Clients, Sftp!NewAttempt(c)
    PROVE  /\ conn' = [conn EXCEPT ![c] = "connecting"]
           /\ promise' = c
           /\ \A k \in Calls : call[k].on # c
  BY Zenon DEF Sftp!NewAttempt

LEMMA SftpPromiseStays ==
    ASSUME ~Sftp!KeyFaults, ~Sftp!BareClose, Sftp!Fields, SftpPromised, SftpStep
    PROVE  SftpPromised'
<1> USE ConnectionAssumption DEF ConnectionAssumption, Sftp!Fields, Sftp!ConnState, SftpPromised,
                                 Sftp!InFlight
<1>1. CASE Sftp!TimerFires
  BY <1>1, SftpAttempt DEF Sftp!TimerFires
<1>2. ASSUME NEW k \in Calls, \/ Sftp!CallConnected(k) \/ Sftp!CallJoins(k)
                              \/ Sftp!CallConnects(k) \/ Sftp!Done(k)
      PROVE  SftpPromised'
  BY <1>2, SftpAttempt DEF Sftp!CallConnected, Sftp!CallJoins, Sftp!CallConnects, Sftp!Done
<1>3. ASSUME NEW c \in Clients, Sftp!Ready(c) \/ Sftp!Opened(c) \/ Sftp!Refused(c) \/ Sftp!Error(c)
      PROVE  SftpPromised'
  BY <1>3 DEF Sftp!Ready, Sftp!Opened, Sftp!Refused, Sftp!Error
<1>4. ASSUME NEW c \in Clients, Sftp!Ended(c) \/ Sftp!ChannelCloses(c) \/ Sftp!UnhandledError(c)
      PROVE  SftpPromised'
  BY <1>4 DEF Sftp!Ended, Sftp!ChannelCloses, Sftp!UnhandledError
<1>5. CASE UNCHANGED vars
  BY <1>5 DEF vars
<1> QED
  BY <1>1, <1>2, <1>3, <1>4, <1>5 DEF SftpStep, Sftp!Next

LEMMA SftpAwaitedStays ==
    ASSUME ~Sftp!KeyFaults, ~Sftp!BareClose, Sftp!Fields, SftpPromised, SftpAwaited, SftpStep
    PROVE  SftpAwaited'
<1> SUFFICES ASSUME NEW k \in Calls, call'[k].at = "waiting"
             PROVE  call'[k].on \in Clients /\ conn'[call'[k].on] \in Sftp!InFlight
  BY DEF SftpAwaited, Sftp!InFlight
<1> DEFINE Goal == call'[k].on \in Clients /\ conn'[call'[k].on] \in Sftp!InFlight
<1> USE DEF Sftp!Fields, Sftp!ConnState, Sftp!IdleCall, SftpAwaited, Sftp!InFlight
<1>1. CASE Sftp!TimerFires
  BY <1>1, SftpAttempt DEF Sftp!TimerFires
<1>2. ASSUME NEW j \in Calls, Sftp!CallConnected(j) \/ Sftp!Done(j)
      PROVE  Goal
  BY <1>2 DEF Sftp!CallConnected, Sftp!Done
<1>3. ASSUME NEW j \in Calls, Sftp!CallJoins(j)
      PROVE  Goal
  BY <1>3 DEF Sftp!CallJoins, SftpPromised
<1>4. ASSUME NEW j \in Calls, Sftp!CallConnects(j)
      PROVE  Goal
  BY <1>4, SftpAttempt DEF Sftp!CallConnects
<1>5. ASSUME NEW c \in Clients, Sftp!Ready(c) \/ Sftp!UnhandledError(c)
      PROVE  Goal
  BY <1>5 DEF Sftp!Ready, Sftp!UnhandledError
<1>6. ASSUME NEW c \in Clients, Sftp!Opened(c)
      PROVE  Goal
  BY <1>6 DEF Sftp!Opened
<1>7. ASSUME NEW c \in Clients, Sftp!Refused(c) \/ Sftp!Error(c)
      PROVE  Goal
  BY <1>7 DEF Sftp!Refused, Sftp!Error, Sftp!Settle
<1>8. ASSUME NEW c \in Clients, Sftp!Ended(c) \/ Sftp!ChannelCloses(c)
      PROVE  Goal
  BY <1>8 DEF Sftp!Ended, Sftp!ChannelCloses, Sftp!Settle
<1>9. CASE UNCHANGED vars
  BY <1>9 DEF vars
<1> QED
  BY <1>1, <1>2, <1>3, <1>4, <1>5, <1>6, <1>7, <1>8, <1>9 DEF SftpStep, Sftp!Next

-----------------------------------------------------------------------------
(***************************************************************************)
(* Why there is one SFTP connection when a channel fails only with its     *)
(* connection: no client is left behind "unused", so the one that is up is *)
(* the service's and an attempt is only made when none is.                 *)
(***************************************************************************)
SftpSteady ==
    /\ \A c \in Clients :
         /\ conn[c] \in Sftp!InFlight \union {"free", "ready"}
         /\ conn[c] \in Sftp!InFlight => promise = c
         /\ conn[c] = "ready" <=> client = c
         /\ c \in stripped => conn[c] = "free"
    /\ promise # None => client = None

LEMMA SftpInitSteady == Sftp!Init => SftpSteady
  BY ConnectionAssumption DEF ConnectionAssumption, Sftp!Init, SftpSteady, Sftp!InFlight

LEMMA SftpSteadyStays ==
    ASSUME ~Sftp!SubsystemFaults, ~Sftp!KeyFaults, ~Sftp!BareClose,
           Sftp!Fields, SftpSteady, SftpStep
    PROVE  SftpSteady'
<1> USE ConnectionAssumption
    DEF ConnectionAssumption, Sftp!Fields, Sftp!ConnState, SftpSteady, Sftp!InFlight
<1>1. ASSUME NEW c \in Clients, Sftp!Down, Sftp!NewAttempt(c), UNCHANGED client
      PROVE  SftpSteady'
  <2>1. stripped' = stripped \ {c}
    BY <1>1 DEF Sftp!NewAttempt
  <2> QED
    BY <1>1, <2>1, SftpAttempt DEF Sftp!Down
<1>2. CASE Sftp!TimerFires
  BY <1>2, <1>1 DEF Sftp!TimerFires
<1>3. ASSUME NEW k \in Calls, \/ Sftp!CallConnected(k) \/ Sftp!CallJoins(k)
                              \/ Sftp!CallConnects(k) \/ Sftp!Done(k)
      PROVE  SftpSteady'
  BY <1>3, <1>1 DEF Sftp!CallConnected, Sftp!CallJoins, Sftp!CallConnects, Sftp!Done
<1>4. ASSUME NEW c \in Clients, Sftp!Ready(c) \/ Sftp!Opened(c)
      PROVE  SftpSteady'
  BY <1>4 DEF Sftp!Ready, Sftp!Opened
<1>5. ASSUME NEW c \in Clients, Sftp!Error(c)
      PROVE  SftpSteady'
  BY <1>5 DEF Sftp!Error, Sftp!HandleDisconnect
<1>6. ASSUME NEW c \in Clients, Sftp!Ended(c)
      PROVE  SftpSteady'
  BY <1>6 DEF Sftp!Ended, Sftp!HandleDisconnect
<1>7. ASSUME NEW c \in Clients, Sftp!Refused(c) \/ Sftp!ChannelCloses(c) \/ Sftp!UnhandledError(c)
      PROVE  SftpSteady'
  BY <1>7 DEF Sftp!Refused, Sftp!ChannelCloses, Sftp!UnhandledError
<1>8. CASE UNCHANGED vars
  BY <1>8 DEF vars
<1> QED
  BY <1>2, <1>3, <1>4, <1>5, <1>6, <1>7, <1>8 DEF SftpStep, Sftp!Next

LEMMA SftpDropsOnlyLost ==
    ASSUME ~Sftp!SubsystemFaults, ~Sftp!KeyFaults, ~Sftp!BareClose,
           Sftp!Fields, SftpSteady, SftpStep
    PROVE  DropsOnlyLost
<1> USE DEF DropsOnlyLost
<1>1. ASSUME NEW c \in Clients, Sftp!Opened(c)
      PROVE  DropsOnlyLost
  BY <1>1, ConnectionAssumption DEF ConnectionAssumption, Sftp!Opened, SftpSteady, Sftp!InFlight
<1>2. ASSUME NEW c \in Clients, Sftp!Error(c) \/ Sftp!Ended(c)
      PROVE  DropsOnlyLost
  <2>1. conn[c] # conn'[c] /\ (client # None => client = c \/ client' = client)
    BY <1>2, ConnectionAssumption
       DEF ConnectionAssumption, Sftp!Fields, SftpSteady, Sftp!Error, Sftp!Ended, Sftp!InFlight
  <2> QED
    BY <2>1
<1>3. ASSUME NEW c \in Clients,
             \/ Sftp!Ready(c) \/ Sftp!Refused(c)
             \/ Sftp!ChannelCloses(c) \/ Sftp!UnhandledError(c)
      PROVE  DropsOnlyLost
  BY <1>3 DEF Sftp!Ready, Sftp!Refused, Sftp!ChannelCloses, Sftp!UnhandledError
<1>4. CASE Sftp!TimerFires
  BY <1>4 DEF Sftp!TimerFires
<1>5. ASSUME NEW k \in Calls, \/ Sftp!CallConnected(k) \/ Sftp!CallJoins(k)
                              \/ Sftp!CallConnects(k) \/ Sftp!Done(k)
      PROVE  DropsOnlyLost
  BY <1>5 DEF Sftp!CallConnected, Sftp!CallJoins, Sftp!CallConnects, Sftp!Done
<1>6. CASE UNCHANGED vars
  BY <1>6 DEF vars
<1> QED
  BY <1>1, <1>2, <1>3, <1>4, <1>5, <1>6 DEF SftpStep, Sftp!Next

-----------------------------------------------------------------------------
(***************************************************************************)
(* The RCON connection: types.                                             *)
(***************************************************************************)
LEMMA RconInitTypeOK == Rcon!Init => Rcon!TypeOK
<1>1. Rcon!Init => Rcon!Fields
  BY ConnectionAssumption
     DEF ConnectionAssumption, Rcon!Init, Rcon!Fields, Rcon!ConnState, Rcon!IdleCall
<1>2. Rcon!Init => timer \in BOOLEAN /\ world \in Rcon!Worlds
  BY DEF Rcon!Init
<1> QED
  BY <1>1, <1>2 DEF Rcon!TypeOK

LEMMA RconWorld == RconStep => world' = world
  BY DEF RconStep, Rcon!Next, vars, Rcon!TimerFires, Rcon!CallConnected, Rcon!CallJoins,
         Rcon!CallConnects, Rcon!Answered, Rcon!Connected, Rcon!ConnectFails, Rcon!Ended

LEMMA RconTimer == timer \in BOOLEAN /\ RconStep => timer' \in BOOLEAN
  BY DEF RconStep, Rcon!Next, vars, Rcon!TimerFires, Rcon!CallConnected, Rcon!CallJoins,
         Rcon!CallConnects, Rcon!Answered, Rcon!Connected, Rcon!ConnectFails, Rcon!Ended,
         Rcon!NewAttempt, Rcon!HandleDisconnect

LEMMA RconFields == Rcon!Fields /\ RconStep => Rcon!Fields'
<1> SUFFICES ASSUME Rcon!Fields, RconStep PROVE Rcon!Fields'
  OBVIOUS
<1> USE ConnectionAssumption DEF ConnectionAssumption, Rcon!Fields, Rcon!ConnState, Rcon!IdleCall
<1>1. CASE Rcon!TimerFires
  BY <1>1 DEF Rcon!TimerFires, Rcon!Grown, Rcon!Down, Rcon!NewAttempt
<1>2. ASSUME NEW k \in Calls, Rcon!CallConnected(k) \/ Rcon!CallJoins(k) \/ Rcon!Answered(k)
      PROVE  Rcon!Fields'
  BY <1>2 DEF Rcon!CallConnected, Rcon!CallJoins, Rcon!Answered
<1>3. ASSUME NEW k \in Calls, Rcon!CallConnects(k)
      PROVE  Rcon!Fields'
  BY <1>3 DEF Rcon!CallConnects, Rcon!NewAttempt, Rcon!Down
<1>4. ASSUME NEW c \in Clients, Rcon!Connected(c)
      PROVE  Rcon!Fields'
  BY <1>4 DEF Rcon!Connected
<1>5. ASSUME NEW c \in Clients, Rcon!ConnectFails(c)
      PROVE  Rcon!Fields'
  BY <1>5 DEF Rcon!ConnectFails, Rcon!Fault, Rcon!Settle
<1>6. ASSUME NEW c \in Clients, Rcon!Ended(c)
      PROVE  Rcon!Fields'
  BY <1>6 DEF Rcon!Ended, Rcon!Fault, Rcon!HandleDisconnect
<1>7. CASE UNCHANGED vars
  BY <1>7 DEF vars
<1> QED
  BY <1>1, <1>2, <1>3, <1>4, <1>5, <1>6, <1>7 DEF RconStep, Rcon!Next

-----------------------------------------------------------------------------
(***************************************************************************)
(* Why an RCON service that is down is being retried, sockets left open or *)
(* not: its promise is pending while connect() is ("ended": the socket is  *)
(* gone and its timeout is to come), and the catch block clears it.        *)
(***************************************************************************)
RconPending == {"connecting", "ended"}
RconPromised == promise # None => conn[promise] \in RconPending
RconAwaited ==
    \A k \in Calls : call[k].at = "waiting" =>
                       call[k].on \in Clients /\ conn[call[k].on] \in RconPending

LEMMA RconInitRetrying == Rcon!Init => RconPromised /\ RconAwaited /\ DownIsPromised
<1>1. Rcon!Init => RconPromised
  BY DEF Rcon!Init, RconPromised, RconPending
<1>2. Rcon!Init => RconAwaited
  BY DEF Rcon!Init, RconAwaited, Rcon!IdleCall
<1>3. Rcon!Init => DownIsPromised
  BY ConnectionAssumption DEF ConnectionAssumption, Rcon!Init, DownIsPromised
<1> QED
  BY <1>1, <1>2, <1>3

LEMMA RconDownIsPromised ==
    ASSUME Rcon!Fields, DownIsPromised, RconStep
    PROVE  DownIsPromised'
<1> USE ConnectionAssumption DEF ConnectionAssumption, DownIsPromised
<1>1. CASE Rcon!TimerFires
  BY <1>1 DEF Rcon!TimerFires, Rcon!Down, Rcon!NewAttempt
<1>2. ASSUME NEW k \in Calls, \/ Rcon!CallConnected(k) \/ Rcon!CallJoins(k)
                              \/ Rcon!CallConnects(k) \/ Rcon!Answered(k)
      PROVE  DownIsPromised'
  BY <1>2 DEF Rcon!CallConnected, Rcon!CallJoins, Rcon!CallConnects, Rcon!NewAttempt,
              Rcon!Answered
<1>3. ASSUME NEW c \in Clients, Rcon!Connected(c) \/ Rcon!ConnectFails(c) \/ Rcon!Ended(c)
      PROVE  DownIsPromised'
  BY <1>3 DEF Rcon!Connected, Rcon!ConnectFails, Rcon!Ended, Rcon!HandleDisconnect
<1>4. CASE UNCHANGED vars
  BY <1>4 DEF vars
<1> QED
  BY <1>1, <1>2, <1>3, <1>4 DEF RconStep, Rcon!Next

LEMMA RconPromiseStays ==
    ASSUME Rcon!Fields, RconPromised, RconStep
    PROVE  RconPromised'
<1> USE ConnectionAssumption DEF ConnectionAssumption, Rcon!Fields, Rcon!ConnState, RconPromised,
                                 RconPending
<1>1. CASE Rcon!TimerFires
  BY <1>1 DEF Rcon!TimerFires, Rcon!NewAttempt
<1>2. ASSUME NEW k \in Calls, \/ Rcon!CallConnected(k) \/ Rcon!CallJoins(k)
                              \/ Rcon!CallConnects(k) \/ Rcon!Answered(k)
      PROVE  RconPromised'
  BY <1>2 DEF Rcon!CallConnected, Rcon!CallJoins, Rcon!CallConnects, Rcon!NewAttempt,
              Rcon!Answered
<1>3. ASSUME NEW c \in Clients, Rcon!Connected(c) \/ Rcon!ConnectFails(c) \/ Rcon!Ended(c)
      PROVE  RconPromised'
  BY <1>3 DEF Rcon!Connected, Rcon!ConnectFails, Rcon!Ended
<1>4. CASE UNCHANGED vars
  BY <1>4 DEF vars
<1> QED
  BY <1>1, <1>2, <1>3, <1>4 DEF RconStep, Rcon!Next

LEMMA RconAwaitedStays ==
    ASSUME Rcon!Fields, RconPromised, RconAwaited, RconStep
    PROVE  RconAwaited'
<1> SUFFICES ASSUME NEW k \in Calls, call'[k].at = "waiting"
             PROVE  call'[k].on \in Clients /\ conn'[call'[k].on] \in RconPending
  BY DEF RconAwaited, RconPending
<1> DEFINE Goal == call'[k].on \in Clients /\ conn'[call'[k].on] \in RconPending
<1> USE DEF Rcon!Fields, Rcon!ConnState, Rcon!IdleCall, RconAwaited, RconPending
<1>1. CASE Rcon!TimerFires
  BY <1>1 DEF Rcon!TimerFires, Rcon!NewAttempt
<1>2. ASSUME NEW j \in Calls, Rcon!CallConnected(j) \/ Rcon!Answered(j)
      PROVE  Goal
  <2>1. CASE Rcon!CallConnected(j)
    BY <2>1, SMTT(30) DEF Rcon!CallConnected
  <2>2. CASE Rcon!Answered(j)
    BY <2>2, SMTT(30) DEF Rcon!Answered
  <2> QED
    BY <1>2, <2>1, <2>2
<1>3. ASSUME NEW j \in Calls, Rcon!CallJoins(j)
      PROVE  Goal
  BY <1>3 DEF Rcon!CallJoins, RconPromised
<1>4. ASSUME NEW j \in Calls, Rcon!CallConnects(j)
      PROVE  Goal
  BY <1>4 DEF Rcon!CallConnects, Rcon!NewAttempt
<1>5. ASSUME NEW c \in Clients, Rcon!Connected(c)
      PROVE  Goal
  BY <1>5 DEF Rcon!Connected
<1>6. ASSUME NEW c \in Clients, Rcon!ConnectFails(c)
      PROVE  Goal
  BY <1>6 DEF Rcon!ConnectFails, Rcon!Settle
<1>7. ASSUME NEW c \in Clients, Rcon!Ended(c)
      PROVE  Goal
  BY <1>7 DEF Rcon!Ended
<1>8. CASE UNCHANGED vars
  BY <1>8 DEF vars
<1> QED
  BY <1>1, <1>2, <1>3, <1>4, <1>5, <1>6, <1>7, <1>8 DEF RconStep, Rcon!Next

-----------------------------------------------------------------------------
(***************************************************************************)
(* Why there is one RCON connection when no socket is left open.           *)
(***************************************************************************)
RconSteady ==
    /\ \A c \in Clients :
         /\ conn[c] \in RconPending \union {"free", "ready"}
         /\ conn[c] \in RconPending => promise = c
         /\ conn[c] = "ready" <=> client = c
    /\ promise # None => client = None

LEMMA RconInitSteady == Rcon!Init => RconSteady
  BY ConnectionAssumption DEF ConnectionAssumption, Rcon!Init, RconSteady, RconPending

LEMMA RconSteadyStays ==
    ASSUME ~Rcon!Lingering, Rcon!Fields, RconSteady, RconStep
    PROVE  RconSteady'
<1> USE ConnectionAssumption
    DEF ConnectionAssumption, Rcon!Fields, Rcon!ConnState, RconSteady, RconPending
<1>1. CASE Rcon!TimerFires
  BY <1>1 DEF Rcon!TimerFires, Rcon!NewAttempt, Rcon!Down
<1>2. ASSUME NEW k \in Calls, \/ Rcon!CallConnected(k) \/ Rcon!CallJoins(k)
                              \/ Rcon!CallConnects(k) \/ Rcon!Answered(k)
      PROVE  RconSteady'
  BY <1>2 DEF Rcon!CallConnected, Rcon!CallJoins, Rcon!CallConnects, Rcon!NewAttempt,
              Rcon!Answered, Rcon!Down
<1>3. ASSUME NEW c \in Clients, Rcon!Connected(c)
      PROVE  RconSteady'
  BY <1>3 DEF Rcon!Connected
<1>4. ASSUME NEW c \in Clients, Rcon!ConnectFails(c)
      PROVE  RconSteady'
  BY <1>4 DEF Rcon!ConnectFails
<1>5. ASSUME NEW c \in Clients, Rcon!Ended(c)
      PROVE  RconSteady'
  BY <1>5 DEF Rcon!Ended, Rcon!HandleDisconnect
<1>6. CASE UNCHANGED vars
  BY <1>6 DEF vars
<1> QED
  BY <1>1, <1>2, <1>3, <1>4, <1>5, <1>6 DEF RconStep, Rcon!Next

LEMMA RconDropsOnlyLost ==
    ASSUME ~Rcon!Lingering, Rcon!Fields, RconSteady, RconStep
    PROVE  DropsOnlyLost
<1> USE DEF DropsOnlyLost
<1>1. ASSUME NEW c \in Clients, Rcon!Connected(c)
      PROVE  DropsOnlyLost
  BY <1>1, ConnectionAssumption DEF ConnectionAssumption, Rcon!Connected, RconSteady, RconPending
<1>2. ASSUME NEW c \in Clients, Rcon!ConnectFails(c) \/ Rcon!Ended(c)
      PROVE  DropsOnlyLost
  <2>1. conn[c] # conn'[c] /\ (client # None => client = c)
    BY <1>2, ConnectionAssumption
       DEF ConnectionAssumption, Rcon!Fields, RconSteady, RconPending, Rcon!ConnectFails,
           Rcon!Ended
  <2> QED
    BY <2>1
<1>3. CASE Rcon!TimerFires
  BY <1>3 DEF Rcon!TimerFires
<1>4. ASSUME NEW k \in Calls, \/ Rcon!CallConnected(k) \/ Rcon!CallJoins(k)
                              \/ Rcon!CallConnects(k) \/ Rcon!Answered(k)
      PROVE  DropsOnlyLost
  BY <1>4 DEF Rcon!CallConnected, Rcon!CallJoins, Rcon!CallConnects, Rcon!Answered
<1>5. CASE UNCHANGED vars
  BY <1>5 DEF vars
<1> QED
  BY <1>1, <1>2, <1>3, <1>4, <1>5 DEF RconStep, Rcon!Next

-----------------------------------------------------------------------------
(***************************************************************************)
(* The services together.  A step is a step of the service the world is    *)
(* about, and the world stays what it is.                                  *)
(***************************************************************************)
AllWorlds == Ssh!Worlds \union Sftp!Worlds \union Rcon!Worlds

LEMMA OneService ==
    [Next]_vars /\ world \in AllWorlds =>
        /\ world' = world
        /\ world \in Ssh!Worlds => SshStep
        /\ world \in Sftp!Worlds => SftpStep
        /\ world \in Rcon!Worlds => RconStep
<1> SUFFICES ASSUME [Next]_vars, world \in AllWorlds
             PROVE  /\ world' = world
                    /\ world \in Ssh!Worlds => SshStep
                    /\ world \in Sftp!Worlds => SftpStep
                    /\ world \in Rcon!Worlds => RconStep
  OBVIOUS
<1>1. /\ world \in Ssh!Worlds => world \notin Sftp!Worlds \union Rcon!Worlds
      /\ world \in Sftp!Worlds => world \notin Rcon!Worlds
  BY DEF Ssh!Worlds, Sftp!Worlds, Rcon!Worlds
<1>2. /\ world \in Ssh!Worlds => SshStep
      /\ world \in Sftp!Worlds => SftpStep
      /\ world \in Rcon!Worlds => RconStep
  BY <1>1, Zenon DEF Next, InSsh, InSftp, InRcon, SshStep, SftpStep, RconStep
<1>3. world' = world
  BY <1>2, SshWorld, SftpWorld, RconWorld DEF AllWorlds
<1> QED
  BY <1>2, <1>3

LEMMA InitKind ==
    Init => /\ world \in AllWorlds
            /\ world \in Ssh!Worlds => Ssh!Init
            /\ world \in Sftp!Worlds => Sftp!Init
            /\ world \in Rcon!Worlds => Rcon!Init
<1>1. /\ Ssh!Init => world \in Ssh!Worlds
      /\ Sftp!Init => world \in Sftp!Worlds
      /\ Rcon!Init => world \in Rcon!Worlds
  BY Zenon DEF Ssh!Init, Sftp!Init, Rcon!Init
<1>2. /\ world \in Ssh!Worlds => world \notin Sftp!Worlds \union Rcon!Worlds
      /\ world \in Sftp!Worlds => world \notin Rcon!Worlds
  BY DEF Ssh!Worlds, Sftp!Worlds, Rcon!Worlds
<1> QED
  BY <1>1, <1>2, Zenon DEF Init, AllWorlds

(***************************************************************************)
(* The fields of each service and its callers have their types, whatever   *)
(* the network does.                                                       *)
(***************************************************************************)
THEOREM TypeCorrect == Spec => []TypeOK
<1>1. Init => TypeOK
  BY InitKind, SshInitTypeOK, SftpInitTypeOK, RconInitTypeOK DEF TypeOK, AllWorlds
<1>2. ASSUME TypeOK, [Next]_vars
      PROVE  TypeOK'
  <2>1. /\ world \in AllWorlds /\ world' = world
        /\ world \in Ssh!Worlds => SshStep
        /\ world \in Sftp!Worlds => SftpStep
        /\ world \in Rcon!Worlds => RconStep
    BY <1>2, OneService DEF TypeOK, AllWorlds
  <2>2. world \in Ssh!Worlds => Ssh!TypeOK'
    BY <1>2, <2>1, SshFields, SshFlags DEF TypeOK, Ssh!TypeOK
  <2>3. world \in Sftp!Worlds => Sftp!TypeOK'
    BY <1>2, <2>1, SftpFields, SftpFlags DEF TypeOK, Sftp!TypeOK
  <2>4. world \in Rcon!Worlds => Rcon!TypeOK'
    BY <1>2, <2>1, RconFields, RconTimer DEF TypeOK, Rcon!TypeOK
  <2> QED
    BY <2>1, <2>2, <2>3, <2>4 DEF TypeOK, AllWorlds, Ssh!Worlds, Sftp!Worlds, Rcon!Worlds
<1> QED
  BY <1>1, <1>2, PTL DEF Spec

(***************************************************************************)
(* The reason a service that is down is being retried, in the worlds where *)
(* it is.                                                                  *)
(***************************************************************************)
Retrying ==
    /\ world \in {"ssh", "ssh late close"} => SshPromised /\ SshAwaited /\ DownIsPromised
    /\ world \in {"sftp", "sftp channel"} => SftpPromised /\ SftpAwaited /\ DownIsPromised
    /\ world \in Rcon!Worlds => RconPromised /\ RconAwaited /\ DownIsPromised

LEMMA StaysRetrying == TypeOK /\ Retrying /\ [Next]_vars => Retrying'
<1> SUFFICES ASSUME TypeOK, Retrying, [Next]_vars
             PROVE  Retrying'
  OBVIOUS
<1>1. /\ world' = world
      /\ world \in Ssh!Worlds => SshStep /\ Ssh!Fields
      /\ world \in Sftp!Worlds => SftpStep /\ Sftp!Fields
      /\ world \in Rcon!Worlds => RconStep /\ Rcon!Fields
  BY OneService DEF TypeOK, AllWorlds, Ssh!TypeOK, Sftp!TypeOK, Rcon!TypeOK
<1>2. CASE world \in {"ssh", "ssh late close"}
  <2>1. world \in Ssh!Worlds /\ ~Ssh!KeyFaults /\ ~Ssh!BareClose
    BY <1>2 DEF Ssh!Worlds, Ssh!KeyFaults, Ssh!BareClose
  <2>2. world \notin Sftp!Worlds \union Rcon!Worlds
    BY <1>2 DEF Sftp!Worlds, Rcon!Worlds
  <2>3. SshPromised' /\ SshAwaited' /\ DownIsPromised'
    BY <1>1, <1>2, <2>1, SshPromiseStays, SshAwaitedStays, SshDownIsPromised DEF Retrying
  <2> QED
    BY <1>1, <1>2, <2>2, <2>3 DEF Retrying, Sftp!Worlds, Rcon!Worlds
<1>3. CASE world \in {"sftp", "sftp channel"}
  <2>1. world \in Sftp!Worlds /\ ~Sftp!KeyFaults /\ ~Sftp!BareClose
    BY <1>3 DEF Sftp!Worlds, Sftp!KeyFaults, Sftp!BareClose
  <2>2. world \notin {"ssh", "ssh late close"} /\ world \notin Rcon!Worlds
    BY <1>3 DEF Rcon!Worlds
  <2>3. SftpPromised' /\ SftpAwaited' /\ DownIsPromised'
    BY <1>1, <1>3, <2>1, SftpPromiseStays, SftpAwaitedStays, SftpDownIsPromised DEF Retrying
  <2> QED
    BY <1>1, <1>3, <2>2, <2>3 DEF Retrying, Rcon!Worlds
<1>4. CASE world \in Rcon!Worlds
  <2>1. world \notin {"ssh", "ssh late close", "sftp", "sftp channel"}
    BY <1>4 DEF Rcon!Worlds
  <2>2. RconPromised' /\ RconAwaited' /\ DownIsPromised'
    BY <1>1, <1>4, RconPromiseStays, RconAwaitedStays, RconDownIsPromised DEF Retrying
  <2> QED
    BY <1>1, <1>4, <2>1, <2>2 DEF Retrying
<1> QED
  BY <1>1, <1>2, <1>3, <1>4 DEF Retrying, Rcon!Worlds

LEMMA InitRetrying == Init => Retrying
<1>1. {"ssh", "ssh late close"} \subseteq Ssh!Worlds /\ {"sftp", "sftp channel"} \subseteq Sftp!Worlds
  BY DEF Ssh!Worlds, Sftp!Worlds
<1> QED
  BY <1>1, InitKind, SshInitRetrying, SftpInitRetrying, RconInitRetrying DEF Retrying

(***************************************************************************)
(* While a service is down, an attempt that will settle or the timer is on *)
(* its way to bring it up: however late 'close' comes, if an SFTP channel  *)
(* fails by itself, and if a socket of RCON is left open.                  *)
(***************************************************************************)
THEOREM Retried == Spec => []DownIsBeingRetried
<1>1. TypeOK /\ Retrying => DownIsBeingRetried
  <2> SUFFICES ASSUME TypeOK, Retrying PROVE DownIsBeingRetried
    OBVIOUS
  <2>1. CASE world \in {"ssh", "ssh late close"}
    BY <2>1 DEF Retrying, DownIsBeingRetried, Ssh!DownIsBeingRetried, SshPromised,
                DownIsPromised, Rcon!Worlds
  <2>2. CASE world \in {"sftp", "sftp channel"}
    <3>1. {client, promise} \subseteq Clients \union {None}
      BY <2>2 DEF TypeOK, Sftp!Worlds, Sftp!TypeOK, Sftp!Fields
    <3> QED
      BY <2>2, <3>1 DEF Retrying, DownIsBeingRetried, Sftp!DownIsBeingRetried, SftpPromised,
                        DownIsPromised, Rcon!Worlds
  <2>3. CASE world \in Rcon!Worlds
    BY <2>3 DEF Retrying, DownIsBeingRetried, Rcon!DownIsBeingRetried, RconPromised,
                DownIsPromised, Rcon!Worlds, RconPending
  <2> QED
    BY <2>1, <2>2, <2>3 DEF DownIsBeingRetried
<1> QED
  BY TypeCorrect, InitRetrying, StaysRetrying, <1>1, PTL DEF Spec

(***************************************************************************)
(* In the same worlds, whoever waits, waits for an attempt that will       *)
(* settle.                                                                 *)
(***************************************************************************)
THEOREM Awaited == Spec => []WaitersHaveAnAttempt
<1>1. Retrying => WaitersHaveAnAttempt
  BY DEF Retrying, WaitersHaveAnAttempt, Ssh!WaitersHaveAnAttempt, Sftp!WaitersHaveAnAttempt,
         Rcon!WaitersHaveAnAttempt, SshAwaited, SftpAwaited, RconAwaited, RconPending
<1> QED
  BY TypeCorrect, InitRetrying, StaysRetrying, <1>1, PTL DEF Spec

-----------------------------------------------------------------------------
Steady ==
    /\ world = "ssh" => SshSteady
    /\ world = "sftp" => SftpSteady
    /\ world = "rcon" => RconSteady

LEMMA InitSteady == Init => Steady
<1>1. "ssh" \in Ssh!Worlds /\ "sftp" \in Sftp!Worlds /\ "rcon" \in Rcon!Worlds
  BY DEF Ssh!Worlds, Sftp!Worlds, Rcon!Worlds
<1> QED
  BY <1>1, InitKind, SshInitSteady, SftpInitSteady, RconInitSteady DEF Steady

\* In the steady worlds a step keeps the connection one, and drops it only when lost.
LEMMA SteadyStep ==
    TypeOK /\ Steady /\ [Next]_vars => Steady' /\ (world \in SteadyWorlds => DropsOnlyLost)
<1> SUFFICES ASSUME TypeOK, Steady, [Next]_vars
             PROVE  Steady' /\ (world \in SteadyWorlds => DropsOnlyLost)
  OBVIOUS
<1>1. /\ world' = world
      /\ world \in Ssh!Worlds => SshStep /\ Ssh!Fields
      /\ world \in Sftp!Worlds => SftpStep /\ Sftp!Fields
      /\ world \in Rcon!Worlds => RconStep /\ Rcon!Fields
  BY OneService DEF TypeOK, AllWorlds, Ssh!TypeOK, Sftp!TypeOK, Rcon!TypeOK
<1>2. CASE world = "ssh"
  <2>1. world \in Ssh!Worlds /\ ~Ssh!KeyFaults /\ ~Ssh!BareClose /\ ~Ssh!LateClose
    BY <1>2 DEF Ssh!Worlds, Ssh!KeyFaults, Ssh!BareClose, Ssh!LateClose
  <2>2. SshSteady' /\ DropsOnlyLost
    BY <1>1, <1>2, <2>1, SshSteadyStays, SshDropsOnlyLost DEF Steady
  <2> QED
    BY <1>1, <1>2, <2>2 DEF Steady
<1>3. CASE world = "sftp"
  <2>1. /\ world \in Sftp!Worlds /\ ~Sftp!SubsystemFaults
        /\ ~Sftp!KeyFaults /\ ~Sftp!BareClose
    BY <1>3 DEF Sftp!Worlds, Sftp!SubsystemFaults, Sftp!KeyFaults, Sftp!BareClose
  <2>2. SftpSteady' /\ DropsOnlyLost
    BY <1>1, <1>3, <2>1, SftpSteadyStays, SftpDropsOnlyLost DEF Steady
  <2> QED
    BY <1>1, <1>3, <2>2 DEF Steady
<1>4. CASE world = "rcon"
  <2>1. world \in Rcon!Worlds /\ ~Rcon!Lingering
    BY <1>4 DEF Rcon!Worlds, Rcon!Lingering
  <2>2. RconSteady' /\ DropsOnlyLost
    BY <1>1, <1>4, <2>1, RconSteadyStays, RconDropsOnlyLost DEF Steady
  <2> QED
    BY <1>1, <1>4, <2>2 DEF Steady
<1> QED
  BY <1>1, <1>2, <1>3, <1>4 DEF Steady, SteadyWorlds

(***************************************************************************)
(* No second connection is open, or being opened, beside the shared one.   *)
(***************************************************************************)
THEOREM Single == Spec => []SingleConnection
<1>1. Steady => SingleConnection
  <2> SUFFICES ASSUME Steady PROVE SingleConnection
    OBVIOUS
  <2> USE ConnectionAssumption DEF ConnectionAssumption, Steady
  <2>1. world = "ssh" => Ssh!SingleConnection
    BY DEF SshSteady, Ssh!SingleConnection
  <2>2. world = "sftp" => Sftp!SingleConnection
    BY DEF SftpSteady, Sftp!SingleConnection, Sftp!InFlight
  <2>3. world = "rcon" => Rcon!SingleConnection
    BY DEF RconSteady, Rcon!SingleConnection, RconPending
  <2> QED
    BY <2>1, <2>2, <2>3 DEF SingleConnection
<1> QED
  BY TypeCorrect, InitSteady, SteadyStep, <1>1, PTL DEF Spec

(***************************************************************************)
(* handleDisconnect() gives up no connection but one lost in that step.    *)
(***************************************************************************)
THEOREM OnlyLost == Spec => OnlyLostConnectionsAreDropped
<1>1. TypeOK /\ Steady /\ [Next]_vars
      => [client # None /\ client' # client /\ world \in SteadyWorlds
            => conn[client] # conn'[client]]_vars
  BY SteadyStep DEF DropsOnlyLost
<1> QED
  BY TypeCorrect, InitSteady, SteadyStep, <1>1, PTL DEF Spec, OnlyLostConnectionsAreDropped
=============================================================================
