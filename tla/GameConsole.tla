----------------------------- MODULE GameConsole -----------------------------
(***************************************************************************)
(* services/gameConsole.service.ts: following `docker logs -f` over the    *)
(* shared SSH connection and reporting to the Console tab.                 *)
(*                                                                         *)
(* A slot f of Slots is one run of follow(): waiting for                   *)
(* sshService.execChannel(), then a channel that is open or, when          *)
(* LateClose, has emitted 'error' and will emit 'close' later.  Lines are  *)
(* told apart by kind only: "out" (the container's), "cmd" (a command that *)
(* failed) and the two notices "lost" and "back".  A container that is not *)
(* running still has a log: docker prints its tail and exits.  `world`,    *)
(* chosen at the start for good, says how late 'close' may be.             *)
(***************************************************************************)
EXTENDS ChannelConstants

VARIABLES
    run,        \* each follower: "free", "pending", "open", "errored"
    confirmed,  \* followers whose channel has proven alive
    following, failed,  \* following; lastError is not null
    timer, backoff, history,
    notice,     \* history variable: the last notice pushed
    command,    \* TRUE while a sendCommand() awaits its exec
    container,  \* TRUE: the container is running
    faults, world

vars == <<run, confirmed, following, failed, timer, backoff, history, notice,
          command, container, faults, world>>

Worlds == {"console", "console late close"}

\* 'close' may follow a channel's 'error' after any delay.
LateClose == world = "console late close"

Kinds == {"out", "cmd", "lost", "back"}

TypeOK ==
    /\ run \in [Slots -> {"free", "pending", "open", "errored"}]
    /\ confirmed \subseteq Slots
    /\ {following, failed, timer, command, container} \subseteq BOOLEAN
    /\ backoff \in 0..MaxBackoff /\ faults \in 0..MaxFaults
    /\ history \in Seq(Kinds) /\ Len(history) <= HistorySize
    /\ notice \in {"none", "lost", "back"}
    /\ world \in Worlds

\* start() has called follow().
Init ==
    /\ \E f \in Slots : run = [g \in Slots |-> IF g = f THEN "pending" ELSE "free"]
    /\ confirmed = {} /\ following = FALSE /\ failed = FALSE
    /\ timer = FALSE /\ backoff = 0 /\ faults = 0
    /\ history = <<>> /\ notice = "none"
    /\ command = FALSE /\ container \in BOOLEAN /\ world \in Worlds

-----------------------------------------------------------------------------
Fault == faults < MaxFaults /\ faults' = faults + 1

\* Slip: the backoff is not capped.
GrownUncapped(b) == b + 1
Grown(b) == IF b < MaxBackoff THEN b + 1 ELSE b

\* push(): the oldest line leaves a full history.
Pushed(h, line) == IF Len(h) < HistorySize THEN Append(h, line) ELSE Append(Tail(h), line)

\* Slips: no retry; the status is kept; nothing is said.
HandleDownForGood ==
    /\ following' = FALSE /\ failed' = TRUE /\ UNCHANGED timer
    /\ history' = IF following THEN Pushed(history, "lost") ELSE history
    /\ notice' = IF following THEN "lost" ELSE notice
HandleDownKeepsStatus ==
    /\ failed' = TRUE /\ timer' = TRUE /\ UNCHANGED <<following, history, notice>>
HandleDownSilent ==
    /\ following' = FALSE /\ failed' = TRUE /\ timer' = TRUE
    /\ UNCHANGED <<history, notice, world>>
HandleDown ==
    /\ following' = FALSE /\ failed' = TRUE /\ timer' = TRUE
    /\ history' = IF following THEN Pushed(history, "lost") ELSE history
    /\ notice' = IF following THEN "lost" ELSE notice

\* markUp(): h is the history with its notice.
BackNotice == IF failed THEN Pushed(history, "back") ELSE history
MarkUp ==
    /\ backoff' = 0 /\ following' = TRUE /\ failed' = FALSE
    /\ notice' = IF failed THEN "back" ELSE notice

-----------------------------------------------------------------------------
\* execChannel() rejected.
FollowFails(f) ==
    /\ run[f] = "pending" /\ Fault
    /\ run' = [run EXCEPT ![f] = "free"]
    /\ HandleDown
    /\ UNCHANGED <<confirmed, backoff, command, container, world>>

FollowOpens(f) ==
    /\ run[f] = "pending"
    /\ run' = [run EXCEPT ![f] = "open"]
    /\ confirmed' = confirmed \ {f}
    /\ UNCHANGED <<following, failed, timer, backoff, history, notice, command, container,
                   faults, world>>

\* CONFIRM_MS passed, whatever the container does; 'error' and 'close' clear
\* that timer.
ConfirmTimer(f) ==
    /\ run[f] = "open" /\ f \notin confirmed
    /\ confirmed' = confirmed \union {f}
    /\ MarkUp /\ history' = BackNotice
    /\ UNCHANGED <<run, timer, command, container, faults, world>>

\* A stdout line confirms the channel; the tail of a stopped container too.
Data(f) ==
    /\ run[f] \in {"open", "errored"}
    /\ IF f \in confirmed
       THEN /\ history' = Pushed(history, "out")
            /\ UNCHANGED <<confirmed, backoff, following, failed, notice>>
       ELSE /\ confirmed' = confirmed \union {f}
            /\ MarkUp /\ history' = Pushed(BackNotice, "out")
    /\ UNCHANGED <<run, timer, command, container, faults, world>>

\* A stderr line confirms nothing.
Stderr(f) ==
    /\ run[f] \in {"open", "errored"}
    /\ history' = Pushed(history, "out")
    /\ UNCHANGED <<run, confirmed, following, failed, timer, backoff, notice, command,
                   container, faults, world>>

\* 'error', with 'close' right behind it or later.
Errors(f) ==
    /\ run[f] = "open" /\ Fault
    /\ run' = [run EXCEPT ![f] = IF LateClose THEN "errored" ELSE "free"]
    /\ HandleDown
    /\ UNCHANGED <<confirmed, backoff, command, container, world>>

\* 'close': the connection dropped, or docker exited (as it does at once when
\* the container is not running).
Closes(f) ==
    /\ \/ run[f] = "open" /\ container /\ Fault
       \/ (run[f] = "errored" \/ (run[f] = "open" /\ ~container)) /\ UNCHANGED faults
    /\ run' = [run EXCEPT ![f] = "free"]
    /\ HandleDown
    /\ UNCHANGED <<confirmed, backoff, command, container, world>>

TimerFires ==
    /\ timer /\ timer' = FALSE
    /\ backoff' = Grown(backoff)
    /\ \E f \in Slots :
         run[f] = "free" /\ run' = [run EXCEPT ![f] = "pending"]
    /\ UNCHANGED <<confirmed, following, failed, history, notice, command, container,
                   faults, world>>

SendCommand ==
    /\ ~command /\ command' = TRUE
    /\ UNCHANGED <<run, confirmed, following, failed, timer, backoff, history, notice,
                   container, faults, world>>

\* exec() settled; a failure is told to every viewer.
CommandDone ==
    /\ command /\ command' = FALSE
    /\ history' \in {history, Pushed(history, "cmd")}
    /\ UNCHANGED <<run, confirmed, following, failed, timer, backoff, notice, container,
                   faults, world>>

\* The container is started, or stops.
ContainerStarts ==
    /\ ~container /\ container' = TRUE
    /\ UNCHANGED <<run, confirmed, following, failed, timer, backoff, history, notice,
                   command, faults, world>>
ContainerStops ==
    /\ container /\ Fault /\ container' = FALSE
    /\ UNCHANGED <<run, confirmed, following, failed, timer, backoff, history, notice,
                   command, world>>

Next ==
    \/ TimerFires \/ SendCommand \/ CommandDone \/ ContainerStarts \/ ContainerStops
    \/ \E f \in Slots :
         \/ FollowFails(f) \/ FollowOpens(f) \/ ConfirmTimer(f)
         \/ Data(f) \/ Stderr(f) \/ Errors(f) \/ Closes(f)

Spec == Init /\ [][Next]_vars

-----------------------------------------------------------------------------
(***************************************************************************)
(* Exactly one thing keeps the console alive: the timer, or one follower.  *)
(* None would mean the tab stays dead, two that every line shows twice.    *)
(***************************************************************************)
OneFollower ==
    /\ \A f, g \in Slots : run[f] # "free" /\ run[g] # "free" => f = g
    /\ timer <=> \A f \in Slots : run[f] = "free"

(***************************************************************************)
(* The status shown is the truth: following exactly while a channel that   *)
(* proved alive is open.                                                   *)
(***************************************************************************)
StatusTruthful == following <=> \E f \in confirmed : run[f] = "open"

(***************************************************************************)
(* The last notice in the log never contradicts the status: "lost" is not  *)
(* the last word while following, nor "back" while not.                    *)
(***************************************************************************)
NoticesMatchStatus == notice # IF following THEN "lost" ELSE "back"

(***************************************************************************)
(* The backoff is reset only by a container that is running, or a channel  *)
(* that stayed open for CONFIRM_MS: not by the tail of a container that is *)
(* stopped (comments of CONFIRM_MS and scheduleReconnect()).               *)
(***************************************************************************)
ResetOnlyWhenProven ==
    [][backoff' < backoff => container \/ \E f \in Slots : ConfirmTimer(f)]_vars

(***************************************************************************)
(* With the container and the connection up again, following resumes.      *)
(***************************************************************************)
FollowsAgain == <>[]following
=============================================================================
