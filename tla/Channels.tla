------------------------------ MODULE Channels -------------------------------
(***************************************************************************)
(* The two services that hold a channel of the shared SSH connection.  A   *)
(* behaviour is one of one service under one assumption about its          *)
(* channels: `world` is chosen at the start and never changes.             *)
(*                                                                         *)
(*   "console"             'close' is right behind a channel's 'error'     *)
(*   "console late close"  it comes any time after                         *)
(*   "scripts"             a script ends with its channel                  *)
(*   "scripts detached"    it may go on without, and 'close' may be late   *)
(*                                                                         *)
(* The variables of the other service mean nothing and stand still.        *)
(***************************************************************************)
EXTENDS ChannelConstants

VARIABLES run, confirmed, following, failed, timer, backoff, notice, command, container,
          running, state, name, remote, history, faults, world

consoleVars == <<run, confirmed, following, failed, timer, backoff, notice, command, container>>
scriptsVars == <<running, state, name, remote>>
vars == <<consoleVars, scriptsVars, history, faults, world>>

Console == INSTANCE GameConsole
Scripts == INSTANCE ScriptsService

ASSUME NoneAssumption == None \notin Scripts!Scripts

ConsoleAside ==
    /\ run = [s \in Slots |-> "free"] /\ confirmed = {} /\ following = FALSE /\ failed = FALSE
    /\ timer = FALSE /\ backoff = 0 /\ notice = "none" /\ command = FALSE /\ container = FALSE
ScriptsAside ==
    /\ running = None /\ state = [s \in Slots |-> "free"] /\ name = None /\ remote = {}

Init == (Console!Init /\ ScriptsAside) \/ (Scripts!Init /\ ConsoleAside)

OfConsole(A) == world \in Console!Worlds /\ A /\ UNCHANGED scriptsVars
OfScripts(A) == world \in Scripts!Worlds /\ A /\ UNCHANGED consoleVars

Next == OfConsole(Console!Next) \/ OfScripts(Scripts!Next)

\* Timers fire, execChannel() settles, a stopped container is started again,
\* docker exits when it must, scripts end and a failed channel closes.
Opens(s) == OfConsole(Console!FollowOpens(s)) \/ OfScripts(Scripts!ExecOpens(s))
Works(s) == OfConsole(Console!ConfirmTimer(s)) \/ OfScripts(Scripts!Exits(s))
Ends(s) == OfConsole(Console!Closes(s)) \/ OfScripts(Scripts!ClosedLate(s))

Fairness ==
    /\ WF_vars(OfConsole(Console!TimerFires)) /\ WF_vars(OfConsole(Console!ContainerStarts))
    /\ \A s \in Slots : WF_vars(Opens(s)) /\ WF_vars(Works(s)) /\ WF_vars(Ends(s))

Spec == Init /\ [][Next]_vars /\ Fairness

-----------------------------------------------------------------------------
(***************************************************************************)
(* The type invariant of the service at hand.                              *)
(***************************************************************************)
TypeOK ==
    /\ world \in Console!Worlds \union Scripts!Worlds
    /\ world \in Console!Worlds => Console!TypeOK
    /\ world \in Scripts!Worlds => Scripts!TypeOK

(***************************************************************************)
(* Exactly one thing keeps the console alive, the timer or one follower:   *)
(* never a dead tab, never a log followed twice.                           *)
(***************************************************************************)
OneFollower == world = "console" => Console!OneFollower

(***************************************************************************)
(* The status shown is following exactly while a channel that proved alive *)
(* is open.                                                                *)
(***************************************************************************)
StatusTruthful == world = "console" => Console!StatusTruthful

(***************************************************************************)
(* The last notice in the console's log agrees with the status, even with  *)
(* two followers.                                                          *)
(***************************************************************************)
NoticesMatchStatus ==
    world \in Console!Worlds => Console!NoticesMatchStatus

(***************************************************************************)
(* With the container and the connection up again, the console follows.    *)
(***************************************************************************)
FollowsAgain == world = "console" => Console!FollowsAgain

(***************************************************************************)
(* Two scripts never run at once on the server while a script ends with    *)
(* its channel.                                                            *)
(***************************************************************************)
OneScriptAtATime == world = "scripts" => Scripts!OneScriptAtATime

(***************************************************************************)
(* The panel never refuses scripts for ever: running is cleared whatever   *)
(* happens to the channel.                                                 *)
(***************************************************************************)
ScriptsEnd == world \in Scripts!Worlds => Scripts!ScriptsEnd
=============================================================================
