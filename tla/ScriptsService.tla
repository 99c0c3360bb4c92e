--------------------------- MODULE ScriptsService ----------------------------
(***************************************************************************)
(* services/scripts.service.ts: the start, stop, restart and backup        *)
(* scripts, one at a time over the shared SSH connection.                  *)
(*                                                                         *)
(* A slot e of Slots is one execute(): waiting for execChannel(), then a   *)
(* channel.  The process on the server is apart from the channel: when     *)
(* Detached, a dropped connection leaves it running.  Output is told apart *)
(* by kind: "cmd", "ignored", "failed", "error", "exit", "out".  `world`,  *)
(* chosen at the start for good, says which of this happens.               *)
(***************************************************************************)
EXTENDS ChannelConstants

Scripts == {"start", "restart"}     \* two of the four tell them apart

VARIABLES
    running,    \* this.running
    state,      \* each run: "free", "pending", "open", "errored"
    name,       \* the script of each run
    remote,     \* the runs whose process is alive on the server
    history, faults, world

vars == <<running, state, name, remote, history, faults, world>>

Worlds == {"scripts", "scripts detached"}

\* A script outlives its channel, whose 'close' may follow 'error' after any delay.
Detached == world = "scripts detached"
LateClose == world = "scripts detached"

TypeOK ==
    /\ running \in Scripts \union {None}
    /\ state \in [Slots -> {"free", "pending", "open", "errored"}]
    /\ name \in [Slots -> Scripts]
    /\ remote \subseteq Slots
    /\ history \in Seq({"cmd", "ignored", "failed", "error", "exit", "out"})
    /\ Len(history) <= HistorySize /\ faults \in 0..MaxFaults
    /\ world \in Worlds

Init ==
    /\ running = None /\ history = <<>> /\ faults = 0 /\ world \in Worlds
    /\ state = [e \in Slots |-> "free"] /\ name \in [Slots -> {"start"}] /\ remote = {}

-----------------------------------------------------------------------------
\* Slip: nothing leaves a full history.
PushUncapped(line) == history' = Append(history, line)
Push(line) ==
    history' = IF Len(history) < HistorySize THEN Append(history, line)
               ELSE Append(Tail(history), line)

\* Slip: only a restart is waited for.
NothingRestarts == running # "restart"
NothingRuns == running = None

\* Slip: running is left set.
NeverOver == UNCHANGED running
Over == running' = None

Becomes(e, s) == state' = [state EXCEPT ![e] = s]
Fault == faults < MaxFaults /\ faults' = faults + 1

\* run(): refused while another script is thought to run.
RunIgnored ==
    /\ running # None
    /\ Push("ignored")
    /\ UNCHANGED <<running, state, name, remote, faults, world>>

Run(e, s) ==
    /\ NothingRuns /\ state[e] = "free" /\ e \notin remote
    /\ running' = s /\ name' = [name EXCEPT ![e] = s]
    /\ Becomes(e, "pending") /\ Push("cmd")
    /\ UNCHANGED <<remote, faults, world>>

\* execChannel() rejected.
ExecFails(e) ==
    /\ state[e] = "pending" /\ Fault
    /\ Becomes(e, "free") /\ Over /\ Push("failed")
    /\ UNCHANGED <<name, remote, world>>

ExecOpens(e) ==
    /\ state[e] = "pending"
    /\ Becomes(e, "open") /\ remote' = remote \union {e}
    /\ UNCHANGED <<running, name, history, faults, world>>

Output(e) ==
    /\ state[e] = "open" /\ e \in remote
    /\ Push("out")
    /\ UNCHANGED <<running, state, name, remote, faults, world>>

\* The process ends on the server; 'close' follows on a channel still there.
Exits(e) ==
    /\ e \in remote
    /\ remote' = remote \ {e}
    /\ IF state[e] = "free" THEN UNCHANGED <<running, state, history>>
       ELSE Becomes(e, "free") /\ Over /\ Push("exit")
    /\ UNCHANGED <<name, faults, world>>

\* 'close' because the connection was lost.
Lost(e) ==
    /\ state[e] = "open" /\ Fault
    /\ Becomes(e, "free") /\ Over /\ Push("exit")
    /\ remote' = IF Detached THEN remote ELSE remote \ {e}
    /\ UNCHANGED <<name, world>>

\* 'error' of the channel, its 'close' to come later.
Errors(e) ==
    /\ state[e] = "open" /\ LateClose /\ Fault
    /\ Becomes(e, "errored") /\ Over /\ Push("error")
    /\ remote' = IF Detached THEN remote ELSE remote \ {e}
    /\ UNCHANGED <<name, world>>

ClosedLate(e) ==
    /\ state[e] = "errored"
    /\ Becomes(e, "free") /\ Over /\ Push("exit")
    /\ UNCHANGED <<name, remote, faults, world>>

Next ==
    \/ RunIgnored
    \/ \E e \in Slots :
         \/ \E s \in Scripts : Run(e, s)
         \/ ExecFails(e) \/ ExecOpens(e) \/ Output(e)
         \/ Exits(e) \/ Lost(e) \/ Errors(e) \/ ClosedLate(e)

Spec == Init /\ [][Next]_vars

-----------------------------------------------------------------------------
(***************************************************************************)
(* Two scripts never run on the server at the same time (a backup under a  *)
(* restart), nor is a second one on its way there.                         *)
(***************************************************************************)
OneScriptAtATime ==
    \A d, e \in Slots : {d, e} \subseteq remote \union {x \in Slots : state[x] = "pending"} => d = e

(***************************************************************************)
(* The panel never refuses scripts for ever: running is cleared whatever   *)
(* happens to the channel.                                                 *)
(***************************************************************************)
ScriptsEnd == [](running # None => <>(running = None))
=============================================================================
