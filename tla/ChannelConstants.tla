-------------------------- MODULE ChannelConstants ---------------------------
(***************************************************************************)
(* What the services that hold a channel of the shared SSH connection      *)
(* (GameConsole, ScriptsService) are parameterised by.                     *)
(***************************************************************************)
EXTENDS Naturals, Sequences

CONSTANTS
    Slots,          \* commands that may be starting or running at the same time
    None,
    HistorySize,    \* HISTORY_SIZE: 1000 lines of console, 500 of scripts
    MaxBackoff,     \* backoff steps from MIN_BACKOFF_MS to MAX_BACKOFF_MS (7 in the code)
    MaxFaults       \* bound on failures, lost channels and container stops

ASSUME ChannelAssumption ==
    HistorySize \in Nat \ {0} /\ MaxBackoff \in Nat /\ MaxFaults \in Nat
=============================================================================
