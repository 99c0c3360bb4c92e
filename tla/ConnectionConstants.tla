------------------------ MODULE ConnectionConstants --------------------------
(***************************************************************************)
(* What the three connection services (SshService, SftpService,            *)
(* RconService) are parameterised by.                                      *)
(***************************************************************************)
EXTENDS Naturals

CONSTANTS
    Clients,        \* connection attempts; each names the client and the promise it made
    Calls,          \* callers that may be waiting or working at the same time
    None,
    MaxBackoff,     \* backoff steps from MIN_BACKOFF_MS to MAX_BACKOFF_MS (7 in the code)
    MaxFaults       \* bound on failed attempts and lost connections

ASSUME ConnectionAssumption ==
    None \notin Clients /\ MaxBackoff \in Nat /\ MaxFaults \in Nat
=============================================================================
