----------------------------- MODULE MCChannels ------------------------------
(***************************************************************************)
(* The constants of the run of Channels: three commands at a time.         *)
(***************************************************************************)
EXTENDS Channels

CONSTANTS s1, s2, s3
MCSlots == {s1, s2, s3}
=============================================================================
