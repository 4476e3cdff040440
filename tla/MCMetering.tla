----------------------------- MODULE MCMetering -----------------------------
(***************************************************************************)
(* Small instances of Metering for TLC.                                    *)
(***************************************************************************)
EXTENDS Metering

=============================================================================
