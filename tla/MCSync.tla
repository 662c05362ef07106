------------------------------- MODULE MCSync -------------------------------
(***************************************************************************)
(* Instances of Sync for TLC: d is the daemon, c1 a command-line process.  *)
(***************************************************************************)
EXTENDS Sync

CONSTANTS d, c1, ab, bc
=============================================================================
