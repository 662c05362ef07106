---------------------------- MODULE MCStoreFile ----------------------------
(***************************************************************************)
(* Instances of StoreFile for TLC: the users differ in where encryption    *)
(* starts, how it is switched, whether the sources may yield nobody, and   *)
(* in crashes and lost keys.                                               *)
(***************************************************************************)
EXTENDS StoreFile

CONSTANTS ab, bc
=============================================================================
