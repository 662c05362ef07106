----------------------------- MODULE MCOverlay -----------------------------
(***************************************************************************)
(* Instances of Overlay for TLC: three people, listed two a page; the      *)
(* search "c" finds the last.                                              *)
(***************************************************************************)
EXTENDS Overlay

CONSTANTS anna, bob, carol

MCRows == [q \in {"", "c"} |-> IF q = "" THEN <<anna, bob, carol>> ELSE <<carol>>]
=============================================================================
