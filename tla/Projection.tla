----------------------------- MODULE Projection -----------------------------
(***************************************************************************)
(* What a sync promises about the user's decisions (engine.py:43-48,       *)
(* README.md:28): the stored projection is rebuilt in one step, and never  *)
(* without the decisions that stand at that moment.                        *)
(***************************************************************************)
EXTENDS Naturals

CONSTANTS Pairs     \* pairs of addresses the user may rule on

\* A ruling carries the number of the commit that made it, so that two rulings
\* on a pair are told apart.
Verdicts == {"none", "same", "distinct"}
Ruling == [verdict : Verdicts, stamp : Nat]
NoRuling == [verdict |-> "none", stamp |-> 0]

VARIABLES
    decisions,   \* the overrides table: the standing ruling of each pair
    applied      \* the rulings the stored projection was built with

pvars == <<decisions, applied>>

ProjectionInit ==
    /\ decisions = [pair \in Pairs |-> NoRuling]
    /\ applied = decisions

Rule == \E pair \in Pairs :
    /\ decisions' \in [Pairs -> Ruling]
    /\ \A q \in Pairs \ {pair} : decisions'[q] = decisions[q]
    /\ UNCHANGED applied

Rebuild == applied' = decisions /\ UNCHANGED decisions

ProjectionSpec == ProjectionInit /\ [][Rule \/ Rebuild]_pvars
=============================================================================
