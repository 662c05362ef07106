------------------------------- MODULE Merging -------------------------------
(***************************************************************************)
(* What identity resolution promises: starting from every record alone,    *)
(* records are only ever welded together, two at a time, and only on       *)
(* evidence (resolver.py:7-11).  The order and the choice are left open.   *)
(* rep maps each record to the representative of its class.                *)
(***************************************************************************)
EXTENDS Contacts

VARIABLES records, overrides, rep

mvars == <<records, overrides, rep>>

\* Mutant of Alone: parents numbered from zero, records from one.
AloneFromZero(rs) == [i \in Positions(rs) |-> i - 1]

Alone(rs) == [i \in Positions(rs) |-> i]

\* rep after the classes of i and j become one, under i's representative.
Joined(r, i, j) == [k \in DOMAIN r |-> IF r[k] = r[j] THEN r[i] ELSE r[k]]

MergingInit ==
    /\ records \in Seq(RawRecord)
    /\ overrides \subseteq Override
    /\ rep = Alone(records)

Weld(i, j) ==
    /\ Evidence(records, overrides, i, j)
    /\ rep' = Joined(rep, i, j)
    /\ UNCHANGED <<records, overrides>>

MergingNext == \E i, j \in Positions(records) : Weld(i, j)

MergingSpec == MergingInit /\ [][MergingNext]_mvars

MergingTypeOK ==
    /\ records \in Seq(RawRecord)
    /\ overrides \subseteq Override
    /\ rep \in [Positions(records) -> Positions(records)]

(***************************************************************************)
(* "Every edge records the evidence that created it, so a merge can always *)
(* be explained" (resolver.py:10): two records are one person only when a  *)
(* chain of evidence leads from one to the other.  Stated without paths: a *)
(* set of records that evidence never leaves is never left by a merge.     *)
(***************************************************************************)
EvidenceClosed(S) ==
    \A i \in S, j \in Positions(records) \ S : ~Evidence(records, overrides, i, j)

Saturated(S) == \A i \in S, j \in Positions(records) \ S : rep[i] # rep[j]

Explained ==
    \A S \in SUBSET Positions(records) : Saturated(S) \/ ~EvidenceClosed(S)
=============================================================================
