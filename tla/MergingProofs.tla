---------------------------- MODULE MergingProofs ----------------------------
(***************************************************************************)
(* Machine-checked proofs about the abstract merging.                      *)
(***************************************************************************)
EXTENDS Merging, TLAPS

\* "Distinct" names two records in either order.
LEMMA DeniesSymmetric ==
    ASSUME NEW rs, NEW os, NEW i, NEW j
    PROVE  Denies(rs, os, i, j) <=> Denies(rs, os, j, i)
BY DEF Denies

\* Names agree in either order, so evidence between two records has no side.
LEMMA EvidenceSymmetric ==
    ASSUME NEW rs, NEW os, NEW i, NEW j
    PROVE  Evidence(rs, os, i, j) => Evidence(rs, os, j, i)
<1>1. SharesAddress(rs, os, i, j) => SharesAddress(rs, os, j, i)
  BY DeniesSymmetric DEF SharesAddress, Identifies, NamesAgree
<1>2. QED  BY <1>1 DEF Evidence

\* Welding keeps every record's representative a record.
THEOREM MergingTypeCorrect == MergingSpec => []MergingTypeOK
<1>1. MergingInit => MergingTypeOK
  BY DEF MergingInit, MergingTypeOK, Alone
<1>2. MergingTypeOK /\ [MergingNext]_mvars => MergingTypeOK'
  <2>1. ASSUME MergingTypeOK, NEW i \in Positions(records),
               NEW j \in Positions(records), Weld(i, j)
        PROVE  MergingTypeOK'
    BY <2>1 DEF MergingTypeOK, Weld, Joined, Positions
  <2>2. CASE UNCHANGED mvars
    BY <2>2 DEF mvars, MergingTypeOK, Positions
  <2>3. QED  BY <2>1, <2>2 DEF MergingNext
<1>3. QED  BY <1>1, <1>2, PTL DEF MergingSpec

\* One weld cannot leave a set of records that evidence does not leave: either
\* both welded records are inside it, or both are outside.
LEMMA WeldKeepsExplained ==
    ASSUME MergingTypeOK, Explained,
           NEW i \in Positions(records), NEW j \in Positions(records), Weld(i, j)
    PROVE  Explained'
<1> SUFFICES ASSUME NEW S \in SUBSET Positions(records), EvidenceClosed(S),
                    NEW a \in S, NEW b \in Positions(records), rep'[a] = rep'[b]
             PROVE  b \in S
  BY DEF Explained, EvidenceClosed, Saturated, Weld
<1>1. i \in S <=> j \in S
  <2>1. Evidence(records, overrides, i, j) /\ Evidence(records, overrides, j, i)
    BY EvidenceSymmetric DEF Weld
  <2>2. QED  BY <2>1 DEF EvidenceClosed
<1>2. \A x \in S, y \in Positions(records) : rep[x] = rep[y] => y \in S
  BY DEF Explained, Saturated
<1>3. /\ rep'[a] = IF rep[a] = rep[j] THEN rep[i] ELSE rep[a]
      /\ rep'[b] = IF rep[b] = rep[j] THEN rep[i] ELSE rep[b]
  BY DEF Weld, Joined, MergingTypeOK
<1>4. CASE rep[a] = rep[j] /\ rep[b] = rep[j]
  BY <1>2, <1>4
<1>5. CASE rep[a] = rep[j] /\ rep[b] # rep[j]
  <2>1. j \in S  BY <1>2, <1>5
  <2>2. i \in S  BY <1>1, <2>1
  <2>3. rep[i] = rep[b]  BY <1>3, <1>5
  <2>4. QED  BY <1>2, <2>2, <2>3
<1>6. CASE rep[a] # rep[j] /\ rep[b] = rep[j]
  <2>1. rep[a] = rep[i]  BY <1>3, <1>6
  <2>2. j \in S  BY <1>1, <1>2, <2>1
  <2>3. rep[j] = rep[b]  BY <1>6
  <2>4. QED  BY <1>2, <2>2, <2>3
<1>7. CASE rep[a] # rep[j] /\ rep[b] # rep[j]
  BY <1>2, <1>3, <1>7
<1>8. QED  BY <1>4, <1>5, <1>6, <1>7

\* Every merge can be explained: a person's records are linked by evidence.
THEOREM MergesExplained == MergingSpec => []Explained
<1>1. MergingInit => Explained
  BY DEF MergingInit, Explained, Saturated, Alone
<1>2. MergingTypeOK /\ Explained /\ [MergingNext]_mvars => Explained'
  <2>1. CASE UNCHANGED mvars
    BY <2>1 DEF mvars, Explained, EvidenceClosed, Saturated
  <2>2. QED  BY <2>1, WeldKeepsExplained DEF MergingNext
<1>3. QED  BY <1>1, <1>2, MergingTypeCorrect, PTL DEF MergingSpec
=============================================================================
