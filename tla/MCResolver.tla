----------------------------- MODULE MCResolver -----------------------------
(***************************************************************************)
(* Instances of Resolver for TLC.  Names: 0 is blank, 1 "alice", 2 "bob",  *)
(* 3 "carol".  Addresses: 11 is an e-mail, 21 and 22 are phones.           *)
(***************************************************************************)
EXTENDS Resolver

CONSTANTS MCRecordNames, MCRecordCount, MCKeyCounts, MCRulingCount

MCNameWords == [n \in Names |-> IF n = 0 THEN {} ELSE {n}]
MCFolded == [n \in Names |-> n]
MCNameLength == [n \in Names |-> n]

MCRecords ==
    {r \in RawRecord : r.name \in MCRecordNames /\ Cardinality(r.keys) \in MCKeyCounts}

\* The scan only asks whether names agree, and any two of these but the blank
\* one disagree: one list stands for all that differ in which names they use.
MCNamedInOrder(rs) ==
    \A i \in DOMAIN rs :
        rs[i].name > 1 => \E j \in 1 .. i - 1 : rs[j].name = rs[i].name - 1

\* Every list of at most MCRecordCount records, up to a change of names.
MCRecordLists ==
    UNION {{rs \in [1 .. n -> MCRecords] : MCNamedInOrder(rs)} : n \in 0 .. MCRecordCount}

MCRulings == {o \in Override : o.left < o.right}
\* The overrides table holds one ruling for a pair (store.py:55-60).
MCOverrideSets ==
    {os \in SUBSET MCRulings :
        /\ Cardinality(os) <= MCRulingCount
        /\ \A p, q \in os : p.left = q.left /\ p.right = q.right => p = q}

MCInputs == [records : MCRecordLists, overrides : MCOverrideSets]
=============================================================================
