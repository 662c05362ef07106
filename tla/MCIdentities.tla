---------------------------- MODULE MCIdentities ----------------------------
(***************************************************************************)
(* Instances of Identities for TLC.  Names: 0 is blank, 1 "Alice", 2       *)
(* "alice", 3 "Bob", 5 "#BAL - Check Balance", a shortcode and the longest *)
(* name.  11 is an e-mail, 21 and 22 are phones.                           *)
(*                                                                         *)
(* Two kinds of input: lists for the scan, of records with addresses whose *)
(* names disagree unless they are equal, under up to two rulings; and      *)
(* lists for the naming, over one e-mail and one phone, of records that    *)
(* may lack either, under none.                                            *)
(***************************************************************************)
EXTENDS Identities

CONSTANTS MCRecordNames, MCRecordCount, MCKeyCounts, MCRowCounts, MCRulingCount

MCNameWords ==
    [n \in Names |-> CASE n = 0 -> {} [] n \in {1, 2} -> {1} [] OTHER -> {n}]
MCFolded == [n \in Names |-> IF n = 2 THEN 1 ELSE n]
MCNameLength ==
    [n \in Names |-> CASE n = 0 -> 0 [] n = 3 -> 3 [] n = 5 -> 20 [] OTHER -> 5]

\* The naming has no use for a second phone.
MCKeySets == {keys \in SUBSET (Addresses \ {22}) : Cardinality(keys) \in MCKeyCounts}
MCEntries == MCRecordNames \X MCKeySets

\* Lists of at most MCRecordCount of the entries, from a source that numbers
\* its rows ...
MCNobody == <<99, {}>>
MCNumbered(entries) ==
    {SelectSeq([i \in 1 .. MCRecordCount |-> [name |-> f[i][1], keys |-> f[i][2], row |-> i]],
               LAMBDA r : r.name # MCNobody[1]) :
        f \in {g \in [1 .. MCRecordCount -> entries \cup {MCNobody}] :
                  \A i, j \in 1 .. MCRecordCount : i < j /\ g[i] = MCNobody => g[j] = MCNobody}}

\* ... from one whose row identifiers may repeat.
MCAnyRows ==
    UNION {[1 .. n -> [name : MCRecordNames, keys : MCKeySets, row : SourceRows]] :
              n \in MCRowCounts}

\* The scan asks whether names agree, and any two of these but the blank one
\* disagree: one list stands for all that differ in which of them they use.
MCNamePrecedes == {<<1, 3>>, <<3, 5>>}
MCNamedInOrder(rs) ==
    \A i \in DOMAIN rs : \A pair \in MCNamePrecedes :
        rs[i].name = pair[2] => \E j \in 1 .. i - 1 : rs[j].name = pair[1]

MCScanEntries ==
    {0, 1, 3, 5} \X {keys \in SUBSET Addresses : Cardinality(keys) \in {1, 2}}
MCScanLists == {rs \in MCNumbered(MCScanEntries) : MCNamedInOrder(rs)}

MCRulings == {o \in Override : o.left < o.right}
\* The overrides table holds one ruling for a pair (store.py:55-60).
MCOverrideSets ==
    {os \in SUBSET MCRulings :
        /\ Cardinality(os) <= MCRulingCount
        /\ \A p, q \in os : p.left = q.left /\ p.right = q.right => p = q}

\* A blank name agrees with every name, as one name does with itself: two
\* rulings at once are tried on lists in which everyone is named.
MCInputs ==
    [records : MCScanLists, overrides : {os \in MCOverrideSets : Cardinality(os) <= 1}] \cup
    [records : {rs \in MCScanLists : \A i \in DOMAIN rs : rs[i].name # NoName},
     overrides : MCOverrideSets] \cup
    [records : MCNumbered(MCEntries) \cup MCAnyRows, overrides : {{}}]
=============================================================================
