------------------------------ MODULE Resolver ------------------------------
(***************************************************************************)
(* resolve() up to the end of its scan (resolver.py:90-187): the "same"    *)
(* rulings first, in sorted order, then every address in sorted order,     *)
(* each comparing its first owner, the anchor, with every later owner.     *)
(***************************************************************************)
EXTENDS Merging

CONSTANT Inputs   \* what resolve() is called with: records and overrides

ASSUME InputAssumption ==
    Inputs \subseteq [records : Seq(RawRecord), overrides : SUBSET Override]

VARIABLES
    toForce,   \* "same" rulings not yet applied
    todo,      \* addresses the scan has not opened yet
    key,       \* the address being scanned
    others,    \* its owners still to be compared with the anchor
    edges,     \* successful unions
    hubs,      \* addresses skipped as switchboards
    review     \* questions held for a human, at most one per handle pair

scanVars == <<toForce, todo, key, others, edges, hubs, review>>
vars == <<records, overrides, rep, scanVars>>

Init ==
    /\ \E input \in Inputs : records = input.records /\ overrides = input.overrides
    /\ rep = Alone(records)
    /\ toForce = Forced(overrides)
    /\ todo = AllKeys(records)
    /\ key = NoName
    /\ others = {}
    /\ edges = 0
    /\ hubs = {}
    /\ review = {}

\* Mutant of Union: counts the unions that found one class already.
UnionAlwaysCounts(i, j) == rep' = Joined(rep, i, j) /\ edges' = edges + 1

\* union.union: edges counts the unions that joined two classes.
Union(i, j) ==
    /\ rep' = Joined(rep, i, j)
    /\ edges' = IF rep[i] = rep[j] THEN edges ELSE edges + 1

(***************************************************************************)
(* for left_key, right_key in sorted(forced)                               *)
(***************************************************************************)
Precedes(p, q) == p[1] < q[1] \/ (p[1] = q[1] /\ p[2] <= q[2])

NextForced(pair) ==
    /\ pair \in toForce
    /\ \A q \in toForce : Precedes(pair, q)
    /\ toForce' = toForce \ {pair}
    /\ UNCHANGED <<records, overrides, todo, key, others, hubs, review>>

\* Mutant of ForcePair: an address nobody carries falls back to the first record.
ForcePairByDefault == \E pair \in toForce :
    LET owner(a) == IF First(records, a) = {} THEN {1} \cap Positions(records)
                    ELSE First(records, a)
    IN  /\ NextForced(pair)
        /\ \E left \in owner(pair[1]), right \in owner(pair[2]) : Union(left, right)

ForcePair == \E pair \in toForce :
    /\ NextForced(pair)
    /\ \E left \in First(records, pair[1]), right \in First(records, pair[2]) :
           Union(left, right)

\* Mutant of SkipUnowned: takes the first record, position zero, for no owner.
SkipFirstRecord == \E pair \in toForce :
    /\ NextForced(pair)
    /\ First(records, pair[1]) \subseteq {1} \/ First(records, pair[2]) \subseteq {1}
    /\ UNCHANGED <<rep, edges>>

\* A ruling about an address that no record carries any more does nothing.
SkipUnowned == \E pair \in toForce :
    /\ NextForced(pair)
    /\ First(records, pair[1]) = {} \/ First(records, pair[2]) = {}
    /\ UNCHANGED <<rep, edges>>

(***************************************************************************)
(* for key, positions in sorted(index.items())                             *)
(***************************************************************************)
NextKey(a) ==
    /\ toForce = {} /\ others = {}
    /\ a \in todo
    /\ \A b \in todo : a <= b
    /\ todo' = todo \ {a}
    /\ UNCHANGED <<records, overrides, rep, toForce, edges, review>>

SkipHub == \E a \in todo :
    /\ NextKey(a)
    /\ IsHub(records, a)
    /\ hubs' = hubs \cup {a}
    /\ UNCHANGED <<key, others>>

OpenKey == \E a \in todo :
    /\ NextKey(a)
    /\ ~IsHub(records, a)
    /\ key' = a
    /\ others' = Owners(records, a) \ First(records, a)
    /\ UNCHANGED hubs

(***************************************************************************)
(* for other in positions[1:]                                              *)
(***************************************************************************)
Pairing(anchor, other) ==
    /\ anchor \in First(records, key)
    /\ other \in others
    /\ \A k \in others : other <= k
    /\ others' = others \ {other}
    /\ UNCHANGED <<records, overrides, toForce, todo, key, hubs>>

KeepApart(anchor, other) ==
    /\ Pairing(anchor, other)
    /\ Denies(records, overrides, anchor, other)
    /\ UNCHANGED <<rep, edges, review>>

\* Mutant of Join: a shared phone is enough.
JoinWhateverTheNames(anchor, other) ==
    /\ Pairing(anchor, other)
    /\ ~Denies(records, overrides, anchor, other)
    /\ Union(anchor, other)
    /\ UNCHANGED review

Join(anchor, other) ==
    /\ Pairing(anchor, other)
    /\ ~Denies(records, overrides, anchor, other)
    /\ Identifies(records, key, anchor, other)
    /\ Union(anchor, other)
    /\ UNCHANGED review

\* Already one person on better evidence: nothing to ask.
NothingToAsk(anchor, other) ==
    /\ Pairing(anchor, other)
    /\ ~Denies(records, overrides, anchor, other)
    /\ ~Identifies(records, key, anchor, other)
    /\ rep[anchor] = rep[other]
    /\ UNCHANGED <<rep, edges, review>>

Raised(handle) == \E item \in review : item.handle = handle

Handles(i, j) == PairKey(LeastKey(records[i].keys), LeastKey(records[j].keys))

Question(anchor, other) ==
    [handle |-> Handles(anchor, other), left |-> anchor, right |-> other,
     shared |-> key]

\* Mutant of AskHuman: one question for each address, not for each handle pair.
AskOncePerAddress(anchor, other) ==
    /\ Pairing(anchor, other)
    /\ ~Denies(records, overrides, anchor, other)
    /\ ~Identifies(records, key, anchor, other)
    /\ rep[anchor] # rep[other]
    /\ review' = IF \E item \in review : item.shared = key THEN review
                 ELSE review \cup {Question(anchor, other)}
    /\ UNCHANGED <<rep, edges>>

\* review.setdefault(handle, ...): the first question on a handle pair stays.
AskHuman(anchor, other) ==
    /\ Pairing(anchor, other)
    /\ ~Denies(records, overrides, anchor, other)
    /\ ~Identifies(records, key, anchor, other)
    /\ rep[anchor] # rep[other]
    /\ LET item == Question(anchor, other)
       IN  review' = IF Raised(item.handle) THEN review ELSE review \cup {item}
    /\ UNCHANGED <<rep, edges>>

Compare == \E anchor \in First(records, key), other \in others :
    \/ KeepApart(anchor, other)
    \/ Join(anchor, other)
    \/ NothingToAsk(anchor, other)
    \/ AskHuman(anchor, other)

Next == ForcePair \/ SkipUnowned \/ SkipHub \/ OpenKey \/ Compare

Spec == Init /\ [][Next]_vars

Scanned == toForce = {} /\ todo = {} /\ others = {}

SamePerson(i, j) == rep[i] = rep[j]

\* resolver.py:214-220: the "distinct" rulings reported as defeated.
Conflicts ==
    Contradicted(records, overrides) \cup
    {pair \in Denied(records, overrides) :
        \E l \in First(records, pair[1]), r \in First(records, pair[2]) :
            SamePerson(l, r)}

(***************************************************************************)
(* Properties                                                              *)
(***************************************************************************)

\* Every variable keeps to the values resolve() can hold in it.
TypeOK ==
    /\ MergingTypeOK
    /\ toForce \subseteq Forced(overrides)
    /\ todo \subseteq AllKeys(records)
    /\ key \in AllKeys(records) \cup {NoName}
    /\ others \subseteq Positions(records)
    /\ edges \in Nat
    /\ hubs \subseteq AllKeys(records)
    /\ review \subseteq [handle : Addresses \X Addresses, left : Positions(records),
                         right : Positions(records), shared : Addresses]

Classes == {{j \in Positions(records) : SamePerson(i, j)} : i \in Positions(records)}

\* The reported number of edges is the number of merges: each counted union
\* took away exactly one person (resolver.py:50-55, 145-146, 170-171).
EdgesCountMerges == edges + Cardinality(Classes) = Len(records)

\* "Shared by this many records under this many different names is a
\* switchboard" (limits.py:4-5): an address short of either threshold is none.
Identifying(a) ==
    LET named == {i \in Owners(records, a) : records[i].name # NoName}
    IN  \/ Cardinality(Owners(records, a)) < HubRecordThreshold
        \/ Cardinality({Folded[records[i].name] : i \in named}) < HubNameThreshold

Undivided(a) == \A i, j \in Owners(records, a) : ~Denies(records, overrides, i, j)

\* "A shared email merges" (resolver.py:7): once the scan is over, an e-mail
\* address that is no switchboard and that no ruling divides has one owner.
EmailsJoin ==
    Scanned =>
        \A a \in Emails : Identifying(a) /\ Undivided(a) =>
            \A i, j \in Owners(records, a) : SamePerson(i, j)

\* A "same" ruling outranks everything the scan finds (models.py:123-125):
\* the first owners of its two addresses are one person at the end, whatever
\* hubs, names and "distinct" rulings say.
SameRulingsHold ==
    Scanned => \A i, j \in Positions(records) :
                   RuledSame(records, overrides, i, j) => SamePerson(i, j)

\* "Everything else is held for a human" (resolver.py:8), as far as the scan
\* looks: each owner of a phone is the anchor's person, is denied to be, or
\* the pair's handles are in the review.
AnchorsSettled ==
    Scanned =>
        \A a \in (Phones \cap AllKeys(records)) \ Hubs(records) :
            \A i \in First(records, a), j \in Owners(records, a) \ First(records, a) :
                \/ SamePerson(i, j)
                \/ Denies(records, overrides, i, j)
                \/ Raised(Handles(i, j))

OnePersonHolds(pair) ==
    \E i \in Owners(records, pair[1]), j \in Owners(records, pair[2]) : SamePerson(i, j)

\* A defeated "distinct" ruling is surfaced (resolver.py:211-213) although only
\* the first owners of its addresses are looked at, wherever on a path through
\* other records it was defeated, if each address is on one record, or is an
\* e-mail that is no switchboard and not divided: the scan makes its owners one
\* person.  NoSilentDefeat shows that others go unreported.
RulingsSurface ==
    LET sure(a) == \/ Owners(records, a) = First(records, a)
                   \/ a \in Emails /\ Identifying(a) /\ Undivided(a)
    IN  Scanned =>
            \A pair \in Claimed(overrides) \ Conflicts :
                sure(pair[1]) /\ sure(pair[2]) => ~OnePersonHolds(pair)

\* A pair the user ruled distinct is never put to them as a question, whatever
\* record and address the scan meets it through (resolver.py:167-168).
DeniedNotReasked ==
    \A item \in review : item.handle \notin Denied(records, overrides)

\* The scan only ever does what the abstract merging allows.
ImplementsMerging == MergingSpec

(***************************************************************************)
(* A claim of the source's comments that the code does not keep            *)
(***************************************************************************)

\* resolver.py:211-213: a defeated "distinct" ruling is surfaced rather than
\* silently ignored.
NoSilentDefeat ==
    Scanned => \A pair \in Claimed(overrides) \ Conflicts : ~OnePersonHolds(pair)
=============================================================================
