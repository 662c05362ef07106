-------------------------- MODULE IdentitiesProofs --------------------------
(***************************************************************************)
(* Machine-checked proofs about what resolve() makes of its scan and what  *)
(* the store saves of it, for every list of records and every set of       *)
(* rulings: no record is lost or doubled, a name joins only records that   *)
(* have no address, a hub names no one, a lookup by an e-mail address has  *)
(* one answer, and, when no two records bear one row identifier, the       *)
(* transaction that saves the result goes through.                         *)
(***************************************************************************)
EXTENDS Identities, ResolverProofs

\* What follows the scan leaves it alone, so what is proved of the scan holds of
\* the whole of resolve().
THEOREM IdentitiesFollowScan == IdSpec => Spec
<1>1. IdInit => Init
  BY DEF IdInit
<1>2. [IdNext]_<<vars, idVars>> => [Next]_vars
  BY DEF IdNext
<1>3. QED  BY <1>1, <1>2, PTL DEF IdSpec, Spec

-----------------------------------------------------------------------------
(***************************************************************************)
(* Classes, names and handles                                              *)
(***************************************************************************)
KeysOf(i) == UNION {records[j].keys : j \in ClassOf(i)}
NameOf(i) == DisplayName(ClassOf(i), KeysOf(i))

\* A class is what its members' classes are, and its addresses and name theirs.
LEMMA ClassFacts ==
    ASSUME TypeOK, NEW i \in Positions(records)
    PROVE  /\ i \in ClassOf(i) /\ ClassOf(i) \subseteq Positions(records)
           /\ KeysOf(i) \in SUBSET Addresses
           /\ \A j \in ClassOf(i) : ClassOf(j) = ClassOf(i) /\ KeysOf(j) = KeysOf(i)
                                    /\ NameOf(j) = NameOf(i)
<1>1. i \in ClassOf(i) /\ ClassOf(i) \subseteq Positions(records)
  BY DEF ClassOf, SamePerson
<1>2. \A j \in ClassOf(i) : ClassOf(j) = ClassOf(i)
  BY DEF ClassOf, SamePerson
<1>3. KeysOf(i) \in SUBSET Addresses
  BY <1>1, InputFacts DEF KeysOf, TypeOK
<1>4. QED  BY <1>1, <1>2, <1>3 DEF KeysOf, NameOf

\* The first record of a class stands for it.
LEMMA RootExists ==
    ASSUME TypeOK, NEW i \in Positions(records)
    PROVE  \E r \in Roots : r \in Positions(records) /\ r \in ClassOf(i) /\ i \in ClassOf(r)
<1>1. ClassOf(i) \in SUBSET Nat /\ ClassOf(i) # {}
  BY ClassFacts, InputFacts DEF Positions, TypeOK
<1>2. PICK r \in ClassOf(i) : \A j \in ClassOf(i) : r <= j
  BY <1>1, LeastNatural
<1>3. r \in Positions(records) /\ ClassOf(r) = ClassOf(i)
  BY <1>2, ClassFacts
<1>4. QED  BY <1>2, <1>3, ClassFacts DEF Roots

\* Two first records have different classes.
LEMMA RootsApart ==
    ASSUME TypeOK, NEW p \in Roots, NEW q \in Roots, p # q
    PROVE  ClassOf(p) \cap ClassOf(q) = {}
<1>1. p \in Positions(records) /\ q \in Positions(records)
  BY DEF Roots
<1>2. SUFFICES ASSUME NEW k \in ClassOf(p) \cap ClassOf(q) PROVE FALSE
  OBVIOUS
<1>3. ClassOf(p) = ClassOf(q)
  BY <1>1, <1>2, ClassFacts
<1>4. p \in ClassOf(q) /\ q \in ClassOf(p)
  BY <1>1, <1>3, ClassFacts
<1>5. p <= q /\ q <= p /\ p \in Nat /\ q \in Nat
  BY <1>1, <1>4, InputFacts DEF Roots, Positions, TypeOK
<1>6. QED  BY <1>5

\* A finite set of naturals has a greatest member: the one with the fewest
\* members from it upwards.
LEMMA GreatestNatural ==
    ASSUME NEW T \in SUBSET Nat, T # {}, IsFiniteSet(T)
    PROVE  \E a \in T : \A b \in T : b <= a
<1> DEFINE From(a) == {b \in T : a <= b}
           Sizes == {Cardinality(From(a)) : a \in T}
<1>1. \A a \in T : IsFiniteSet(From(a)) /\ Cardinality(From(a)) \in Nat
  <2>1. \A a \in T : From(a) \in SUBSET T
    OBVIOUS
  <2> HIDE DEF From
  <2>2. QED  BY <2>1, FS_Subset, FS_CardinalityType
<1>2. ASSUME NEW a \in T, NEW b \in T, a < b
      PROVE  From(b) \in SUBSET From(a) /\ From(b) # From(a)
  <2>1. \A c \in T : b <= c => a <= c
    BY <1>2
  <2>2. a <= a /\ ~(b <= a)
    BY <1>2
  <2>3. a \in From(a) /\ a \notin From(b)
    BY <2>2
  <2>4. QED  BY <2>1, <2>3
<1>3. ASSUME NEW a \in T, NEW b \in T, a < b PROVE Cardinality(From(b)) < Cardinality(From(a))
  <2>1. /\ IsFiniteSet(From(a)) /\ From(b) \in SUBSET From(a) /\ From(b) # From(a)
        /\ Cardinality(From(a)) \in Nat /\ Cardinality(From(b)) \in Nat
    BY <1>1, <1>2, <1>3
  <2> HIDE DEF From
  <2>2. /\ Cardinality(From(b)) <= Cardinality(From(a))
        /\ Cardinality(From(a)) = Cardinality(From(b)) => From(a) = From(b)
    BY <2>1, FS_Subset
  <2>3. QED  BY <2>1, <2>2
<1> HIDE DEF From
<1>4. PICK n \in Sizes : \A m \in Sizes : n <= m
  BY <1>1, LeastNatural
<1>5. PICK a \in T : n = Cardinality(From(a))
  BY <1>4
<1>6. ASSUME NEW b \in T PROVE ~(a < b)
  <2>1. Cardinality(From(a)) <= Cardinality(From(b))
    BY <1>4, <1>5
  <2>2. Cardinality(From(a)) \in Nat /\ Cardinality(From(b)) \in Nat
    BY <1>1
  <2>3. ~(Cardinality(From(b)) < Cardinality(From(a)))
    BY <2>1, <2>2
  <2>4. QED  BY <1>3, <2>3
<1>7. QED  BY <1>6

\* A person's name is that of a record or, when none of them is named, the least
\* address; it is blank only when there is neither.
LEMMA DisplayNameProperties ==
    ASSUME TypeOK, NEW members \in SUBSET Positions(records), NEW keys \in SUBSET Addresses
    PROVE  /\ DisplayName(members, keys) \in Names \cup Addresses
           /\ DisplayName(members, keys) = NoName => keys = {}
<1> DEFINE names == {records[i].name : i \in members} \ {NoName}
<1>1. names \in SUBSET Names
  <2>1. records \in Seq(RawRecord)
    BY DEF TypeOK, MergingTypeOK
  <2>2. \A i \in 1 .. Len(records) : records[i] \in RawRecord
    BY <2>1
  <2>3. QED  BY <2>2 DEF RawRecord, Positions
<1>2. IsFiniteSet(names)
  <2>1. Len(records) \in Nat
    BY InputFacts DEF TypeOK
  <2>2. IsFiniteSet(1 .. Len(records))
    BY <2>1, FS_Interval
  <2>3. IsFiniteSet(members)
    BY <2>2, FS_Subset DEF Positions
  <2> DEFINE all == {records[i].name : i \in members}
             f == [i \in members |-> records[i].name]
  <2>4. f \in Surjection(members, all)
    BY DEF Surjection
  <2> HIDE DEF f
  <2>5. IsFiniteSet(all)
    BY <2>3, <2>4, FS_Surjection
  <2>6. names \in SUBSET all
    OBVIOUS
  <2>7. QED  BY <2>5, <2>6, FS_Subset
<1>3. CASE names # {}
  <2> HIDE DEF names
  <2> DEFINE lengths == {NameLength[n] : n \in names}
  <2>1. lengths \in SUBSET Nat /\ lengths # {}
    <3>1. \A n \in names : NameLength[n] \in Nat
      BY <1>1, NameAssumption
    <3>2. QED  BY <1>3, <3>1
  <2>2. IsFiniteSet(lengths)
    <3> DEFINE g == [n \in names |-> NameLength[n]]
    <3>1. g \in Surjection(names, lengths)
      BY DEF Surjection
    <3> HIDE DEF g
    <3>2. QED  BY <1>2, <3>1, FS_Surjection
  <2>3. PICK l \in lengths : \A k \in lengths : k <= l
    BY <2>1, <2>2, GreatestNatural
  <2> DEFINE longest == {n \in names : NameLength[n] = l}
  <2>4. longest \in SUBSET Nat /\ longest # {}
    BY <1>1, <2>3, NameAssumption
  <2>5. PICK m \in longest : \A n \in longest : m <= n
    BY <2>4, LeastNatural
  <2>6. \A n \in names : Outranks(m, n)
    <3> SUFFICES ASSUME NEW n \in names PROVE Outranks(m, n)
      OBVIOUS
    <3>1. NameLength[m] = l /\ NameLength[n] \in lengths /\ NameLength[n] <= l
      BY <2>3, <2>5
    <3>2. NameLength[n] \in Nat /\ NameLength[m] \in Nat
      BY <1>1, <2>5, NameAssumption
    <3>3. CASE NameLength[n] = l
      BY <2>5, <3>1, <3>3 DEF Outranks
    <3>4. CASE NameLength[n] # l
      BY <3>1, <3>2, <3>4 DEF Outranks
    <3>5. QED  BY <3>3, <3>4
  <2>7. m \in names
    BY <2>5
  <2>8. (CHOOSE x \in names : \A n \in names : Outranks(x, n)) \in names
    BY <2>6, <2>7
  <2>9. DisplayName(members, keys) = CHOOSE x \in names : \A n \in names : Outranks(x, n)
    BY <1>3 DEF DisplayName, names
  <2>10. NoName \notin names
    BY DEF names
  <2>11. QED  BY <1>1, <2>8, <2>9, <2>10
<1>4. CASE names = {} /\ keys # {}
  <2>1. DisplayName(members, keys) = LeastKey(keys)
    BY <1>4 DEF DisplayName
  <2>2. LeastKey(keys) \in Addresses
    BY <1>4, LeastKeyExists
  <2>3. QED  BY <2>1, <2>2, NameAssumption DEF Addresses
<1>5. CASE names = {} /\ keys = {}
  BY <1>5, NameAssumption DEF DisplayName
<1>6. QED  BY <1>3, <1>4, <1>5

\* The rows of a handle that is no fallback.
LEMMA NoRowsType == NoRows \in [SourceRows -> Nat]
BY DEF NoRows

\* The handle a person is given first: the least address that is no hub, or a
\* digest that knows no rows.
LEMMA IdentityHandleProperties ==
    ASSUME NEW keys \in SUBSET Addresses, NEW name \in Names \cup Addresses
    PROVE  LET handle == IdentityHandle(keys, name)
           IN  /\ handle \in Handle /\ handle.rows = NoRows
               /\ handle.address = NoAddress \/ handle.address \in keys \ hubs
<1>1. CASE keys \ hubs = {}
  BY <1>1, NoRowsType DEF IdentityHandle, Digest, Handle
<1>2. CASE keys \ hubs # {}
  <2>1. LeastKey(keys \ hubs) \in keys \ hubs
    BY <1>2, LeastKeyExists
  <2>2. NoName \in Names
    BY NameAssumption
  <2>3. QED  BY <1>2, <2>1, <2>2, NoRowsType DEF IdentityHandle, ReadableHandle, Handle
<1>3. QED  BY <1>1, <1>2

\* The rows of an identity are numbers of records.
LEMMA RowsOfType ==
    ASSUME TypeOK, NEW members \in SUBSET Positions(records)
    PROVE  RowsOf(members) \in [SourceRows -> Nat]
<1>0. Len(records) \in Nat
  BY InputFacts DEF TypeOK
<1>1. IsFiniteSet(1 .. Len(records))
  BY <1>0, FS_Interval
<1>2. ASSUME NEW row \in SourceRows
      PROVE  Cardinality({i \in members : records[i].row = row}) \in Nat
  <2>1. {i \in members : records[i].row = row} \in SUBSET (1 .. Len(records))
    BY DEF Positions
  <2>2. QED  BY <1>1, <2>1, FS_Subset, FS_CardinalityType
<1>3. QED  BY <1>2 DEF RowsOf

-----------------------------------------------------------------------------
(***************************************************************************)
(* The invariant.  An identity is that of the class of its first record,   *)
(* with the classes of addressless records that its name drew in; the ones *)
(* that are kept or still to be visited share out the records between      *)
(* them.                                                                   *)
(***************************************************************************)
Live == kept \cup rest

PersonOK(p) ==
    /\ people[p] \in [name : Names \cup Addresses, keys : SUBSET Addresses,
                      members : SUBSET Positions(records), handle : Handle]
    /\ people[p].name = NameOf(p) /\ people[p].keys = KeysOf(p)
    /\ p \in people[p].members
    /\ \A i \in people[p].members : ClassOf(i) \subseteq people[p].members
    /\ \/ people[p].handle.address = NoAddress
       \/ people[p].handle.address \in KeysOf(p) \ hubs

\* Whoever a name drew in has no address, and nobody else with one has the name.
GuestsOK(p) ==
    \A i \in people[p].members \ ClassOf(p) :
        /\ KeysOf(i) = {} /\ Fold(NameOf(i)) = Fold(NameOf(p))
        /\ \A q \in DOMAIN people : KeysOf(q) # {} /\ Fold(NameOf(q)) = Fold(NameOf(p)) => q = p

PeopleInv ==
    /\ people = [p \in DOMAIN people |-> people[p]]
    /\ DOMAIN people \subseteq Positions(records)
    /\ \A p \in DOMAIN people : PersonOK(p)
    /\ \A p \in Live : GuestsOK(p)

Apart == \A p, q \in Live : p # q => people[p].members \cap people[q].members = {}

Placed ==
    \A i \in Positions(records) :
        (\E p \in Live : i \in people[p].members) \/ NameOf(i) \in Shortcodes \cup {NoName}

LoopsInv ==
    /\ Live \subseteq DOMAIN people /\ absorbed \subseteq kept
    /\ IF stage = "absorb" THEN kept \cap rest = {} ELSE rest \subseteq kept
    /\ \A p \in DOMAIN people : KeysOf(p) # {} => p \in Live
    /\ \A n \in DOMAIN order : order[n] \in kept

GroupedInv ==
    IF stage = "scan"
    THEN people = << >> /\ rest = {} /\ kept = {} /\ absorbed = {} /\ order = << >>
    ELSE Scanned /\ PeopleInv /\ Apart /\ Placed /\ LoopsInv

\* The scan has listed the hubs among the addresses it has opened.
HubsFound == \A a \in Hubs(records) \ todo : a \in hubs

IdInv ==
    /\ ScanInv /\ HubsFound /\ GroupedInv
    /\ stage \in {"scan", "absorb", "handles", "served", "failed"}

\* The scan has found no hub and nothing is grouped at first.
LEMMA IdInvInit == IdInit => IdInv
<1> SUFFICES ASSUME IdInit PROVE IdInv
  OBVIOUS
<1>1. ScanInv
  BY InitScanInv DEF IdInit
<1>2. HubsFound
  BY DEF IdInit, Init, HubsFound, Hubs
<1>3. stage = "scan"
  BY DEF IdInit
<1>4. people = << >> /\ rest = {} /\ kept = {} /\ absorbed = {} /\ order = << >>
  BY DEF IdInit
<1>5. GroupedInv
  BY <1>3, <1>4 DEF GroupedInv
<1>6. QED  BY <1>1, <1>2, <1>3, <1>5 DEF IdInv

\* Nothing that an identity is made from changes after the scan.
LEMMA ScanStays ==
    ASSUME UNCHANGED vars
    PROVE  /\ records' = records /\ rep' = rep /\ hubs' = hubs /\ overrides' = overrides /\ todo' = todo
           /\ Scanned' <=> Scanned
           /\ \A i : ClassOf(i)' = ClassOf(i) /\ KeysOf(i)' = KeysOf(i) /\ NameOf(i)' = NameOf(i)
<1>1. records' = records /\ rep' = rep /\ hubs' = hubs /\ overrides' = overrides /\ todo' = todo
      /\ toForce' = toForce /\ others' = others
  BY DEF vars, scanVars
<1>2. \A i : ClassOf(i)' = ClassOf(i)
  BY <1>1 DEF ClassOf, SamePerson
<1>3. \A i : KeysOf(i)' = KeysOf(i)
  BY <1>1, <1>2 DEF KeysOf
<1>4. ASSUME NEW i PROVE NameOf(i)' = NameOf(i)
  <2> DEFINE names == {records[j].name : j \in ClassOf(i)} \ {NoName}
             best(N) == CHOOSE m \in N : \A n \in N : Outranks(m, n)
             least(K) == IF K # {} THEN LeastKey(K) ELSE NoName
  <2>1. names' = names
    BY <1>1, <1>2
  <2>2. NameOf(i) = IF names # {} THEN best(names) ELSE least(KeysOf(i))
    BY DEF NameOf, DisplayName
  <2>3. NameOf(i)' = IF names' # {} THEN best(names') ELSE least(KeysOf(i)')
    BY DEF NameOf, DisplayName
  <2> HIDE DEF names, best, least
  <2>4. QED  BY <1>3, <2>1, <2>2, <2>3
<1>5. QED  BY <1>1, <1>2, <1>3, <1>4 DEF Scanned

\* An address the scan opens is listed as a hub if it is one.
LEMMA HubsFoundStep ==
    ASSUME HubsFound, [Next]_vars, TypeInv
    PROVE  HubsFound'
<1>1. records' = records
  BY NextKeeps
<1>2. ASSUME NEW a \in Hubs(records), a \notin todo' PROVE a \in hubs'
  <2>1. hubs \subseteq hubs'
    BY DEF Next, ForcePair, SkipUnowned, NextForced, SkipHub, OpenKey, NextKey, Compare, KeepApart,
       Join, NothingToAsk, AskHuman, Pairing, vars, scanVars
  <2>2. CASE a \notin todo
    BY <2>1, <2>2 DEF HubsFound
  <2>3. CASE a \in todo
    <3>1. SkipHub \/ OpenKey
      BY <1>2, <2>3 DEF Next, ForcePair, SkipUnowned, NextForced, SkipHub, OpenKey, NextKey, Compare,
         KeepApart, Join, NothingToAsk, AskHuman, Pairing, vars, scanVars
    <3>2. CASE SkipHub
      BY <1>2, <2>3, <3>2 DEF SkipHub, NextKey
    <3>3. CASE OpenKey
      BY <1>2, <2>3, <3>3 DEF OpenKey, NextKey, Hubs
    <3>4. QED  BY <3>1, <3>2, <3>3
  <2>4. QED  BY <2>2, <2>3
<1>3. QED  BY <1>1, <1>2 DEF HubsFound

\* The scan is over before anything is grouped.
LEMMA ScanIsOver == Scanned => ~Next
BY DEF Scanned, Next, ForcePair, SkipUnowned, NextForced, SkipHub, OpenKey, NextKey, Compare

\* What the scan's part of the invariant needs of a step.
LEMMA ScanPartStep ==
    ASSUME ScanInv, HubsFound, [IdNext]_<<vars, idVars>>
    PROVE  ScanInv' /\ HubsFound'
<1>1. [Next]_vars
  BY DEF IdNext
<1>2. ScanInv'
  BY <1>1, NextTypeInv, NextRulingsApplied, NextQuestionsOpen, NextAddressesSettled DEF ScanInv
<1>3. QED  BY <1>1, <1>2, HubsFoundStep DEF ScanInv

-----------------------------------------------------------------------------
(***************************************************************************)
(* Grouping                                                                *)
(***************************************************************************)
LEMMA GroupStep ==
    ASSUME IdInv, Group, UNCHANGED vars
    PROVE  GroupedInv' /\ stage' = "absorb"
<1> DEFINE shown == {i \in Roots : IsPerson(Identity(i).name, Identity(i).keys)}
<1>t. TypeOK
  BY DEF IdInv, ScanInv, TypeInv
<1>1. /\ stage = "scan" /\ stage' = "absorb" /\ Scanned
      /\ people' = [i \in shown |-> Identity(i)] /\ rest' = shown
      /\ kept' = kept /\ absorbed' = absorbed /\ order' = order
  BY DEF Group
<1>2. kept' = {} /\ absorbed' = {} /\ order' = << >>
  BY <1>1 DEF IdInv, GroupedInv
<1>3. \A i : Identity(i) = [name |-> NameOf(i), keys |-> KeysOf(i), members |-> ClassOf(i),
                           handle |-> IdentityHandle(KeysOf(i), NameOf(i))]
  BY DEF Identity, NameOf, KeysOf
<1>4. shown \subseteq Roots /\ shown \subseteq Positions(records)
  BY DEF Roots
<1>5. \A i \in Roots : i \notin shown =>
        \/ NameOf(i) \in Shortcodes \cup {NoName} /\ KeysOf(i) = {}
        \/ NameOf(i) \in Shortcodes
  BY <1>3 DEF IsPerson
<1> HIDE DEF shown
<1>6. /\ DOMAIN people' = shown
      /\ \A p \in shown : /\ people'[p].name = NameOf(p) /\ people'[p].keys = KeysOf(p)
                           /\ people'[p].members = ClassOf(p)
                           /\ people'[p].handle = IdentityHandle(KeysOf(p), NameOf(p))
                           /\ people'[p] = [name |-> NameOf(p), keys |-> KeysOf(p), members |-> ClassOf(p),
                                             handle |-> IdentityHandle(KeysOf(p), NameOf(p))]
  BY <1>1, <1>3
<1>7. ASSUME NEW p \in shown PROVE PersonOK(p)' /\ GuestsOK(p)'
  <2>1. /\ p \in Positions(records) /\ p \in ClassOf(p) /\ ClassOf(p) \in SUBSET Positions(records)
        /\ KeysOf(p) \in SUBSET Addresses /\ \A i \in ClassOf(p) : ClassOf(i) = ClassOf(p)
    BY <1>t, <1>4, ClassFacts
  <2>2. NameOf(p) \in Names \cup Addresses
    BY <1>t, <2>1, DisplayNameProperties DEF NameOf
  <2> DEFINE h == IdentityHandle(KeysOf(p), NameOf(p))
  <2>3. h \in Handle /\ (h.address = NoAddress \/ h.address \in KeysOf(p) \ hubs)
    BY <2>1, <2>2, IdentityHandleProperties
  <2> HIDE DEF h
  <2>4. people'[p] = [name |-> NameOf(p), keys |-> KeysOf(p), members |-> ClassOf(p), handle |-> h]
    BY <1>6 DEF h
  <2>5. PersonOK(p)'
    BY <2>1, <2>2, <2>3, <2>4, ScanStays DEF PersonOK
  <2>6. GuestsOK(p)'
    BY <2>4, ScanStays DEF GuestsOK
  <2>7. QED  BY <2>5, <2>6
<1>8. Live' = shown
  BY <1>1, <1>2 DEF Live
<1>9. PeopleInv'
  <2>1. people' = [p \in DOMAIN people' |-> people'[p]]
    BY <1>1, <1>6
  <2>2. DOMAIN people' \subseteq Positions(records)'
    BY <1>4, <1>6, ScanStays DEF Positions
  <2>3. \A p \in DOMAIN people' : PersonOK(p)'
    BY <1>6, <1>7
  <2>4. \A p \in Live' : GuestsOK(p)'
    BY <1>7, <1>8
  <2>5. QED  BY <2>1, <2>2, <2>3, <2>4 DEF PeopleInv
<1>10. Apart'
  BY <1>4, <1>6, <1>8, <1>t, RootsApart DEF Apart
<1>11. Placed'
  <2>1. ASSUME NEW i \in Positions(records)
        PROVE  (\E p \in shown : i \in ClassOf(p)) \/ NameOf(i) \in Shortcodes \cup {NoName}
    <3>1. PICK r \in Roots : r \in ClassOf(i) /\ i \in ClassOf(r)
      BY <1>t, RootExists
    <3>2. NameOf(r) = NameOf(i)
      BY <1>t, <3>1, ClassFacts
    <3>3. QED  BY <1>5, <3>1, <3>2
  <2>2. Positions(records)' = Positions(records)
    BY ScanStays DEF Positions
  <2>3. QED  BY <1>6, <1>8, <2>1, <2>2, ScanStays DEF Placed
<1>12. LoopsInv'
  <2>1. \A p \in DOMAIN people' : KeysOf(p)' # {} => p \in Live'
    BY <1>6, <1>8
  <2>2. \A n \in DOMAIN order' : order'[n] \in kept'
    BY <1>2
  <2>3. QED  BY <1>1, <1>2, <1>6, <1>8, <2>1, <2>2 DEF LoopsInv
<1>13. Scanned'
  BY <1>1, ScanStays
<1>14. QED  BY <1>1, <1>9, <1>10, <1>11, <1>12, <1>13 DEF GroupedInv

-----------------------------------------------------------------------------
(***************************************************************************)
(* Absorbing                                                               *)
(***************************************************************************)
LEMMA PeopleStay ==
    ASSUME PeopleInv, Apart, Placed, UNCHANGED vars, UNCHANGED people, Live' = Live
    PROVE  PeopleInv' /\ Apart' /\ Placed'
<1>1. Positions(records)' = Positions(records)
  BY ScanStays DEF Positions
<1>2. \A p \in DOMAIN people : PersonOK(p)'
  BY <1>1, ScanStays DEF PeopleInv, PersonOK
<1>3. \A p \in Live : GuestsOK(p)'
  BY ScanStays DEF PeopleInv, GuestsOK
<1>4. PeopleInv'
  BY <1>1, <1>2, <1>3 DEF PeopleInv
<1>5. Placed'
  BY <1>1, ScanStays DEF Placed
<1>6. QED  BY <1>4, <1>5 DEF Apart

\* One field of one identity changes.
LEMMA MembersGrow ==
    ASSUME people = [p \in DOMAIN people |-> people[p]], NEW q \in DOMAIN people, NEW M,
           people[q] \in [name : Names \cup Addresses, keys : SUBSET Addresses,
                         members : SUBSET Positions(records), handle : Handle],
           people' = [people EXCEPT ![q].members = @ \cup M]
    PROVE  /\ people' = [p \in DOMAIN people' |-> people'[p]] /\ DOMAIN people' = DOMAIN people
           /\ \A p \in DOMAIN people : p # q => people'[p] = people[p]
           /\ people'[q] = [name |-> people[q].name, keys |-> people[q].keys,
                            members |-> people[q].members \cup M, handle |-> people[q].handle]
<1> DEFINE one == [people[q] EXCEPT !.members = @ \cup M]
<1>1. one = [name |-> people[q].name, keys |-> people[q].keys,
             members |-> people[q].members \cup M, handle |-> people[q].handle]
  OBVIOUS
<1>2. people' = [people EXCEPT ![q] = one]
  OBVIOUS
<1> HIDE DEF one
<1>3. QED  BY <1>1, <1>2

\* The same for the handle.
LEMMA HandleChanges ==
    ASSUME people = [p \in DOMAIN people |-> people[p]], NEW q \in DOMAIN people, NEW h,
           people[q] \in [name : Names \cup Addresses, keys : SUBSET Addresses,
                         members : SUBSET Positions(records), handle : Handle],
           people' = [people EXCEPT ![q].handle = h]
    PROVE  /\ people' = [p \in DOMAIN people' |-> people'[p]] /\ DOMAIN people' = DOMAIN people
           /\ \A p \in DOMAIN people : p # q => people'[p] = people[p]
           /\ people'[q] = [name |-> people[q].name, keys |-> people[q].keys,
                            members |-> people[q].members, handle |-> h]
<1> DEFINE one == [people[q] EXCEPT !.handle = h]
<1>1. one = [name |-> people[q].name, keys |-> people[q].keys,
             members |-> people[q].members, handle |-> h]
  OBVIOUS
<1>2. people' = [people EXCEPT ![q] = one]
  OBVIOUS
<1> HIDE DEF one
<1>3. QED  BY <1>1, <1>2

\* The one that an addressless identity is folded into: nobody else of the name
\* has an address.
LEMMA FoldTarget ==
    ASSUME IdInv, stage = "absorb", NEW p \in rest, people[p].keys = {},
           NEW q \in IF Candidates(p) = {} THEN NameOwner(p) ELSE Candidates(p),
           Cardinality(Candidates(p)) <= 1
    PROVE  /\ q \in Live /\ q # p
           /\ Fold(NameOf(p)) = Fold(NameOf(q))
           /\ \A r \in DOMAIN people : KeysOf(r) # {} /\ Fold(NameOf(r)) = Fold(NameOf(q)) => r = q
<1>1. /\ PeopleInv /\ LoopsInv /\ p \in DOMAIN people
      /\ absorbed \subseteq kept /\ kept \cap rest = {} /\ Live \subseteq DOMAIN people
      /\ \A r \in DOMAIN people : people[r].keys = KeysOf(r) /\ people[r].name = NameOf(r)
  BY DEF IdInv, GroupedInv, LoopsInv, Live, PeopleInv, PersonOK
<1>2. \A r : r \in Candidates(p) <=> r \in DOMAIN people /\ KeysOf(r) # {} /\ Fold(NameOf(p)) = Fold(NameOf(r))
  BY <1>1 DEF Candidates, SameName
<1>3. CASE Candidates(p) = {}
  <2>1. q \in absorbed /\ SameName(p, q)
    BY <1>3 DEF NameOwner
  <2>2. q \in Live /\ q # p /\ Fold(NameOf(p)) = Fold(NameOf(q))
    BY <1>1, <2>1 DEF Live, SameName
  <2>3. QED  BY <1>2, <1>3, <2>2
<1>4. CASE Candidates(p) # {}
  <2>1. q \in Candidates(p)
    BY <1>4
  <2>2. q \in Live /\ q # p /\ Fold(NameOf(p)) = Fold(NameOf(q))
    BY <1>1, <1>2, <2>1 DEF LoopsInv
  <2>3. \A r \in Candidates(p) : r = q
    <3>1. IsFiniteSet(Candidates(p)) /\ Cardinality(Candidates(p)) \in Nat
      <4>1. Len(records) \in Nat
        BY InputFacts DEF IdInv, ScanInv, TypeInv, TypeOK
      <4>2. IsFiniteSet(1 .. Len(records))
        BY <4>1, FS_Interval
      <4>3. Candidates(p) \in SUBSET (1 .. Len(records))
        BY <1>1 DEF Candidates, PeopleInv, Positions
      <4>4. IsFiniteSet(Candidates(p))
        BY <4>2, <4>3, FS_Subset
      <4>5. QED  BY <4>4, FS_CardinalityType
    <3>2. Cardinality(Candidates(p)) # 0
      BY <3>1, <1>4, FS_EmptySet
    <3>3. Cardinality(Candidates(p)) = 1
      BY <3>1, <3>2
    <3>4. \E x : Candidates(p) = {x}
      BY <3>1, <3>3, FS_Singleton
    <3>5. QED  BY <2>1, <3>4
  <2>4. QED  BY <1>2, <2>2, <2>3
<1>5. QED  BY <1>3, <1>4

\* Folding moves all members of one identity to another: none is lost or doubled.
LEMMA FoldStep ==
    ASSUME IdInv, UNCHANGED vars, NEW p \in rest, FoldedInto(p)
    PROVE  GroupedInv'
<1> DEFINE M == people[p].members
<1>t. TypeOK /\ stage = "absorb" /\ people[p].keys = {}
  BY DEF IdInv, ScanInv, TypeInv, FoldedInto, Visit
<1>0. PeopleInv /\ Apart /\ Placed /\ LoopsInv /\ Scanned
  BY <1>t DEF IdInv, GroupedInv
<1>1. /\ rest' = rest \ {p} /\ kept' = kept /\ absorbed' = absorbed
      /\ order' = order /\ stage' = stage
  BY DEF FoldedInto, Visit
<1>2. PICK q \in IF Candidates(p) = {} THEN NameOwner(p) ELSE Candidates(p) :
         /\ Cardinality(Candidates(p)) <= 1
         /\ people' = [people EXCEPT ![q].members = @ \cup M]
  BY DEF FoldedInto
<1>3. /\ q \in Live /\ q # p
      /\ Fold(NameOf(p)) = Fold(NameOf(q))
      /\ \A r \in DOMAIN people : KeysOf(r) # {} /\ Fold(NameOf(r)) = Fold(NameOf(q)) => r = q
  BY <1>t, <1>2, FoldTarget
<1>4. p \in DOMAIN people /\ q \in DOMAIN people /\ Live \subseteq DOMAIN people /\ p \in Live
  BY <1>0, <1>3 DEF LoopsInv, Live
<1>5. PersonOK(p) /\ PersonOK(q) /\ GuestsOK(p) /\ GuestsOK(q)
  BY <1>0, <1>3, <1>4 DEF PeopleInv
<1>6. /\ people' = [r \in DOMAIN people' |-> people'[r]] /\ DOMAIN people' = DOMAIN people
      /\ \A r \in DOMAIN people : r # q => people'[r] = people[r]
      /\ people'[q] = [name |-> people[q].name, keys |-> people[q].keys,
                       members |-> people[q].members \cup M, handle |-> people[q].handle]
  BY <1>0, <1>2, <1>4, <1>5, MembersGrow DEF PeopleInv, PersonOK
<1>7. Live' = Live \ {p}
  BY <1>0, <1>t, <1>1 DEF Live, LoopsInv
<1>8. Positions(records)' = Positions(records)
  BY ScanStays DEF Positions
<1>9. M \in SUBSET Positions(records) /\ \A i \in M : ClassOf(i) \subseteq M
  BY <1>5 DEF PersonOK
<1>10. \A i \in M : KeysOf(i) = {} /\ Fold(NameOf(i)) = Fold(NameOf(q))
  <2> SUFFICES ASSUME NEW i \in M PROVE KeysOf(i) = {} /\ Fold(NameOf(i)) = Fold(NameOf(q))
    OBVIOUS
  <2>1. KeysOf(p) = {} /\ p \in Positions(records)
    BY <1>0, <1>t, <1>4, <1>5 DEF PersonOK, PeopleInv
  <2>2. CASE i \in ClassOf(p)
    BY <1>3, <1>t, <2>1, <2>2, ClassFacts
  <2>3. CASE i \notin ClassOf(p)
    BY <1>3, <1>5, <2>3 DEF GuestsOK
  <2>4. QED  BY <2>2, <2>3
<1> HIDE DEF M
<1>11. ASSUME NEW r \in DOMAIN people PROVE PersonOK(r)'
  <2>1. CASE r = q
    BY <1>5, <1>6, <1>8, <1>9, <2>1, ScanStays DEF PersonOK
  <2>2. CASE r # q
    BY <1>0, <1>6, <1>8, <2>2, ScanStays DEF PeopleInv, PersonOK
  <2>3. QED  BY <2>1, <2>2
<1>12. ASSUME NEW r \in Live' PROVE GuestsOK(r)'
  <2>1. CASE r = q
    BY <1>3, <1>5, <1>6, <1>10, <2>1, ScanStays DEF GuestsOK
  <2>2. CASE r # q
    <3>1. GuestsOK(r) /\ people'[r] = people[r]
      BY <1>0, <1>4, <1>6, <1>7, <1>12, <2>2 DEF PeopleInv
    <3>2. QED  BY <1>6, <3>1, ScanStays DEF GuestsOK
  <2>3. QED  BY <2>1, <2>2
<1>13. PeopleInv'
  BY <1>0, <1>6, <1>8, <1>11, <1>12 DEF PeopleInv
<1>14. ASSUME NEW r \in Live PROVE r # q /\ r # p => people'[r].members = people[r].members
  BY <1>4, <1>6, <1>14
<1>15. people'[q].members = people[q].members \cup M
  BY <1>6
<1>16. Apart'
  <2> SUFFICES ASSUME NEW r \in Live \ {p}, NEW s \in Live \ {p}, r # s
               PROVE  people'[r].members \cap people'[s].members = {}
    BY <1>7 DEF Apart
  <2>1. \A x, y \in Live : x # y => people[x].members \cap people[y].members = {}
    BY <1>0 DEF Apart
  <2>2. \A x \in Live \ {p} : people[x].members \cap M = {}
    BY <1>4, <2>1 DEF M
  <2>3. CASE r = q
    BY <1>3, <1>14, <1>15, <2>1, <2>2, <2>3
  <2>4. CASE s = q
    BY <1>3, <1>14, <1>15, <2>1, <2>2, <2>4
  <2>5. CASE r # q /\ s # q
    BY <1>14, <2>1, <2>5
  <2>6. QED  BY <2>3, <2>4, <2>5
<1>17. Placed'
  <2> SUFFICES ASSUME NEW i \in Positions(records), NameOf(i) \notin Shortcodes \cup {NoName}
               PROVE  \E r \in Live \ {p} : i \in people'[r].members
    BY <1>7, <1>8, ScanStays DEF Placed
  <2>1. PICK r \in Live : i \in people[r].members
    BY <1>0 DEF Placed
  <2>2. CASE r = p
    BY <1>3, <1>15, <2>1, <2>2 DEF M
  <2>3. CASE r # p
    BY <1>3, <1>14, <1>15, <2>1, <2>3
  <2>4. QED  BY <2>2, <2>3
<1>18. LoopsInv'
  <2>1. ASSUME NEW r \in DOMAIN people, KeysOf(r) # {} PROVE r \in Live'
    <3>1. KeysOf(p) = {}
      BY <1>t, <1>5 DEF PersonOK
    <3>2. QED  BY <1>0, <1>7, <2>1, <3>1 DEF LoopsInv
  <2>2. QED  BY <1>0, <1>t, <1>1, <1>6, <1>7, <2>1, ScanStays DEF LoopsInv
<1>19. Scanned'
  BY <1>0, ScanStays
<1>20. QED  BY <1>t, <1>1, <1>13, <1>16, <1>17, <1>18, <1>19 DEF GroupedInv

\* Each branch of the loop visits one identity and keeps or folds it.
LEMMA AbsorbStep ==
    ASSUME IdInv, UNCHANGED vars, Absorb
    PROVE  GroupedInv' /\ stage' = "absorb"
<1>1. PICK p \in rest : Addressed(p) \/ FoldedInto(p) \/ Ambiguous(p) \/ FirstOfName(p)
  BY DEF Absorb
<1>2. /\ stage = "absorb" /\ stage' = stage /\ order' = order /\ rest' = rest \ {p}
  BY <1>1 DEF Addressed, FoldedInto, Ambiguous, FirstOfName, Visit
<1>3. CASE FoldedInto(p)
  BY <1>2, <1>3, FoldStep
<1>4. CASE ~FoldedInto(p)
  <2>1. /\ people' = people /\ kept' = kept \cup {p}
        /\ absorbed' \in {absorbed, absorbed \cup {p}}
    BY <1>1, <1>4 DEF Addressed, Ambiguous, FirstOfName
  <2>2. PeopleInv /\ Apart /\ Placed /\ LoopsInv /\ Scanned
    BY <1>2 DEF IdInv, GroupedInv
  <2>3. Live' = Live
    BY <1>2, <2>1 DEF Live
  <2>4. PeopleInv' /\ Apart' /\ Placed' /\ Scanned'
    BY <2>1, <2>2, <2>3, PeopleStay, ScanStays
  <2>5. LoopsInv'
    BY <1>2, <2>1, <2>2, <2>3, ScanStays DEF LoopsInv
  <2>6. QED  BY <1>2, <2>4, <2>5 DEF GroupedInv
<1>5. QED  BY <1>2, <1>3, <1>4

-----------------------------------------------------------------------------
(***************************************************************************)
(* Sorting, making the handles unique, and saving                          *)
(***************************************************************************)
LEMMA SortStep ==
    ASSUME IdInv, UNCHANGED vars, Sort
    PROVE  GroupedInv' /\ stage' = "handles"
<1>1. /\ stage = "absorb" /\ stage' = "handles" /\ rest = {} /\ rest' = kept
      /\ UNCHANGED <<people, kept, absorbed>>
  BY DEF Sort
<1>2. \A n \in DOMAIN order' : order'[n] \in kept
  BY DEF Sort
<1>3. PeopleInv /\ Apart /\ Placed /\ LoopsInv /\ Scanned
  BY <1>1 DEF IdInv, GroupedInv
<1>4. Live' = Live
  BY <1>1 DEF Live
<1>5. PeopleInv' /\ Apart' /\ Placed' /\ Scanned'
  BY <1>1, <1>3, <1>4, PeopleStay, ScanStays
<1>6. LoopsInv'
  BY <1>1, <1>2, <1>3, <1>4, ScanStays DEF LoopsInv
<1>7. QED  BY <1>1, <1>5, <1>6 DEF GroupedInv

\* The fallback handle is a digest that knows the rows.
LEMMA FallbackProperties ==
    ASSUME TypeOK, NEW p, PersonOK(p)
    PROVE  /\ FallbackDigest(people[p]) \in Handle
           /\ FallbackDigest(people[p]).address = NoAddress
           /\ FallbackDigest(people[p]).rows = RowsOf(people[p].members)
<1>1. /\ people[p].name \in Names \cup Addresses /\ people[p].keys \in SUBSET Addresses
      /\ people[p].members \in SUBSET Positions(records)
      /\ people[p].handle \in Handle
  BY DEF PersonOK
<1>2. RowsOf(people[p].members) \in [SourceRows -> Nat]
  BY <1>1, RowsOfType
<1>3. people[p].handle.address \in Addresses \cup {NoAddress}
  BY <1>1 DEF Handle
<1>4. QED  BY <1>1, <1>2, <1>3 DEF FallbackDigest, Handle

\* What a step of the loop over the handles does.
LEMMA SettleChanges ==
    ASSUME IdInv, NEW p \in rest, Settle(p)
    PROVE  /\ stage = "handles" /\ stage' = stage /\ UNCHANGED <<kept, absorbed, order>>
           /\ rest' = rest \ {p} /\ p \in kept /\ p \in DOMAIN people /\ PersonOK(p)
           /\ people' = [q \in DOMAIN people' |-> people'[q]] /\ DOMAIN people' = DOMAIN people
           /\ \A q \in DOMAIN people : q # p => people'[q] = people[q]
           /\ people'[p] = [name |-> people[p].name, keys |-> people[p].keys,
                            members |-> people[p].members,
                            handle |-> IF people[p].handle \in Seen THEN FallbackDigest(people[p])
                                       ELSE people[p].handle]
<1>1. /\ stage = "handles" /\ stage' = stage /\ UNCHANGED <<kept, absorbed, order>>
      /\ rest' = rest \ {p}
  BY DEF Settle
<1>2. PeopleInv /\ LoopsInv
  BY <1>1 DEF IdInv, GroupedInv
<1>3. p \in kept /\ p \in DOMAIN people
  BY <1>1, <1>2 DEF LoopsInv, Live
<1>4. PersonOK(p)
  BY <1>2, <1>3 DEF PeopleInv
<1>5. people[p] \in [name : Names \cup Addresses, keys : SUBSET Addresses,
                    members : SUBSET Positions(records), handle : Handle]
  BY <1>4 DEF PersonOK
<1>6. CASE people[p].handle \in Seen
  <2>1. people' = [people EXCEPT ![p].handle = FallbackDigest(people[p])]
    BY <1>6 DEF Settle
  <2>2. /\ people' = [q \in DOMAIN people' |-> people'[q]] /\ DOMAIN people' = DOMAIN people
        /\ \A q \in DOMAIN people : q # p => people'[q] = people[q]
        /\ people'[p] = [name |-> people[p].name, keys |-> people[p].keys,
                         members |-> people[p].members, handle |-> FallbackDigest(people[p])]
    BY <1>2, <1>3, <1>5, <2>1, HandleChanges DEF PeopleInv
  <2>3. QED  BY <1>1, <1>3, <1>4, <1>6, <2>2
<1>7. CASE people[p].handle \notin Seen
  <2>1. people' = people
    BY <1>7 DEF Settle
  <2>2. people[p] = [name |-> people[p].name, keys |-> people[p].keys,
                     members |-> people[p].members, handle |-> people[p].handle]
    BY <1>5
  <2>3. people = [q \in DOMAIN people |-> people[q]]
    BY <1>2 DEF PeopleInv
  <2>4. QED  BY <1>1, <1>3, <1>4, <1>7, <2>1, <2>2, <2>3
<1>8. QED  BY <1>6, <1>7

\* The loop over the handles changes nothing but handles.
LEMMA SettleStep ==
    ASSUME IdInv, UNCHANGED vars, NEW p \in rest, Settle(p)
    PROVE  GroupedInv' /\ stage' = "handles"
<1> DEFINE h == IF people[p].handle \in Seen THEN FallbackDigest(people[p]) ELSE people[p].handle
<1>1. /\ stage = "handles" /\ stage' = stage /\ UNCHANGED <<kept, absorbed, order>>
      /\ rest' = rest \ {p} /\ p \in kept /\ p \in DOMAIN people /\ PersonOK(p)
      /\ people' = [q \in DOMAIN people' |-> people'[q]] /\ DOMAIN people' = DOMAIN people
      /\ \A q \in DOMAIN people : q # p => people'[q] = people[q]
      /\ people'[p] = [name |-> people[p].name, keys |-> people[p].keys,
                       members |-> people[p].members, handle |-> h]
  BY SettleChanges
<1>2. PeopleInv /\ Apart /\ Placed /\ LoopsInv /\ Scanned /\ TypeOK
  BY <1>1 DEF IdInv, GroupedInv, ScanInv, TypeInv
<1>3. h \in Handle /\ (h.address = NoAddress \/ h.address \in KeysOf(p) \ hubs)
  <2>1. CASE people[p].handle \in Seen
    BY <1>1, <1>2, <2>1, FallbackProperties
  <2>2. CASE people[p].handle \notin Seen
    BY <1>1, <2>2 DEF PersonOK
  <2>3. QED  BY <2>1, <2>2
<1> HIDE DEF h
<1>4. Positions(records)' = Positions(records)
  BY ScanStays DEF Positions
<1>5. \A q \in DOMAIN people : people'[q].members = people[q].members
  BY <1>1
<1>6. Live' = Live
  BY <1>1 DEF Live
<1>7. ASSUME NEW q \in DOMAIN people PROVE PersonOK(q)'
  <2>1. CASE q = p
    BY <1>1, <1>3, <1>4, <2>1, ScanStays DEF PersonOK
  <2>2. CASE q # p
    BY <1>1, <1>2, <1>4, <2>2, ScanStays DEF PeopleInv, PersonOK
  <2>3. QED  BY <2>1, <2>2
<1>8. Live \subseteq DOMAIN people
  BY <1>2 DEF LoopsInv
<1>9. \A q \in Live : GuestsOK(q)'
  BY <1>1, <1>2, <1>5, <1>8, ScanStays DEF PeopleInv, GuestsOK
<1>10. PeopleInv'
  BY <1>1, <1>2, <1>4, <1>6, <1>7, <1>9 DEF PeopleInv
<1>11. Apart'
  BY <1>2, <1>5, <1>6, <1>8 DEF Apart
<1>12. Placed'
  BY <1>2, <1>4, <1>5, <1>6, <1>8, ScanStays DEF Placed
<1>13. LoopsInv'
  BY <1>1, <1>2, <1>6, ScanStays DEF LoopsInv
<1>14. Scanned'
  BY <1>2, ScanStays
<1>15. QED  BY <1>1, <1>10, <1>11, <1>12, <1>13, <1>14 DEF GroupedInv

\* The save changes no identity.
LEMMA ReplaceStep ==
    ASSUME IdInv, UNCHANGED vars, Replace
    PROVE  GroupedInv' /\ stage' \in {"served", "failed"}
<1>1. /\ stage = "handles" /\ stage' \in {"served", "failed"} /\ rest = {}
      /\ UNCHANGED <<people, rest, kept, absorbed, order>>
  BY DEF Replace
<1>2. PeopleInv /\ Apart /\ Placed /\ LoopsInv /\ Scanned
  BY <1>1 DEF IdInv, GroupedInv
<1>3. Live' = Live
  BY <1>1 DEF Live
<1>4. PeopleInv' /\ Apart' /\ Placed' /\ Scanned'
  BY <1>1, <1>2, <1>3, PeopleStay, ScanStays
<1>5. LoopsInv'
  BY <1>1, <1>2, <1>3, ScanStays DEF LoopsInv
<1>6. QED  BY <1>1, <1>4, <1>5 DEF GroupedInv

\* Every step of the scan and of what follows it keeps the invariant.
LEMMA IdInvStep ==
    ASSUME IdInv, [IdNext]_<<vars, idVars>>
    PROVE  IdInv'
<1>1. ScanInv' /\ HubsFound'
  BY ScanPartStep DEF IdInv
<1>2. CASE UNCHANGED <<vars, idVars>>
  <2>1. UNCHANGED vars /\ UNCHANGED <<people, rest, kept, absorbed, order, stage>>
    BY <1>2 DEF idVars
  <2>2. Live' = Live
    BY <2>1 DEF Live
  <2>3. CASE stage = "scan"
    BY <1>1, <2>1, <2>3 DEF IdInv, GroupedInv
  <2>4. CASE stage # "scan"
    <3>1. PeopleInv /\ Apart /\ Placed /\ LoopsInv /\ Scanned
      BY <2>4 DEF IdInv, GroupedInv
    <3>2. PeopleInv' /\ Apart' /\ Placed' /\ Scanned'
      BY <2>1, <2>2, <3>1, PeopleStay, ScanStays
    <3>3. LoopsInv'
      BY <2>1, <2>2, <3>1, ScanStays DEF LoopsInv
    <3>4. QED  BY <1>1, <2>1, <2>4, <3>2, <3>3 DEF IdInv, GroupedInv
  <2>5. QED  BY <2>3, <2>4
<1>3. CASE Next /\ UNCHANGED idVars
  <2>1. stage = "scan"
    BY <1>3, ScanIsOver DEF IdInv, GroupedInv
  <2>2. QED  BY <1>1, <1>3, <2>1 DEF IdInv, GroupedInv, idVars
<1>4. CASE Finish /\ UNCHANGED vars
  <2>1. GroupedInv' /\ stage' \in {"scan", "absorb", "handles", "served", "failed"}
    BY <1>4, GroupStep, AbsorbStep, SortStep, SettleStep, ReplaceStep DEF Finish, EnsureUnique
  <2>2. QED  BY <1>1, <2>1 DEF IdInv
<1>5. QED  BY <1>2, <1>3, <1>4 DEF IdNext

\* Between the scan and the store the identities share out the records, each
\* with the class of its first record and addressless guests of its name.
THEOREM IdInvariant == IdSpec => []IdInv
<1>1. IdInv /\ [IdNext]_<<vars, idVars>> => IdInv'
  BY IdInvStep
<1>2. QED  BY IdInvInit, <1>1, PTL DEF IdSpec

\* Every variable keeps to the values resolve() can hold in it, up to the save.
THEOREM IdTypeCorrect == IdSpec => []IdTypeOK
<1>1. IdInv => IdTypeOK
  <2> SUFFICES ASSUME IdInv PROVE IdTypeOK
    OBVIOUS
  <2>1. CASE stage = "scan"
    <3>1. people = << >> /\ rest = {} /\ kept = {} /\ absorbed = {} /\ order = << >>
      BY <2>1 DEF IdInv, GroupedInv
    <3>2. DOMAIN people = {} /\ DOMAIN order = {}
      BY <3>1
    <3> QED  BY <2>1, <3>1, <3>2 DEF IdTypeOK
  <2>2. CASE stage # "scan"
    <3>1. PeopleInv /\ LoopsInv
      BY <2>2 DEF IdInv, GroupedInv
    <3>2. DOMAIN people \subseteq Positions(records)
      BY <3>1 DEF PeopleInv
    <3>3. \A p \in DOMAIN people :
              people[p] \in [name : Names \cup Addresses, keys : SUBSET Addresses,
                             members : SUBSET Positions(records), handle : Handle]
      BY <3>1 DEF PeopleInv, PersonOK
    <3>4. /\ kept \cup rest \subseteq DOMAIN people /\ absorbed \subseteq kept
          /\ {order[n] : n \in DOMAIN order} \subseteq kept
      BY <3>1 DEF LoopsInv, Live
    <3>5. QED  BY <3>2, <3>3, <3>4 DEF IdTypeOK, IdInv
  <2>3. QED  BY <2>1, <2>2
<1>2. QED  BY <1>1, IdInvariant, PTL

Homes(i) == {p \in kept : i \in people[p].members}

\* No record is lost or doubled between the scan and the store: what the name
\* draws in stays with whoever it is folded into, and only shortcodes and classes
\* with neither name nor address are dropped.
THEOREM EveryRecordKept == IdSpec => []NoRecordLost
<1>1. IdInv => NoRecordLost
  <2> SUFFICES ASSUME IdInv, Complete, NEW i \in Positions(records)
               PROVE  \/ Cardinality(Homes(i)) = 1
                      \/ Homes(i) = {} /\ NameOf(i) \in Shortcodes \cup {NoName}
    BY DEF NoRecordLost, NameOf, KeysOf, Homes
  <2>1. Apart /\ Placed /\ LoopsInv /\ stage # "absorb"
    BY DEF IdInv, GroupedInv, Complete
  <2>2. Live = kept
    BY <2>1 DEF LoopsInv, Live
  <2>3. CASE Homes(i) = {}
    BY <2>1, <2>2, <2>3 DEF Placed, Homes
  <2>4. CASE Homes(i) # {}
    <3>1. PICK p \in Homes(i) : TRUE
      BY <2>4
    <3>2. \A q \in Homes(i) : q = p
      BY <2>1, <2>2, <3>1 DEF Apart, Homes
    <3>3. Homes(i) = {p}
      BY <3>1, <3>2
    <3>4. QED  BY <3>3, FS_Singleton
  <2>5. QED  BY <2>3, <2>4
<1>2. QED  BY <1>1, IdInvariant, PTL

\* Two records that only a name brought together are not both addressed, and
\* nobody else with an address has their name.
THEOREM NamesJoinSafely == IdSpec => []NamesJoinOnlyAddressless
<1>1. IdInv => NamesJoinOnlyAddressless
  <2> SUFFICES ASSUME IdInv, NEW p \in kept,
                      NEW i \in people[p].members, NEW j \in people[p].members,
                      ~SamePerson(i, j)
               PROVE  /\ KeysOf(i) = {} \/ KeysOf(j) = {}
                      /\ Fold(NameOf(i)) = Fold(NameOf(j))
                      /\ \A q \in kept : people[q].keys # {} /\ SameName(p, q) => q = p
    BY DEF NamesJoinOnlyAddressless, NameOf, KeysOf
  <2>1. PeopleInv /\ LoopsInv /\ TypeOK
    BY DEF IdInv, GroupedInv, ScanInv, TypeInv
  <2>2. p \in Live /\ kept \subseteq DOMAIN people /\ PersonOK(p) /\ GuestsOK(p)
    BY <2>1 DEF LoopsInv, PeopleInv, Live
  <2>3. /\ p \in Positions(records) /\ i \in Positions(records) /\ j \in Positions(records)
    BY <2>1, <2>2 DEF PersonOK, PeopleInv
  <2>4. i \notin ClassOf(p) \/ j \notin ClassOf(p)
    BY <2>3 DEF ClassOf, SamePerson
  <2>5. \A k \in people[p].members : Fold(NameOf(k)) = Fold(NameOf(p))
    BY <2>1, <2>2, <2>3, ClassFacts DEF GuestsOK
  <2>6. \A q \in kept : people[q].keys = KeysOf(q) /\ people[q].name = NameOf(q)
    BY <2>1, <2>2 DEF PeopleInv, PersonOK
  <2>7. \A q \in kept : KeysOf(q) # {} /\ Fold(NameOf(q)) = Fold(NameOf(p)) => q = p
    BY <2>2, <2>4 DEF GuestsOK
  <2>8. KeysOf(i) = {} \/ KeysOf(j) = {}
    BY <2>2, <2>4 DEF GuestsOK
  <2>9. \A q \in kept : people[q].keys # {} /\ SameName(p, q) => q = p
    BY <2>6, <2>7 DEF SameName
  <2>10. QED  BY <2>5, <2>8, <2>9
<1>2. QED  BY <1>1, IdInvariant, PTL

\* No stored person is named by the address of a switchboard.
THEOREM HubsNeverName == IdSpec => []HubsNameNoOne
<1>1. IdInv => HubsNameNoOne
  <2> SUFFICES ASSUME IdInv, NEW p \in kept PROVE Identifying(people[p].handle.address)
    BY DEF HubsNameNoOne
  <2> DEFINE a == people[p].handle.address
  <2>1. stage # "scan"
    BY DEF IdInv, GroupedInv
  <2>2. PeopleInv /\ LoopsInv /\ Scanned /\ TypeOK /\ HubsFound
    BY <2>1 DEF IdInv, GroupedInv, ScanInv, TypeInv
  <2>3. PersonOK(p)
    BY <2>2 DEF LoopsInv, PeopleInv, Live
  <2>4. Hubs(records) \subseteq hubs
    BY <2>2 DEF HubsFound, Scanned
  <2>5. Hubs(records) \subseteq Addresses
    BY <2>2, InputFacts DEF Hubs, TypeOK
  <2>6. NoAddress \notin Hubs(records)
    BY <2>5, IdentitiesAssumption
  <2>7. a \notin Hubs(records)
    BY <2>3, <2>4, <2>6 DEF PersonOK
  <2>8. CASE a \in AllKeys(records)
    BY <2>2, <2>7, <2>8, HubOrIdentifying DEF Hubs, TypeOK
  <2>9. CASE a \notin AllKeys(records)
    <3>1. Owners(records, a) = {}
      BY <2>9 DEF AllKeys, Owners
    <3>2. Cardinality(Owners(records, a)) = 0
      BY <3>1, FS_EmptySet
    <3>3. QED  BY <3>2, HubAssumption DEF Identifying
  <2>10. QED  BY <2>8, <2>9
<1>2. QED  BY <1>1, IdInvariant, PTL

-----------------------------------------------------------------------------
(***************************************************************************)
(* What a person is found under                                            *)
(***************************************************************************)

\* What the scan promises stands for the whole of resolve(): the merges stay
\* explained and counted, the rulings kept and reported, no address unsettled.
THEOREM ScanStands ==
    IdSpec => /\ [](TypeOK /\ Explained /\ EdgesCountMerges /\ AnchorsSettled)
              /\ [](SameRulingsHold /\ RulingsSurface /\ DeniedNotReasked /\ EmailsJoin)
              /\ ImplementsMerging
BY IdentitiesFollowScan, ResolverTypeCorrect, ScanExplained, EdgesAreMerges, PhonesSettled,
   RulingsHold, DefeatedRulingsSurface, NeverReasked, EmailsHaveOneOwner,
   ScanImplementsMerging, PTL

\* The scan's verdict on e-mail addresses, for the lookups below.
LEMMA EmailsStillJoin == IdSpec => []EmailsJoin
BY ScanStands, PTL

\* The addresses of an identity are those of its records.
LEMMA KeysOfMembers ==
    ASSUME IdInv, NEW p \in kept
    PROVE  /\ people[p].keys = UNION {records[i].keys : i \in people[p].members}
           /\ people[p].keys = KeysOf(p)
<1>1. stage # "scan"
  BY DEF IdInv, GroupedInv
<1>2. PeopleInv /\ LoopsInv /\ TypeOK
  BY <1>1 DEF IdInv, GroupedInv, ScanInv, TypeInv
<1>3. PersonOK(p) /\ GuestsOK(p) /\ p \in Positions(records)
  BY <1>2 DEF LoopsInv, PeopleInv, Live
<1>4. ClassOf(p) \subseteq people[p].members /\ people[p].keys = KeysOf(p)
  BY <1>3 DEF PersonOK
<1>5. ASSUME NEW i \in people[p].members PROVE records[i].keys \subseteq KeysOf(p)
  <2>1. i \in Positions(records)
    BY <1>3 DEF PersonOK
  <2>2. CASE i \in ClassOf(p)
    BY <2>2 DEF KeysOf
  <2>3. CASE i \notin ClassOf(p)
    <3>1. KeysOf(i) = {} /\ i \in ClassOf(i)
      BY <1>2, <1>3, <2>1, <2>3, ClassFacts DEF GuestsOK
    <3>2. records[i].keys = {}
      BY <3>1 DEF KeysOf
    <3>3. QED  BY <3>2
  <2>4. QED  BY <2>2, <2>3
<1>6. QED  BY <1>4, <1>5 DEF KeysOf

\* Two people under one address have records that both carry it.
LEMMA AddressHolders ==
    ASSUME IdInv, NEW a \in Addresses, NEW p \in Get(a)
    PROVE  p \in kept /\ \E i \in people[p].members : i \in Owners(records, a)
<1>1. stage # "scan"
  BY DEF IdInv, GroupedInv, Get
<1>2. PeopleInv /\ LoopsInv /\ p \in kept
  BY <1>1 DEF IdInv, GroupedInv, Get
<1>3. PersonOK(p)
  BY <1>2 DEF LoopsInv, PeopleInv, Live
<1>4. people[p].handle = ReadableHandle(a) => people[p].handle.address = a
  BY DEF ReadableHandle
<1>5. a \in people[p].keys
  BY <1>3, <1>4, IdentitiesAssumption DEF Get, PersonOK
<1>6. PICK i \in people[p].members : a \in records[i].keys
  BY <1>2, <1>5, KeysOfMembers
<1>7. i \in Positions(records)
  BY <1>3 DEF PersonOK
<1>8. QED  BY <1>2, <1>6, <1>7 DEF Owners

\* An identity's addresses are exactly those of its records, and an e-mail
\* address that is no switchboard and that no ruling divides finds one person.
THEOREM LookupsFollowRecords == IdSpec => []KeysFollowRecords
<1>1. IdInv /\ EmailsJoin => KeysFollowRecords
  <2> SUFFICES ASSUME IdInv, EmailsJoin PROVE KeysFollowRecords
    OBVIOUS
  <2>1. ASSUME stage = "served", NEW a \in Emails, Identifying(a), Undivided(a)
        PROVE  Cardinality(Get(a)) <= 1
    <3>1. PeopleInv /\ LoopsInv /\ Apart /\ Scanned /\ TypeOK
      BY <2>1 DEF IdInv, GroupedInv, ScanInv, TypeInv
    <3>2. \A i, j \in Owners(records, a) : SamePerson(i, j)
      BY <2>1, <3>1 DEF EmailsJoin
    <3>3. a \in Addresses
      BY DEF Addresses
    <3>4. ASSUME NEW p \in Get(a), NEW q \in Get(a) PROVE p = q
      <4>1. /\ p \in kept /\ q \in kept
            /\ \E i \in people[p].members : i \in Owners(records, a)
            /\ \E i \in people[q].members : i \in Owners(records, a)
        BY <3>3, <3>4, AddressHolders
      <4>2. PICK i \in people[p].members : i \in Owners(records, a)
        BY <4>1
      <4>3. PICK j \in people[q].members : j \in Owners(records, a)
        BY <4>1
      <4>4. SamePerson(i, j) /\ i \in Positions(records) /\ j \in Positions(records)
        BY <3>2, <4>2, <4>3 DEF Owners
      <4>5. ClassOf(i) \subseteq people[p].members
        BY <3>1, <4>1, <4>2 DEF LoopsInv, PeopleInv, PersonOK, Live
      <4>6. j \in people[p].members
        BY <4>4, <4>5 DEF ClassOf
      <4>7. p \in Live /\ q \in Live
        BY <4>1 DEF Live
      <4>8. QED  BY <3>1, <4>3, <4>6, <4>7 DEF Apart
    <3>5. CASE Get(a) = {}
      BY <3>5, FS_EmptySet
    <3>6. CASE Get(a) # {}
      <4>1. PICK p \in Get(a) : TRUE
        BY <3>6
      <4>2. Get(a) = {p}
        BY <3>4, <4>1
      <4>3. Cardinality(Get(a)) = 1
        BY <4>2, FS_Singleton
      <4>4. QED  BY <4>3
    <3>7. QED  BY <3>5, <3>6
  <2>2. \A p \in kept : people[p].keys = UNION {records[i].keys : i \in people[p].members}
    BY KeysOfMembers
  <2>3. QED  BY <2>1, <2>2 DEF KeysFollowRecords
<1>2. QED  BY <1>1, IdInvariant, EmailsStillJoin, PTL

-----------------------------------------------------------------------------
(***************************************************************************)
(* Why the save goes through.  The fallback handle is computed from the    *)
(* rows of the identity's records (resolver.py:292-297), so it tells two   *)
(* people apart as long as no two records bear one row.  Nothing in the    *)
(* code makes sure of that: the save fails without it.                     *)
(***************************************************************************)
RowsDiffer == \A i, j \in Positions(records) : records[i].row = records[j].row => i = j

\* A handle is the first one an identity is given, or the fallback that knows
\* its rows; the ones the loop has passed differ.
HandlesInv ==
    /\ stage = "absorb" => \A p \in DOMAIN people : people[p].handle.rows = NoRows
    /\ stage = "handles" =>
           /\ \A p \in rest : people[p].handle.rows = NoRows
           /\ \A p \in kept \ rest : people[p].handle.rows \in {NoRows, RowsOf(people[p].members)}
           /\ \A p, q \in kept \ rest : people[p].handle = people[q].handle => p = q
    /\ stage # "failed"

\* People with different records have different rows, and everyone has some.
LEMMA RowsTellApart ==
    ASSUME TypeOK, RowsDiffer, NEW S \in SUBSET Positions(records), NEW i \in S,
           NEW T \in SUBSET Positions(records), i \notin T
    PROVE  RowsOf(S) # RowsOf(T) /\ RowsOf(S) # NoRows
<1> DEFINE row == records[i].row
<1>1. row \in SourceRows
  <2>1. records \in Seq(RawRecord) /\ i \in 1 .. Len(records)
    BY DEF TypeOK, MergingTypeOK, Positions
  <2>2. records[i] \in RawRecord
    BY <2>1
  <2>3. QED  BY <2>2 DEF RawRecord
<1>2. {k \in S : records[k].row = row} = {i}
  BY DEF RowsDiffer
<1>3. {k \in T : records[k].row = row} = {}
  BY DEF RowsDiffer
<1> HIDE DEF row
<1>4. Cardinality({i}) = 1 /\ Cardinality({}) = 0
  BY FS_Singleton, FS_EmptySet, Zenon
<1>5. RowsOf(S)[row] = 1
  BY <1>1, <1>2, <1>4 DEF RowsOf
<1>6. RowsOf(T)[row] = 0
  BY <1>1, <1>3, <1>4 DEF RowsOf
<1>7. NoRows[row] = 0
  BY <1>1 DEF NoRows
<1>8. QED  BY <1>5, <1>6, <1>7

\* The fallback tells the identity apart from everyone the loop has passed.
LEMMA HandlesInvSettle ==
    ASSUME IdInv, HandlesInv, RowsDiffer, UNCHANGED vars, NEW p \in rest, Settle(p)
    PROVE  HandlesInv'
<1> DEFINE fallback == FallbackDigest(people[p])
           h == IF people[p].handle \in Seen THEN fallback ELSE people[p].handle
           settled == kept \ rest
<1>1. /\ stage = "handles" /\ stage' = stage /\ kept' = kept
      /\ rest' = rest \ {p} /\ p \in kept /\ p \in DOMAIN people /\ PersonOK(p)
      /\ \A q \in DOMAIN people : q # p => people'[q] = people[q]
      /\ people'[p] = [name |-> people[p].name, keys |-> people[p].keys,
                       members |-> people[p].members, handle |-> h]
  BY SettleChanges
<1>2. PeopleInv /\ Apart /\ LoopsInv /\ TypeOK
  BY <1>1 DEF IdInv, GroupedInv, ScanInv, TypeInv
<1>3. Live = kept /\ kept \subseteq DOMAIN people /\ rest \subseteq kept
  BY <1>1, <1>2 DEF LoopsInv, Live
<1>4. /\ \A q \in rest : people[q].handle.rows = NoRows
      /\ \A q \in settled : people[q].handle.rows \in {NoRows, RowsOf(people[q].members)}
      /\ \A q, r \in settled : people[q].handle = people[r].handle => q = r
  BY <1>1 DEF HandlesInv
<1>5. fallback.rows = RowsOf(people[p].members)
  BY <1>1, <1>2, FallbackProperties
<1>6. h.rows \in {NoRows, RowsOf(people[p].members)}
  BY <1>4, <1>5
<1>7. ASSUME NEW q \in settled PROVE people[q].handle # h
  <2>1. CASE people[p].handle \notin Seen
    BY <1>7, <2>1 DEF Seen
  <2>2. CASE people[p].handle \in Seen
    <3>1. /\ people[p].members \in SUBSET Positions(records) /\ p \in people[p].members
          /\ people[q].members \in SUBSET Positions(records)
      BY <1>1, <1>2, <1>3 DEF PeopleInv, PersonOK
    <3>2. p \notin people[q].members
      BY <1>2, <1>3, <1>7, <3>1 DEF Apart
    <3>3. fallback.rows \notin {NoRows, RowsOf(people[q].members)}
      BY <1>2, <1>5, <3>1, <3>2, RowsTellApart
    <3>4. QED  BY <1>4, <2>2, <3>3
  <2>3. QED  BY <2>1, <2>2
<1> HIDE DEF h, fallback
<1>8. kept' \ rest' = settled \cup {p}
  BY <1>1, <1>3
<1>9. \A q \in DOMAIN people : people'[q].members = people[q].members
  BY <1>1
<1>10. people'[p].handle = h /\ \A q \in kept : q # p => people'[q].handle = people[q].handle
  BY <1>1, <1>3
<1>11. \A S : RowsOf(S)' = RowsOf(S)
  BY ScanStays DEF RowsOf
<1>12. \A q \in rest' : people'[q].handle.rows = NoRows
  BY <1>1, <1>3, <1>4, <1>10
<1>13. ASSUME NEW q \in settled \cup {p}
       PROVE  people'[q].handle.rows \in {NoRows, RowsOf(people[q].members)}
  BY <1>4, <1>6, <1>10, <1>13
<1>14. ASSUME NEW q \in settled \cup {p}, NEW r \in settled \cup {p},
              people'[q].handle = people'[r].handle
       PROVE  q = r
  <2>1. CASE q \in settled /\ r \in settled
    BY <1>4, <1>10, <1>14, <2>1
  <2>2. CASE q = p \/ r = p
    BY <1>7, <1>10, <1>14, <2>2
  <2>3. QED  BY <2>1, <2>2
<1>15. ASSUME NEW q \in kept
       PROVE  RowsOf(people[q].members)' = RowsOf(people[q].members)
  BY <1>3, <1>9, ScanStays DEF RowsOf
<1>16. NoRows' = NoRows
  BY DEF NoRows
<1>17. settled \cup {p} \subseteq kept
  BY <1>1
<1> HIDE DEF settled
<1>18. \A q \in kept' \ rest' : people'[q].handle.rows \in {NoRows', RowsOf(people[q].members)'}
  BY <1>8, <1>13, <1>15, <1>16, <1>17
<1>19. \A q, r \in kept' \ rest' : people'[q].handle = people'[r].handle => q = r
  BY <1>8, <1>14
<1>20. QED  BY <1>1, <1>12, <1>16, <1>18, <1>19 DEF HandlesInv

\* Absorbing leaves the handles as they are.
LEMMA HandlesInvAbsorb ==
    ASSUME IdInv, HandlesInv, Absorb
    PROVE  HandlesInv'
<1>1. PICK p \in rest : Addressed(p) \/ FoldedInto(p) \/ Ambiguous(p) \/ FirstOfName(p)
  BY DEF Absorb
<1>2. stage = "absorb" /\ stage' = stage
  BY <1>1 DEF Addressed, FoldedInto, Ambiguous, FirstOfName, Visit
<1>3. \A q \in DOMAIN people : people[q].handle.rows = NoRows
  BY <1>2 DEF HandlesInv
<1>4. CASE ~FoldedInto(p)
  <2>1. people' = people
    BY <1>1, <1>4 DEF Addressed, Ambiguous, FirstOfName
  <2>2. QED  BY <1>2, <1>3, <2>1 DEF HandlesInv, NoRows
<1>5. CASE FoldedInto(p)
  <2>1. PICK q \in IF Candidates(p) = {} THEN NameOwner(p) ELSE Candidates(p) :
           /\ Cardinality(Candidates(p)) <= 1
           /\ people' = [people EXCEPT ![q].members = @ \cup people[p].members]
    BY <1>5 DEF FoldedInto
  <2>2. people[p].keys = {}
    BY <1>5 DEF FoldedInto
  <2>3. q \in Live
    BY <1>2, <2>1, <2>2, FoldTarget
  <2>4. PeopleInv /\ LoopsInv
    BY <1>2 DEF IdInv, GroupedInv
  <2>5. q \in DOMAIN people
    BY <2>3, <2>4 DEF LoopsInv
  <2>6. PersonOK(q)
    BY <2>4, <2>5 DEF PeopleInv
  <2>7. /\ DOMAIN people' = DOMAIN people
        /\ \A r \in DOMAIN people : r # q => people'[r] = people[r]
        /\ people'[q] = [name |-> people[q].name, keys |-> people[q].keys,
                         members |-> people[q].members \cup people[p].members,
                         handle |-> people[q].handle]
    BY <2>1, <2>4, <2>5, <2>6, MembersGrow DEF PeopleInv, PersonOK
  <2>8. \A r \in DOMAIN people : people'[r].handle = people[r].handle
    BY <2>5, <2>7
  <2>9. \A r \in DOMAIN people' : people'[r].handle.rows = NoRows
    BY <1>3, <2>7, <2>8
  <2>10. QED  BY <1>2, <2>9 DEF HandlesInv, NoRows
<1>6. QED  BY <1>4, <1>5

\* The handles given first know no rows.
LEMMA HandlesInvGroup ==
    ASSUME IdInv, UNCHANGED vars, Group
    PROVE  HandlesInv'
<1>1. stage' = "absorb" /\ PeopleInv'
  BY GroupStep DEF GroupedInv
<1>2. \A i : Identity(i) = [name |-> NameOf(i), keys |-> KeysOf(i), members |-> ClassOf(i),
                           handle |-> IdentityHandle(KeysOf(i), NameOf(i))]
  BY DEF Identity, NameOf, KeysOf
<1>3. ASSUME NEW p \in DOMAIN people' PROVE people'[p].handle.rows = NoRows
  <2>1. p \in Roots /\ people'[p] = Identity(p)
    BY <1>3 DEF Group
  <2>2. TypeOK /\ p \in Positions(records)
    BY <2>1 DEF IdInv, ScanInv, TypeInv, Roots
  <2>3. /\ KeysOf(p) \in SUBSET Addresses /\ ClassOf(p) \in SUBSET Positions(records)
    BY <2>2, ClassFacts
  <2>4. NameOf(p) \in Names \cup Addresses
    BY <2>2, <2>3, DisplayNameProperties DEF NameOf
  <2>5. IdentityHandle(KeysOf(p), NameOf(p)).rows = NoRows
    BY <2>3, <2>4, IdentityHandleProperties
  <2>6. QED  BY <1>2, <2>1, <2>5
<1>4. QED  BY <1>1, <1>3 DEF HandlesInv, NoRows

\* Every step keeps the handles apart while the rows differ.
LEMMA HandlesInvStep ==
    ASSUME IdInv, HandlesInv, RowsDiffer, [IdNext]_<<vars, idVars>>
    PROVE  HandlesInv'
<1>1. CASE UNCHANGED idVars /\ (stage = "scan" \/ UNCHANGED vars)
  <2>1. UNCHANGED <<people, rest, kept, absorbed, order, stage>>
    BY <1>1 DEF idVars
  <2>2. CASE stage = "scan"
    BY <2>1, <2>2 DEF HandlesInv
  <2>3. CASE UNCHANGED vars
    <3>1. \A S : RowsOf(S)' = RowsOf(S)
      BY <2>3, ScanStays DEF RowsOf
    <3>2. records' = records
      BY <2>3, ScanStays
    <3>3. QED  BY <2>1, <3>2 DEF HandlesInv, RowsOf, NoRows
  <2>4. QED  BY <1>1, <2>2, <2>3
<1>2. CASE Next /\ UNCHANGED idVars
  <2>1. stage = "scan"
    BY <1>2, ScanIsOver DEF IdInv, GroupedInv
  <2>2. QED  BY <1>1, <1>2, <2>1
<1>3. CASE UNCHANGED vars /\ Group
  BY <1>3, HandlesInvGroup
<1>4. CASE Absorb
  BY <1>4, HandlesInvAbsorb
<1>5. CASE Sort
  <2>1. /\ stage = "absorb" /\ stage' = "handles" /\ rest' = kept /\ kept' = kept /\ people' = people
    BY <1>5 DEF Sort
  <2>2. kept \subseteq DOMAIN people
    BY <2>1 DEF IdInv, GroupedInv, LoopsInv, Live
  <2>3. \A p \in rest' : people'[p].handle.rows = NoRows
    BY <2>1, <2>2 DEF HandlesInv
  <2>4. kept' \ rest' = {}
    BY <2>1
  <2>5. QED  BY <2>1, <2>3, <2>4 DEF HandlesInv, NoRows
<1>6. CASE UNCHANGED vars /\ EnsureUnique
  BY <1>6, HandlesInvSettle DEF EnsureUnique
<1>7. CASE Replace
  <2>1. stage = "handles" /\ rest = {}
    BY <1>7 DEF Replace
  <2>2. HandlesDiffer
    BY <2>1 DEF HandlesInv, HandlesDiffer
  <2>3. stage' = "served"
    BY <1>7, <2>2 DEF Replace
  <2>4. QED  BY <2>3 DEF HandlesInv
<1>8. QED  BY <1>1, <1>2, <1>3, <1>4, <1>5, <1>6, <1>7 DEF IdNext, Finish, idVars

\* The transaction that saves the result goes through, whatever is shared and
\* whatever the names are, as long as no two records bear one row identifier.
THEOREM SaveGoesThrough == IdSpec /\ []RowsDiffer => []SaveSucceeds
<1>1. IdInit => HandlesInv
  BY DEF IdInit, HandlesInv
<1>2. IdInv /\ HandlesInv /\ RowsDiffer /\ [IdNext]_<<vars, idVars>> => HandlesInv'
  BY HandlesInvStep
<1>3. HandlesInv => SaveSucceeds
  BY DEF HandlesInv, SaveSucceeds
<1>4. QED  BY <1>1, <1>2, <1>3, IdInvariant, PTL DEF IdSpec

-----------------------------------------------------------------------------
(***************************************************************************)
(* Who keeps a readable handle.  The loop goes through the identities in   *)
(* the order of the sort, and a handle is taken from whoever comes to it   *)
(* second.                                                                 *)
(***************************************************************************)
Before(p, q) == Fold(people[p].name) < Fold(people[q].name) \/ (SameName(p, q) /\ p < q)

Readable(h) == h = ReadableHandle(h.address)

\* What grouping gives: a digest of the name and the addresses, or an address.
GivenFirst(h) == h.over = NoAddress /\ (IsDigest(h) \/ Readable(h))

\* Whoever is behind the loop with a readable handle precedes all that is ahead,
\* and so does all that is ahead among itself.
Sorted ==
    \A m, n \in DOMAIN order :
        /\ m < n /\ order[n] \in rest
        /\ order[m] \in rest \/ ~IsDigest(people[order[m]].handle)
        => MayPrecede(order[m], order[n])

\* A handle that was taken is held behind the loop.
TakenIsHeld ==
    \A q \in kept \ rest :
        people[q].handle.over # NoAddress =>
            \E r \in kept \ rest : people[r].handle = ReadableHandle(people[q].handle.over)

FirstsKeep ==
    \A p, q \in kept \ rest :
        ~IsDigest(people[p].handle) /\ people[q].handle.over = people[p].handle.address
            => Before(p, q)

OrderInv ==
    /\ stage = "absorb" => \A p \in DOMAIN people : GivenFirst(people[p].handle)
    /\ stage = "handles" =>
           /\ \A p \in rest : GivenFirst(people[p].handle)
           /\ \A p \in kept : IsDigest(people[p].handle) \/ Readable(people[p].handle)
           /\ \A q \in kept \ rest : \E m \in DOMAIN order : order[m] = q
           /\ Sorted /\ TakenIsHeld /\ FirstsKeep
    /\ stage = "served" => FirstKeepsHandle

\* Of two people with one readable handle the sort looks at name and position.
LEMMA OneHandleOrder ==
    ASSUME NEW p, NEW q, MayPrecede(p, q), people[p].handle = people[q].handle
    PROVE  Before(p, q)
BY DEF MayPrecede, Before

\* A step of the loop: the handle stays, or somebody behind the loop holds it.
LEMMA OrderInvSettle ==
    ASSUME IdInv, OrderInv, NEW p \in rest, Settle(p)
    PROVE  OrderInv'
<1> DEFINE given == people[p].handle
           h == IF given \in Seen THEN FallbackDigest(people[p]) ELSE given
           settled == kept \ rest
<1>1. /\ stage = "handles" /\ stage' = stage /\ UNCHANGED <<kept, absorbed, order>>
      /\ rest' = rest \ {p} /\ p \in kept /\ p \in DOMAIN people
      /\ \A q \in DOMAIN people : q # p => people'[q] = people[q]
      /\ people'[p] = [name |-> people[p].name, keys |-> people[p].keys,
                       members |-> people[p].members, handle |-> h]
  BY SettleChanges
<1>2. LoopsInv
  BY <1>1 DEF IdInv, GroupedInv
<1>3. kept \subseteq DOMAIN people /\ rest \subseteq kept
  BY <1>1, <1>2 DEF LoopsInv, Live
<1>4. /\ \A q \in rest : GivenFirst(people[q].handle)
      /\ \A q \in kept : IsDigest(people[q].handle) \/ Readable(people[q].handle)
      /\ \A q \in settled : \E m \in DOMAIN order : order[m] = q
      /\ Sorted /\ TakenIsHeld /\ FirstsKeep
  BY <1>1 DEF OrderInv
<1>5. PICK n \in DOMAIN order :
          p = order[n] /\ \A m \in DOMAIN order : m < n <=> order[m] \notin rest
  BY DEF Settle
<1>6. settled' = settled \cup {p}
  BY <1>1
<1>7. \A q \in kept : people'[q].name = people[q].name
  BY <1>1, <1>3
<1>8. people'[p].handle = h /\ \A q \in kept : q # p => people'[q].handle = people[q].handle
  BY <1>1, <1>3
<1>9. GivenFirst(given)
  BY <1>4
<1>10. given \in Seen => IsDigest(h) /\ h.over = given.address
  BY DEF FallbackDigest, IsDigest
<1>11. IsDigest(h) \/ Readable(h)
  BY <1>9, <1>10 DEF GivenFirst
<1>12. \A q \in rest' : GivenFirst(people'[q].handle)
  BY <1>1, <1>3, <1>4, <1>8
<1>13. \A q \in kept' : IsDigest(people'[q].handle) \/ Readable(people'[q].handle)
  BY <1>1, <1>4, <1>8, <1>11
<1>14. \A q \in settled' : \E m \in DOMAIN order' : order'[m] = q
  BY <1>1, <1>4, <1>5, <1>6
<1>15. ASSUME NEW i \in DOMAIN order, NEW k \in DOMAIN order, i < k, order[k] \in rest',
              order[i] \in rest' \/ ~IsDigest(people'[order[i]].handle)
       PROVE  MayPrecede(order[i], order[k])'
  <2>1. order[i] \in kept /\ order[k] \in kept /\ order[k] # p /\ order[k] \in rest
    BY <1>1, <1>2, <1>15 DEF LoopsInv
  <2>2. people'[order[i]].handle = people[order[i]].handle
    BY <1>1, <1>8, <1>10, <1>15, <2>1
  <2>3. MayPrecede(order[i], order[k])
    BY <1>1, <1>4, <1>15, <2>1, <2>2 DEF Sorted
  <2>4. order[i]' = order[i] /\ order[k]' = order[k]
    BY <1>1
  <2>5. QED  BY <1>7, <1>8, <2>1, <2>2, <2>3, <2>4 DEF MayPrecede, SameName
<1>16. Sorted'
  BY <1>1, <1>15 DEF Sorted
<1>17. ASSUME NEW r \in settled PROVE people'[r].handle = people[r].handle /\ r # p
  BY <1>8, <1>17
<1>18. ASSUME NEW q \in settled', people'[q].handle.over # NoAddress
       PROVE  \E r \in settled' : people'[r].handle = ReadableHandle(people'[q].handle.over)
  <2>1. CASE q = p
    <3>1. given \in Seen
      BY <1>8, <1>9, <1>18, <2>1 DEF GivenFirst
    <3>2. PICK r \in settled : people[r].handle = given
      BY <3>1 DEF Seen
    <3>3. ~IsDigest(given)
      BY <1>8, <1>10, <1>18, <2>1, <3>1 DEF IsDigest
    <3>4. given = ReadableHandle(people'[q].handle.over)
      BY <1>8, <1>9, <1>10, <2>1, <3>1, <3>3 DEF GivenFirst, Readable
    <3>5. QED  BY <1>6, <1>17, <3>2, <3>4
  <2>2. CASE q \in settled
    <3>1. PICK r \in settled : people[r].handle = ReadableHandle(people[q].handle.over)
      BY <1>4, <1>17, <1>18, <2>2 DEF TakenIsHeld
    <3>2. QED  BY <1>6, <1>17, <2>2, <3>1
  <2>3. QED  BY <1>6, <2>1, <2>2
<1>19. ASSUME NEW r \in settled', NEW q \in settled', ~IsDigest(people'[r].handle),
              people'[q].handle.over = people'[r].handle.address
       PROVE  Before(r, q)'
  <2>0. people'[q].handle.over # NoAddress /\ r \in kept /\ q \in kept
    BY <1>1, <1>6, <1>19 DEF IsDigest
  <2>1. CASE r \in settled /\ q \in settled
    BY <1>4, <1>7, <1>17, <1>19, <2>0, <2>1 DEF FirstsKeep, Before, SameName
  <2>2. CASE q = p
    <3>1. given \in Seen
      BY <1>8, <1>9, <2>0, <2>2 DEF GivenFirst
    <3>2. r # p /\ r \in settled
      BY <1>6, <1>8, <1>10, <1>19, <3>1
    <3>3. people[r].handle = ReadableHandle(given.address) /\ ~IsDigest(people[r].handle)
      BY <1>4, <1>8, <1>10, <1>17, <1>19, <2>0, <2>2, <3>1, <3>2 DEF Readable
    <3>4. given = ReadableHandle(given.address)
      BY <1>9, <3>3 DEF GivenFirst, Readable, IsDigest, ReadableHandle
    <3>5. PICK m \in DOMAIN order : order[m] = r
      BY <1>4, <3>2
    <3>6. m < n
      BY <1>5, <3>2, <3>5
    <3>7. MayPrecede(r, p)
      BY <1>4, <1>5, <3>3, <3>5, <3>6 DEF Sorted
    <3>8. Before(r, p)
      BY <3>3, <3>4, <3>7, OneHandleOrder
    <3>9. QED  BY <1>7, <2>0, <2>2, <3>8 DEF Before, SameName
  <2>3. CASE r = p /\ q \in settled
    <3>1. given \notin Seen /\ people'[p].handle = given
      BY <1>8, <1>10, <1>19, <2>3
    <3>2. PICK s \in settled : people[s].handle = ReadableHandle(people[q].handle.over)
      BY <1>4, <1>17, <2>0, <2>3 DEF TakenIsHeld
    <3>3. given = ReadableHandle(people[q].handle.over)
      BY <1>9, <1>17, <1>19, <2>3, <3>1 DEF GivenFirst, Readable
    <3>4. QED  BY <3>1, <3>2, <3>3 DEF Seen
  <2>4. QED  BY <1>6, <2>1, <2>2, <2>3
<1> HIDE DEF h, given
<1>20. TakenIsHeld' /\ FirstsKeep'
  BY <1>18, <1>19 DEF TakenIsHeld, FirstsKeep
<1>21. QED  BY <1>1, <1>12, <1>13, <1>14, <1>16, <1>20 DEF OrderInv, GivenFirst, Readable, IsDigest, ReadableHandle, NoRows

\* Absorbing leaves the handles as they are.
LEMMA OrderInvAbsorb ==
    ASSUME IdInv, OrderInv, Absorb
    PROVE  OrderInv'
<1>1. PICK p \in rest : Addressed(p) \/ FoldedInto(p) \/ Ambiguous(p) \/ FirstOfName(p)
  BY DEF Absorb
<1>2. stage = "absorb" /\ stage' = stage
  BY <1>1 DEF Addressed, FoldedInto, Ambiguous, FirstOfName, Visit
<1>3. \A q \in DOMAIN people : GivenFirst(people[q].handle)
  BY <1>2 DEF OrderInv
<1>4. CASE ~FoldedInto(p)
  <2>1. people' = people
    BY <1>1, <1>4 DEF Addressed, Ambiguous, FirstOfName
  <2>2. QED  BY <1>2, <1>3, <2>1 DEF OrderInv, GivenFirst, Readable, IsDigest, ReadableHandle, NoRows
<1>5. CASE FoldedInto(p)
  <2>1. PICK q \in IF Candidates(p) = {} THEN NameOwner(p) ELSE Candidates(p) :
           /\ Cardinality(Candidates(p)) <= 1
           /\ people' = [people EXCEPT ![q].members = @ \cup people[p].members]
    BY <1>5 DEF FoldedInto
  <2>2. people[p].keys = {}
    BY <1>5 DEF FoldedInto
  <2>3. q \in Live
    BY <1>2, <2>1, <2>2, FoldTarget
  <2>4. PeopleInv /\ LoopsInv
    BY <1>2 DEF IdInv, GroupedInv
  <2>5. q \in DOMAIN people
    BY <2>3, <2>4 DEF LoopsInv
  <2>6. PersonOK(q)
    BY <2>4, <2>5 DEF PeopleInv
  <2>7. /\ DOMAIN people' = DOMAIN people
        /\ \A r \in DOMAIN people : r # q => people'[r] = people[r]
        /\ people'[q] = [name |-> people[q].name, keys |-> people[q].keys,
                         members |-> people[q].members \cup people[p].members,
                         handle |-> people[q].handle]
    BY <2>1, <2>4, <2>5, <2>6, MembersGrow DEF PeopleInv, PersonOK
  <2>8. \A r \in DOMAIN people : people'[r].handle = people[r].handle
    BY <2>5, <2>7
  <2>9. \A r \in DOMAIN people' : GivenFirst(people'[r].handle)
    BY <1>3, <2>7, <2>8
  <2>10. QED  BY <1>2, <2>9 DEF OrderInv, GivenFirst, Readable, IsDigest, ReadableHandle, NoRows
<1>6. QED  BY <1>4, <1>5

\* Grouping gives digests and addresses.
LEMMA OrderInvGroup ==
    ASSUME IdInv, UNCHANGED vars, Group
    PROVE  OrderInv'
<1>1. stage' = "absorb" /\ PeopleInv'
  BY GroupStep DEF GroupedInv
<1>2. \A i : Identity(i) = [name |-> NameOf(i), keys |-> KeysOf(i), members |-> ClassOf(i),
                           handle |-> IdentityHandle(KeysOf(i), NameOf(i))]
  BY DEF Identity, NameOf, KeysOf
<1>3. ASSUME NEW p \in DOMAIN people' PROVE GivenFirst(people'[p].handle)
  <2>1. p \in Roots /\ people'[p] = Identity(p)
    BY <1>3 DEF Group
  <2>2. people'[p].handle = IdentityHandle(KeysOf(p), NameOf(p))
    BY <1>2, <2>1
  <2>3. QED  BY <2>2 DEF IdentityHandle, Digest, ReadableHandle, GivenFirst, Readable, IsDigest
<1>4. QED  BY <1>1, <1>3 DEF OrderInv, GivenFirst, Readable, IsDigest, ReadableHandle, NoRows

\* What is kept in order of the sort goes into the loop in that order.
LEMMA OrderInvSort ==
    ASSUME IdInv, OrderInv, Sort
    PROVE  OrderInv'
<1>1. /\ stage = "absorb" /\ stage' = "handles"
      /\ rest' = kept /\ kept' = kept /\ people' = people
      /\ \A m, n \in DOMAIN order' : m < n => MayPrecede(order'[m], order'[n])
  BY DEF Sort
<1>2. kept \subseteq DOMAIN people
  BY <1>1 DEF IdInv, GroupedInv, LoopsInv, Live
<1>3. \A p \in kept : GivenFirst(people[p].handle)
  BY <1>1, <1>2 DEF OrderInv
<1>4. kept' \ rest' = {}
  BY <1>1
<1>5. Sorted'
  BY <1>1 DEF Sorted, MayPrecede, SameName
<1>6. TakenIsHeld' /\ FirstsKeep'
  BY <1>4 DEF TakenIsHeld, FirstsKeep
<1>7. \A p \in kept : IsDigest(people[p].handle) \/ Readable(people[p].handle)
  BY <1>3 DEF GivenFirst
<1>8. QED  BY <1>1, <1>3, <1>4, <1>5, <1>6, <1>7
      DEF OrderInv, GivenFirst, Readable, IsDigest, ReadableHandle, NoRows

\* Every step keeps the first in sorted order their handles.
LEMMA OrderInvStep ==
    ASSUME IdInv, OrderInv, [IdNext]_<<vars, idVars>>
    PROVE  OrderInv'
<1>1. CASE UNCHANGED idVars
  <2>1. UNCHANGED <<people, rest, kept, absorbed, order, stage>>
    BY <1>1 DEF idVars
  <2>2. (stage = "handles" => Sorted')
    BY <2>1 DEF OrderInv, Sorted, MayPrecede, SameName
  <2>3. (stage = "handles" => TakenIsHeld' /\ FirstsKeep')
    BY <2>1 DEF OrderInv, TakenIsHeld, FirstsKeep, Before, SameName, ReadableHandle, NoRows
  <2>4. (stage = "served" => FirstKeepsHandle')
    BY <2>1 DEF OrderInv, FirstKeepsHandle, SameName
  <2>5. QED  BY <2>1, <2>2, <2>3, <2>4
        DEF OrderInv, GivenFirst, Readable, IsDigest, ReadableHandle, NoRows
<1>2. CASE UNCHANGED vars /\ Group
  BY <1>2, OrderInvGroup
<1>3. CASE Absorb
  BY <1>3, OrderInvAbsorb
<1>4. CASE Sort
  BY <1>4, OrderInvSort
<1>5. CASE EnsureUnique
  BY <1>5, OrderInvSettle DEF EnsureUnique
<1>6. CASE Replace
  <2>1. /\ stage = "handles" /\ rest = {} /\ stage' \in {"served", "failed"}
        /\ kept' = kept /\ people' = people
    BY <1>6 DEF Replace
  <2>2. FirstsKeep
    BY <2>1 DEF OrderInv
  <2>3. FirstKeepsHandle'
    BY <2>1, <2>2 DEF FirstsKeep, FirstKeepsHandle, Before, SameName
  <2>4. QED  BY <2>1, <2>3 DEF OrderInv
<1>7. QED  BY <1>1, <1>2, <1>3, <1>4, <1>5, <1>6 DEF IdNext, Finish, idVars

\* Of two identities that would have one readable handle, the one that is
\* stored under it is the first by folded name and, within a name, by record.
THEOREM FirstKeeps == IdSpec => []FirstKeepsHandle
<1>1. IdInit => OrderInv
  BY DEF IdInit, OrderInv
<1>2. IdInv /\ OrderInv /\ [IdNext]_<<vars, idVars>> => OrderInv'
  BY OrderInvStep
<1>3. OrderInv => FirstKeepsHandle
  BY DEF OrderInv, FirstKeepsHandle
<1>4. QED  BY <1>1, <1>2, <1>3, IdInvariant, PTL DEF IdSpec
=============================================================================
