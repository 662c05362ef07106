--------------------------- MODULE ResolverProofs ---------------------------
(***************************************************************************)
(* Machine-checked proofs about the resolver's scan: type correctness;     *)
(* that it implements the abstract merging, so that every merge it makes   *)
(* can be explained; that it settles every address and keeps or reports    *)
(* every ruling; and that the edges it counts are its merges.              *)
(***************************************************************************)
EXTENDS Resolver, MergingProofs, WellFoundedInduction, FiniteSetTheorems

\* Every non-empty set of naturals has a least member: of the finite initial
\* parts of the set, ordered by inclusion, one is minimal.
LEMMA LeastNatural ==
    ASSUME NEW T \in SUBSET Nat, T # {}
    PROVE  \E a \in T : \A b \in T : a <= b
<1> DEFINE Upto(a) == {b \in T : b <= a}
           Parts == {Upto(a) : a \in T}
<1>1. \A a \in T : Upto(a) \in FiniteSubsetsOf(Nat)
  <2> SUFFICES ASSUME NEW a \in T PROVE Upto(a) \in FiniteSubsetsOf(Nat)
    OBVIOUS
  <2>1. a \in Int /\ 0 \in Int
    OBVIOUS
  <2>2. IsFiniteSet(0 .. a)
    BY <2>1, FS_Interval, Zenon
  <2>3. Upto(a) \in SUBSET (0 .. a)
    <3>1. \A b \in T : b <= a => b \in 0 .. a
      OBVIOUS
    <3>2. QED  BY <3>1, Zenon
  <2>4. IsFiniteSet(Upto(a))
    BY <2>2, <2>3, FS_Subset, Zenon
  <2>5. Upto(a) \in SUBSET Nat
    OBVIOUS
  <2>6. QED  BY <2>4, <2>5 DEF FiniteSubsetsOf
<1>2. Parts \subseteq FiniteSubsetsOf(Nat) /\ Parts # {}
  BY <1>1
<1>3. PICK least \in Parts :
          \A part \in Parts : ~(<<part, least>> \in StrictSubsetOrdering(Nat))
  BY <1>2, FS_StrictSubsetOrderingWellFounded, WFMin
<1>4. PICK a \in T : least = Upto(a)
  OBVIOUS
<1>5. \A b \in T : a <= b
  <2> SUFFICES ASSUME NEW b \in T, b < a PROVE FALSE
    OBVIOUS
  <2>1. /\ \A c \in T : c <= b => c <= a
        /\ a <= a /\ ~(a <= b)
    OBVIOUS
  <2>2. Upto(b) \subseteq Upto(a) /\ a \in Upto(a) /\ a \notin Upto(b)
    BY <2>1, Zenon
  <2>3. Upto(b) \in SUBSET Nat /\ Upto(a) \in SUBSET Nat
    OBVIOUS
  <2>4. <<Upto(b), least>> \in StrictSubsetOrdering(Nat)
    BY <1>4, <2>2, <2>3 DEF StrictSubsetOrdering
  <2>5. QED
    <3>1. Upto(b) \in Parts
      OBVIOUS
    <3>2. QED  BY <1>3, <2>4, <3>1, Zenon
<1>6. QED  BY <1>5

\* The handles of a question are addresses of the records it is about.
LEMMA LeastKeyExists ==
    ASSUME NEW keys \in SUBSET Addresses, keys # {}
    PROVE  LeastKey(keys) \in keys
BY LeastNatural, AddressAssumption DEF LeastKey, Addresses

\* Every address that some record carries has a first owner.
LEMMA FirstExists ==
    ASSUME NEW rs, NEW a, Len(rs) \in Nat, Owners(rs, a) # {}
    PROVE  \E i \in Owners(rs, a) : First(rs, a) = {i}
<1>1. Owners(rs, a) \in SUBSET Nat
  BY DEF Owners, Positions
<1>2. PICK i \in Owners(rs, a) : \A j \in Owners(rs, a) : i <= j
  BY <1>1, LeastNatural
<1>3. First(rs, a) = {i}
  BY <1>1, <1>2 DEF First
<1>4. QED  BY <1>3

\* An address has at most one first owner.
LEMMA FirstUnique ==
    ASSUME NEW rs, NEW a, Len(rs) \in Nat,
           NEW i \in First(rs, a), NEW j \in First(rs, a)
    PROVE  i = j
BY DEF First, Owners, Positions

-----------------------------------------------------------------------------
(***************************************************************************)
(* Type correctness                                                        *)
(***************************************************************************)

\* A list of records has a length, and its records carry addresses.
LEMMA InputFacts ==
    ASSUME MergingTypeOK
    PROVE  /\ Len(records) \in Nat
           /\ \A i \in Positions(records) : records[i].keys \in SUBSET Addresses
           /\ AllKeys(records) \subseteq Addresses
<1>1. records \in Seq(RawRecord)
  BY DEF MergingTypeOK
<1>2. Len(records) \in Nat /\ \A i \in 1 .. Len(records) : records[i] \in RawRecord
  BY <1>1
<1>3. \A i \in Positions(records) : records[i].keys \in SUBSET Addresses
  BY <1>2 DEF RawRecord, Positions
<1>4. QED  BY <1>2, <1>3 DEF AllKeys

\* The scan starts within its types, whatever it is called with.
LEMMA InitTypeOK == Init => TypeOK
<1> SUFFICES ASSUME Init PROVE TypeOK
  OBVIOUS
<1>1. records \in Seq(RawRecord) /\ overrides \subseteq Override
  BY InputAssumption DEF Init
<1>2. rep \in [Positions(records) -> Positions(records)]
  BY DEF Init, Alone
<1>3. QED  BY <1>1, <1>2 DEF Init, TypeOK, MergingTypeOK

\* A union moves no record out of the list and counts at most one edge.
LEMMA UnionType ==
    ASSUME TypeOK, NEW i \in Positions(records), NEW j \in Positions(records),
           Union(i, j)
    PROVE  rep' \in [Positions(records) -> Positions(records)] /\ edges' \in Nat
BY DEF TypeOK, MergingTypeOK, Union, Joined

\* A question is about two of the records and asks after two of their addresses.
LEMMA QuestionType ==
    ASSUME MergingTypeOK,
           NEW i \in Owners(records, key), NEW j \in Owners(records, key)
    PROVE  /\ Question(i, j) \in [handle : Addresses \X Addresses,
                                 left : Positions(records),
                                 right : Positions(records), shared : Addresses]
           /\ LeastKey(records[i].keys) \in records[i].keys
           /\ LeastKey(records[j].keys) \in records[j].keys
<1>1. /\ i \in Positions(records) /\ key \in records[i].keys
      /\ j \in Positions(records) /\ key \in records[j].keys
  BY DEF Owners
<1>2. /\ records[i].keys \in SUBSET Addresses /\ records[i].keys # {}
      /\ records[j].keys \in SUBSET Addresses /\ records[j].keys # {}
  BY <1>1, InputFacts
<1>3. /\ LeastKey(records[i].keys) \in records[i].keys
      /\ LeastKey(records[j].keys) \in records[j].keys
  BY <1>2, LeastKeyExists
<1>4. key \in Addresses
  BY <1>1, <1>2
<1>5. PairKey(LeastKey(records[i].keys), LeastKey(records[j].keys))
         \in Addresses \X Addresses
  BY <1>2, <1>3 DEF PairKey
<1>6. QED  BY <1>1, <1>3, <1>4, <1>5 DEF Question, Handles

(***************************************************************************)
(* What the loop over one address relies on: the records still to compare  *)
(* all carry it, and it is no hub.                                         *)
(***************************************************************************)
LoopInv ==
    /\ others \subseteq Owners(records, key)
    /\ others # {} => ~IsHub(records, key)

TypeInv == TypeOK /\ LoopInv

\* The anchor and the other record of a comparison both carry the address.
LEMMA PairingOwners ==
    ASSUME LoopInv, NEW anchor \in First(records, key), NEW other \in others
    PROVE  anchor \in Owners(records, key) /\ other \in Owners(records, key)
BY DEF LoopInv, First

\* No step of the scan leaves the types or the facts the loop relies on.
LEMMA NextTypeInv == TypeInv /\ [Next]_vars => TypeInv'
<1> SUFFICES ASSUME TypeInv, [Next]_vars PROVE TypeInv'
  OBVIOUS
<1> USE DEF TypeInv, TypeOK
<1>1. CASE ForcePair
  <2>1. PICK pair \in toForce :
             /\ NextForced(pair)
             /\ \E left \in First(records, pair[1]), right \in First(records, pair[2]) :
                    Union(left, right)
    BY <1>1 DEF ForcePair
  <2>2. PICK left \in First(records, pair[1]), right \in First(records, pair[2]) :
             Union(left, right)
    BY <2>1
  <2>3. left \in Positions(records) /\ right \in Positions(records)
    BY DEF First, Owners
  <2>4. rep' \in [Positions(records) -> Positions(records)] /\ edges' \in Nat
    BY <2>2, <2>3, UnionType
  <2>5. QED  BY <2>1, <2>4 DEF NextForced, MergingTypeOK, LoopInv
<1>2. CASE SkipUnowned
  BY <1>2 DEF SkipUnowned, NextForced, MergingTypeOK, LoopInv
<1>3. CASE SkipHub
  BY <1>3 DEF SkipHub, NextKey, MergingTypeOK, LoopInv
<1>4. CASE OpenKey
  BY <1>4 DEF OpenKey, NextKey, MergingTypeOK, LoopInv, Owners
<1>5. CASE Compare
  <2>1. PICK anchor \in First(records, key), other \in others :
             \/ KeepApart(anchor, other) \/ Join(anchor, other)
             \/ NothingToAsk(anchor, other) \/ AskHuman(anchor, other)
    BY <1>5 DEF Compare
  <2>2. anchor \in Owners(records, key) /\ other \in Owners(records, key)
    BY PairingOwners
  <2>3. CASE KeepApart(anchor, other) \/ NothingToAsk(anchor, other)
    BY <2>3 DEF KeepApart, NothingToAsk, Pairing, MergingTypeOK, LoopInv
  <2>4. CASE Join(anchor, other)
    <3>1. anchor \in Positions(records) /\ other \in Positions(records)
      BY <2>2 DEF Owners
    <3>2. rep' \in [Positions(records) -> Positions(records)] /\ edges' \in Nat
      BY <2>4, <3>1, UnionType DEF Join
    <3>3. QED  BY <2>4, <3>2 DEF Join, Pairing, MergingTypeOK, LoopInv
  <2>5. CASE AskHuman(anchor, other)
    <3>1. review' \subseteq [handle : Addresses \X Addresses, left : Positions(records),
                            right : Positions(records), shared : Addresses]
      BY <2>2, <2>5, QuestionType DEF AskHuman
    <3>2. QED  BY <2>5, <3>1 DEF AskHuman, Pairing, MergingTypeOK, LoopInv
  <2>6. QED  BY <2>1, <2>3, <2>4, <2>5
<1>6. CASE UNCHANGED vars
  BY <1>6 DEF vars, scanVars, MergingTypeOK, LoopInv
<1>7. QED  BY <1>1, <1>2, <1>3, <1>4, <1>5, <1>6 DEF Next

\* Every variable of the scan keeps its type, for any input.
THEOREM ResolverTypeCorrect == Spec => []TypeOK
<1>1. Init => TypeInv
  BY InitTypeOK DEF Init, TypeInv, LoopInv
<1>2. TypeInv => TypeOK
  BY DEF TypeInv
<1>3. QED  BY <1>1, <1>2, NextTypeInv, PTL DEF Spec

\* Every record still to be compared with the anchor carries the address being
\* scanned, and that address is no switchboard.
THEOREM ResolverTypeInvariant == Spec => []TypeInv
<1>1. Init => TypeInv
  BY InitTypeOK DEF Init, TypeInv, LoopInv
<1>2. QED  BY <1>1, NextTypeInv, PTL DEF Spec

-----------------------------------------------------------------------------
(***************************************************************************)
(* Refinement                                                              *)
(***************************************************************************)

\* The scan starts where the abstract merging may start.
LEMMA InitMerging == Init => MergingInit
BY InputAssumption DEF Init, MergingInit

\* A union by ruling rests on the ruling, a union in the loop on the address.
LEMMA NextMerging == TypeInv /\ [Next]_vars => [MergingNext]_mvars
<1> SUFFICES ASSUME TypeInv, [Next]_vars PROVE [MergingNext]_mvars
  OBVIOUS
<1>1. CASE ForcePair
  <2>1. PICK pair \in toForce :
             /\ NextForced(pair)
             /\ \E left \in First(records, pair[1]), right \in First(records, pair[2]) :
                    Union(left, right)
    BY <1>1 DEF ForcePair
  <2>2. PICK left \in First(records, pair[1]), right \in First(records, pair[2]) :
             Union(left, right)
    BY <2>1
  <2>3. pair \in Forced(overrides)
    BY DEF TypeInv, TypeOK
  <2>4. Evidence(records, overrides, left, right)
    BY <2>3 DEF Evidence, RuledSame
  <2>5. left \in Positions(records) /\ right \in Positions(records)
    BY DEF First, Owners
  <2>6. Weld(left, right)
    BY <2>1, <2>2, <2>4 DEF Weld, NextForced, Union
  <2>7. QED  BY <2>5, <2>6 DEF MergingNext
<1>2. CASE SkipUnowned
  BY <1>2 DEF SkipUnowned, NextForced, mvars
<1>3. CASE SkipHub
  BY <1>3 DEF SkipHub, NextKey, mvars
<1>4. CASE OpenKey
  BY <1>4 DEF OpenKey, NextKey, mvars
<1>5. CASE Compare
  <2>1. PICK anchor \in First(records, key), other \in others :
             \/ KeepApart(anchor, other) \/ Join(anchor, other)
             \/ NothingToAsk(anchor, other) \/ AskHuman(anchor, other)
    BY <1>5 DEF Compare
  <2>2. CASE Join(anchor, other)
    <3>1. /\ anchor \in Owners(records, key) /\ other \in Owners(records, key)
          /\ ~IsHub(records, key)
      BY PairingOwners DEF TypeInv, LoopInv
    <3>2. SharesAddress(records, overrides, anchor, other)
      BY <2>2, <3>1 DEF SharesAddress, Join, Owners
    <3>3. Weld(anchor, other)
      BY <2>2, <3>2 DEF Weld, Join, Pairing, Union, Evidence
    <3>4. QED  BY <3>1, <3>3 DEF MergingNext, Owners
  <2>3. CASE KeepApart(anchor, other) \/ NothingToAsk(anchor, other)
             \/ AskHuman(anchor, other)
    BY <2>3 DEF KeepApart, NothingToAsk, AskHuman, Pairing, mvars
  <2>4. QED  BY <2>1, <2>2, <2>3
<1>6. CASE UNCHANGED vars
  BY <1>6 DEF vars, mvars
<1>7. QED  BY <1>1, <1>2, <1>3, <1>4, <1>5, <1>6 DEF Next

\* The scan only ever welds two records that evidence links.
THEOREM ScanImplementsMerging == Spec => ImplementsMerging
BY InitMerging, NextMerging, ResolverTypeInvariant, PTL
   DEF Spec, ImplementsMerging, MergingSpec

\* Two records are one person only when a chain of evidence links them.
THEOREM ScanExplained == Spec => []Explained
BY ScanImplementsMerging, MergesExplained, PTL DEF ImplementsMerging

-----------------------------------------------------------------------------
(***************************************************************************)
(* What the scan has settled so far.  The invariant says it of the rulings *)
(* already applied, the addresses already opened and, for the address      *)
(* being scanned, the records already compared.                            *)
(***************************************************************************)
Settled(a, i, j) ==
    \/ Denies(records, overrides, i, j)
    \/ SamePerson(i, j)
    \/ a \notin Emails /\ Raised(Handles(i, j))

AddressesSettled ==
    \A a \in AllKeys(records) \ todo :
        ~IsHub(records, a) =>
            \A i \in First(records, a), j \in Owners(records, a) \ First(records, a) :
                (a = key /\ j \in others) \/ Settled(a, i, j)

RulingsApplied ==
    \A pair \in Forced(overrides) \ toForce :
        \A i \in First(records, pair[1]), j \in First(records, pair[2]) :
            SamePerson(i, j)

QuestionsOpen ==
    \A item \in review :
        /\ item.handle = Handles(item.left, item.right)
        /\ LeastKey(records[item.left].keys) \in records[item.left].keys
        /\ LeastKey(records[item.right].keys) \in records[item.right].keys
        /\ ~Denies(records, overrides, item.left, item.right)

ScanInv == TypeInv /\ AddressesSettled /\ RulingsApplied /\ QuestionsOpen

\* No step changes the input, divides a person or withdraws a question.
LEMMA NextKeeps ==
    ASSUME TypeInv, [Next]_vars
    PROVE  /\ records' = records /\ overrides' = overrides
           /\ \A i, j \in Positions(records) : SamePerson(i, j) => rep'[i] = rep'[j]
           /\ review \subseteq review'
<1>1. [MergingNext]_mvars
  BY NextMerging
<1>2. /\ records' = records /\ overrides' = overrides
      /\ \A i, j \in Positions(records) : SamePerson(i, j) => rep'[i] = rep'[j]
  BY <1>1 DEF MergingNext, Weld, Joined, mvars, SamePerson, TypeInv, TypeOK, MergingTypeOK
<1>3. review \subseteq review'
  BY DEF Next, vars, scanVars, ForcePair, SkipUnowned, SkipHub, OpenKey, Compare,
         NextForced, NextKey, KeepApart, Join, NothingToAsk, AskHuman
<1>4. QED  BY <1>2, <1>3

\* What is settled stays settled.
LEMMA SettledStable ==
    ASSUME TypeInv, [Next]_vars, NEW a,
           NEW i \in Positions(records), NEW j \in Positions(records), Settled(a, i, j)
    PROVE  Settled(a, i, j)'
BY NextKeeps DEF Settled, SamePerson, Raised, Handles

\* Before the first step no ruling is applied and every address is still to come.
LEMMA InitScanInv == Init => ScanInv
BY InitTypeOK DEF Init, ScanInv, TypeInv, LoopInv, AddressesSettled, RulingsApplied,
                  QuestionsOpen

\* A "same" ruling is applied in the step that takes it off the list, for good.
LEMMA NextRulingsApplied ==
    ASSUME ScanInv, [Next]_vars
    PROVE  RulingsApplied'
<1> SUFFICES ASSUME NEW pair \in Forced(overrides), pair \notin toForce',
                    NEW i \in First(records, pair[1]), NEW j \in First(records, pair[2])
             PROVE  rep'[i] = rep'[j]
  BY NextKeeps DEF ScanInv, RulingsApplied, SamePerson
<1>1. i \in Positions(records) /\ j \in Positions(records)
  BY DEF First, Owners
<1>2. CASE pair \notin toForce
  BY <1>1, <1>2, NextKeeps DEF ScanInv, RulingsApplied
<1>3. CASE pair \in toForce
  <2>1. NextForced(pair) /\ (ForcePair \/ SkipUnowned)
    BY <1>3 DEF Next, vars, scanVars, ForcePair, SkipUnowned, SkipHub, OpenKey, Compare,
                NextForced, NextKey, Pairing, KeepApart, Join, NothingToAsk, AskHuman
  <2>2. CASE ForcePair
    <3>1. PICK p \in toForce :
             /\ NextForced(p)
             /\ \E l \in First(records, p[1]), r \in First(records, p[2]) : Union(l, r)
      BY <2>2 DEF ForcePair
    <3>2. p = pair
      BY <1>3, <3>1 DEF NextForced
    <3>3. PICK l \in First(records, pair[1]), r \in First(records, pair[2]) : Union(l, r)
      BY <3>1, <3>2
    <3>4. Len(records) \in Nat
      BY InputFacts DEF ScanInv, TypeInv, TypeOK
    <3>5. l = i /\ r = j
      BY <3>4, FirstUnique
    <3>6. QED
      BY <1>1, <3>3, <3>5 DEF Union, Joined, ScanInv, TypeInv, TypeOK, MergingTypeOK
  <2>3. CASE SkipUnowned
    <3>1. PICK p \in toForce : /\ NextForced(p)
                               /\ First(records, p[1]) = {} \/ First(records, p[2]) = {}
      BY <2>3 DEF SkipUnowned
    <3>2. p = pair
      BY <1>3, <3>1 DEF NextForced
    <3>3. QED  BY <3>1, <3>2
  <2>4. QED  BY <2>1, <2>2, <2>3
<1>4. QED  BY <1>2, <1>3

\* Only AskHuman adds a question, and it asks only what no ruling denies.
LEMMA NextQuestionsOpen ==
    ASSUME ScanInv, [Next]_vars
    PROVE  QuestionsOpen'
<1> SUFFICES ASSUME NEW item \in review'
             PROVE  /\ item.handle = Handles(item.left, item.right)
                    /\ LeastKey(records[item.left].keys) \in records[item.left].keys
                    /\ LeastKey(records[item.right].keys) \in records[item.right].keys
                    /\ ~Denies(records, overrides, item.left, item.right)
  BY NextKeeps DEF ScanInv, QuestionsOpen, Handles
<1>1. CASE item \in review
  BY <1>1 DEF ScanInv, QuestionsOpen
<1>2. CASE item \notin review
  <2>1. PICK anchor \in First(records, key), other \in others :
             AskHuman(anchor, other) /\ item = Question(anchor, other)
    BY <1>2 DEF Next, vars, scanVars, ForcePair, SkipUnowned, SkipHub, OpenKey, Compare,
                NextForced, NextKey, Pairing, KeepApart, Join, NothingToAsk, AskHuman
  <2>2. anchor \in Owners(records, key) /\ other \in Owners(records, key)
    BY PairingOwners DEF ScanInv, TypeInv
  <2>3. /\ LeastKey(records[anchor].keys) \in records[anchor].keys
        /\ LeastKey(records[other].keys) \in records[other].keys
    BY <2>2, QuestionType DEF ScanInv, TypeInv, TypeOK
  <2>4. QED  BY <2>1, <2>3 DEF AskHuman, Question
<1>3. QED  BY <1>1, <1>2

\* The anchor of an address is its one first owner.
LEMMA AnchorUnique ==
    ASSUME TypeInv, NEW a, NEW i \in First(records, a), NEW j \in First(records, a)
    PROVE  i = j
BY InputFacts, FirstUnique DEF TypeInv, TypeOK

\* Comparing a record with the anchor settles the two.
LEMMA CompareSettles ==
    ASSUME ScanInv, NEW anchor \in First(records, key), NEW other \in others,
           \/ KeepApart(anchor, other) \/ Join(anchor, other)
           \/ NothingToAsk(anchor, other) \/ AskHuman(anchor, other)
    PROVE  Settled(key, anchor, other)'
<1>1. /\ records' = records /\ overrides' = overrides
  BY DEF KeepApart, Join, NothingToAsk, AskHuman, Pairing
<1>2. anchor \in Positions(records) /\ other \in Positions(records)
  BY PairingOwners DEF ScanInv, TypeInv, Owners
<1>3. CASE KeepApart(anchor, other)
  BY <1>1, <1>3 DEF KeepApart, Settled
<1>4. CASE Join(anchor, other)
  BY <1>2, <1>4 DEF Join, Union, Joined, Settled, SamePerson,
                    ScanInv, TypeInv, TypeOK, MergingTypeOK
<1>5. CASE NothingToAsk(anchor, other)
  BY <1>5 DEF NothingToAsk, Settled, SamePerson
<1>6. CASE AskHuman(anchor, other)
  <2>1. key \notin Emails /\ key' = key
    BY <1>6 DEF AskHuman, Identifies, Pairing
  <2>2. Question(anchor, other).handle = Handles(anchor, other)
    BY DEF Question
  <2>3. \E item \in review' : item.handle = Handles(anchor, other)
    BY <1>6, <2>2 DEF AskHuman, Raised
  <2>4. QED  BY <1>1, <2>1, <2>3 DEF Settled, Raised, Handles
<1>7. QED  BY <1>3, <1>4, <1>5, <1>6

\* Every step leaves the addresses that are behind the scan settled.
LEMMA NextAddressesSettled ==
    ASSUME ScanInv, [Next]_vars
    PROVE  AddressesSettled'
<1>1. records' = records /\ overrides' = overrides
  BY NextKeeps DEF ScanInv
<1> SUFFICES ASSUME NEW a \in AllKeys(records), a \notin todo', ~IsHub(records, a),
                    NEW i \in First(records, a),
                    NEW j \in Owners(records, a) \ First(records, a),
                    ~(a = key' /\ j \in others')
             PROVE  Settled(a, i, j)'
  BY <1>1 DEF AddressesSettled
<1>2. i \in Positions(records) /\ j \in Positions(records)
  BY DEF First, Owners
<1>3. CASE Settled(a, i, j)
  BY <1>2, <1>3, SettledStable DEF ScanInv
<1>4. CASE ~Settled(a, i, j)
  <2>1. a \in todo \/ (a = key /\ j \in others)
    BY <1>4 DEF ScanInv, AddressesSettled
  <2>2. CASE a \in todo
    <3>1. NextKey(a) /\ (SkipHub \/ OpenKey)
      BY <2>2 DEF Next, vars, scanVars, ForcePair, SkipUnowned, SkipHub, OpenKey, Compare,
                  NextForced, NextKey, Pairing, KeepApart, Join, NothingToAsk, AskHuman
    <3>2. \A b \in todo : NextKey(b) => a = b
      BY <3>1 DEF NextKey
    <3>3. CASE SkipHub
      BY <3>2, <3>3 DEF SkipHub
    <3>4. CASE OpenKey
      BY <3>2, <3>4 DEF OpenKey
    <3>5. QED  BY <3>1, <3>3, <3>4
  <2>3. CASE a = key /\ j \in others /\ a \notin todo
    <3>1. ~(SkipHub \/ OpenKey)
      BY <2>3 DEF SkipHub, OpenKey, NextKey
    <3>2. Compare
      BY <2>3, <3>1 DEF Next, vars, scanVars, ForcePair, SkipUnowned, NextForced
    <3>3. PICK anchor \in First(records, key), other \in others :
             \/ KeepApart(anchor, other) \/ Join(anchor, other)
             \/ NothingToAsk(anchor, other) \/ AskHuman(anchor, other)
      BY <3>2 DEF Compare
    <3>4. other = j
      BY <2>3, <3>3 DEF KeepApart, Join, NothingToAsk, AskHuman, Pairing
    <3>5. anchor = i
      BY <2>3, AnchorUnique DEF ScanInv
    <3>6. Settled(key, i, j)'
      BY <3>3, <3>4, <3>5, CompareSettles
    <3>7. key' = key
      BY <3>3 DEF KeepApart, Join, NothingToAsk, AskHuman, Pairing
    <3>8. QED  BY <2>3, <3>6, <3>7
  <2>4. QED  BY <2>1, <2>2, <2>3
<1>5. QED  BY <1>3, <1>4

\* What is behind the scan is done: rulings taken off the list are applied, the
\* owners compared so far are settled, and the questions name no denied pair.
THEOREM ScanInvariant == Spec => []ScanInv
<1>1. ScanInv /\ [Next]_vars => ScanInv'
  BY NextTypeInv, NextRulingsApplied, NextQuestionsOpen, NextAddressesSettled DEF ScanInv
<1>2. QED  BY <1>1, InitScanInv, PTL DEF Spec

\* A pair the user ruled distinct is never put to them as a question.
THEOREM NeverReasked == Spec => []DeniedNotReasked
<1>1. ScanInv => DeniedNotReasked
  <2> SUFFICES ASSUME ScanInv, NEW item \in review,
                      item.handle \in Denied(records, overrides)
               PROVE  FALSE
    BY DEF DeniedNotReasked
  <2> DEFINE l == LeastKey(records[item.left].keys)
             r == LeastKey(records[item.right].keys)
  <2>1. /\ item.handle = PairKey(l, r) /\ ~Denies(records, overrides, item.left, item.right)
        /\ l \in records[item.left].keys /\ r \in records[item.right].keys
    BY DEF ScanInv, QuestionsOpen, Handles
  <2>2. item.handle = <<l, r>> \/ item.handle = <<r, l>>
    BY <2>1 DEF PairKey
  <2>3. \/ item.handle[1] = l /\ item.handle[2] = r
        \/ item.handle[1] = r /\ item.handle[2] = l
    BY <2>2
  <2>4. QED  BY <2>1, <2>3 DEF Denies
<1>2. QED  BY <1>1, ScanInvariant, PTL

\* A "same" ruling holds at the end of the scan.
THEOREM RulingsHold == Spec => []SameRulingsHold
<1>1. ScanInv => SameRulingsHold
  BY DEF ScanInv, RulingsApplied, SameRulingsHold, Scanned, RuledSame
<1>2. QED  BY <1>1, ScanInvariant, PTL

\* Every other owner of a phone is the anchor's person, denied, or asked about.
THEOREM PhonesSettled == Spec => []AnchorsSettled
<1>1. ScanInv => AnchorsSettled
  BY DEF ScanInv, AddressesSettled, AnchorsSettled, Scanned, Settled, Hubs
<1>2. QED  BY <1>1, ScanInvariant, PTL

\* The test for switchboards finds none short of either threshold, and all of
\* the others.
LEMMA HubOrIdentifying ==
    ASSUME MergingTypeOK, NEW a
    PROVE  IsHub(records, a) <=> ~Identifying(a)
<1> DEFINE own == Owners(records, a)
           named == {i \in own : records[i].name # NoName}
           names == {records[i].name : i \in own} \ {NoName}
           folded == {Folded[records[i].name] : i \in named}
<1>1. Len(records) \in Nat
  BY InputFacts
<1>2. IsFiniteSet(1 .. Len(records))
  BY <1>1, FS_Interval
<1>3. own \in SUBSET (1 .. Len(records)) /\ named \in SUBSET (1 .. Len(records))
  BY DEF Owners, Positions
<1>4. IsFiniteSet(own) /\ IsFiniteSet(named)
  BY <1>2, <1>3, FS_Subset
<1>5. IsFiniteSet(folded)
  <2> DEFINE f == [i \in named |-> Folded[records[i].name]]
  <2>1. f \in Surjection(named, folded)
    BY DEF Surjection
  <2> HIDE DEF f, named, folded
  <2>2. QED  BY <1>4, <2>1, FS_Surjection
<1>6. {Folded[n] : n \in names} = folded
  OBVIOUS
<1>7. Cardinality(own) \in Nat /\ Cardinality(folded) \in Nat
  BY <1>4, <1>5, FS_CardinalityType
<1>8. IsHub(records, a) <=> /\ Cardinality(own) >= HubRecordThreshold
                            /\ Cardinality(folded) >= HubNameThreshold
  BY <1>6 DEF IsHub
<1>9. Identifying(a) <=> \/ Cardinality(own) < HubRecordThreshold
                         \/ Cardinality(folded) < HubNameThreshold
  BY DEF Identifying
<1> HIDE DEF own, folded
<1>10. QED  BY <1>7, <1>8, <1>9, HubAssumption

\* At the end of the scan the owners of such an e-mail address are one person.
LEMMA EmailOwners ==
    ASSUME ScanInv, Scanned, NEW a \in Emails, Identifying(a), Undivided(a),
           NEW i \in Owners(records, a), NEW j \in Owners(records, a)
    PROVE  SamePerson(i, j)
<1>1. Len(records) \in Nat /\ a \in AllKeys(records)
  BY InputFacts DEF ScanInv, TypeInv, TypeOK, AllKeys, Owners
<1>2. ~IsHub(records, a)
  BY HubOrIdentifying DEF ScanInv, TypeInv, TypeOK
<1>3. PICK f \in Owners(records, a) : First(records, a) = {f}
  BY <1>1, FirstExists
<1>4. \A k \in Owners(records, a) : k = f \/ SamePerson(f, k)
  BY <1>1, <1>2, <1>3 DEF ScanInv, AddressesSettled, Scanned, Settled, Undivided
<1>5. QED  BY <1>4 DEF SamePerson

\* An e-mail address that is no switchboard and that no ruling divides has one
\* owner.
THEOREM EmailsHaveOneOwner == Spec => []EmailsJoin
<1>1. ScanInv => EmailsJoin
  BY EmailOwners DEF EmailsJoin
<1>2. QED  BY <1>1, ScanInvariant, PTL

\* A defeated "distinct" ruling between addresses that are on one record each,
\* or are e-mails whose owners the scan makes one person, is reported.
THEOREM DefeatedRulingsSurface == Spec => []RulingsSurface
<1>1. ScanInv => RulingsSurface
  <2> DEFINE sure(a) == \/ Owners(records, a) = First(records, a)
                        \/ a \in Emails /\ Identifying(a) /\ Undivided(a)
  <2> SUFFICES ASSUME ScanInv, Scanned, NEW pair \in Claimed(overrides) \ Conflicts,
                      sure(pair[1]), sure(pair[2]), OnePersonHolds(pair)
               PROVE  FALSE
    BY DEF RulingsSurface
  <2>1. Len(records) \in Nat
    BY InputFacts DEF ScanInv, TypeInv, TypeOK
  <2>2. ASSUME NEW a, sure(a), NEW i \in Owners(records, a)
        PROVE  \E f \in First(records, a) : SamePerson(f, i)
    <3>1. PICK f \in Owners(records, a) : First(records, a) = {f}
      BY <2>1, <2>2, FirstExists
    <3>2. CASE Owners(records, a) = First(records, a)
      BY <2>2, <3>1, <3>2 DEF SamePerson
    <3>3. CASE a \in Emails /\ Identifying(a) /\ Undivided(a)
      BY <2>2, <3>1, <3>3, EmailOwners
    <3>4. QED  BY <2>2, <3>2, <3>3
  <2>3. PICK i \in Owners(records, pair[1]), j \in Owners(records, pair[2]) : SamePerson(i, j)
    BY DEF OnePersonHolds
  <2>4. PICK l \in First(records, pair[1]) : SamePerson(l, i)
    BY <2>2, <2>3
  <2>5. PICK r \in First(records, pair[2]) : SamePerson(r, j)
    BY <2>2, <2>3
  <2>6. SamePerson(l, r)
    BY <2>3, <2>4, <2>5 DEF SamePerson
  <2>7. pair \in Denied(records, overrides)
    BY DEF Conflicts, Denied
  <2>8. QED  BY <2>6, <2>7 DEF Conflicts
<1>2. QED  BY <1>1, ScanInvariant, PTL

-----------------------------------------------------------------------------
(***************************************************************************)
(* The count of edges.  A class is as good as its representative, and a    *)
(* union that joins two classes takes one representative out of use.       *)
(***************************************************************************)
Reps == {rep[i] : i \in Positions(records)}
EdgesInv == edges + Cardinality(Reps) = Len(records)

\* There are no more representatives than records.
LEMMA RepsFinite ==
    ASSUME TypeOK
    PROVE  IsFiniteSet(Reps) /\ Cardinality(Reps) \in Nat
<1>1. Len(records) \in Nat
  BY InputFacts DEF TypeOK
<1>2. IsFiniteSet(1 .. Len(records))
  BY <1>1, FS_Interval
<1>3. Reps \in SUBSET (1 .. Len(records))
  BY DEF Reps, TypeOK, MergingTypeOK, Positions
<1>4. IsFiniteSet(Reps)
  BY <1>2, <1>3, FS_Subset
<1>5. QED  BY <1>4, FS_CardinalityType

\* Each class has one representative, and each representative a class.
LEMMA ClassesByRep ==
    ASSUME TypeOK
    PROVE  Cardinality(Classes) = Cardinality(Reps)
<1> DEFINE class(x) == {k \in Positions(records) : rep[k] = x}
           f == [x \in Reps |-> class(x)]
<1>1. Classes = {class(x) : x \in Reps}
  <2>1. \A i \in Positions(records) :
            {j \in Positions(records) : SamePerson(i, j)} = class(rep[i])
    BY DEF SamePerson
  <2>2. Classes = {class(rep[i]) : i \in Positions(records)}
    BY <2>1 DEF Classes
  <2> HIDE DEF class
  <2>3. QED  BY <2>2 DEF Reps
<1>2. \A x, y \in Reps : class(x) = class(y) => x = y
  BY DEF Reps
<1> HIDE DEF class
<1>3. f \in [Reps -> Classes]
  BY <1>1
<1>4. IsInjective(f)
  BY <1>2 DEF IsInjective
<1>5. \A c \in Classes : \E x \in Reps : f[x] = c
  BY <1>1
<1> HIDE DEF f
<1>6. f \in Bijection(Reps, Classes)
  BY <1>3, <1>4, <1>5 DEF Bijection, Injection, Surjection
<1>7. ExistsBijection(Reps, Classes)
  BY <1>6 DEF ExistsBijection
<1>8. QED  BY <1>7, RepsFinite, FS_Bijection

\* A union that joins two classes takes one representative away and is counted;
\* another changes neither.
LEMMA UnionCounts ==
    ASSUME TypeOK, EdgesInv, NEW i \in Positions(records), NEW j \in Positions(records),
           Union(i, j), UNCHANGED records
    PROVE  EdgesInv'
<1>1. rep \in [Positions(records) -> Positions(records)] /\ edges \in Nat
  BY DEF TypeOK, MergingTypeOK
<1>2. \A k \in Positions(records) : rep'[k] = IF rep[k] = rep[j] THEN rep[i] ELSE rep[k]
  BY <1>1 DEF Union, Joined
<1>3. Reps' = {rep'[k] : k \in Positions(records)}
  BY DEF Reps, Positions
<1>4. CASE rep[i] = rep[j]
  <2>1. \A k \in Positions(records) : rep'[k] = rep[k]
    BY <1>2, <1>4
  <2>2. Reps' = Reps
    BY <1>3, <2>1 DEF Reps
  <2>3. edges' = edges
    BY <1>4 DEF Union
  <2>4. QED  BY <2>2, <2>3 DEF EdgesInv
<1>5. CASE rep[i] # rep[j]
  <2>1. Reps' = Reps \ {rep[j]} /\ rep[j] \in Reps
    BY <1>2, <1>3, <1>5 DEF Reps
  <2>2. IsFiniteSet(Reps) /\ Cardinality(Reps) \in Nat
    BY RepsFinite
  <2>3. Cardinality(Reps') = Cardinality(Reps) - 1
    BY <2>1, <2>2, FS_RemoveElement
  <2>4. edges' = edges + 1
    BY <1>5 DEF Union
  <2>5. QED  BY <1>1, <2>2, <2>3, <2>4 DEF EdgesInv
<1>6. QED  BY <1>4, <1>5

\* At first every record is alone and no edge is counted.
LEMMA InitEdges == Init => EdgesInv
<1> SUFFICES ASSUME Init PROVE EdgesInv
  OBVIOUS
<1>1. Len(records) \in Nat
  BY InitTypeOK, InputFacts DEF TypeOK
<1>2. Reps = 1 .. Len(records) /\ edges = 0
  BY DEF Init, Alone, Reps, Positions
<1>3. Cardinality(1 .. Len(records)) = Len(records)
  <2>1. 1 \in Int /\ Len(records) \in Int
    BY <1>1
  <2>2. Cardinality(1 .. Len(records)) = IF 1 > Len(records) THEN 0 ELSE Len(records) - 1 + 1
    BY <2>1, FS_Interval, Zenon
  <2>3. QED  BY <1>1, <2>2
<1>4. QED  BY <1>1, <1>2, <1>3 DEF EdgesInv

\* Only the unions of the scan change the classes.
LEMMA NextEdges ==
    ASSUME TypeInv, EdgesInv, [Next]_vars
    PROVE  EdgesInv'
<1>k. records' = records
  BY NextKeeps
<1>u. ASSUME UNCHANGED <<rep, edges>> PROVE EdgesInv'
  BY <1>k, <1>u DEF EdgesInv, Reps
<1>1. CASE ForcePair
  <2>1. PICK left \in Positions(records), right \in Positions(records) : Union(left, right)
    BY <1>1 DEF ForcePair, First, Owners
  <2>2. QED  BY <1>k, <2>1, UnionCounts DEF TypeInv
<1>2. CASE \E anchor \in First(records, key), other \in others : Join(anchor, other)
  <2>1. PICK anchor \in First(records, key), other \in others : Join(anchor, other)
    BY <1>2
  <2>2. Union(anchor, other) /\ anchor \in Positions(records) /\ other \in Positions(records)
    BY <2>1, PairingOwners DEF Join, TypeInv, Owners
  <2>3. QED  BY <1>k, <2>2, UnionCounts DEF TypeInv
<1>3. CASE Compare /\ ~(\E anchor \in First(records, key), other \in others : Join(anchor, other))
  BY <1>3, <1>u DEF Compare, KeepApart, NothingToAsk, AskHuman
<1>4. CASE SkipUnowned \/ SkipHub \/ OpenKey \/ UNCHANGED vars
  BY <1>4, <1>u DEF SkipUnowned, SkipHub, OpenKey, NextKey, vars, scanVars
<1>5. QED
  BY <1>1, <1>2, <1>3, <1>4 DEF Next

\* The number of edges the command reports is the number of people that merging
\* saved, for every input: no union is counted that joined nothing.
THEOREM EdgesAreMerges == Spec => []EdgesCountMerges
<1>1. TypeInv /\ EdgesInv /\ [Next]_vars => EdgesInv'
  BY NextEdges
<1>2. TypeInv /\ EdgesInv => EdgesCountMerges
  BY ClassesByRep DEF TypeInv, EdgesInv, EdgesCountMerges
<1>3. QED  BY InitEdges, <1>1, <1>2, ResolverTypeInvariant, PTL DEF Spec
=============================================================================
