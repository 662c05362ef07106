----------------------------- MODULE Identities -----------------------------
(***************************************************************************)
(* resolve() after its scan (resolver.py:189-209, 231-307) and the saving  *)
(* of its result (store.py:241-288): grouping, naming, dropping shortcodes,*)
(* absorbing the addressless by name, sorting, making handles unique, and  *)
(* one transaction that inserts every identity under its handle.           *)
(***************************************************************************)
EXTENDS Resolver

VARIABLES
    people,    \* identity of each class, by the class's first record
    rest,      \* identities the current loop has not visited
    kept,      \* identities that stay
    absorbed,  \* kept addressless identities that own their name
    order,     \* the kept identities in sorted order
    stage      \* "scan", "absorb", "handles", "served" or "failed"

idVars == <<people, rest, kept, absorbed, order, stage>>

NoAddress == 0
ASSUME IdentitiesAssumption == NoAddress \notin Addresses

(***************************************************************************)
(* Handles.  A digest is modelled by what it is computed from.             *)
(***************************************************************************)
NoRows == [row \in SourceRows |-> 0]
RowsOf(members) ==
    [row \in SourceRows |-> Cardinality({i \in members : records[i].row = row})]

ReadableHandle(a) ==
    [address |-> a, name |-> NoName, keys |-> {}, rows |-> NoRows, over |-> NoAddress]
Digest(name, keys) ==
    [address |-> NoAddress, name |-> name, keys |-> keys, rows |-> NoRows,
     over |-> NoAddress]
\* The digest of an identity whose preferred handle is taken.
FallbackDigest(identity) ==
    [address |-> NoAddress, name |-> identity.name, keys |-> identity.keys,
     rows |-> RowsOf(identity.members), over |-> identity.handle.address]

IsDigest(handle) == handle.address = NoAddress

IdentityHandle(keys, name) ==
    IF keys \ hubs = {} THEN Digest(name, keys) ELSE ReadableHandle(LeastKey(keys \ hubs))

(***************************************************************************)
(* Names.  The longest name wins, ties break alphabetically; a person no   *)
(* record names is shown by the least address.                             *)
(***************************************************************************)
Outranks(m, n) ==
    \/ NameLength[m] > NameLength[n]
    \/ NameLength[m] = NameLength[n] /\ m <= n

DisplayName(members, keys) ==
    LET names == {records[i].name : i \in members} \ {NoName}
    IN  IF names # {} THEN CHOOSE m \in names : \A n \in names : Outranks(m, n)
        ELSE IF keys # {} THEN LeastKey(keys) ELSE NoName

Fold(name) == IF name \in Names THEN Folded[name] ELSE name
SameName(p, q) == Fold(people[p].name) = Fold(people[q].name)

(***************************************************************************)
(* The loop that groups records by class and drops shortcodes              *)
(***************************************************************************)
ClassOf(i) == {j \in Positions(records) : SamePerson(i, j)}
Roots == {i \in Positions(records) : \A j \in ClassOf(i) : i <= j}

\* Mutant of Identity: the addresses of the first record only.
IdentityOfFirstRecord(i) ==
    LET name == DisplayName(ClassOf(i), records[i].keys)
    IN  [name |-> name, keys |-> records[i].keys, members |-> ClassOf(i),
         handle |-> IdentityHandle(records[i].keys, name)]

Identity(i) ==
    LET keys == UNION {records[j].keys : j \in ClassOf(i)}
        name == DisplayName(ClassOf(i), keys)
    IN  [name |-> name, keys |-> keys, members |-> ClassOf(i),
         handle |-> IdentityHandle(keys, name)]

Group ==
    /\ stage = "scan" /\ Scanned
    /\ LET shown == {i \in Roots : IsPerson(Identity(i).name, Identity(i).keys)}
       IN  /\ people' = [i \in shown |-> Identity(i)]
           /\ rest' = shown
    /\ stage' = "absorb"
    /\ UNCHANGED <<kept, absorbed, order>>

(***************************************************************************)
(* _absorb_addressless                                                     *)
(***************************************************************************)
Visit(p) ==
    /\ stage = "absorb"
    /\ p \in rest
    /\ \A q \in rest : p <= q
    /\ rest' = rest \ {p}
    /\ UNCHANGED <<order, stage>>

Candidates(p) == {q \in DOMAIN people : people[q].keys # {} /\ SameName(p, q)}
NameOwner(p)  == {q \in absorbed : SameName(p, q)}

Addressed(p) ==
    /\ Visit(p)
    /\ people[p].keys # {}
    /\ kept' = kept \cup {p}
    /\ UNCHANGED <<people, absorbed>>

\* Mutant of FoldedInto: guesses between two people of the name.
FoldedIntoAny(p) ==
    /\ Visit(p)
    /\ people[p].keys = {}
    /\ \E q \in IF Candidates(p) = {} THEN NameOwner(p) ELSE Candidates(p) :
           people' = [people EXCEPT ![q].members = @ \cup people[p].members]
    /\ UNCHANGED <<kept, absorbed>>

\* Folded into the one addressed person of the name, or, when no addressed
\* person has it, into the first addressless one.
FoldedInto(p) ==
    /\ Visit(p)
    /\ people[p].keys = {}
    /\ \E q \in IF Candidates(p) = {} THEN NameOwner(p) ELSE Candidates(p) :
           /\ Cardinality(Candidates(p)) <= 1
           /\ people' = [people EXCEPT ![q].members = @ \cup people[p].members]
    /\ UNCHANGED <<kept, absorbed>>

\* Mutant of Ambiguous: passes over the record and does not keep it.
AmbiguousDropped(p) ==
    /\ Visit(p)
    /\ people[p].keys = {}
    /\ Cardinality(Candidates(p)) > 1
    /\ UNCHANGED <<people, kept, absorbed>>

Ambiguous(p) ==
    /\ Visit(p)
    /\ people[p].keys = {}
    /\ Cardinality(Candidates(p)) > 1
    /\ kept' = kept \cup {p}
    /\ UNCHANGED <<people, absorbed>>

\* Mutant of FirstOfName: remembers the owner of a name and does not keep it.
FirstOfNameDropped(p) ==
    /\ Visit(p)
    /\ people[p].keys = {}
    /\ Candidates(p) = {} /\ NameOwner(p) = {}
    /\ absorbed' = absorbed \cup {p}
    /\ UNCHANGED <<people, kept>>

FirstOfName(p) ==
    /\ Visit(p)
    /\ people[p].keys = {}
    /\ Candidates(p) = {} /\ NameOwner(p) = {}
    /\ kept' = kept \cup {p}
    /\ absorbed' = absorbed \cup {p}
    /\ UNCHANGED people

Absorb == \E p \in rest : Addressed(p) \/ FoldedInto(p) \/ Ambiguous(p) \/ FirstOfName(p)

(***************************************************************************)
(* identities.sort: by folded name, then handle; equal ones keep their     *)
(* order.  "mailto:" < "person:" < "tel:", and the order of two different  *)
(* digests is whatever the hash makes it.                                  *)
(***************************************************************************)
HandleMayPrecede(g, h) ==
    \/ IsDigest(g) /\ (IsDigest(h) \/ h.address \in Phones)
    \/ ~IsDigest(g) /\ IF IsDigest(h) THEN g.address \in Emails ELSE g.address <= h.address

\* Mutant of MayPrecede: sorts by handle alone.
MayPrecedeByHandle(p, q) ==
    IF people[p].handle = people[q].handle THEN p < q
    ELSE HandleMayPrecede(people[p].handle, people[q].handle)

MayPrecede(p, q) ==
    \/ Fold(people[p].name) < Fold(people[q].name)
    \/ /\ SameName(p, q)
       /\ IF people[p].handle = people[q].handle THEN p < q
          ELSE HandleMayPrecede(people[p].handle, people[q].handle)

Sort ==
    /\ stage = "absorb" /\ rest = {}
    /\ \E sorted \in [1 .. Cardinality(kept) -> kept] :
           /\ \A m, n \in DOMAIN sorted : m < n => MayPrecede(sorted[m], sorted[n])
           /\ order' = sorted
    /\ rest' = kept
    /\ stage' = "handles"
    /\ UNCHANGED <<people, kept, absorbed>>

(***************************************************************************)
(* _ensure_unique_handles                                                  *)
(***************************************************************************)
Seen == {people[p].handle : p \in kept \ rest}

\* Mutant of Settle: leaves a handle that is taken as it is.
SettleNothing(p) ==
    /\ stage = "handles"
    /\ \E n \in DOMAIN order :
           p = order[n] /\ \A m \in DOMAIN order : m < n <=> order[m] \notin rest
    /\ rest' = rest \ {p}
    /\ UNCHANGED <<people, kept, absorbed, order, stage>>

Settle(p) ==
    /\ stage = "handles"
    /\ \E n \in DOMAIN order :
           p = order[n] /\ \A m \in DOMAIN order : m < n <=> order[m] \notin rest
    /\ people' = IF people[p].handle \in Seen
                 THEN [people EXCEPT ![p].handle = FallbackDigest(people[p])]
                 ELSE people
    /\ rest' = rest \ {p}
    /\ UNCHANGED <<kept, absorbed, order, stage>>

EnsureUnique == \E p \in rest : Settle(p)

(***************************************************************************)
(* Store.replace: the handle is the primary key, and a second insert under *)
(* one rolls the whole transaction back.                                   *)
(***************************************************************************)
HandlesDiffer == \A p, q \in kept : people[p].handle = people[q].handle => p = q

Replace ==
    /\ stage = "handles" /\ rest = {}
    /\ stage' = IF HandlesDiffer THEN "served" ELSE "failed"
    /\ UNCHANGED <<people, rest, kept, absorbed, order>>

\* Store.get: the identities a lookup may answer with; the first row is taken.
Get(a) == {p \in kept : people[p].handle = ReadableHandle(a) \/ a \in people[p].keys}

IdInit ==
    /\ Init
    /\ people = << >>
    /\ rest = {} /\ kept = {} /\ absorbed = {}
    /\ order = << >>
    /\ stage = "scan"

Finish == Group \/ Absorb \/ Sort \/ EnsureUnique \/ Replace

IdNext ==
    \/ Next /\ UNCHANGED idVars
    \/ Finish /\ UNCHANGED vars

IdSpec == IdInit /\ [][IdNext]_<<vars, idVars>>

(***************************************************************************)
(* Properties                                                              *)
(***************************************************************************)
Handle == [address : Addresses \cup {NoAddress}, name : Names \cup Addresses,
           keys : SUBSET Addresses, rows : [SourceRows -> Nat],
           over : Addresses \cup {NoAddress}]

\* Every variable keeps to the values resolve() can hold in it.
IdTypeOK ==
    /\ DOMAIN people \subseteq Positions(records)
    /\ \A p \in DOMAIN people :
           people[p] \in [name : Names \cup Addresses, keys : SUBSET Addresses,
                          members : SUBSET Positions(records), handle : Handle]
    /\ absorbed \subseteq kept
    /\ kept \cup rest \subseteq DOMAIN people
    /\ {order[n] : n \in DOMAIN order} \subseteq kept
    /\ stage \in {"scan", "absorb", "handles", "served", "failed"}

Complete == stage \in {"served", "failed"}

\* resolver.py:200-209: no record is lost or doubled on the way to the store.
\* At the end each one is in exactly one identity, unless its class was dropped
\* as a shortcode or as having neither a name nor an address.
NoRecordLost ==
    Complete =>
        \A i \in Positions(records) :
            LET homes == {p \in kept : i \in people[p].members}
            IN  \/ Cardinality(homes) = 1
                \/ /\ homes = {}
                   /\ LET name == DisplayName(ClassOf(i), UNION {records[j].keys : j \in ClassOf(i)})
                      IN  name \in Shortcodes \cup {NoName}

\* "The absorbed record contributes no addresses" (resolver.py:234-241): two
\* records that only a name brought together are not both addressed, their
\* people had the same name, and no second addressed person has it.
NamesJoinOnlyAddressless ==
    \A p \in kept : \A i, j \in people[p].members :
        SamePerson(i, j) \/
        LET keysOf(k) == UNION {records[m].keys : m \in ClassOf(k)}
            nameOf(k) == Fold(DisplayName(ClassOf(k), keysOf(k)))
        IN  /\ keysOf(i) = {} \/ keysOf(j) = {}
            /\ nameOf(i) = nameOf(j)
            /\ \A q \in kept : people[q].keys # {} /\ SameName(p, q) => q = p

\* The addresses an identity is stored and found under are exactly those of
\* its records, and a lookup by an e-mail address finds one person at most
\* (store.py:326-335 takes whichever row comes first), unless the address is a
\* switchboard or a ruling divides its owners.
KeysFollowRecords ==
    /\ \A p \in kept :
           people[p].keys = UNION {records[i].keys : i \in people[p].members}
    /\ stage = "served" =>
           \A a \in Emails : Identifying(a) /\ Undivided(a) => Cardinality(Get(a)) <= 1

\* "A handle is a primary key; two people may never share one"
\* (resolver.py:277): the transaction that stores the result never fails on it.
SaveSucceeds == stage # "failed"

\* "A switchboard identifies no one" (resolver.py:72-74): no stored person is
\* named by an address on that many records under that many names.
HubsNameNoOne == \A p \in kept : Identifying(people[p].handle.address)

\* "The first in sorted order keeps the readable handle" (resolver.py:281): of
\* two people who would have one, the one who keeps it is first by folded name.
\* That "the outcome does not depend on iteration order" (282) is not so between
\* two of one folded name: there it is whoever has the first record.
FirstKeepsHandle ==
    stage = "served" =>
        \A p, q \in kept :
            ~IsDigest(people[p].handle) /\ people[q].handle.over = people[p].handle.address =>
                \/ Fold(people[p].name) < Fold(people[q].name)
                \/ SameName(p, q) /\ p < q
=============================================================================
