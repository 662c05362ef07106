------------------------------ MODULE Contacts ------------------------------
(***************************************************************************)
(* The vocabulary of models.py and normalize.py, and the questions the     *)
(* resolver asks of its input, as constant-level operators.                *)
(*                                                                         *)
(* Strings are naturals in their sort order, so that comparing strings is  *)
(* comparing numbers.  An address key is a member of Emails ("mailto:...") *)
(* or of Phones ("tel:..."), and every mailto: key sorts before every tel: *)
(* key.  A display name is a member of Names; NoName is the blank name.    *)
(***************************************************************************)
EXTENDS Naturals, FiniteSets, Sequences

CONSTANTS
    Emails, Phones,        \* normalised address keys, in sort order
    Names, NoName,         \* display names, in alphabetical order
    Words,                 \* the identifying words of names (name_tokens)
    NameWords,             \* name -> its identifying words
    Folded,                \* name -> its case-folded form
    NameLength,            \* name -> its length in characters
    Shortcodes,            \* the names that begin with "#" or "*"
    SourceRows,            \* (source, source_id) pairs
    HubRecordThreshold, HubNameThreshold

ASSUME AddressAssumption ==
    /\ Emails \subseteq Nat /\ Phones \subseteq Nat
    /\ \A e \in Emails, p \in Phones : e < p

ASSUME NameAssumption ==
    /\ Names \subseteq Nat
    /\ NoName \in Names /\ NoName \notin Shortcodes
    /\ Names \cap (Emails \cup Phones) = {}
    /\ NameWords \in [Names -> SUBSET Words]
    /\ NameWords[NoName] = {}
    /\ Folded \in [Names -> Names]
    /\ NameLength \in [Names -> Nat]
    /\ Shortcodes \subseteq Names

ASSUME HubAssumption ==
    HubRecordThreshold \in Nat \ {0} /\ HubNameThreshold \in Nat \ {0}

Addresses == Emails \cup Phones
RawRecord == [name : Names, keys : SUBSET Addresses, row : SourceRows]
Verdicts  == {"same", "distinct"}
Override  == [left : Addresses, right : Addresses, verdict : Verdicts]

(***************************************************************************)
(* normalize.py                                                            *)
(***************************************************************************)
PairKey(a, b) == IF a <= b THEN <<a, b>> ELSE <<b, a>>

\* Two names agree when they share an identifying word; a name with no
\* identifying word agrees with everything.
NamesAgree(m, n) ==
    \/ NameWords[m] = {}
    \/ NameWords[n] = {}
    \/ NameWords[m] \cap NameWords[n] # {}

IsPerson(name, keys) ==
    /\ name \notin Shortcodes
    /\ name # NoName \/ keys # {}

(***************************************************************************)
(* resolver.py: what a record list rs and a set of decisions os say        *)
(***************************************************************************)
Positions(rs) == 1 .. Len(rs)
AllKeys(rs)   == UNION {rs[i].keys : i \in Positions(rs)}

\* _index_keys: the positions of the records that carry address a.
Owners(rs, a) == {i \in Positions(rs) : a \in rs[i].keys}

\* key_owner and positions[0]: the set of the first record carrying a, empty
\* when no record does.
First(rs, a) == {i \in Owners(rs, a) : \A j \in Owners(rs, a) : i <= j}

Ruled(os, verdict) ==
    {PairKey(o.left, o.right) :
        o \in {q \in os : q.verdict = verdict /\ q.left # q.right}}

Forced(os)  == Ruled(os, "same")
Claimed(os) == Ruled(os, "distinct")

\* One record that carries both addresses outranks a "distinct" ruling.
Contradicted(rs, os) ==
    {pair \in Claimed(os) :
        \E i \in Positions(rs) : pair[1] \in rs[i].keys /\ pair[2] \in rs[i].keys}

Denied(rs, os) == Claimed(os) \ Contradicted(rs, os)

\* Mutant of Denies: looks at the pair in its stored order only.
DeniesOneWay(rs, os, i, j) ==
    \E pair \in Denied(rs, os) : pair[1] \in rs[i].keys /\ pair[2] \in rs[j].keys

Denies(rs, os, i, j) ==
    \E pair \in Denied(rs, os) :
        \/ pair[1] \in rs[i].keys /\ pair[2] \in rs[j].keys
        \/ pair[2] \in rs[i].keys /\ pair[1] \in rs[j].keys

\* Mutant of IsHub: one name less makes a switchboard.
IsHubTooSoon(rs, a) ==
    LET names == {rs[i].name : i \in Owners(rs, a)} \ {NoName}
    IN  /\ Cardinality(Owners(rs, a)) >= HubRecordThreshold
        /\ Cardinality({Folded[n] : n \in names}) >= HubNameThreshold - 1

\* Mutant of IsHub: it takes more records than the threshold.
IsHubTooLate(rs, a) ==
    LET names == {rs[i].name : i \in Owners(rs, a)} \ {NoName}
    IN  /\ Cardinality(Owners(rs, a)) > HubRecordThreshold
        /\ Cardinality({Folded[n] : n \in names}) >= HubNameThreshold

\* A switchboard: many records under many different names.
IsHub(rs, a) ==
    LET names == {rs[i].name : i \in Owners(rs, a)} \ {NoName}
    IN  /\ Cardinality(Owners(rs, a)) >= HubRecordThreshold
        /\ Cardinality({Folded[n] : n \in names}) >= HubNameThreshold

Hubs(rs) == {a \in AllKeys(rs) : IsHub(rs, a)}

\* Mutant of Identifies: an e-mail too wants names that agree.
IdentifiesByName(rs, a, i, j) == NamesAgree(rs[i].name, rs[j].name)

\* An address that a merge may rest on: any e-mail, or a phone whose two
\* records' names agree.
Identifies(rs, a, i, j) == a \in Emails \/ NamesAgree(rs[i].name, rs[j].name)

(***************************************************************************)
(* The three kinds of evidence (models.py): a "same" ruling joins the      *)
(* first owners of its two addresses; an address joins two of its owners   *)
(* unless it is a hub, the user denied the pair, or the names disagree.    *)
(***************************************************************************)
RuledSame(rs, os, i, j) ==
    \E pair \in Forced(os) : i \in First(rs, pair[1]) /\ j \in First(rs, pair[2])

SharesAddress(rs, os, i, j) ==
    /\ ~Denies(rs, os, i, j)
    /\ \E a \in rs[i].keys \cap rs[j].keys :
           ~IsHub(rs, a) /\ Identifies(rs, a, i, j)

Evidence(rs, os, i, j) ==
    \/ RuledSame(rs, os, i, j) \/ RuledSame(rs, os, j, i)
    \/ SharesAddress(rs, os, i, j)

\* _identity_handle of a record or a class with at least one usable address:
\* the least e-mail, or the least phone when it has none.
LeastKey(keys) == CHOOSE a \in keys : \A b \in keys : a <= b
=============================================================================
