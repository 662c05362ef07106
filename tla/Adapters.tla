------------------------------ MODULE Adapters ------------------------------
(***************************************************************************)
(* What each source adapter reads (sources/*.py), as a function of what the *)
(* source holds.  A row carries its identifier within the source, the      *)
(* contact it is about and the place it was read from.  Names, addresses   *)
(* and the syntax of the files are left out: an entry is a contact, or     *)
(* Nobody when it has nothing the adapter keeps.                           *)
(*                                                                         *)
(* What a source m holds:                                                  *)
(*   abook      configured (a path is set; the default one is read if not),*)
(*              exists, readable, sections: a sequence of entries          *)
(*   blueferry  installed (its command is on the PATH), running, lists (has *)
(*              ListContacts), heeds (the offset), book: a sequence of     *)
(*              contacts                                                   *)
(*   eds        installed, reachable, books: a set of [uid, enabled,       *)
(*              connects, entries]                                         *)
(*   neomutt    exists, config: the files in the directory, files: what is *)
(*              where, each [name, readable, lines, includes]              *)
(*   notmuch    installed, database (its configuration names one), indexed *)
(*              (.notmuch is there), answers (`notmuch address` exits with *)
(*              0), seen: a set of [contact, count, machine]               *)
(*   vdir       configured, exists, files: a set of [collection, stem,     *)
(*              readable, cards]                                           *)
(***************************************************************************)
EXTENDS Naturals, Sequences, FiniteSets

CONSTANTS
    Nobody,             \* an entry with neither a name nor an address
    Unreadable,         \* a min_messages that is not a number
    MinMessages,        \* min_messages as the user set it
    DefaultMessages,    \* MIN_MESSAGES
    AskedPage,          \* MAX_PAGE: what a ListContacts asks for
    BackendPage         \* what the backend clamps that to

ASSUME AdaptersAssumption ==
    /\ AskedPage \in Nat \ {0} /\ BackendPage \in Nat \ {0}
    /\ DefaultMessages \in Nat
    /\ MinMessages \in Nat \cup {Unreadable} /\ Unreadable \notin Nat

Row(id, contact, place) == [id |-> id, contact |-> contact, place |-> place]

Smaller(a, b) == IF a < b THEN a ELSE b

\* abook numbers its sections; the number goes with the position.
AbookRows(m) ==
    IF ~m.exists THEN {} ELSE
    {Row(<<n - 1>>, m.sections[n], "file") :
        n \in {n \in DOMAIN m.sections : m.sections[n] # Nobody}}

\* The books that are turned on and can be opened; the others are skipped.
EdsRows(m) ==
    UNION {{Row(<<b.uid, c>>, c, b.uid) : c \in b.entries \ {Nobody}} :
        b \in {b \in m.books : b.enabled /\ b.connects}}

(***************************************************************************)
(* neomutt: the files of the configuration directory, and after them the   *)
(* alias files those name.  One that is both is read twice.                *)
(***************************************************************************)
AliasFiles(m) ==
    (UNION {m.files[p].includes : p \in {p \in m.config : m.files[p].readable}})
        \cap DOMAIN m.files

Readings(m) ==
    {<<"config", p>> : p \in m.config} \cup {<<"alias", p>> : p \in AliasFiles(m)}

\* One line may name several people.
AliasLines(f, reading) ==
    UNION {{Row(<<f.name, n, k>>, f.lines[n][k], reading) :
            k \in {k \in DOMAIN f.lines[n] : f.lines[n][k] # Nobody}} : n \in DOMAIN f.lines}

NeomuttRows(m) ==
    UNION {AliasLines(m.files[r[2]], r) : r \in {r \in Readings(m) : m.files[r[2]].readable}}

\* At least one message, whatever the setting says.
Floor == IF MinMessages = Unreadable THEN DefaultMessages
         ELSE IF MinMessages > 1 THEN MinMessages ELSE 1

NotmuchRows(m) ==
    {Row(<<e.contact>>, e.contact, "index") :
        e \in {e \in m.seen : e.count >= Floor /\ ~e.machine}}

\* parse_vcards: the index counts the cards that are kept.
ParseCards(f) ==
    LET kept == {n \in DOMAIN f.cards : f.cards[n] # Nobody}
    IN {Row(<<f.stem, Cardinality({k \in kept : k < n})>>, f.cards[n], f) : n \in kept}

\* Every card under the directory; a file that cannot be read is skipped.
VdirRows(m) ==
    IF ~m.exists THEN {} ELSE UNION {ParseCards(f) : f \in {f \in m.files : f.readable}}

\* One reply of the backend.
ListContacts(m, offset) ==
    LET from == IF m.heeds THEN offset ELSE 0
        size == Smaller(AskedPage, BackendPage)
    IN SubSeq(m.book, from + 1, Smaller(from + size, Len(m.book)))

\* What the loader gives, for a source that is read in one go.
RowsOf(s, m) ==
    CASE s = "abook" -> AbookRows(m)
      [] s = "eds" -> EdsRows(m)
      [] s = "neomutt" -> NeomuttRows(m)
      [] s = "notmuch" -> NotmuchRows(m)
      [] s = "vdir" -> VdirRows(m)

\* Whether the loader raises.
Fails(s, m) ==
    CASE s = "abook" -> m.exists /\ ~m.readable
      [] s = "blueferry" -> ~m.running \/ ~m.lists
      [] s = "eds" -> ~m.installed \/ ~m.reachable
      [] s = "notmuch" -> ~m.installed \/ ~m.answers
      [] OTHER -> FALSE

\* Everyone the source has for its loader.
ContactsIn(s, m) ==
    IF Fails(s, m) THEN {}
    ELSE IF s = "blueferry" THEN {m.book[k] : k \in DOMAIN m.book}
    ELSE {r.contact : r \in RowsOf(s, m)}
=============================================================================
