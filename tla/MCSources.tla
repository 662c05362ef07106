----------------------------- MODULE MCSources -----------------------------
(***************************************************************************)
(* Four contacts, and initial worlds in which every state of a source      *)
(* occurs: all in order, several out of order, some that are read by       *)
(* default only, and hardly any to be had.                                 *)
(***************************************************************************)
EXTENDS Sources

Book(book, heeds) == [installed |-> TRUE, running |-> TRUE, lists |-> TRUE,
                      heeds |-> heeds, book |-> book]
Card(collection, stem, readable, cards) ==
    [collection |-> collection, stem |-> stem, readable |-> readable, cards |-> cards]

AddressBook(exists, readable, sections) ==
    [configured |-> TRUE, exists |-> exists, readable |-> readable, sections |-> sections]

Abook == [none |-> AddressBook(FALSE, TRUE, << >>),
          good |-> AddressBook(TRUE, TRUE, <<1, Nobody, 2>>),
          dflt |-> [AddressBook(TRUE, TRUE, <<1, 2>>) EXCEPT !.configured = FALSE],
          bad  |-> AddressBook(TRUE, FALSE, <<1>>)]

BlueFerry == [none |-> [Book(<< >>, TRUE) EXCEPT !.installed = FALSE, !.running = FALSE],
              old  |-> [Book(<<1, 2>>, TRUE) EXCEPT !.lists = FALSE],
              down |-> [Book(<<2, 1>>, TRUE) EXCEPT !.running = FALSE],
              good |-> Book(<<1, 2, 3>>, TRUE),
              deaf |-> Book(<<1, 2, 3>>, FALSE),
              away |-> [Book(<<1, 2>>, TRUE) EXCEPT !.installed = FALSE]]

EdsBook(uid, enabled, connects, entries) ==
    [uid |-> uid, enabled |-> enabled, connects |-> connects, entries |-> entries]

Eds == [none |-> [installed |-> FALSE, reachable |-> FALSE, books |-> {}],
        down |-> [installed |-> TRUE, reachable |-> FALSE, books |-> {EdsBook(1, TRUE, TRUE, {1})}],
        bare |-> [installed |-> TRUE, reachable |-> TRUE, books |-> {}],
        good |-> [installed |-> TRUE, reachable |-> TRUE,
                  books |-> {EdsBook(1, TRUE, TRUE, {1, Nobody}), EdsBook(2, FALSE, TRUE, {2}),
                             EdsBook(3, TRUE, FALSE, {3}), EdsBook(4, TRUE, TRUE, {1, 3})}]]

Rc(name, readable, lines, includes) ==
    [name |-> name, readable |-> readable, lines |-> lines, includes |-> includes]

\* In `good` the alias file lies in the directory, and another outside it.
Neomutt == [none |-> [exists |-> FALSE, config |-> {}, files |-> [p \in {} |-> 0]],
            bare |-> [exists |-> TRUE, config |-> {1}, files |-> [p \in {1} |-> Rc("rc", TRUE, << >>, {})]],
            good |-> [exists |-> TRUE, config |-> {1, 2},
                      files |-> (1 :> Rc("rc", TRUE, << >>, {2, 3, 9}))
                             @@ (2 :> Rc("aliases", TRUE, <<<<1>>, <<2, Nobody, 3>>>>, {}))
                             @@ (3 :> Rc("aliases", TRUE, <<<<2>>>>, {}))]]

Index(installed, indexed, answers, seen) ==
    [installed |-> installed, database |-> installed, indexed |-> indexed,
     answers |-> answers, seen |-> seen]
Mail == {[contact |-> 1, count |-> 2, machine |-> FALSE],
         [contact |-> 2, count |-> 1, machine |-> FALSE],
         [contact |-> 3, count |-> 2, machine |-> TRUE]}

Notmuch == [none |-> Index(FALSE, FALSE, FALSE, {}),
            bare |-> Index(TRUE, FALSE, FALSE, {}),
            good |-> Index(TRUE, TRUE, TRUE, Mail)]

Cards(exists, files) == [configured |-> TRUE, exists |-> exists, files |-> files]

\* In `twin` a stem is in two collections; in `glob` one matches another stem
\* as a pattern, and one does not match itself.
Vdir == [none |-> Cards(FALSE, {}),
         good |-> Cards(TRUE, {Card(0, "a", TRUE, <<1>>), Card(1, "b", TRUE, <<2, Nobody, 3>>)}),
         deep |-> Cards(TRUE, {Card(1, "a", TRUE, <<1>>), Card(2, "b", FALSE, <<2>>)}),
         twin |-> Cards(TRUE, {Card(1, "a", TRUE, <<1>>), Card(2, "a", TRUE, <<2>>)}),
         glob |-> Cards(TRUE, {Card(1, "a", TRUE, <<1>>), Card(2, "?", TRUE, <<2>>),
                               Card(2, "[b]", TRUE, <<3>>)}),
         dflt |-> [Cards(TRUE, {Card(0, "a", TRUE, <<1>>)}) EXCEPT !.configured = FALSE]]

\* What the stems above match: "?" any of one letter, "[b]" the stem "b".
MCMatches(pattern, stem) ==
    \/ pattern = stem /\ stem # "[b]"
    \/ pattern = "?" /\ stem \in {"a", "b"}
    \/ pattern = "[b]" /\ stem = "b"

MCStates == [abook |-> {Abook.bad}, blueferry |-> {BlueFerry.good, BlueFerry.down},
             eds |-> {}, neomutt |-> {}, notmuch |-> {}, vdir |-> {Vdir.good, Vdir.deep}]

World(a, b, e, n, m, v) == [abook |-> a, blueferry |-> b, eds |-> e,
                            neomutt |-> n, notmuch |-> m, vdir |-> v]

MCInitialWorlds == {
    World(Abook.good, BlueFerry.good, Eds.good, Neomutt.good, Notmuch.good, Vdir.good),
    World(Abook.bad, BlueFerry.deaf, Eds.down, Neomutt.bare, Notmuch.bare, Vdir.twin),
    World(Abook.none, BlueFerry.old, Eds.bare, Neomutt.good, Notmuch.none, Vdir.dflt),
    World(Abook.dflt, BlueFerry.away, Eds.bare, Neomutt.none, Notmuch.good, Vdir.glob),
    World(Abook.none, BlueFerry.none, Eds.none, Neomutt.none, Notmuch.none, Vdir.none)}

\* Users with contacts whose probes may not find them: what the loader reads by
\* default is not configured, or notmuch is slow to answer the first time.
MCOnboardingWorlds == {
    World(Abook.none, BlueFerry.none, Eds.none, Neomutt.none, Notmuch.none, Vdir.dflt),
    World(Abook.none, BlueFerry.none, Eds.none, Neomutt.none, Notmuch.good, Vdir.none)}

MCHandEdits == {Garbled, [k \in {"blueferry", "eds", Other} |-> k = Other]}
=============================================================================
