----------------------------- MODULE Readiness -----------------------------
(***************************************************************************)
(* `omadex doctor` and the overlay's first screen (readiness.py): a cheap  *)
(* probe of each source that does not load it, and does not ask what the   *)
(* loader asks.                                                            *)
(***************************************************************************)
EXTENDS Adapters

CheckAbook(m) == IF m.configured /\ m.exists THEN "ready" ELSE "missing"

CheckNeomutt(m) ==
    CASE ~m.exists -> "missing"
      [] m.exists /\ NeomuttRows(m) = {} -> "empty"
      [] OTHER -> "ready"

CheckNotmuch(m) ==
    CASE ~m.installed -> "missing"
      [] m.installed /\ ~(m.database /\ m.indexed) -> "blocked"
      [] OTHER -> "ready"

CheckEds(m) ==
    CASE ~m.installed -> "missing"
      [] m.installed /\ ~m.reachable -> "blocked"
      [] m.installed /\ m.reachable /\ m.books = {} -> "empty"
      [] OTHER -> "ready"

CheckVdir(m) ==
    CASE ~(m.configured /\ m.exists) -> "missing"
      [] m.configured /\ m.exists /\ m.files = {} -> "empty"
      [] OTHER -> "ready"

CheckBlueferry(m) ==
    CASE ~m.installed -> "missing"
      [] m.installed /\ (~m.running \/ ~m.lists) -> "blocked"
      [] OTHER -> "ready"

\* The probes that ask another process and may get no answer in 10 s, or an
\* error, whatever the loader gets in its 30 or 120 s.
MayRaise == {"blueferry", "eds", "notmuch"}

\* A probe that raises is "blocked"; it asks only what is installed.
CheckAll(world, raised) ==
    LET checks == [abook |-> CheckAbook(world.abook),
                   blueferry |-> CheckBlueferry(world.blueferry),
                   eds |-> CheckEds(world.eds), neomutt |-> CheckNeomutt(world.neomutt),
                   notmuch |-> CheckNotmuch(world.notmuch), vdir |-> CheckVdir(world.vdir)]
    IN [s \in DOMAIN checks |->
            IF s \in raised /\ world[s].installed THEN "blocked" ELSE checks[s]]

NeedsOnboarding(world, raised) ==
    LET checks == CheckAll(world, raised) IN \A s \in DOMAIN checks : checks[s] # "ready"
=============================================================================
