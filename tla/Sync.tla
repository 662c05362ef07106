-------------------------------- MODULE Sync --------------------------------
(***************************************************************************)
(* engine.sync and the commands that run it, in the daemon and in any      *)
(* number of command-line processes over one store.  A sync loads the      *)
(* sources one by one, reads the decisions, resolves (a pure function of   *)
(* the two) and replaces the projection; the store serialises statements   *)
(* and transactions, and nothing serialises syncs.                         *)
(*                                                                         *)
(* rows[s] counts the edits made to source s: a projection is described by *)
(* the version of each source and the rulings it was built from.           *)
(***************************************************************************)
EXTENDS Integers, FiniteSets

CONSTANTS
    Processes,          \* the daemon and the command-line processes
    Daemon,             \* the daemon; in Processes when it is running
    SourceCount,        \* sources 1 .. SourceCount, in the order of SOURCES
    Pairs,
    Faults,             \* which of "source", "busy", "crash" may happen
    MaxEdits, MaxCommits, MaxFaults    \* bounds

ASSUME SyncAssumption ==
    /\ SourceCount \in Nat \ {0}
    /\ MaxEdits \in Nat /\ MaxCommits \in Nat /\ MaxFaults \in Nat
    /\ Faults \subseteq {"source", "busy", "crash"}

Sources == 1 .. SourceCount
Missing == -1              \* a source that could not be read adds no rows

VARIABLES
    rows,        \* the sources' contents
    decisions,   \* the overrides table
    applied,     \* the rulings the projection was built with
    served,      \* the version of each source in the projection
    pc,          \* "down", "idle", "load", "read" or "replace"
    next,        \* the next source a process will load
    loaded,      \* what it has loaded so far
    seen,        \* the decisions it has read
    own,         \* the pair and stamp its own command ruled on
    found,       \* the projection that was stored when its sync began
    up,          \* the daemon has finished its first sync
    commits, faults,   \* bounded counters
    owed         \* some sync failed and none has succeeded since

store == <<decisions, applied, served>>
procs == <<pc, next, loaded, seen, own, found, up>>
vars == <<rows, store, procs, commits, faults, owed>>

P == INSTANCE Projection WITH Pairs <- Pairs, decisions <- decisions, applied <- applied

NoOwn == [pairs |-> {}, stamp |-> 0]

\* The projection of the first state, and of a process that is not syncing.
Nothing == [served |-> [s \in Sources |-> 0], applied |-> [pair \in Pairs |-> P!NoRuling]]

Init ==
    /\ rows = [s \in Sources |-> 0]
    /\ decisions = [pair \in Pairs |-> P!NoRuling]
    /\ applied = decisions
    /\ served = rows
    /\ pc = [p \in Processes |-> IF p = Daemon THEN "down" ELSE "idle"]
    /\ next = [p \in Processes |-> 1]
    /\ loaded = [p \in Processes |-> rows]
    /\ seen = [p \in Processes |-> decisions]
    /\ own = [p \in Processes |-> NoOwn]
    /\ found = [p \in Processes |-> Nothing]
    /\ up = FALSE
    /\ commits = 0 /\ faults = 0
    /\ owed = FALSE

(***************************************************************************)
(* Outside: the user edits a source.                                       *)
(***************************************************************************)
EditSource(s) ==
    /\ rows[s] < MaxEdits
    /\ rows' = [rows EXCEPT ![s] = @ + 1]
    /\ UNCHANGED <<store, procs, commits, faults, owed>>

(***************************************************************************)
(* Commands.  Each commits its own ruling, if it has one, and then syncs.  *)
(***************************************************************************)
StartSync(p, mine) ==
    /\ pc' = [pc EXCEPT ![p] = "load"]
    /\ next' = [next EXCEPT ![p] = 1]
    /\ own' = [own EXCEPT ![p] = mine]
    /\ found' = [found EXCEPT ![p] = [served |-> served, applied |-> applied]]
    /\ UNCHANGED <<rows, applied, served, loaded, seen, up, faults, owed>>

Commit(p, pair, verdict) ==
    /\ pc[p] = "idle"
    /\ commits < MaxCommits
    /\ commits' = commits + 1
    /\ decisions' = [decisions EXCEPT ![pair] = [verdict |-> verdict, stamp |-> commits + 1]]
    /\ StartSync(p, [pairs |-> {pair}, stamp |-> commits + 1])

\* Link and Unlink, `omadex link` and `omadex unlink`.
Decide(p, pair) == \E verdict \in {"same", "distinct"} : Commit(p, pair, verdict)

\* ForgetDecision and `omadex forget` sync only when there was a decision.
Forget(p, pair) ==
    /\ decisions[pair].verdict # "none"
    /\ Commit(p, pair, "none")

\* Refresh and `omadex sync`.
Refresh(p) ==
    /\ pc[p] = "idle"
    /\ StartSync(p, NoOwn)
    /\ UNCHANGED <<decisions, commits>>

\* Mutant of StartDaemon: serves what the last run left, without a sync.
StartWithoutSync ==
    /\ Daemon \in Processes
    /\ pc[Daemon] = "down"
    /\ pc' = [pc EXCEPT ![Daemon] = "idle"]
    /\ up' = TRUE
    /\ UNCHANGED <<rows, store, next, loaded, seen, own, found, commits, faults, owed>>

\* omadexd syncs before it serves; systemd restarts it after a failure.
StartDaemon ==
    /\ Daemon \in Processes
    /\ pc[Daemon] = "down"
    /\ StartSync(Daemon, NoOwn)
    /\ UNCHANGED <<decisions, commits>>

(***************************************************************************)
(* The steps of a sync                                                     *)
(***************************************************************************)
\* Mutant of LoadSource: loads one source more than there are.
LoadOneMore(p) ==
    /\ pc[p] = "load"
    /\ loaded' = [loaded EXCEPT ![p][next[p]] = rows[next[p]]]
    /\ next' = [next EXCEPT ![p] = @ + 1]
    /\ pc' = [pc EXCEPT ![p] = IF next[p] = SourceCount THEN "read" ELSE "load"]
    /\ UNCHANGED <<rows, store, seen, own, found, up, commits, faults, owed>>

\* Mutant of LoadSource: a source that cannot be read gives the rows it once had.
LoadFromFirstCache(p) ==
    /\ pc[p] = "load"
    /\ \/ /\ loaded' = [loaded EXCEPT ![p][next[p]] = rows[next[p]]]
          /\ UNCHANGED faults
       \/ /\ "source" \in Faults /\ faults < MaxFaults
          /\ loaded' = [loaded EXCEPT ![p][next[p]] = 0]
          /\ faults' = faults + 1
    /\ next' = [next EXCEPT ![p] = IF @ = SourceCount THEN 1 ELSE @ + 1]
    /\ pc' = [pc EXCEPT ![p] = IF next[p] = SourceCount THEN "read" ELSE "load"]
    /\ UNCHANGED <<rows, store, seen, own, found, up, commits, owed>>

\* load_all tolerates a source that cannot be read: it adds no rows.
LoadSource(p) ==
    /\ pc[p] = "load"
    /\ \/ /\ loaded' = [loaded EXCEPT ![p][next[p]] = rows[next[p]]]
          /\ UNCHANGED faults
       \/ /\ "source" \in Faults /\ faults < MaxFaults
          /\ loaded' = [loaded EXCEPT ![p][next[p]] = Missing]
          /\ faults' = faults + 1
    /\ next' = [next EXCEPT ![p] = IF @ = SourceCount THEN 1 ELSE @ + 1]
    /\ pc' = [pc EXCEPT ![p] = IF next[p] = SourceCount THEN "read" ELSE "load"]
    /\ UNCHANGED <<rows, store, seen, own, found, up, commits, owed>>

\* Mutant of ReadDecisions: the daemon keeps the decisions it read at its start.
ReadDecisionsOnce(p) ==
    /\ pc[p] = "read"
    /\ seen' = [seen EXCEPT ![p] = IF p = Daemon /\ up THEN @ ELSE decisions]
    /\ pc' = [pc EXCEPT ![p] = "replace"]
    /\ UNCHANGED <<rows, store, next, loaded, own, found, up, commits, faults, owed>>

ReadDecisions(p) ==
    /\ pc[p] = "read"
    /\ seen' = [seen EXCEPT ![p] = decisions]
    /\ pc' = [pc EXCEPT ![p] = "replace"]
    /\ UNCHANGED <<rows, store, next, loaded, own, found, up, commits, faults, owed>>

\* Mutant of Replace: patches the pair just ruled on into the old projection.
ReplaceOwnPairs(p) ==
    /\ pc[p] = "replace"
    /\ applied' = [pair \in Pairs |->
                      IF pair \in own[p].pairs THEN seen[p][pair] ELSE applied[pair]]
    /\ served' = loaded[p]
    /\ pc' = [pc EXCEPT ![p] = "idle"]
    /\ own' = [own EXCEPT ![p] = NoOwn]
    /\ found' = [found EXCEPT ![p] = Nothing]
    /\ up' = (up \/ p = Daemon)
    /\ owed' = FALSE
    /\ UNCHANGED <<rows, decisions, next, loaded, seen, commits, faults>>

Replace(p) ==
    /\ pc[p] = "replace"
    /\ applied' = seen[p]
    /\ served' = loaded[p]
    /\ pc' = [pc EXCEPT ![p] = "idle"]
    /\ own' = [own EXCEPT ![p] = NoOwn]
    /\ found' = [found EXCEPT ![p] = Nothing]
    /\ up' = (up \/ p = Daemon)
    /\ owed' = FALSE
    /\ UNCHANGED <<rows, decisions, next, loaded, seen, commits, faults>>

(***************************************************************************)
(* Failures.  An exception out of replace (the database stayed locked, or  *)
(* the transaction broke a constraint) rolls back and ends the command;    *)
(* the daemon answers an error and goes on, unless it was starting.        *)
(***************************************************************************)
Stopped(p) ==
    /\ pc' = [pc EXCEPT ![p] = IF p = Daemon /\ ~up' THEN "down" ELSE "idle"]
    /\ own' = [own EXCEPT ![p] = NoOwn]
    /\ found' = [found EXCEPT ![p] = Nothing]
    /\ faults < MaxFaults /\ faults' = faults + 1
    /\ owed' = TRUE
    /\ UNCHANGED <<rows, store, next, loaded, seen, commits>>

ReplaceFails(p) ==
    /\ "busy" \in Faults
    /\ pc[p] = "replace"
    /\ UNCHANGED up
    /\ Stopped(p)

\* A process dies between two of its steps.
Crash(p) ==
    /\ "crash" \in Faults
    /\ pc[p] \in {"load", "read", "replace"}
    /\ up' = (up /\ p # Daemon)
    /\ Stopped(p)

Step(p) == LoadSource(p) \/ ReadDecisions(p) \/ Replace(p)

Next ==
    \/ \E s \in Sources : EditSource(s)
    \/ \E p \in Processes :
           \/ \E pair \in Pairs : Decide(p, pair) \/ Forget(p, pair)
           \/ Refresh(p)
           \/ Step(p)
           \/ ReplaceFails(p)
           \/ Crash(p)
    \/ StartDaemon

Spec == Init /\ [][Next]_vars

\* A running process takes its next step, and systemd starts the daemon.
FairSpec ==
    /\ Spec
    /\ \A p \in Processes : WF_vars(Step(p))
    /\ WF_vars(StartDaemon)

(***************************************************************************)
(* Properties                                                              *)
(***************************************************************************)
TypeOK ==
    /\ rows \in [Sources -> 0 .. MaxEdits]
    /\ decisions \in [Pairs -> P!Ruling]
    /\ applied \in [Pairs -> P!Ruling]
    /\ served \in [Sources -> -1 .. MaxEdits]
    /\ pc \in [Processes -> {"down", "idle", "load", "read", "replace"}]
    /\ next \in [Processes -> Sources]
    /\ loaded \in [Processes -> [Sources -> -1 .. MaxEdits]]
    /\ seen \in [Processes -> [Pairs -> P!Ruling]]
    /\ found \in [Processes -> [served : [Sources -> -1 .. MaxEdits], applied : [Pairs -> P!Ruling]]]
    /\ own \in [Processes -> [pairs : SUBSET Pairs, stamp : 0 .. MaxCommits]]
    /\ up \in BOOLEAN /\ owed \in BOOLEAN
    /\ commits \in 0 .. MaxCommits /\ faults \in 0 .. MaxFaults

Quiet == \A p \in Processes : pc[p] \in {"idle", "down"}

\* "A caller cannot accidentally rebuild without the user's decisions applied"
\* (engine.py:46-47): when no command is running and the last sync did not
\* fail, the projection was built with the standing decisions.  So it is while
\* one process commits and syncs at a time; overlapping syncs break it.
DecisionsApplied == Quiet /\ ~owed => applied = decisions

\* Commands commit first and sync afterwards (service.py:157-158,
\* cli.py:431-439), so a command that succeeds stores a projection built with
\* its own ruling or with a later one on the same pair, whatever other
\* processes do meanwhile.
OwnRulingApplied ==
    [][\A p \in Processes : Replace(p) =>
           \A pair \in own[p].pairs : applied'[pair].stamp >= own[p].stamp]_vars

\* However syncs overlap, a sync does not take back what was stored before it
\* began: for each source the rows it stores are as new (or left out, if the
\* source could not be read), and for each pair so is the ruling.  Only what
\* another sync has stored meanwhile may be replaced by something older.
MovesForward ==
    [][\A p \in Processes : Replace(p) =>
           /\ \A s \in Sources : served'[s] >= found[p].served[s] \/ served'[s] = Missing
           /\ \A pair \in Pairs : applied'[pair].stamp >= found[p].applied[pair].stamp]_vars

\* One process at a time does what the abstract projection promises.  That a
\* reader sees the tables before or after a Replace is SQLite's transaction.
ImplementsProjection == P!ProjectionSpec

\* A ruling the daemon has committed reaches the projection, or is replaced by
\* another, also when the daemon dies before its sync and systemd restarts it.
RulingReachesProjection ==
    \A pair \in Pairs, n \in 1 .. MaxCommits :
        decisions[pair].stamp = n ~> applied[pair].stamp >= n
=============================================================================
