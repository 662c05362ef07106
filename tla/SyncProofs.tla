----------------------------- MODULE SyncProofs -----------------------------
(***************************************************************************)
(* Machine-checked proofs about syncs: type correctness; a command's own   *)
(* ruling reaches the projection it stores, and no sync takes back what    *)
(* was stored before it began, whatever other processes do; and, as long   *)
(* as no two syncs overlap, syncs implement the abstract projection.       *)
(***************************************************************************)
EXTENDS Sync, TLAPS

-----------------------------------------------------------------------------
(***************************************************************************)
(* Type correctness                                                        *)
(***************************************************************************)

\* The versions of the sources in a projection: -1 for one that is missing.
Versions == [Sources -> -1 .. MaxEdits]

\* The projection a process has found when its sync began.
Stored == [served : Versions, applied : [Pairs -> P!Ruling]]

\* What stands for no projection has the type of one.
LEMMA NothingType == Nothing \in Stored
<1>1. P!NoRuling \in P!Ruling
  BY SyncAssumption DEF P!NoRuling, P!Ruling, P!Verdicts
<1>2. 0 \in -1 .. MaxEdits
  BY SyncAssumption
<1>3. QED  BY <1>1, <1>2 DEF Nothing, Stored, Versions

\* The first state has the types: no ruling, no edit, nobody syncing.
LEMMA InitTypeOK == Init => TypeOK
<1> SUFFICES ASSUME Init PROVE TypeOK
  OBVIOUS
<1>1. P!NoRuling \in P!Ruling /\ NoOwn \in [pairs : SUBSET Pairs, stamp : 0 .. MaxCommits]
  BY SyncAssumption DEF P!NoRuling, P!Ruling, P!Verdicts, NoOwn
<1>2. rows \in [Sources -> 0 .. MaxEdits] /\ rows \in Versions
  BY SyncAssumption DEF Init, Versions
<1>3. decisions \in [Pairs -> P!Ruling]
  BY <1>1 DEF Init
<1>4. 1 \in Sources /\ 0 \in 0 .. MaxCommits /\ 0 \in 0 .. MaxFaults
  BY SyncAssumption DEF Sources
<1>5. QED  BY <1>1, <1>2, <1>3, <1>4, NothingType DEF Init, TypeOK, Versions, Stored

\* The start of a sync sets the place, the next source and the own ruling.
LEMMA StartSyncType ==
    ASSUME TypeOK, NEW p \in Processes, NEW mine, StartSync(p, mine),
           mine \in [pairs : SUBSET Pairs, stamp : 0 .. MaxCommits],
           decisions' \in [Pairs -> P!Ruling], commits' \in 0 .. MaxCommits
    PROVE  TypeOK'
<1>1. 1 \in Sources
  BY SyncAssumption DEF Sources
<1>2. found' \in [Processes -> Stored]
  BY DEF TypeOK, StartSync, Stored, Versions
<1>3. QED  BY <1>1, <1>2 DEF TypeOK, StartSync, Stored, Versions

\* A ruling carries the number of its commit.
LEMMA CommitType ==
    ASSUME TypeOK, NEW p \in Processes, NEW pair \in Pairs, NEW verdict \in P!Verdicts,
           Commit(p, pair, verdict)
    PROVE  TypeOK'
<1>1. commits' \in 0 .. MaxCommits /\ commits + 1 \in 0 .. MaxCommits /\ commits + 1 \in Nat
  BY SyncAssumption DEF TypeOK, Commit
<1>2. decisions' \in [Pairs -> P!Ruling]
  BY <1>1 DEF TypeOK, Commit, P!Ruling
<1>3. [pairs |-> {pair}, stamp |-> commits + 1] \in [pairs : SUBSET Pairs, stamp : 0 .. MaxCommits]
  BY <1>1
<1>4. QED  BY <1>1, <1>2, <1>3, StartSyncType DEF Commit

\* A source that is read has a version, one that fails is missing.
LEMMA LoadSourceType ==
    ASSUME TypeOK, NEW p \in Processes, LoadSource(p)
    PROVE  TypeOK'
<1>1. next[p] \in Sources /\ rows[next[p]] \in -1 .. MaxEdits /\ Missing \in -1 .. MaxEdits
  BY SyncAssumption DEF TypeOK, Missing
<1>2. loaded' \in [Processes -> Versions]
  <2>1. PICK version \in -1 .. MaxEdits : loaded' = [loaded EXCEPT ![p][next[p]] = version]
    BY <1>1 DEF LoadSource
  <2>2. loaded \in [Processes -> Versions]
    BY DEF TypeOK, Versions
  <2>3. [loaded[p] EXCEPT ![next[p]] = version] \in Versions
    BY <2>2 DEF Versions
  <2>4. loaded' = [loaded EXCEPT ![p] = [loaded[p] EXCEPT ![next[p]] = version]]
    BY <2>1
  <2>5. QED  BY <2>2, <2>3, <2>4
<1>3. next' \in [Processes -> Sources]
  <2>1. (IF next[p] = SourceCount THEN 1 ELSE next[p] + 1) \in Sources
    BY <1>1, SyncAssumption DEF Sources
  <2>2. QED  BY <2>1 DEF TypeOK, LoadSource
<1>4. faults' \in 0 .. MaxFaults
  BY SyncAssumption DEF TypeOK, LoadSource
<1>5. pc' \in [Processes -> {"down", "idle", "load", "read", "replace"}]
  BY DEF TypeOK, LoadSource
<1>6. QED  BY <1>2, <1>3, <1>4, <1>5 DEF TypeOK, LoadSource, Versions, store

\* A process that stops has nothing of its own any more.
LEMMA StoppedType ==
    ASSUME TypeOK, NEW p \in Processes, Stopped(p), up' \in BOOLEAN
    PROVE  TypeOK'
<1>1. faults' \in 0 .. MaxFaults
  BY SyncAssumption DEF TypeOK, Stopped
<1>2. NoOwn \in [pairs : SUBSET Pairs, stamp : 0 .. MaxCommits]
  BY SyncAssumption DEF NoOwn
<1>3. pc' \in [Processes -> {"down", "idle", "load", "read", "replace"}]
  BY DEF TypeOK, Stopped
<1>4. found' \in [Processes -> Stored]
  BY NothingType DEF TypeOK, Stopped, Stored, Versions
<1>5. QED  BY <1>1, <1>2, <1>3, <1>4 DEF TypeOK, Stopped, store, Stored, Versions

\* No step leaves the types.
LEMMA NextTypeOK == TypeOK /\ [Next]_vars => TypeOK'
<1> SUFFICES ASSUME TypeOK, [Next]_vars PROVE TypeOK'
  OBVIOUS
<1>1. NoOwn \in [pairs : SUBSET Pairs, stamp : 0 .. MaxCommits]
  BY SyncAssumption DEF NoOwn
<1>2. ASSUME NEW s \in Sources, EditSource(s) PROVE TypeOK'
  BY <1>2, SyncAssumption DEF TypeOK, EditSource, store, procs
<1>3. ASSUME NEW p \in Processes, NEW pair \in Pairs, Decide(p, pair) \/ Forget(p, pair)
      PROVE  TypeOK'
  BY <1>3, CommitType DEF Decide, Forget, P!Verdicts
<1>4. ASSUME NEW p \in Processes, Refresh(p) PROVE TypeOK'
  <2>1. decisions' \in [Pairs -> P!Ruling] /\ commits' \in 0 .. MaxCommits
    BY <1>4 DEF Refresh, TypeOK
  <2>2. QED  BY <1>1, <1>4, <2>1, StartSyncType DEF Refresh
<1>5. ASSUME NEW p \in Processes, LoadSource(p) PROVE TypeOK'
  BY <1>5, LoadSourceType
<1>6. ASSUME NEW p \in Processes, ReadDecisions(p) PROVE TypeOK'
  BY <1>6 DEF TypeOK, ReadDecisions, store
<1>7. ASSUME NEW p \in Processes, Replace(p) PROVE TypeOK'
  <2>1. found' \in [Processes -> Stored]
    BY <1>7, NothingType DEF TypeOK, Replace, Stored, Versions
  <2>2. QED  BY <1>1, <1>7, <2>1 DEF TypeOK, Replace, Stored, Versions
<1>8. ASSUME NEW p \in Processes, ReplaceFails(p) \/ Crash(p) PROVE TypeOK'
  <2>1. up' \in BOOLEAN
    BY <1>8 DEF TypeOK, ReplaceFails, Crash
  <2>2. QED  BY <1>8, <2>1, StoppedType DEF ReplaceFails, Crash
<1>9. CASE StartDaemon
  <2>1. decisions' \in [Pairs -> P!Ruling] /\ commits' \in 0 .. MaxCommits
    BY <1>9 DEF StartDaemon, TypeOK
  <2>2. QED  BY <1>1, <1>9, <2>1, StartSyncType DEF StartDaemon
<1>10. CASE UNCHANGED vars
  BY <1>10 DEF vars, store, procs, TypeOK
<1>11. QED
  BY <1>2, <1>3, <1>4, <1>5, <1>6, <1>7, <1>8, <1>9, <1>10 DEF Next, Step

\* The projection, the decisions and every process keep their types.
THEOREM SyncTypeCorrect == Spec => []TypeOK
BY InitTypeOK, NextTypeOK, PTL DEF Spec

-----------------------------------------------------------------------------
(***************************************************************************)
(* A command's own ruling                                                  *)
(*                                                                         *)
(* Stamps count the commits, so a later ruling on a pair has the greater   *)
(* stamp.  A process that has ruled on a pair finds that ruling or a later *)
(* one wherever it is on its way to the projection: in the table until it  *)
(* reads the decisions, in what it has read after that.                    *)
(***************************************************************************)
StampsCount == \A pair \in Pairs : decisions[pair].stamp <= commits

OwnUnderWay ==
    \A p \in Processes : \A pair \in own[p].pairs :
        /\ pc[p] \in {"load", "read"} => decisions[pair].stamp >= own[p].stamp
        /\ pc[p] = "replace" => seen[p][pair].stamp >= own[p].stamp

OwnInv == TypeOK /\ StampsCount /\ OwnUnderWay

\* Stamps are numbers: what the comparisons below are about.
LEMMA StampTypes ==
    ASSUME TypeOK
    PROVE  /\ commits \in Nat
           /\ \A pair \in Pairs : /\ decisions[pair].stamp \in Nat
                                  /\ applied[pair].stamp \in Nat
           /\ \A p \in Processes : /\ own[p].stamp \in Nat /\ own[p].pairs \subseteq Pairs
                                   /\ \A pair \in Pairs : seen[p][pair].stamp \in Nat
<1>1. \A r \in P!Ruling : r.stamp \in Nat
  BY DEF P!Ruling
<1>2. commits \in Nat /\ \A n \in 0 .. MaxCommits : n \in Nat
  BY SyncAssumption DEF TypeOK
<1>3. \A p \in Processes : own[p] \in [pairs : SUBSET Pairs, stamp : 0 .. MaxCommits]
  BY DEF TypeOK
<1>4. QED  BY <1>1, <1>2, <1>3 DEF TypeOK

\* A commit stamps its pair with a number no ruling has yet.
LEMMA CommitStamps ==
    ASSUME TypeOK, StampsCount, NEW p \in Processes, NEW pair \in Pairs, NEW verdict,
           Commit(p, pair, verdict)
    PROVE  /\ commits' = commits + 1 /\ decisions'[pair].stamp = commits + 1
           /\ \A q \in Pairs \ {pair} : decisions'[q] = decisions[q]
           /\ \A q \in Pairs : decisions[q].stamp <= decisions'[q].stamp
           /\ StampsCount'
<1>1. /\ commits' = commits + 1 /\ decisions'[pair].stamp = commits + 1
      /\ \A q \in Pairs \ {pair} : decisions'[q] = decisions[q]
  BY DEF Commit, TypeOK
<1>2. \A q \in Pairs : decisions[q].stamp <= decisions'[q].stamp
  BY <1>1, StampTypes DEF StampsCount
<1>3. StampsCount'
  BY <1>1, StampTypes DEF StampsCount
<1>4. QED  BY <1>1, <1>2, <1>3

\* Only a commit changes the decisions.
LEMMA DecisionsStay ==
    ASSUME [Next]_vars
    PROVE  \/ \E p \in Processes, pair \in Pairs, verdict \in P!Verdicts :
                  Commit(p, pair, verdict)
           \/ UNCHANGED <<decisions, commits>>
BY DEF Next, vars, store, procs, EditSource, Decide, Forget, Refresh, Step, LoadSource,
       ReadDecisions, Replace, ReplaceFails, Crash, Stopped, StartDaemon, StartSync,
       P!Verdicts

\* No stamp is greater than the number of commits, and stamps do not go back.
LEMMA StampsGrow ==
    ASSUME TypeOK, StampsCount, [Next]_vars
    PROVE  /\ StampsCount'
           /\ \A pair \in Pairs : decisions[pair].stamp <= decisions'[pair].stamp
<1>1. CASE UNCHANGED <<decisions, commits>>
  BY <1>1, StampTypes DEF StampsCount
<1>2. CASE \E p \in Processes, pair \in Pairs, verdict \in P!Verdicts :
               Commit(p, pair, verdict)
  BY <1>2, CommitStamps
<1>3. QED  BY <1>1, <1>2, DecisionsStay

\* What a process has ruled on it keeps until it has stored it.
LEMMA NextOwnUnderWay ==
    ASSUME OwnInv, [Next]_vars
    PROVE  OwnUnderWay'
<1> SUFFICES ASSUME NEW q \in Processes, NEW mine \in own'[q].pairs
             PROVE  /\ pc'[q] \in {"load", "read"} => decisions'[mine].stamp >= own'[q].stamp
                    /\ pc'[q] = "replace" => seen'[q][mine].stamp >= own'[q].stamp
  BY DEF OwnUnderWay
<1> USE DEF OwnInv
<1>1. \A pair \in Pairs : decisions[pair].stamp <= decisions'[pair].stamp
  BY StampsGrow
\* A step that leaves q where it was, with what it has ruled on and has read.
<1>2. CASE pc'[q] = pc[q] /\ own'[q] = own[q] /\ seen'[q] = seen[q]
  <2>1. mine \in Pairs /\ TypeOK'
    BY <1>2, StampTypes, NextTypeOK
  <2>2. decisions'[mine].stamp \in Nat
    BY <2>1 DEF TypeOK, P!Ruling
  <2>3. QED  BY <1>1, <1>2, <2>1, <2>2, StampTypes DEF OwnUnderWay
<1>3. ASSUME NEW s \in Sources, EditSource(s) PROVE pc' = pc /\ own' = own /\ seen' = seen
  BY <1>3 DEF EditSource, procs
<1>4. ASSUME NEW p \in Processes, own'[p] = NoOwn, p = q PROVE FALSE
  BY <1>4 DEF NoOwn
<1>5. ASSUME NEW p \in Processes, NEW pair \in Pairs, NEW verdict \in P!Verdicts,
             Commit(p, pair, verdict), p = q
      PROVE  decisions'[mine].stamp >= own'[q].stamp /\ pc'[q] = "load"
  <2>1. own'[q] = [pairs |-> {pair}, stamp |-> commits + 1] /\ pc'[q] = "load"
    BY <1>5 DEF Commit, StartSync, TypeOK
  <2>2. mine = pair /\ decisions'[mine].stamp = own'[q].stamp
    BY <1>5, <2>1, CommitStamps
  <2>3. QED  BY <2>1, <2>2, StampTypes
<1>6. ASSUME NEW p \in Processes, StartSync(p, NoOwn) \/ Replace(p) \/ Stopped(p)
      PROVE  own'[p] = NoOwn /\ \A r \in Processes \ {p} :
                 pc'[r] = pc[r] /\ own'[r] = own[r] /\ seen'[r] = seen[r]
  BY <1>6 DEF StartSync, Replace, Stopped, TypeOK
<1>7. ASSUME NEW p \in Processes, NEW pair \in Pairs, NEW verdict \in P!Verdicts,
             Commit(p, pair, verdict), p # q
      PROVE  pc'[q] = pc[q] /\ own'[q] = own[q] /\ seen'[q] = seen[q]
  BY <1>7 DEF Commit, StartSync, TypeOK
<1>8. ASSUME NEW p \in Processes, LoadSource(p)
      PROVE  \/ pc'[q] = pc[q] /\ own'[q] = own[q] /\ seen'[q] = seen[q]
             \/ pc[q] = "load" /\ pc'[q] = "read" /\ own'[q] = own[q] /\ decisions' = decisions
  BY <1>8 DEF LoadSource, TypeOK, store
<1>9. ASSUME NEW p \in Processes, ReadDecisions(p), p = q
      PROVE  /\ pc[q] = "read" /\ pc'[q] = "replace" /\ own'[q] = own[q]
             /\ seen'[q] = decisions
  BY <1>9 DEF ReadDecisions, TypeOK
<1>10. ASSUME NEW p \in Processes, ReadDecisions(p), p # q
       PROVE  pc'[q] = pc[q] /\ own'[q] = own[q] /\ seen'[q] = seen[q]
  BY <1>10 DEF ReadDecisions, TypeOK
<1>11. CASE UNCHANGED vars
  BY <1>2, <1>11 DEF vars, procs
<1>12. CASE \E p \in Processes : LoadSource(p)
  BY <1>2, <1>8, <1>12 DEF OwnUnderWay
<1>13. CASE \E p \in Processes : ReadDecisions(p)
  BY <1>2, <1>9, <1>10, <1>13 DEF OwnUnderWay
<1>14. CASE \E p \in Processes, pair \in Pairs, verdict \in P!Verdicts :
                Commit(p, pair, verdict)
  BY <1>2, <1>5, <1>7, <1>14
<1>15. CASE \E p \in Processes : StartSync(p, NoOwn) \/ Replace(p) \/ Stopped(p)
  BY <1>2, <1>4, <1>6, <1>15
<1>16. CASE \E s \in Sources : EditSource(s)
  BY <1>2, <1>3, <1>16
<1>17. QED
  BY <1>11, <1>12, <1>13, <1>14, <1>15, <1>16
     DEF Next, Step, Decide, Forget, Refresh, ReplaceFails, Crash, StartDaemon, P!Verdicts

\* A ruling that is under way is the process's own or a later one.
THEOREM OwnRulingUnderWay == Spec => []OwnInv
<1>1. Init => OwnInv
  <2> SUFFICES ASSUME Init PROVE OwnInv
    OBVIOUS
  <2>1. StampsCount
    BY DEF Init, StampsCount, P!NoRuling
  <2>2. OwnUnderWay
    BY DEF Init, OwnUnderWay, NoOwn
  <2>3. QED  BY <2>1, <2>2, InitTypeOK DEF OwnInv
<1>2. OwnInv /\ [Next]_vars => OwnInv'
  BY NextTypeOK, StampsGrow, NextOwnUnderWay DEF OwnInv
<1>3. QED  BY <1>1, <1>2, PTL DEF Spec

\* A command that succeeds stores a projection built with its own ruling or
\* with a later one on the same pair, whatever other processes do meanwhile.
THEOREM OwnRulingStored == Spec => OwnRulingApplied
<1>1. OwnInv => \A p \in Processes : Replace(p) =>
          \A pair \in own[p].pairs : applied'[pair].stamp >= own[p].stamp
  BY DEF OwnInv, OwnUnderWay, Replace
<1>2. QED  BY <1>1, OwnRulingUnderWay, PTL DEF OwnRulingApplied

-----------------------------------------------------------------------------
(***************************************************************************)
(* Nothing is taken back                                                   *)
(*                                                                         *)
(* A process has loaded nothing, and read no ruling, that is older than    *)
(* what it found stored when its sync began: the sources and the decisions *)
(* only move forward, and the projection is never ahead of them.           *)
(***************************************************************************)
HasLoaded(p) ==
    IF pc[p] = "load" THEN 1 .. next[p] - 1
    ELSE IF pc[p] \in {"read", "replace"} THEN Sources ELSE {}

\* No copy of a source's rows is ahead of the source.
RowsAhead ==
    /\ \A s \in Sources : served[s] <= rows[s]
    /\ \A p \in Processes, s \in Sources :
           loaded[p][s] <= rows[s] /\ found[p].served[s] <= rows[s]

\* No copy of a ruling is ahead of the standing one.
DecisionsAhead ==
    \A pair \in Pairs :
        /\ applied[pair].stamp <= decisions[pair].stamp
        /\ \A p \in Processes : /\ seen[p][pair].stamp <= decisions[pair].stamp
                                /\ found[p].applied[pair].stamp <= decisions[pair].stamp

NotBefore ==
    \A p \in Processes :
        /\ \A s \in HasLoaded(p) : loaded[p][s] = Missing \/ found[p].served[s] <= loaded[p][s]
        /\ pc[p] = "replace" =>
               \A pair \in Pairs : found[p].applied[pair].stamp <= seen[p][pair].stamp

ForwardInv == TypeOK /\ StampsCount /\ RowsAhead /\ DecisionsAhead /\ NotBefore

\* What the comparisons of versions are about.
LEMMA VersionTypes ==
    ASSUME TypeOK
    PROVE  /\ \A s \in Sources : rows[s] \in Nat /\ served[s] \in Int
           /\ \A p \in Processes : /\ next[p] \in Sources
                                   /\ \A s \in Sources : loaded[p][s] \in Int /\ found[p].served[s] \in Int
           /\ Missing \in Int /\ Missing < 0
<1>1. 0 .. MaxEdits \subseteq Nat /\ -1 .. MaxEdits \subseteq Int
  BY SyncAssumption
<1>2. \A p \in Processes : found[p].served \in [Sources -> -1 .. MaxEdits]
  BY DEF TypeOK
<1>3. \A s \in Sources : rows[s] \in 0 .. MaxEdits /\ served[s] \in -1 .. MaxEdits
  BY DEF TypeOK
<1>4. \A p \in Processes : next[p] \in Sources /\ \A s \in Sources : loaded[p][s] \in -1 .. MaxEdits
  BY DEF TypeOK
<1>5. QED  BY <1>1, <1>2, <1>3, <1>4 DEF Missing

\* And the stamps of what a process has found.
LEMMA FoundStamps ==
    ASSUME TypeOK
    PROVE  \A p \in Processes, pair \in Pairs : found[p].applied[pair].stamp \in Nat
<1>1. \A p \in Processes : found[p].applied \in [Pairs -> P!Ruling]
  BY DEF TypeOK
<1>2. QED  BY <1>1 DEF P!Ruling

\* At first everything is at version and stamp 0.
LEMMA InitForward == Init => ForwardInv
<1> SUFFICES ASSUME Init PROVE ForwardInv
  OBVIOUS
<1>1. TypeOK /\ StampsCount
  BY InitTypeOK DEF Init, StampsCount, P!NoRuling
<1>2. \A p \in Processes : found[p] = Nothing /\ loaded[p] = rows /\ seen[p] = decisions /\ pc[p] \in {"down", "idle"}
  BY DEF Init
<1>3. RowsAhead /\ DecisionsAhead
  BY <1>2 DEF Init, RowsAhead, DecisionsAhead, Nothing, P!NoRuling
<1>4. NotBefore
  BY <1>2 DEF NotBefore, HasLoaded
<1>5. QED  BY <1>1, <1>3, <1>4 DEF ForwardInv

\* What a process has found changes at the start and the end of its sync only.
LEMMA FoundChanges ==
    ASSUME TypeOK, NEW p \in Processes,
           \/ \E mine : StartSync(p, mine)
           \/ Replace(p) \/ Stopped(p)
    PROVE  /\ \A q \in Processes \ {p} : found'[q] = found[q] /\ pc'[q] = pc[q] /\ next'[q] = next[q]
           /\ found'[p] = Nothing \/ found'[p] = [served |-> served, applied |-> applied]
           /\ UNCHANGED <<loaded, seen>>
           /\ HasLoaded(p)' = {} /\ pc'[p] # "replace"
<1>1. CASE \E mine : StartSync(p, mine)
  <2>1. pc'[p] = "load" /\ next'[p] = 1
    BY <1>1 DEF StartSync, TypeOK
  <2>2. QED  BY <1>1, <2>1 DEF StartSync, TypeOK, HasLoaded
<1>2. CASE Replace(p) \/ Stopped(p)
  <2>1. pc'[p] \in {"idle", "down"}
    BY <1>2 DEF Replace, Stopped, TypeOK
  <2>2. QED  BY <1>2, <2>1 DEF Replace, Stopped, TypeOK, HasLoaded
<1>3. QED  BY <1>1, <1>2

\* Only an edit changes a source's rows, and it moves them forward.
LEMMA RowsGrow ==
    ASSUME TypeOK, [Next]_vars
    PROVE  \A s \in Sources : rows[s] <= rows'[s] /\ rows'[s] \in Nat
<1>1. ASSUME NEW t \in Sources, EditSource(t)
      PROVE  \A s \in Sources : rows[s] <= rows'[s]
  BY <1>1, VersionTypes DEF EditSource, TypeOK
<1>2. UNCHANGED rows \/ \E t \in Sources : EditSource(t)
  BY DEF Next, vars, store, procs, Decide, Forget, Refresh, Commit, StartSync, Step, LoadSource,
         ReadDecisions, Replace, ReplaceFails, Crash, Stopped, StartDaemon
<1>3. \A s \in Sources : rows[s] <= rows'[s]
  BY <1>1, <1>2, VersionTypes
<1>4. TypeOK'
  BY NextTypeOK
<1>5. \A s \in Sources : rows'[s] \in Nat
  BY <1>4, SyncAssumption DEF TypeOK
<1>6. QED  BY <1>3, <1>5

\* The copies a step makes are of what is there.
LEMMA NextAhead ==
    ASSUME ForwardInv, [Next]_vars
    PROVE  RowsAhead' /\ DecisionsAhead'
<1> USE DEF ForwardInv
<1>1. \A s \in Sources : rows[s] <= rows'[s] /\ rows[s] \in Nat /\ rows'[s] \in Nat
  BY RowsGrow, VersionTypes
<1>2. /\ TypeOK'
      /\ \A pair \in Pairs : decisions[pair].stamp <= decisions'[pair].stamp
  BY StampsGrow, NextTypeOK
<1>3. \A pair \in Pairs : decisions'[pair].stamp \in Nat /\ decisions[pair].stamp \in Nat
  BY <1>2, StampTypes DEF TypeOK, P!Ruling
<1>4. /\ \A s \in Sources : served'[s] = served[s] \/ \E p \in Processes : served'[s] = loaded[p][s]
      /\ \A pair \in Pairs : applied'[pair] = applied[pair] \/ \E p \in Processes : applied'[pair] = seen[p][pair]
  BY DEF Next, vars, store, procs, EditSource, Decide, Forget, Refresh, Commit, StartSync, Step,
         LoadSource, ReadDecisions, Replace, ReplaceFails, Crash, Stopped, StartDaemon
<1>5. ASSUME NEW p \in Processes, NEW s \in Sources
      PROVE  \/ loaded'[p][s] = loaded[p][s] \/ loaded'[p][s] = rows[s]
             \/ loaded'[p][s] = Missing
  <2>1. ASSUME NEW q \in Processes, LoadSource(q)
        PROVE  \/ loaded'[p][s] = loaded[p][s] \/ loaded'[p][s] = rows[s]
               \/ loaded'[p][s] = Missing
    <3>1. PICK v : loaded' = [loaded EXCEPT ![q][next[q]] = v] /\ (v = rows[next[q]] \/ v = Missing)
      BY <2>1 DEF LoadSource
    <3>2. QED  BY <3>1, VersionTypes DEF TypeOK
  <2>2. UNCHANGED loaded \/ \E q \in Processes : LoadSource(q)
    BY DEF Next, vars, store, procs, EditSource, Decide, Forget, Refresh, Commit, StartSync, Step,
           ReadDecisions, Replace, ReplaceFails, Crash, Stopped, StartDaemon
  <2>3. QED  BY <2>1, <2>2
<1>6. ASSUME NEW p \in Processes
      PROVE  seen'[p] = seen[p] \/ seen'[p] = decisions
  BY DEF Next, vars, store, procs, EditSource, Decide, Forget, Refresh, Commit, StartSync, Step,
         LoadSource, ReadDecisions, Replace, ReplaceFails, Crash, Stopped, StartDaemon, TypeOK
<1>7. ASSUME NEW p \in Processes
      PROVE  found'[p] \in {found[p], Nothing, [served |-> served, applied |-> applied]}
  BY DEF Next, vars, store, procs, EditSource, Decide, Forget, Refresh, Commit, StartSync, Step,
         LoadSource, ReadDecisions, Replace, ReplaceFails, Crash, Stopped, StartDaemon, TypeOK
<1>8. ASSUME NEW p \in Processes, NEW s \in Sources
      PROVE  loaded'[p][s] <= rows'[s] /\ found'[p].served[s] <= rows'[s]
  <2>1. found'[p].served[s] \in {found[p].served[s], 0, served[s]}
    BY <1>7 DEF Nothing
  <2>2. QED  BY <1>1, <1>5, <2>1, VersionTypes DEF RowsAhead
<1>9. ASSUME NEW s \in Sources PROVE served'[s] <= rows'[s]
  BY <1>1, <1>4, VersionTypes DEF RowsAhead
<1>10. ASSUME NEW pair \in Pairs, NEW p \in Processes
       PROVE  /\ seen'[p][pair].stamp <= decisions'[pair].stamp
              /\ found'[p].applied[pair].stamp <= decisions'[pair].stamp
  <2>1. found'[p].applied[pair].stamp \in {found[p].applied[pair].stamp, 0, applied[pair].stamp}
    BY <1>7 DEF Nothing, P!NoRuling
  <2>2. seen'[p][pair].stamp \in {seen[p][pair].stamp, decisions[pair].stamp}
    BY <1>6
  <2>3. QED  BY <1>2, <1>3, <2>1, <2>2, StampTypes, FoundStamps DEF DecisionsAhead
<1>11. ASSUME NEW pair \in Pairs PROVE applied'[pair].stamp <= decisions'[pair].stamp
  BY <1>2, <1>3, <1>4, StampTypes DEF DecisionsAhead
<1>12. QED  BY <1>8, <1>9, <1>10, <1>11 DEF RowsAhead, DecisionsAhead

\* What a process loads and reads is no older than what it has found.
LEMMA NextNotBefore ==
    ASSUME ForwardInv, [Next]_vars
    PROVE  NotBefore'
<1> USE DEF ForwardInv
<1>1. ASSUME NEW p \in Processes,
             \/ \E mine : StartSync(p, mine)
             \/ Replace(p) \/ Stopped(p)
      PROVE  NotBefore'
  <2>1. \A q \in Processes \ {p} : HasLoaded(q)' = HasLoaded(q)
    BY <1>1, FoundChanges DEF HasLoaded
  <2>2. QED  BY <1>1, <2>1, FoundChanges DEF NotBefore
<1>2. ASSUME NEW p \in Processes, ReadDecisions(p) PROVE NotBefore'
  <2>1. \A q \in Processes : HasLoaded(q)' = HasLoaded(q)
    BY <1>2 DEF ReadDecisions, HasLoaded, TypeOK
  <2>2. /\ UNCHANGED <<loaded, found>> /\ seen'[p] = decisions
        /\ \A q \in Processes \ {p} : seen'[q] = seen[q] /\ pc'[q] = pc[q]
    BY <1>2 DEF ReadDecisions, TypeOK
  <2>3. QED  BY <2>1, <2>2 DEF NotBefore, DecisionsAhead
<1>3. ASSUME NEW p \in Processes, LoadSource(p) PROVE NotBefore'
  <2>1. PICK v : /\ loaded' = [loaded EXCEPT ![p][next[p]] = v]
                 /\ v = rows[next[p]] \/ v = Missing
    BY <1>3 DEF LoadSource
  <2>2. loaded'[p] = [loaded[p] EXCEPT ![next[p]] = v]
    BY <2>1 DEF TypeOK
  <2>3. next[p] \in Sources /\ \A s \in Sources \ {next[p]} : loaded'[p][s] = loaded[p][s]
    BY <2>2, VersionTypes DEF TypeOK
  <2>4. loaded'[p][next[p]] = v
    BY <2>2, <2>3 DEF TypeOK
  <2>5. HasLoaded(p)' = HasLoaded(p) \cup {next[p]}
    <3>1. CASE next[p] = SourceCount
      BY <1>3, <2>3, <3>1, SyncAssumption DEF LoadSource, HasLoaded, TypeOK, Sources
    <3>2. CASE next[p] # SourceCount
      <4>1. pc[p] = "load" /\ pc'[p] = "load" /\ next'[p] = next[p] + 1
        BY <1>3, <3>2 DEF LoadSource, TypeOK
      <4>2. next[p] \in Nat \ {0}
        BY <2>3, SyncAssumption DEF Sources
      <4>3. HasLoaded(p)' = 1 .. (next[p] + 1) - 1 /\ HasLoaded(p) = 1 .. next[p] - 1
        BY <4>1 DEF HasLoaded
      <4>4. QED  BY <4>2, <4>3
    <3>3. QED  BY <3>1, <3>2
  <2>6. HasLoaded(p) \subseteq Sources
    BY <2>3, SyncAssumption DEF HasLoaded, Sources
  <2>7. /\ UNCHANGED <<found, seen>> /\ pc'[p] # "replace"
        /\ \A q \in Processes \ {p} :
               HasLoaded(q)' = HasLoaded(q) /\ loaded'[q] = loaded[q] /\ pc'[q] = pc[q]
    BY <1>3, <2>1 DEF LoadSource, HasLoaded, TypeOK
  <2>8. \A s \in HasLoaded(p)' : loaded'[p][s] = Missing \/ found[p].served[s] <= loaded'[p][s]
    BY <2>1, <2>3, <2>4, <2>5, <2>6 DEF NotBefore, RowsAhead
  <2>9. QED  BY <2>7, <2>8 DEF NotBefore
<1>4. CASE (\E s \in Sources : EditSource(s)) \/ UNCHANGED vars
  <2>1. UNCHANGED <<pc, next, loaded, seen, found>>
    BY <1>4 DEF EditSource, vars, procs
  <2>2. QED  BY <2>1 DEF NotBefore, HasLoaded
<1>5. QED
  BY <1>1, <1>2, <1>3, <1>4
     DEF Next, Step, Decide, Forget, Refresh, Commit, ReplaceFails, Crash, StartDaemon

\* However syncs overlap, none takes back what was stored before it began.
THEOREM SyncsMoveForward == Spec => MovesForward
<1>1. ForwardInv /\ [Next]_vars => ForwardInv'
  BY NextTypeOK, StampsGrow, NextAhead, NextNotBefore DEF ForwardInv
<1>2. ForwardInv => \A p \in Processes : Replace(p) =>
           /\ \A s \in Sources : served'[s] >= found[p].served[s] \/ served'[s] = Missing
           /\ \A pair \in Pairs : applied'[pair].stamp >= found[p].applied[pair].stamp
  <2> SUFFICES ASSUME ForwardInv, NEW p \in Processes, Replace(p)
               PROVE  /\ \A s \in Sources : served'[s] >= found[p].served[s] \/ served'[s] = Missing
                      /\ \A pair \in Pairs : applied'[pair].stamp >= found[p].applied[pair].stamp
    OBVIOUS
  <2>1. served' = loaded[p] /\ applied' = seen[p] /\ pc[p] = "replace" /\ HasLoaded(p) = Sources
    BY DEF Replace, HasLoaded
  <2>2. QED  BY <2>1 DEF ForwardInv, NotBefore
<1>3. QED  BY <1>1, <1>2, InitForward, PTL DEF Spec, MovesForward

-----------------------------------------------------------------------------
(***************************************************************************)
(* Syncs that do not overlap                                               *)
(*                                                                         *)
(* The decisions a process has read alone are the standing ones when it    *)
(* replaces the projection.                                                *)
(***************************************************************************)
Syncing(p) == pc[p] \in {"load", "read", "replace"}

Alone == \A p, q \in Processes : Syncing(p) /\ Syncing(q) => p = q

ReadsAreCurrent == \A p \in Processes : pc[p] = "replace" => seen[p] = decisions

AloneInv ==
    /\ TypeOK /\ StampsCount
    /\ DecisionsApplied /\ ReadsAreCurrent

\* At first nobody is syncing, and the projection is up to date.
LEMMA InitAlone == Init => AloneInv
<1> SUFFICES ASSUME Init PROVE AloneInv
  OBVIOUS
<1>1. TypeOK /\ StampsCount
  BY InitTypeOK DEF Init, StampsCount, P!NoRuling
<1>2. DecisionsApplied /\ ReadsAreCurrent
  BY DEF Init, DecisionsApplied, ReadsAreCurrent
<1>3. QED  BY <1>1, <1>2 DEF AloneInv

\* When the projection and the decisions stay, a step that leaves nobody
\* syncing has stopped the one who was.
LEMMA NextDecisionsApplied ==
    ASSUME AloneInv, Alone, [Next]_vars
    PROVE  DecisionsApplied'
<1> SUFFICES ASSUME Quiet', ~owed' PROVE applied' = decisions'
  BY DEF DecisionsApplied
<1> USE DEF AloneInv
<1>1. ASSUME NEW p \in Processes, pc' = [pc EXCEPT ![p] = "load"] PROVE FALSE
  BY <1>1 DEF Quiet, TypeOK
<1>2. ASSUME NEW p \in Processes, LoadSource(p) \/ ReadDecisions(p) PROVE FALSE
  BY <1>2 DEF LoadSource, ReadDecisions, Quiet, TypeOK
<1>3. ASSUME NEW p \in Processes, Stopped(p) PROVE FALSE
  BY <1>3 DEF Stopped
<1>4. ASSUME NEW p \in Processes, Replace(p) PROVE applied' = decisions'
  BY <1>4 DEF Replace, ReadsAreCurrent
<1>5. ASSUME UNCHANGED <<pc, owed, applied, decisions>> PROVE applied' = decisions'
  BY <1>5 DEF DecisionsApplied, Quiet
<1>6. QED
  BY <1>1, <1>2, <1>3, <1>4, <1>5
     DEF Next, Step, vars, store, procs, EditSource, Decide, Forget, Refresh, Commit,
         StartSync, ReplaceFails, Crash, StartDaemon

\* The only process that syncs is the only one that rules.
LEMMA NextReadsAreCurrent ==
    ASSUME AloneInv, Alone', [Next]_vars
    PROVE  ReadsAreCurrent'
<1> SUFFICES ASSUME NEW q \in Processes, pc'[q] = "replace" PROVE seen'[q] = decisions'
  BY DEF ReadsAreCurrent
<1> USE DEF AloneInv
<1>1. ASSUME NEW p \in Processes, pc' = [pc EXCEPT ![p] = "load"] PROVE FALSE
  BY <1>1 DEF Alone, Syncing, TypeOK
<1>2. ASSUME NEW p \in Processes, LoadSource(p) PROVE FALSE
  BY <1>2 DEF LoadSource, Alone, Syncing, TypeOK
<1>3. ASSUME NEW p \in Processes, ReadDecisions(p) PROVE seen'[q] = decisions'
  <2>1. p = q
    BY <1>3 DEF ReadDecisions, Alone, Syncing, TypeOK
  <2>2. QED  BY <1>3, <2>1 DEF ReadDecisions, TypeOK, store
<1>4. ASSUME NEW p \in Processes, Replace(p) \/ Stopped(p) PROVE seen'[q] = decisions'
  BY <1>4 DEF Replace, Stopped, store, ReadsAreCurrent, TypeOK
<1>5. ASSUME UNCHANGED <<pc, seen, decisions>> PROVE seen'[q] = decisions'
  BY <1>5 DEF ReadsAreCurrent
<1>6. QED
  BY <1>1, <1>2, <1>3, <1>4, <1>5
     DEF Next, Step, vars, store, procs, EditSource, Decide, Forget, Refresh, Commit,
         StartSync, ReplaceFails, Crash, StartDaemon

\* A lone process replaces the projection by one built from the standing
\* decisions.
LEMMA ReplaceAlone ==
    ASSUME AloneInv, NEW p \in Processes, Replace(p)
    PROVE  applied' = decisions /\ decisions' = decisions
BY DEF Replace, AloneInv, ReadsAreCurrent

\* Only Replace changes the projection.
LEMMA ProjectionStays ==
    ASSUME [Next]_vars
    PROVE  (\E p \in Processes : Replace(p)) \/ UNCHANGED <<applied, served>>
BY DEF Next, vars, store, procs, EditSource, Decide, Forget, Refresh, Commit, Step,
       LoadSource, ReadDecisions, ReplaceFails, Crash, Stopped, StartDaemon, StartSync

\* The invariant of syncs that do not overlap.
THEOREM AloneInvariant == Spec /\ []Alone => []AloneInv
<1>1. AloneInv /\ Alone /\ Alone' /\ [Next]_vars => AloneInv'
  BY NextTypeOK, StampsGrow, NextDecisionsApplied, NextReadsAreCurrent DEF AloneInv
<1>2. QED  BY <1>1, InitAlone, PTL DEF Spec

\* When no command is running and the last sync did not fail, the projection
\* was built with the standing decisions, provided that no two syncs overlap.
THEOREM AloneDecisionsApplied == Spec /\ []Alone => []DecisionsApplied
<1>1. AloneInv => DecisionsApplied
  BY DEF AloneInv
<1>2. QED  BY <1>1, AloneInvariant, PTL

\* Provided that no two syncs overlap, they implement the abstract projection:
\* a commit is one of its rulings, and the last step of a sync its rebuilding.
THEOREM AloneImplementsProjection == Spec /\ []Alone => ImplementsProjection
<1>1. Init => P!ProjectionInit
  BY DEF Init, P!ProjectionInit
<1>2. AloneInv /\ [Next]_vars => [P!Rule \/ P!Rebuild]_(P!pvars)
  <2> SUFFICES ASSUME AloneInv, [Next]_vars PROVE [P!Rule \/ P!Rebuild]_(P!pvars)
    OBVIOUS
  <2>1. CASE \E p \in Processes : Replace(p)
    BY <2>1, ReplaceAlone DEF P!Rebuild
  <2>2. CASE UNCHANGED <<applied, served>>
    <3>1. ASSUME NEW p \in Processes, NEW pair \in Pairs, NEW verdict \in P!Verdicts,
                 Commit(p, pair, verdict)
          PROVE  P!Rule
      <4>1. \A q \in Pairs \ {pair} : decisions'[q] = decisions[q]
        BY <3>1, CommitStamps DEF AloneInv
      <4>2. decisions' \in [Pairs -> P!Ruling]
        BY NextTypeOK DEF AloneInv, TypeOK
      <4>3. QED  BY <2>2, <4>1, <4>2 DEF P!Rule
    <3>2. QED  BY <2>2, <3>1, DecisionsStay DEF P!pvars
  <2>3. QED  BY <2>1, <2>2, ProjectionStays
<1>3. QED
  BY <1>1, <1>2, AloneInvariant, PTL DEF Spec, ImplementsProjection, P!ProjectionSpec
=============================================================================
