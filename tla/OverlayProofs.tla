---------------------------- MODULE OverlayProofs ----------------------------
(***************************************************************************)
(* Machine-checked proofs about the overlay: type correctness, and, for    *)
(* every address book, page size and order of typing, paging, cancelling   *)
(* and answering: the list comes to rest on the answer to the text shown,  *)
(* the records held are those asked for last, and the settings pane comes  *)
(* to rest on what is configured and stored.                               *)
(***************************************************************************)
EXTENDS Overlay, SequenceTheorems, TLAPS

-----------------------------------------------------------------------------
(***************************************************************************)
(* Child processes                                                         *)
(***************************************************************************)
\* A child is cancelled only to start another, and what it was cancelled for is
\* a command.
Tidy(p) ==
    /\ p.killed <=> p.again
    /\ ~Running(p) => ~p.again
    /\ p.again => p.command # None

\* A child that was not cancelled works on the command set last.
OnCommand(p) == Running(p) /\ ~p.again => p.job = p.command

\* A child that is launched, or relaunched, is a child.
LEMMA LaunchType ==
    ASSUME NEW C, NEW p \in ProcessOver(C), NEW c \in C
    PROVE  Launch(p, c) \in ProcessOver(C)
BY DEF Launch, ProcessOver, Running

\* So is one that has ended.
LEMMA EndedType ==
    ASSUME NEW C, NEW p \in ProcessOver(C)
    PROVE  Ended(p) \in ProcessOver(C)
BY DEF Ended, ProcessOver

\* So is one that was never started.
LEMMA NotStartedType == ASSUME NEW C PROVE NotStarted \in ProcessOver(C)
BY DEF NotStarted, ProcessOver

\* After a launch a child runs, and the command is the one that was asked.
LEMMA LaunchProperties ==
    ASSUME NEW C, None \notin C, NEW p \in ProcessOver(C), NEW c \in C, Tidy(p)
    PROVE  /\ Running(Launch(p, c)) /\ Launch(p, c).command = c
           /\ Tidy(Launch(p, c))
           /\ Launch(p, c).again <=> Running(p)
           /\ ~Running(p) => Launch(p, c).job = c
           /\ Running(p) => Launch(p, c).job = p.job
BY DEF Launch, ProcessOver, Running, Tidy

\* A child that was cancelled is followed by one that works on its command; any
\* other by none.
LEMMA EndedProperties ==
    ASSUME NEW C, NEW p \in ProcessOver(C), Tidy(p)
    PROVE  /\ Tidy(Ended(p)) /\ Ended(p).command = p.command /\ ~Ended(p).again
           /\ p.again => Running(Ended(p)) /\ Ended(p).job = p.command
           /\ ~p.again => ~Running(Ended(p))
BY DEF Ended, ProcessOver, Running, Tidy

-----------------------------------------------------------------------------
(***************************************************************************)
(* Rows                                                                    *)
(***************************************************************************)
LEMMA PrefixIsRows ==
    ASSUME NEW S, NEW s \in Seq(S), NEW m \in Nat \ {0}, NEW n \in 0 .. Len(s)
    PROVE  SubSeq(s, m, n) \in Seq(S) /\ Len(SubSeq(s, m, n)) = IF m <= n THEN n - m + 1 ELSE 0
<1>1. \A i \in m .. n : s[i] \in S
  BY ElementOfSeq, LenProperties
<1>2. m \in Int /\ n \in Int
  BY LenProperties
<1> QED
  BY <1>1, <1>2, SubSeqProperties

\* How far the page asked for reaches (overlay and cli.py both count in pages).
PageEnd(offset) ==
    IF offset + PageSize < Len(Rows[Browse]) THEN offset + PageSize ELSE Len(Rows[Browse])

\* The answer to a question is a page of the list, or the whole of a search.
LEMMA AnswerIsPage ==
    ASSUME NEW job \in Questions
    PROVE  /\ Answer(job) = IF job.query = Browse
                            THEN SubSeq(Rows[Browse], job.offset + 1, PageEnd(job.offset))
                            ELSE Rows[job.query]
           /\ Answer(job) \in Seq(People)
<1>1. Rows[Browse] \in Seq(People) /\ Rows[job.query] \in Seq(People)
  BY OverlayAssumption DEF Questions
<1>2. Len(Rows[Browse]) \in Nat /\ job.offset \in Nat /\ PageSize \in Nat
  BY <1>1, LenProperties, OverlayAssumption DEF Questions
<1>3. PageEnd(job.offset) \in 0 .. Len(Rows[Browse]) /\ job.offset + 1 \in Nat \ {0}
  BY <1>2 DEF PageEnd
<1>4. SubSeq(Rows[Browse], job.offset + 1, PageEnd(job.offset)) \in Seq(People)
  BY <1>1, <1>3, PrefixIsRows
<1> QED
  BY <1>1, <1>4 DEF Answer, PageEnd

\* A further page continues the rows that are there.
LEMMA PageContinues ==
    ASSUME NEW m \in 0 .. Len(Rows[Browse])
    PROVE  LET page == SubSeq(Rows[Browse], m + 1, PageEnd(m))
           IN  /\ SubSeq(Rows[Browse], 1, m) \o page = SubSeq(Rows[Browse], 1, PageEnd(m))
               /\ PageEnd(m) \in m .. Len(Rows[Browse])
               /\ Len(page) = PageEnd(m) - m
               /\ Len(page) < PageSize => PageEnd(m) = Len(Rows[Browse])
<1>1. Rows[Browse] \in Seq(People) /\ Len(Rows[Browse]) \in Nat /\ PageSize \in Nat \ {0}
  BY OverlayAssumption, LenProperties
<1>2. PageEnd(m) \in m .. Len(Rows[Browse])
  BY <1>1 DEF PageEnd
<1>3. SubSeq(Rows[Browse], 1, m) \o SubSeq(Rows[Browse], m + 1, PageEnd(m))
         = SubSeq(Rows[Browse], 1, PageEnd(m))
  <2>1. 1 \in 1 .. Len(Rows[Browse]) + 1 /\ m \in 1 - 1 .. Len(Rows[Browse])
    BY <1>1
  <2> QED
    BY <1>1, <1>2, <2>1, ConcatAdjacentSubSeq
<1>4. Len(SubSeq(Rows[Browse], m + 1, PageEnd(m))) = PageEnd(m) - m
  <2>1. m + 1 \in Nat \ {0} /\ PageEnd(m) \in 0 .. Len(Rows[Browse])
    BY <1>1, <1>2
  <2>2. Len(SubSeq(Rows[Browse], m + 1, PageEnd(m)))
           = IF m + 1 <= PageEnd(m) THEN PageEnd(m) - (m + 1) + 1 ELSE 0
    BY <1>1, <2>1, PrefixIsRows
  <2> QED
    BY <1>1, <1>2, <2>2
<1>5. PageEnd(m) - m < PageSize => PageEnd(m) = Len(Rows[Browse])
  BY <1>1 DEF PageEnd
<1> QED
  BY <1>2, <1>3, <1>4, <1>5
-----------------------------------------------------------------------------
(***************************************************************************)
(* Type correctness                                                        *)
(***************************************************************************)
\* The parts of TypeOK.
ListTypes ==
    /\ search \in ProcessOver(Questions) /\ listOffset \in Nat
    /\ people \in Seq(People) /\ results \in Seq(People)
    /\ {searching, watchdog, appending, listComplete, backendMissing, disturbed} \subseteq BOOLEAN
DetailTypes ==
    /\ detail \in People \cup {None} /\ detailRecords \in People \cup {None}
    /\ records \in ProcessOver(People)
    /\ {recordsExpanded, recordsLoaded} \subseteq BOOLEAN
PaneTypes ==
    /\ settings \in ProcessOver(Readings)
    /\ sourceSettings \in [enabled : BOOLEAN, counted : BOOLEAN] \cup {None}
    /\ toggler \in ProcessOver(Toggles)
    /\ {config, synced, misread} \subseteq BOOLEAN
ScreenTypes ==
    /\ {opened, settingsOpen, debounce} \subseteq BOOLEAN
    /\ filterText \in Queries
    /\ inputs \in 0 .. MaxInputs /\ failures \in 0 .. MaxFailures

\* The types by what on the screen they belong to.
LEMMA TypeParts == TypeOK <=> ListTypes /\ DetailTypes /\ PaneTypes /\ ScreenTypes
BY DEF TypeOK, ListTypes, DetailTypes, PaneTypes, ScreenTypes

\* The same after a step.
LEMMA TypePartsNext == TypeOK' <=> ListTypes' /\ DetailTypes' /\ PaneTypes' /\ ScreenTypes'
BY DEF TypeOK, ListTypes, DetailTypes, PaneTypes, ScreenTypes

\* Steps that leave the list alone.
LEMMA ListStays == ListTypes /\ UNCHANGED listVars => ListTypes'
BY DEF ListTypes, listVars

\* Steps that leave the contact alone.
LEMMA DetailStays == DetailTypes /\ UNCHANGED detailVars => DetailTypes'
BY DEF DetailTypes, detailVars

\* Steps that leave the settings pane alone.
LEMMA PaneStays == PaneTypes /\ UNCHANGED paneVars => PaneTypes'
BY DEF PaneTypes, paneVars

\* Gestures are counted up to their bound.
LEMMA InputType == ScreenTypes /\ Input => inputs' \in 0 .. MaxInputs /\ failures' \in 0 .. MaxFailures
BY OverlayAssumption DEF ScreenTypes, Input

\* Failures are counted up to their bound.
LEMMA FailsType ==
    ASSUME ScreenTypes, NEW p, p.killed \in BOOLEAN, Fails(p)
    PROVE  failures' \in 0 .. MaxFailures
BY OverlayAssumption DEF ScreenTypes, Fails

\* Putting a query keeps the types of the list.
LEMMA RunQueryTypes ==
    ASSUME ListTypes, NEW query \in Queries, RunQuery(query)
    PROVE  ListTypes'
<1>1. [query |-> query, offset |-> 0] \in Questions
  BY DEF Questions
<1>2. search' \in ProcessOver(Questions)
  BY <1>1, LaunchType DEF RunQuery, ListTypes
<1> QED
  BY <1>2 DEF RunQuery, ListTypes

\* The list's handlers keep the list's types.
LEMMA ListHandlersType ==
    ASSUME ListTypes, LoadMore \/ SearchAnswers \/ SearchFails \/ Watchdog
    PROVE  ListTypes'
<1>1. CASE LoadMore
  <2>1. [query |-> Browse, offset |-> listOffset] \in Questions
    BY OverlayAssumption DEF Questions, ListTypes
  <2>2. search' \in ProcessOver(Questions)
    BY <1>1, <2>1, LaunchType DEF LoadMore, ListTypes
  <2> QED
    BY <1>1, <2>2 DEF LoadMore, ListTypes
<1>2. CASE SearchAnswers
  <2> DEFINE rows == Answer(search.job)
  <2>1. search.job \in Questions
    BY <1>2 DEF SearchAnswers, ListTypes, ProcessOver, Running
  <2>2. rows \in Seq(People)
    BY <2>1, AnswerIsPage
  <2>3. Len(rows) \in Nat /\ people \o rows \in Seq(People) /\ results \o rows \in Seq(People)
    BY <2>2, LenProperties, ConcatProperties DEF ListTypes
  <2>4. search' \in ProcessOver(Questions)
    BY <1>2, EndedType DEF SearchAnswers, ListTypes
  <2>5. search.killed \in BOOLEAN
    BY DEF ListTypes, ProcessOver
  <2>6. ApplyResults(rows) /\ disturbed' = (disturbed \/ search.killed)
    BY <1>2 DEF SearchAnswers
  <2> HIDE DEF rows
  <2>7. people' \in Seq(People) /\ results' \in Seq(People) /\ listOffset' \in Nat
    BY <2>2, <2>3, <2>6 DEF ApplyResults, ListTypes
  <2>8. {searching', watchdog', appending', backendMissing'} \subseteq BOOLEAN
    BY <2>6 DEF ApplyResults
  <2>9. listComplete' \in BOOLEAN /\ disturbed' \in BOOLEAN
    BY <2>5, <2>6 DEF ApplyResults, ListTypes
  <2> QED
    BY <2>4, <2>7, <2>8, <2>9 DEF ListTypes
<1>3. CASE SearchFails
  <2>1. search' \in ProcessOver(Questions)
    BY <1>3, EndedType DEF SearchFails, ListTypes
  <2>2. disturbed' \in BOOLEAN
    BY <1>3 DEF SearchFails, ListTypes, ProcessOver
  <2>3. <<>> \in Seq(People)
    BY EmptySeq
  <2> QED
    BY <1>3, <2>1, <2>2, <2>3 DEF SearchFails, ApplyNothing, ListTypes
<1>4. CASE Watchdog
  BY <1>4 DEF Watchdog, ListTypes
<1> QED
  BY <1>1, <1>2, <1>3, <1>4

\* The question `omadex sources` starts from.
Asked == [phase |-> "asked", enabled |-> FALSE, counted |-> FALSE]

\* Loading the settings launches their child.
LEMMA LoadSettingsType ==
    ASSUME settings \in ProcessOver(Readings), LoadSettings
    PROVE  settings' \in ProcessOver(Readings)
<1>1. Asked \in Readings
  BY DEF Asked, Readings
<1> QED
  BY <1>1, LaunchType DEF LoadSettings, Asked

\* The handlers of the settings pane keep its types.
LEMMA PaneHandlersType ==
    ASSUME PaneTypes,
           \/ SettingsRead \/ SettingsAnswer \/ SettingsFail
           \/ TogglerWrites \/ TogglerSyncs \/ TogglerEnds
    PROVE  PaneTypes'
<1>1. CASE SettingsRead
  <2>1. settings' \in ProcessOver(Readings)
    BY <1>1 DEF SettingsRead, PaneTypes, ProcessOver, Readings
  <2> QED
    BY <1>1, <2>1 DEF SettingsRead, PaneTypes
<1>2. CASE SettingsAnswer
  <2>1. settings.job \in Readings
    BY <1>2 DEF SettingsAnswer, PaneTypes, ProcessOver, Running
  <2>2. sourceSettings' \in [enabled : BOOLEAN, counted : BOOLEAN]
    BY <1>2, <2>1 DEF SettingsAnswer, Readings
  <2>3. settings' \in ProcessOver(Readings)
    BY <1>2, EndedType DEF SettingsAnswer, PaneTypes
  <2> QED
    BY <1>2, <2>2, <2>3 DEF SettingsAnswer, PaneTypes
<1>3. CASE SettingsFail
  <2>1. settings' \in ProcessOver(Readings)
    BY <1>3, EndedType DEF SettingsFail, PaneTypes
  <2> QED
    BY <1>3, <2>1 DEF SettingsFail, PaneTypes
<1>4. CASE TogglerWrites
  <2>1. toggler.job \in Toggles
    BY <1>4 DEF TogglerWrites, PaneTypes, ProcessOver, Running
  <2>2. [toggler.job EXCEPT !.phase = "written"] \in Toggles
    BY <2>1 DEF Toggles
  <2>3. toggler' = [toggler EXCEPT !.job = [toggler.job EXCEPT !.phase = "written"]]
    BY <1>4 DEF TogglerWrites, PaneTypes, ProcessOver
  <2>4. toggler' \in ProcessOver(Toggles)
    BY <2>2, <2>3 DEF PaneTypes, ProcessOver
  <2> QED
    BY <1>4, <2>1, <2>4 DEF TogglerWrites, PaneTypes, Toggles
<1>5. CASE TogglerSyncs
  <2>1. toggler.job \in Toggles
    BY <1>5 DEF TogglerSyncs, PaneTypes, ProcessOver, Running
  <2>2. [toggler.job EXCEPT !.phase = "synced"] \in Toggles
    BY <2>1 DEF Toggles
  <2>3. toggler' = [toggler EXCEPT !.job = [toggler.job EXCEPT !.phase = "synced"]]
    BY <1>5 DEF TogglerSyncs, PaneTypes, ProcessOver
  <2>4. toggler' \in ProcessOver(Toggles)
    BY <2>2, <2>3 DEF PaneTypes, ProcessOver
  <2> QED
    BY <1>5, <2>4 DEF TogglerSyncs, PaneTypes
<1>6. CASE TogglerEnds
  <2>1. toggler' \in ProcessOver(Toggles)
    BY <1>6, EndedType DEF TogglerEnds, PaneTypes
  <2>2. settings' \in ProcessOver(Readings)
    BY <1>6, LoadSettingsType DEF TogglerEnds, PaneTypes
  <2> QED
    BY <1>6, <2>1, <2>2 DEF TogglerEnds, PaneTypes
<1> QED
  BY <1>1, <1>2, <1>3, <1>4, <1>5, <1>6

\* Every gesture, timer and answer keeps the types.
LEMMA TypeStep == TypeOK /\ [Next]_vars => TypeOK'
<1> SUFFICES ASSUME TypeOK, [Next]_vars PROVE ListTypes' /\ DetailTypes' /\ PaneTypes' /\ ScreenTypes'
  BY TypePartsNext
<1>t. ListTypes /\ DetailTypes /\ PaneTypes /\ ScreenTypes
  BY TypeParts
<1>1. ASSUME NEW text \in Queries, SetFilter(text) PROVE ListTypes' /\ DetailTypes' /\ PaneTypes' /\ ScreenTypes'
  BY <1>1, <1>t, ListStays, DetailStays, PaneStays, InputType DEF SetFilter, ScreenTypes
<1>2. ASSUME NEW i \in DOMAIN results, OpenDetail(i) PROVE ListTypes' /\ DetailTypes' /\ PaneTypes' /\ ScreenTypes'
  <2>1. people[i] \in People
    BY <1>2, <1>t, ElementOfSeq, LenProperties DEF OpenDetail, ListTypes
  <2>2. DetailTypes'
    BY <1>2, <1>t, <2>1 DEF OpenDetail, DetailTypes
  <2> QED
    BY <1>2, <1>t, <2>2, ListStays, PaneStays, InputType DEF OpenDetail, ScreenTypes
<1>3. CASE Open
  <2>1. ListTypes'
    BY <1>3, <1>t, RunQueryTypes, OverlayAssumption DEF Open
  <2>2. DetailTypes' /\ ScreenTypes'
    BY <1>3, <1>t, InputType, OverlayAssumption DEF Open, DetailTypes, ScreenTypes
  <2>3. PaneTypes'
    BY <1>3, <1>t, LoadSettingsType DEF Open, PaneTypes
  <2> QED
    BY <2>1, <2>2, <2>3
<1>4. CASE Dismiss
  BY <1>4, <1>t, ListStays, DetailStays, PaneStays, InputType DEF Dismiss, ScreenTypes
<1>5. CASE CloseDetail
  BY <1>5, <1>t, ListStays, PaneStays, InputType DEF CloseDetail, ScreenTypes, DetailTypes
<1>6. CASE ToggleRecords
  <2>1. records' \in ProcessOver(People)
    <3>1. detail \in People
      BY <1>6, <1>t DEF ToggleRecords, InContact, DetailTypes
    <3> QED
      BY <1>6, <1>t, <3>1, LaunchType DEF ToggleRecords, DetailTypes
  <2>2. DetailTypes'
    BY <1>6, <1>t, <2>1 DEF ToggleRecords, DetailTypes
  <2> QED
    BY <1>6, <1>t, <2>2, ListStays, PaneStays, InputType DEF ToggleRecords, ScreenTypes
<1>7. CASE OpenSettings
  <2>1. PaneTypes'
    BY <1>7, <1>t, LoadSettingsType DEF OpenSettings, PaneTypes
  <2> QED
    BY <1>7, <1>t, <2>1, ListStays, DetailStays, InputType DEF OpenSettings, ScreenTypes
<1>8. CASE CloseSettings
  <2>1. ListTypes'
    BY <1>8, <1>t, RunQueryTypes DEF CloseSettings, ScreenTypes
  <2> QED
    BY <1>8, <1>t, <2>1, DetailStays, PaneStays, InputType DEF CloseSettings, ScreenTypes
<1>9. CASE ToggleSource
  <2>1. [phase |-> "asked", to |-> ~sourceSettings.enabled] \in Toggles
    BY <1>9, <1>t DEF ToggleSource, PaneTypes, Toggles
  <2>2. toggler' \in ProcessOver(Toggles)
    BY <1>9, <1>t, <2>1, LaunchType DEF ToggleSource, PaneTypes
  <2>3. PaneTypes'
    BY <1>9, <1>t, <2>2 DEF ToggleSource, PaneTypes
  <2> QED
    BY <1>9, <1>t, <2>3, ListStays, DetailStays, InputType DEF ToggleSource, ScreenTypes
<1>10. CASE Debounced
  <2>1. ListTypes'
    BY <1>10, <1>t, RunQueryTypes DEF Debounced, ScreenTypes
  <2> QED
    BY <1>10, <1>t, <2>1, DetailStays, PaneStays DEF Debounced, ScreenTypes
<1>11. CASE LoadMore
  BY <1>11, <1>t, ListHandlersType, DetailStays, PaneStays DEF LoadMore, ScreenTypes
<1>12. CASE Watchdog
  BY <1>12, <1>t, ListHandlersType, DetailStays, PaneStays DEF Watchdog, ScreenTypes
<1>13. CASE SearchAnswers
  BY <1>13, <1>t, ListHandlersType, DetailStays, PaneStays DEF SearchAnswers, ScreenTypes
<1>14. CASE SearchFails
  <2>1. search.killed \in BOOLEAN
    BY <1>t DEF ListTypes, ProcessOver
  <2>2. failures' \in 0 .. MaxFailures
    BY <1>14, <1>t, <2>1, FailsType DEF SearchFails
  <2> QED
    BY <1>14, <1>t, <2>2, ListHandlersType, DetailStays, PaneStays DEF SearchFails, ScreenTypes
<1>15. CASE RecordsAnswer \/ RecordsFail
  <2>1. records.job \in People \cup {None} /\ records.killed \in BOOLEAN
    BY <1>t DEF DetailTypes, ProcessOver
  <2>2. DetailTypes'
    <3>1. records' \in ProcessOver(People)
      BY <1>15, <1>t, EndedType DEF RecordsAnswer, RecordsFail, ApplyRecords, DetailTypes
    <3> QED
      BY <1>15, <1>t, <2>1, <3>1 DEF RecordsAnswer, RecordsFail, ApplyRecords, DetailTypes
  <2>3. failures' \in 0 .. MaxFailures
    BY <1>15, <1>t, <2>1, FailsType DEF RecordsAnswer, RecordsFail, ScreenTypes
  <2> QED
    BY <1>15, <1>t, <2>2, <2>3, ListStays, PaneStays
    DEF RecordsAnswer, RecordsFail, ApplyRecords, ScreenTypes
<1>16. CASE SettingsRead \/ SettingsAnswer \/ SettingsFail \/ TogglerWrites \/ TogglerSyncs \/ TogglerEnds
  <2>1. PaneTypes'
    BY <1>16, <1>t, PaneHandlersType
  <2>2. Elsewhere
    BY <1>16 DEF SettingsRead, SettingsAnswer, SettingsFail, TogglerWrites, TogglerSyncs, TogglerEnds
  <2>3. failures' \in 0 .. MaxFailures
    <3>1. settings.killed \in BOOLEAN /\ toggler.killed \in BOOLEAN
      BY <1>t DEF PaneTypes, ProcessOver
    <3>2. Fails(settings) \/ Fails(toggler) \/ failures' = failures
      BY <1>16 DEF SettingsRead, SettingsAnswer, SettingsFail, TogglerWrites, TogglerSyncs, TogglerEnds
    <3> QED
      BY <1>t, <3>1, <3>2, FailsType DEF ScreenTypes
  <2> QED
    BY <1>t, <2>1, <2>2, <2>3, ListStays, DetailStays DEF Elsewhere, ScreenTypes
<1>17. CASE UNCHANGED vars
  BY <1>17, <1>t, ListStays, DetailStays, PaneStays DEF vars, ScreenTypes
<1> QED
  BY <1>1, <1>2, <1>3, <1>4, <1>5, <1>6, <1>7, <1>8, <1>9, <1>10, <1>11, <1>12,
     <1>13, <1>14, <1>15, <1>16, <1>17 DEF Next, Answers

\* The overlay is closed at first.
LEMMA TypeInit == Init => TypeOK
<1> SUFFICES ASSUME Init PROVE TypeOK
  OBVIOUS
<1>1. <<>> \in Seq(People)
  BY EmptySeq
<1>2. ListTypes
  BY <1>1, NotStartedType DEF Init, ListTypes
<1>3. DetailTypes /\ PaneTypes
  BY NotStartedType DEF Init, DetailTypes, PaneTypes
<1>4. ScreenTypes
  <2>1. Browse \in Queries /\ 0 \in 0 .. MaxInputs /\ 0 \in 0 .. MaxFailures
    BY OverlayAssumption
  <2>2. opened = FALSE /\ settingsOpen = FALSE /\ debounce = FALSE
    BY DEF Init
  <2>3. filterText = Browse /\ inputs = 0 /\ failures = 0
    BY DEF Init
  <2> QED
    BY <2>1, <2>2, <2>3 DEF ScreenTypes
<1> QED
  BY <1>2, <1>3, <1>4, TypeParts

\* Whatever is typed, clicked, answered, cancelled or left hanging, the overlay
\* holds what it can hold.
THEOREM OverlayTypeCorrect == Spec => []TypeOK
BY TypeInit, TypeStep, PTL DEF Spec
-----------------------------------------------------------------------------
(***************************************************************************)
(* The records held are those asked for last                               *)
(***************************************************************************)
RecordsInv == TypeOK /\ Tidy(records) /\ OnCommand(records) /\ LastAskedWins

\* A child that was never started has nothing to answer.
LEMMA NotStartedTidy == Tidy(NotStarted) /\ OnCommand(NotStarted)
BY DEF Tidy, OnCommand, NotStarted, Running

\* No contact is open at first.
LEMMA RecordsInit == Init => RecordsInv
BY TypeInit, NotStartedTidy DEF Init, RecordsInv, LastAskedWins

\* Steps that leave the records' child alone.
LEMMA RecordsStay ==
    ASSUME RecordsInv, TypeOK', records' = records, detailRecords' \in {detailRecords, None}
    PROVE  RecordsInv'
BY DEF RecordsInv, LastAskedWins, Tidy, OnCommand, Running

\* Every step keeps the records on the contact asked for last.
LEMMA RecordsStep == RecordsInv /\ [Next]_vars => RecordsInv'
<1> SUFFICES ASSUME RecordsInv, [Next]_vars PROVE RecordsInv'
  OBVIOUS
<1>t. TypeOK' /\ DetailTypes /\ records \in ProcessOver(People)
  BY TypeStep, TypeParts DEF RecordsInv, DetailTypes
<1>1. CASE ToggleRecords
  <2>1. CASE records' = Launch(records, detail) /\ detailRecords' = None
    <3>1. detail \in People /\ None \notin People
      BY <1>1, <1>t, OverlayAssumption DEF ToggleRecords, InContact, DetailTypes
    <3>2. Tidy(records') /\ OnCommand(records') /\ Running(records')
      BY <1>t, <2>1, <3>1, LaunchProperties DEF OnCommand, RecordsInv
    <3> QED
      BY <1>t, <2>1, <3>2 DEF RecordsInv, LastAskedWins, Tidy, OnCommand, Running
  <2>2. CASE records' = records
    BY <1>1, <1>t, <2>2, RecordsStay DEF ToggleRecords
  <2> QED
    BY <1>1, <2>1, <2>2 DEF ToggleRecords
<1>2. CASE RecordsAnswer
  <2>1. Running(records) /\ records' = Ended(records) /\ detailRecords' = records.job
    BY <1>2 DEF RecordsAnswer, ApplyRecords
  <2>2. /\ Tidy(records') /\ records'.command = records.command /\ ~records'.again
        /\ records.again => Running(records') /\ records'.job = records.command
        /\ ~records.again => ~Running(records')
    BY <1>t, <2>1, EndedProperties DEF RecordsInv
  <2>3. OnCommand(records')
    BY <2>2 DEF OnCommand, RecordsInv
  <2>4. ~Running(records') => records.job = records'.command
    BY <2>1, <2>2 DEF RecordsInv, OnCommand
  <2> QED
    BY <1>t, <2>1, <2>2, <2>3, <2>4 DEF RecordsInv, LastAskedWins, Tidy, OnCommand, Running
<1>3. CASE RecordsFail
  <2>1. records' = Ended(records) /\ detailRecords' = None
    BY <1>3 DEF RecordsFail, ApplyRecords
  <2>2. /\ Tidy(records') /\ records'.command = records.command /\ ~records'.again
        /\ records.again => Running(records') /\ records'.job = records.command
        /\ ~records.again => ~Running(records')
    BY <1>t, <2>1, EndedProperties DEF RecordsInv
  <2>3. OnCommand(records')
    BY <2>2 DEF OnCommand, RecordsInv
  <2> QED
    BY <1>t, <2>1, <2>2, <2>3 DEF RecordsInv, LastAskedWins, Tidy, OnCommand, Running
<1>4. ASSUME NEW i, OpenDetail(i) PROVE RecordsInv'
  BY <1>4, <1>t, RecordsStay DEF OpenDetail
<1>5. CASE CloseDetail
  BY <1>5, <1>t, RecordsStay DEF CloseDetail
<1>6. CASE Open
  BY <1>6, <1>t, RecordsStay DEF Open
<1>7. ASSUME UNCHANGED detailVars PROVE RecordsInv'
  BY <1>7, <1>t, RecordsStay DEF detailVars
<1>8. ASSUME NEW text, SetFilter(text) PROVE UNCHANGED detailVars
  BY <1>8 DEF SetFilter
<1>9. ASSUME \/ Dismiss \/ OpenSettings \/ CloseSettings \/ ToggleSource
             \/ Debounced \/ LoadMore \/ Watchdog \/ SearchAnswers \/ SearchFails
      PROVE UNCHANGED detailVars
  BY <1>9 DEF Dismiss, OpenSettings, CloseSettings, ToggleSource, Debounced, LoadMore,
     Watchdog, SearchAnswers, SearchFails
<1>10. ASSUME \/ SettingsRead \/ SettingsAnswer \/ SettingsFail
              \/ TogglerWrites \/ TogglerSyncs \/ TogglerEnds
       PROVE UNCHANGED detailVars
  BY <1>10 DEF SettingsRead, SettingsAnswer, SettingsFail, TogglerWrites, TogglerSyncs,
     TogglerEnds, Elsewhere
<1>11. CASE UNCHANGED vars
  BY <1>7, <1>11 DEF vars
<1> QED
  BY <1>1, <1>2, <1>3, <1>4, <1>5, <1>6, <1>7, <1>8, <1>9, <1>10, <1>11 DEF Next, Answers

\* Contacts are opened, expanded, folded and left while records are on their way:
\* when none are, those held are the ones asked for last.
THEOREM LastAskedIsHeld == Spec => []LastAskedWins
<1>1. RecordsInv => LastAskedWins
  BY DEF RecordsInv
<1> QED
  BY RecordsInit, RecordsStep, <1>1, PTL DEF Spec

-----------------------------------------------------------------------------
(***************************************************************************)
(* The settings pane                                                       *)
(***************************************************************************)
Configured == [enabled |-> config, counted |-> synced]

\* A reading that nothing has overtaken is of what is configured and stored.
ReadingCurrent ==
    Running(settings) /\ settings.job.phase = "read" /\ ~settings.again /\ ~Running(toggler) =>
        [enabled |-> settings.job.enabled, counted |-> settings.job.counted] = Configured

\* While the pane is behind, a child is on its way that ends in a new reading.
PaneFollows ==
    \/ Running(toggler) \/ Running(settings)
    \/ sourceSettings = None \/ misread \/ sourceSettings = Configured

SettingsInv ==
    /\ TypeOK
    /\ Tidy(settings) /\ settings.command \in {None, Asked}
    /\ Tidy(toggler) /\ ~toggler.again
    /\ ReadingCurrent /\ PaneFollows

\* The pane is not loaded at first.
LEMMA SettingsInit == Init => SettingsInv
BY TypeInit, NotStartedTidy
DEF Init, SettingsInv, ReadingCurrent, PaneFollows, NotStarted, Running

\* Steps that leave the pane alone.
LEMMA SettingsStay ==
    ASSUME SettingsInv, TypeOK', UNCHANGED paneVars
    PROVE  SettingsInv'
BY DEF SettingsInv, paneVars, ReadingCurrent, PaneFollows, Configured, Tidy, Running

\* A pane that is loaded again has its reading still to make.
LEMMA LoadedAgain ==
    ASSUME SettingsInv, LoadSettings
    PROVE  /\ Tidy(settings') /\ settings'.command = Asked /\ Running(settings')
           /\ settings'.again \/ settings'.job.phase = "asked"
<1>1. Asked \in Readings /\ None \notin Readings
  BY OverlayAssumption DEF Asked, Readings
<1>2. settings \in ProcessOver(Readings) /\ Tidy(settings)
  BY TypeParts DEF SettingsInv, PaneTypes
<1>3. settings' = Launch(settings, Asked)
  BY DEF LoadSettings, Asked
<1>4. /\ Tidy(settings') /\ settings'.command = Asked /\ Running(settings')
      /\ settings'.again <=> Running(settings)
      /\ ~Running(settings) => settings'.job = Asked
  BY <1>1, <1>2, <1>3, LaunchProperties
<1> QED
  BY <1>4 DEF Asked

\* Every step keeps a reading on its way while the pane is behind.
LEMMA SettingsStep == SettingsInv /\ [Next]_vars => SettingsInv'
<1> SUFFICES ASSUME SettingsInv, [Next]_vars PROVE SettingsInv'
  OBVIOUS
<1>t. TypeOK' /\ PaneTypes /\ settings \in ProcessOver(Readings) /\ toggler \in ProcessOver(Toggles)
  BY TypeStep, TypeParts DEF SettingsInv, PaneTypes
<1>1. CASE Open \/ OpenSettings
  <2>1. LoadSettings /\ UNCHANGED <<toggler, config, synced, sourceSettings, misread>>
    BY <1>1 DEF Open, OpenSettings
  <2> QED
    BY <1>t, <2>1, LoadedAgain DEF SettingsInv, ReadingCurrent, PaneFollows
<1>2. CASE ToggleSource
  <2> DEFINE to == [phase |-> "asked", to |-> ~sourceSettings.enabled]
  <2>1. to \in Toggles /\ None \notin Toggles
    BY <1>2, <1>t, OverlayAssumption DEF ToggleSource, PaneTypes, Toggles
  <2>2. toggler' = Launch(toggler, to) /\ ~Running(toggler) /\ UNCHANGED <<settings, config, synced>>
    BY <1>2 DEF ToggleSource
  <2> HIDE DEF to
  <2>3. Running(toggler') /\ Tidy(toggler') /\ ~toggler'.again
    BY <1>t, <2>1, <2>2, LaunchProperties DEF SettingsInv, ProcessOver
  <2> QED
    BY <1>t, <2>2, <2>3 DEF SettingsInv, ReadingCurrent, PaneFollows, Tidy, Running
<1>3. CASE SettingsRead
  <2> DEFINE reading == [phase |-> "read", enabled |-> config, counted |-> synced]
  <2>1. reading \in Readings /\ reading # None
    BY <1>t, OverlayAssumption DEF PaneTypes, Readings
  <2>2. settings' = [settings EXCEPT !.job = reading] /\ Running(settings)
    BY <1>3 DEF SettingsRead
  <2>3. /\ settings'.job = reading /\ settings'.again = settings.again
        /\ settings'.killed = settings.killed /\ settings'.command = settings.command
    BY <1>t, <2>2 DEF ProcessOver
  <2>4. UNCHANGED <<toggler, config, synced>>
    BY <1>3 DEF SettingsRead
  <2>5. ReadingCurrent'
    BY <2>3, <2>4 DEF ReadingCurrent, Configured
  <2> HIDE DEF reading
  <2>6. Running(settings') /\ Tidy(settings')
    BY <2>1, <2>2, <2>3 DEF SettingsInv, Tidy, Running
  <2> QED
    BY <1>t, <2>3, <2>4, <2>5, <2>6 DEF SettingsInv, PaneFollows, Tidy, Running
<1>4. CASE SettingsAnswer
  <2>1. /\ settings' = Ended(settings) /\ UNCHANGED <<toggler, config, synced>>
        /\ sourceSettings' = [enabled |-> settings.job.enabled, counted |-> settings.job.counted]
        /\ Running(settings) /\ settings.job.phase = "read"
    BY <1>4 DEF SettingsAnswer
  <2>2. /\ Tidy(settings') /\ settings'.command = settings.command /\ ~settings'.again
        /\ settings.again => Running(settings') /\ settings'.job = settings.command
        /\ ~settings.again => ~Running(settings')
    BY <1>t, <2>1, EndedProperties DEF SettingsInv
  <2>3. Running(settings') => settings'.job.phase = "asked"
    BY <2>2 DEF SettingsInv, Tidy, Asked
  <2>4. PaneFollows'
    <3>1. CASE settings.again
      BY <2>2, <3>1 DEF PaneFollows
    <3>2. CASE ~settings.again /\ Running(toggler)
      BY <2>1, <3>2 DEF PaneFollows, Running
    <3>3. CASE ~settings.again /\ ~Running(toggler)
      BY <2>1, <3>3 DEF SettingsInv, ReadingCurrent, PaneFollows, Configured
    <3> QED
      BY <3>1, <3>2, <3>3
  <2> QED
    BY <1>t, <2>1, <2>2, <2>3, <2>4 DEF SettingsInv, ReadingCurrent, Tidy, Running
<1>5. CASE SettingsFail
  <2>1. /\ settings' = Ended(settings) /\ UNCHANGED <<toggler, config, synced>> /\ misread'
        /\ Running(settings)
    BY <1>5 DEF SettingsFail, Fails
  <2>2. /\ Tidy(settings') /\ settings'.command = settings.command /\ ~settings'.again
        /\ settings.again => Running(settings') /\ settings'.job = settings.command
        /\ ~settings.again => ~Running(settings')
    BY <1>t, <2>1, EndedProperties DEF SettingsInv
  <2>3. Running(settings') => settings'.job.phase = "asked"
    BY <2>2 DEF SettingsInv, Tidy, Asked
  <2> QED
    BY <1>t, <2>1, <2>2, <2>3 DEF SettingsInv, ReadingCurrent, PaneFollows, Tidy, Running
<1>6. CASE TogglerWrites \/ TogglerSyncs
  <2>1. /\ Running(toggler) /\ settings' = settings
        /\ \E phase \in {"written", "synced"} : toggler' = [toggler EXCEPT !.job.phase = phase]
    BY <1>6 DEF TogglerWrites, TogglerSyncs
  <2>2. toggler.job \in Toggles
    BY <1>t, <2>1 DEF ProcessOver, Running
  <2>3. PICK phase \in {"written", "synced"} :
           toggler' = [toggler EXCEPT !.job = [toggler.job EXCEPT !.phase = phase]]
    BY <1>t, <2>1 DEF ProcessOver
  <2>4. [toggler.job EXCEPT !.phase = phase] \in Toggles
    BY <2>2 DEF Toggles
  <2>5. /\ toggler'.job # None /\ toggler'.again = toggler.again
        /\ toggler'.killed = toggler.killed
    BY <1>t, <2>3, <2>4, OverlayAssumption DEF ProcessOver
  <2> QED
    BY <1>t, <2>1, <2>5 DEF SettingsInv, ReadingCurrent, PaneFollows, Tidy, Running
<1>7. CASE TogglerEnds
  <2>1. toggler' = Ended(toggler) /\ LoadSettings
    BY <1>7 DEF TogglerEnds
  <2>2. Tidy(toggler') /\ ~toggler'.again
    BY <1>t, <2>1, EndedProperties DEF SettingsInv
  <2> QED
    BY <1>t, <2>1, <2>2, LoadedAgain DEF SettingsInv, ReadingCurrent, PaneFollows
<1>8. ASSUME UNCHANGED paneVars PROVE SettingsInv'
  BY <1>8, <1>t, SettingsStay
<1>9. ASSUME NEW text, SetFilter(text) \/ OpenDetail(text) PROVE UNCHANGED paneVars
  BY <1>9 DEF SetFilter, OpenDetail
<1>10. ASSUME \/ Dismiss \/ CloseDetail \/ ToggleRecords \/ CloseSettings \/ Debounced
              \/ LoadMore \/ Watchdog \/ SearchAnswers \/ SearchFails
              \/ RecordsAnswer \/ RecordsFail
       PROVE  UNCHANGED paneVars
  BY <1>10 DEF Dismiss, CloseDetail, ToggleRecords, CloseSettings, Debounced, LoadMore,
     Watchdog, SearchAnswers, SearchFails, RecordsAnswer, RecordsFail, ApplyRecords
<1>11. CASE UNCHANGED vars
  BY <1>8, <1>11 DEF vars
<1> QED
  BY <1>1, <1>2, <1>3, <1>4, <1>5, <1>6, <1>7, <1>8, <1>9, <1>10, <1>11 DEF Next, Answers

\* The source is switched, read and read again while children are on their way:
\* when none is left the pane shows what is configured and stored.
THEOREM PaneComesToRest == Spec => []SettingsCurrent
<1>1. SettingsInv => SettingsCurrent
  BY DEF SettingsInv, PaneFollows, SettingsCurrent, Configured
<1> QED
  BY SettingsInit, SettingsStep, <1>1, PTL DEF Spec

-----------------------------------------------------------------------------
(***************************************************************************)
(* The list                                                                *)
(***************************************************************************)
Text == search.command.query

\* The query has just been put: nothing of its answer is there.
Fresh ==
    /\ Running(search) /\ ~appending
    /\ search.command = [query |-> Text, offset |-> 0]
    /\ ~search.killed => search.job = search.command
    /\ listOffset = 0 /\ listComplete = (Text # Browse)

\* What the list holds is the beginning of the answer.
HoldsPages ==
    /\ listOffset \in 0 .. Len(Rows[Text])
    /\ people = SubSeq(Rows[Text], 1, listOffset)
    /\ results = people
    /\ listComplete => people = Rows[Text]
    /\ Text # Browse => listComplete

Landed == ~Running(search) /\ ~appending /\ HoldsPages

\* A further page is on its way.
Paging ==
    /\ Running(search) /\ ~search.killed /\ appending
    /\ Text = Browse /\ ~listComplete /\ HoldsPages
    /\ search.job = [query |-> Browse, offset |-> listOffset]

\* The list is at one of these, unless a search has failed or a cancelled one
\* has answered since the query began.
Stage == search.command # None /\ ~disturbed => Fresh \/ Landed \/ Paging

SearchInv ==
    /\ TypeOK /\ Tidy(search)
    /\ opened => search.command # None
    /\ search.command # None /\ ~debounce => Text = filterText
    /\ search.killed => ~appending
    /\ Stage

\* No query is put at first.
LEMMA SearchInit == Init => SearchInv
BY TypeInit, NotStartedTidy DEF Init, SearchInv, Stage, NotStarted

\* A step that leaves the list alone, or only its spinner and its watchdog.
ListAlone == UNCHANGED <<search, appending, listOffset, listComplete, people, results, disturbed>>

\* A step that leaves the list alone leaves it at its stage.
LEMMA StageStays == ASSUME Stage, ListAlone PROVE Stage'
BY DEF Stage, ListAlone, Fresh, Landed, Paging, HoldsPages, Text, Running

\* A query that has been put is fresh, whatever it replaces.
LEMMA RunQueryStarts ==
    ASSUME SearchInv, NEW query \in Queries, RunQuery(query)
    PROVE  /\ Tidy(search') /\ search'.command # None /\ Text' = query
           /\ Fresh' /\ ~appending'
<1> DEFINE question == [query |-> query, offset |-> 0]
<1>1. question \in Questions /\ None \notin Questions
  BY OverlayAssumption DEF Questions
<1>2. search \in ProcessOver(Questions) /\ Tidy(search)
  BY TypeParts DEF SearchInv, ListTypes
<1>3. /\ search' = Launch(search, question)
      /\ appending' = FALSE /\ listOffset' = 0 /\ listComplete' = (query # Browse)
  BY DEF RunQuery
<1>4. question.query = query
  OBVIOUS
<1> HIDE DEF question
<1>5. /\ Running(search') /\ search'.command = question /\ Tidy(search')
      /\ search'.again <=> Running(search)
      /\ ~Running(search) => search'.job = question
  BY <1>1, <1>2, <1>3, LaunchProperties
<1>6. ~search'.killed => search'.job = search'.command
  BY <1>5 DEF Tidy
<1>7. Text' = query /\ question # None
  BY <1>1, <1>4, <1>5 DEF Text
<1>8. Fresh'
  BY <1>3, <1>5, <1>6, <1>7 DEF Fresh, question, Running
<1> QED
  BY <1>3, <1>5, <1>7, <1>8

\* The end of a child that was not cancelled, told from its answer alone.
LEMMA AnswerLands ==
    ASSUME SearchInv, TypeOK', SearchAnswers, ~search.killed, Fresh \/ Paging
    PROVE  HoldsPages'
<1> DEFINE rows == Answer(search.job)
<1>1. /\ Running(search) /\ search' = Ended(search)
      /\ people' = IF appending THEN people \o rows ELSE rows
      /\ results' = IF appending THEN results \o rows ELSE rows
      /\ listOffset' = listOffset + Len(rows)
      /\ listComplete' = (listComplete \/ Len(rows) < PageSize)
  BY DEF SearchAnswers, ApplyResults
<1>2. search \in ProcessOver(Questions) /\ search.job \in Questions
  BY <1>1, TypeParts DEF SearchInv, ListTypes, ProcessOver, Running
<1>3. Text' = Text
  BY <1>1, <1>2, EndedProperties DEF Text, SearchInv
<1>4. Len(Rows[Browse]) \in Nat /\ Rows[Browse] \in Seq(People) /\ PageSize \in Nat \ {0}
  BY OverlayAssumption, LenProperties
<1>5. CASE Fresh /\ Text = Browse
  <2>1. search.job = [query |-> Browse, offset |-> 0]
    BY <1>5 DEF Fresh
  <2>2. rows = SubSeq(Rows[Browse], 1, PageEnd(0))
    BY <1>2, <2>1, AnswerIsPage
  <2>3. 0 \in 0 .. Len(Rows[Browse])
    BY <1>4
  <2>4. /\ PageEnd(0) \in 0 .. Len(Rows[Browse]) /\ Len(rows) = PageEnd(0)
        /\ Len(rows) < PageSize => PageEnd(0) = Len(Rows[Browse])
    BY <1>4, <2>2, <2>3, PageContinues
  <2>5. SubSeq(Rows[Browse], 1, Len(Rows[Browse])) = Rows[Browse]
    BY <1>4, SubSeqFull
  <2> HIDE DEF rows
  <2>6. people' = rows /\ results' = rows /\ listOffset' = PageEnd(0)
    BY <1>1, <1>5, <2>4 DEF Fresh
  <2>7. listComplete' => rows = Rows[Browse]
    BY <1>1, <1>5, <2>2, <2>4, <2>5 DEF Fresh
  <2> QED
    BY <1>3, <1>5, <2>2, <2>4, <2>6, <2>7 DEF HoldsPages
<1>6. CASE Fresh /\ Text # Browse
  <2>1. search.job = [query |-> Text, offset |-> 0]
    BY <1>6 DEF Fresh
  <2>2. rows = Rows[Text] /\ Text \in Queries
    BY <1>2, <1>6, <2>1, AnswerIsPage DEF Questions
  <2>3. rows \in Seq(People) /\ Len(rows) \in Nat
    BY <2>2, OverlayAssumption, LenProperties
  <2>4. SubSeq(rows, 1, Len(rows)) = rows
    BY <2>3, SubSeqFull
  <2> HIDE DEF rows
  <2>5. people' = rows /\ results' = rows /\ listOffset' = Len(rows) /\ listComplete'
    <3>1. ~appending /\ listOffset = 0 /\ listComplete
      BY <1>6, Zenon DEF Fresh
    <3>2. people' = rows /\ results' = rows /\ listComplete'
      BY <1>1, <3>1, Zenon
    <3> QED
      BY <1>1, <2>3, <3>1, <3>2
  <2> QED
    BY <1>3, <1>6, <2>2, <2>3, <2>4, <2>5 DEF HoldsPages
<1>7. CASE Paging
  <2>1. rows = SubSeq(Rows[Browse], listOffset + 1, PageEnd(listOffset))
    BY <1>2, <1>7, AnswerIsPage DEF Paging
  <2>2. /\ listOffset \in 0 .. Len(Rows[Browse]) /\ results = people
        /\ people = SubSeq(Rows[Browse], 1, listOffset)
    BY <1>7 DEF Paging, HoldsPages
  <2>3. /\ people \o rows = SubSeq(Rows[Browse], 1, PageEnd(listOffset))
        /\ PageEnd(listOffset) \in listOffset .. Len(Rows[Browse])
        /\ Len(rows) = PageEnd(listOffset) - listOffset
        /\ Len(rows) < PageSize => PageEnd(listOffset) = Len(Rows[Browse])
    BY <2>1, <2>2, PageContinues
  <2>4. SubSeq(Rows[Browse], 1, Len(Rows[Browse])) = Rows[Browse]
    BY <1>4, SubSeqFull
  <2> HIDE DEF rows
  <2>5. people' = people \o rows /\ results' = people'
    BY <1>1, <1>7, <2>2 DEF Paging
  <2>6. listOffset' = PageEnd(listOffset) /\ listOffset' \in 0 .. Len(Rows[Browse])
    BY <1>1, <1>4, <2>2, <2>3
  <2>7. listComplete' => people' = Rows[Browse]
    BY <1>1, <1>7, <2>3, <2>4, <2>5 DEF Paging
  <2> QED
    BY <1>3, <1>7, <2>3, <2>5, <2>6, <2>7 DEF HoldsPages, Paging
<1> QED
  BY <1>5, <1>6, <1>7

\* A child that was cancelled ends with a new one on the command set last.
LEMMA SearchEnds ==
    ASSUME SearchInv, search' = Ended(search)
    PROVE  /\ Tidy(search') /\ search'.command = search.command /\ Text' = Text
           /\ ~search'.killed
           /\ search.killed => Running(search') /\ search'.job = search.command
           /\ ~search.killed => ~Running(search')
<1>1. search \in ProcessOver(Questions) /\ Tidy(search)
  BY TypeParts DEF SearchInv, ListTypes
<1> QED
  BY <1>1, EndedProperties DEF Text, Tidy

\* Every step keeps the list at one of its stages.
LEMMA SearchStep == SearchInv /\ [Next]_vars => SearchInv'
<1> SUFFICES ASSUME SearchInv, [Next]_vars PROVE SearchInv'
  OBVIOUS
<1>t. TypeOK' /\ search \in ProcessOver(Questions) /\ filterText \in Queries /\ Browse \in Queries
  BY TypeStep, TypeParts, OverlayAssumption DEF SearchInv, ListTypes, ScreenTypes
<1>1. ASSUME NEW text, SetFilter(text) PROVE SearchInv'
  <2>1. ListAlone /\ debounce' /\ opened' = opened
    BY <1>1 DEF SetFilter, listVars, ListAlone
  <2> QED
    BY <1>t, <2>1, StageStays DEF SearchInv, ListAlone, Tidy, Running
<1>2. CASE Open
  BY <1>2, <1>t, RunQueryStarts DEF Open, SearchInv, Stage
<1>3. CASE CloseSettings \/ Debounced
  <2>1. RunQuery(filterText) /\ filterText' = filterText
    BY <1>3 DEF CloseSettings, Debounced
  <2> QED
    BY <1>t, <2>1, RunQueryStarts DEF SearchInv, Stage
<1>4. CASE LoadMore
  <2> DEFINE question == [query |-> Browse, offset |-> listOffset]
  <2>1. question \in Questions /\ None \notin Questions
    BY <1>t, TypeParts, OverlayAssumption DEF Questions, SearchInv, ListTypes
  <2>2. /\ search' = Launch(search, question) /\ ~Running(search) /\ appending'
        /\ opened /\ filterText = Browse /\ ~listComplete
        /\ UNCHANGED <<listOffset, listComplete, people, results, disturbed>>
        /\ UNCHANGED <<opened, filterText, debounce>>
    BY <1>4 DEF LoadMore
  <2>3. question.query = Browse
    OBVIOUS
  <2> HIDE DEF question
  <2>4. /\ Running(search') /\ search'.command = question /\ Tidy(search')
        /\ search'.again <=> Running(search)
        /\ search'.job = question
    BY <1>t, <2>1, <2>2, LaunchProperties DEF SearchInv
  <2>5. ~search'.killed /\ Text' = Browse
    BY <2>2, <2>3, <2>4 DEF Tidy, Text
  <2>6. Stage'
    <3> SUFFICES ASSUME ~disturbed PROVE Paging'
      BY <2>2 DEF Stage
    <3>1. Landed
      BY <2>2 DEF SearchInv, Stage, Fresh, Paging
    <3>2. Text = Browse
      BY <2>2, <3>1 DEF Landed, HoldsPages
    <3>3. HoldsPages'
      BY <2>2, <2>5, <3>1, <3>2 DEF Landed, HoldsPages
    <3> QED
      BY <2>2, <2>4, <2>5, <3>3 DEF Paging, question
  <2> QED
    BY <1>t, <2>1, <2>2, <2>4, <2>5, <2>6 DEF SearchInv
<1>5. CASE SearchAnswers
  <2>1. /\ search' = Ended(search) /\ Running(search) /\ ~appending'
        /\ disturbed' = (disturbed \/ search.killed)
        /\ UNCHANGED <<opened, filterText, debounce>>
    BY <1>5 DEF SearchAnswers, ApplyResults
  <2>2. Stage'
    <3> SUFFICES ASSUME search'.command # None, ~disturbed, ~search.killed PROVE Landed'
      BY <2>1 DEF Stage
    <3>1. Fresh \/ Paging
      BY <2>1, SearchEnds DEF SearchInv, Stage, Landed
    <3>2. HoldsPages'
      BY <1>5, <1>t, <3>1, AnswerLands
    <3> QED
      BY <2>1, <3>2, SearchEnds DEF Landed
  <2> QED
    BY <1>t, <2>1, <2>2, SearchEnds DEF SearchInv
<1>6. CASE SearchFails
  <2>1. /\ search' = Ended(search) /\ Running(search)
        /\ UNCHANGED <<opened, filterText, debounce, people, listOffset, listComplete, appending>>
        /\ disturbed' = (disturbed \/ ~search.killed)
    BY <1>6 DEF SearchFails, ApplyNothing, Fails
  <2>2. Stage'
    <3> SUFFICES ASSUME search'.command # None, ~disturbed, search.killed PROVE Fresh'
      BY <2>1 DEF Stage
    <3>1. Fresh
      BY <2>1, SearchEnds DEF SearchInv, Stage, Landed, Paging
    <3> QED
      BY <2>1, <3>1, SearchEnds DEF Fresh
  <2> QED
    BY <1>t, <2>1, <2>2, SearchEnds DEF SearchInv
<1>7. CASE Watchdog
  <2>1. ListAlone /\ UNCHANGED <<opened, filterText, debounce>>
    BY <1>7 DEF Watchdog, ListAlone
  <2> QED
    BY <1>t, <2>1, StageStays DEF SearchInv, ListAlone, Tidy, Running, Text
<1>8. CASE Dismiss
  <2>1. ListAlone /\ ~opened' /\ UNCHANGED <<filterText, debounce>>
    BY <1>8 DEF Dismiss, ListAlone, listVars
  <2> QED
    BY <1>t, <2>1, StageStays DEF SearchInv, ListAlone, Tidy, Running, Text
<1>9. ASSUME UNCHANGED <<opened, filterText, debounce, listVars>> PROVE SearchInv'
  <2>1. ListAlone /\ UNCHANGED <<opened, filterText, debounce>>
    BY <1>9 DEF ListAlone, listVars
  <2> QED
    BY <1>t, <2>1, StageStays DEF SearchInv, ListAlone, Tidy, Running, Text
<1>10. ASSUME NEW i, OpenDetail(i) PROVE UNCHANGED <<opened, filterText, debounce, listVars>>
  BY <1>10 DEF OpenDetail
<1>11. ASSUME \/ CloseDetail \/ ToggleRecords \/ OpenSettings \/ ToggleSource
              \/ RecordsAnswer \/ RecordsFail \/ SettingsRead \/ SettingsAnswer \/ SettingsFail
              \/ TogglerWrites \/ TogglerSyncs \/ TogglerEnds
       PROVE  UNCHANGED <<opened, filterText, debounce, listVars>>
  BY <1>11 DEF CloseDetail, ToggleRecords, OpenSettings, ToggleSource, RecordsAnswer,
     RecordsFail, ApplyRecords, SettingsRead, SettingsAnswer, SettingsFail,
     TogglerWrites, TogglerSyncs, TogglerEnds, Elsewhere
<1>12. CASE UNCHANGED vars
  BY <1>9, <1>12 DEF vars
<1> QED
  BY <1>1, <1>2, <1>3, <1>4, <1>5, <1>6, <1>7, <1>8, <1>9, <1>10, <1>11, <1>12 DEF Next, Answers

\* For every address book and page size: however queries are typed over,
\* cancelled and paged, the overlay comes to rest on the answer to its text.
THEOREM ListComesToRest == Spec => []ListAnswersFilter
<1>1. SearchInv => ListAnswersFilter
  BY DEF SearchInv, Stage, Fresh, Paging, Landed, HoldsPages, ListAnswersFilter, AtRest
<1> QED
  BY SearchInit, SearchStep, <1>1, PTL DEF Spec
=============================================================================
