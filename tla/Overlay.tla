------------------------------- MODULE Overlay -------------------------------
(***************************************************************************)
(* The overlay, OmaDex.qml: the paged list and the search, one contact and *)
(* its records, and the settings pane.  Every question is put to a child   *)
(* process (`omadex --json ...`) and answered later, when the user may     *)
(* have gone on; the handlers run one at a time in the shell's thread.     *)
(*                                                                         *)
(* A person stands for their row, their key and their records.  The        *)
(* address book stays the same while the overlay looks at it, and the pane *)
(* shows one source.  Wording, selection and geometry are left out.        *)
(***************************************************************************)
EXTENDS Integers, Sequences, ChildProcess

CONSTANTS
    Browse,          \* the empty query
    Rows,            \* Rows[q]: the people query q finds, in order
    PageSize,
    MaxInputs, MaxFailures      \* bounds

Queries == DOMAIN Rows
People == UNION {{Rows[q][i] : i \in DOMAIN Rows[q]} : q \in Queries}

\* What the children are asked, and how far a child that is running has come.
Questions == [query : Queries, offset : Nat]
Readings == [phase : {"asked", "read"}, enabled : BOOLEAN, counted : BOOLEAN]
Toggles == [phase : {"asked", "written", "synced"}, to : BOOLEAN]

\* A search returns at most MAX_SEARCH_RESULTS rows, fewer than a page.  None is
\* neither a person nor a command.
ASSUME OverlayAssumption ==
    /\ Browse \in Queries
    /\ PageSize \in Nat \ {0}
    /\ \A q \in Queries : Rows[q] \in Seq(People)
    /\ \A q \in Queries \ {Browse} : Len(Rows[q]) < PageSize
    /\ None \notin People /\ None \notin Questions /\ None \notin Readings /\ None \notin Toggles
    /\ None \notin [enabled : BOOLEAN, counted : BOOLEAN]
    /\ MaxInputs \in Nat /\ MaxFailures \in Nat

VARIABLES
    opened, settingsOpen,
    filterText, debounce,        \* the text typed; its timer is running
    search, searching, watchdog, \* watchdog: the timer is running
    appending, listOffset, listComplete,
    people, results,             \* the parsed rows; the list on the screen
    backendMissing,
    detail, detailRecords, recordsExpanded, recordsLoaded, records,
    settings, sourceSettings, toggler,
    config, synced,              \* the source is enabled; its rows are stored
    inputs, failures,            \* bounded counters
    disturbed, misread           \* history: see AtRest and SettingsCurrent

listVars == <<search, searching, watchdog, appending, listOffset, listComplete,
              people, results, backendMissing, disturbed>>
detailVars == <<detail, detailRecords, recordsExpanded, recordsLoaded, records>>
paneVars == <<settings, sourceSettings, toggler, config, synced, misread>>
vars == <<opened, settingsOpen, filterText, debounce, listVars, detailVars,
          paneVars, inputs, failures>>

Init ==
    /\ opened = FALSE /\ settingsOpen = FALSE
    /\ filterText = Browse /\ debounce = FALSE
    /\ search = NotStarted /\ searching = FALSE /\ watchdog = FALSE
    /\ appending = FALSE /\ listOffset = 0 /\ listComplete = FALSE
    /\ people = <<>> /\ results = <<>>
    /\ backendMissing = FALSE
    /\ detail = None /\ detailRecords = None
    /\ recordsExpanded = FALSE /\ recordsLoaded = FALSE
    /\ records = NotStarted
    /\ settings = NotStarted /\ sourceSettings = None
    /\ toggler = NotStarted
    /\ config = TRUE /\ synced = TRUE      \* sources are enabled by default
    /\ inputs = 0 /\ failures = 0
    /\ disturbed = FALSE /\ misread = FALSE

\* Keys and clicks go to the pane in front: the settings, then an open contact,
\* then the list.
InSettings == opened /\ settingsOpen
InContact == opened /\ ~settingsOpen /\ detail # None
InList == opened /\ ~settingsOpen /\ detail = None

Input == inputs < MaxInputs /\ inputs' = inputs + 1 /\ UNCHANGED failures

(***************************************************************************)
(* The list                                                                *)
(***************************************************************************)
\* Mutant of RunQuery: leaves the paging of the query it replaces.
RunQueryAppending(query) ==
    /\ search' = Launch(search, [query |-> query, offset |-> 0])
    /\ listOffset' = 0 /\ listComplete' = (query # Browse)
    /\ searching' = TRUE /\ watchdog' = TRUE
    /\ disturbed' = FALSE
    /\ UNCHANGED <<people, results, backendMissing, appending>>

\* Mutant of RunQuery: does not start the watchdog.
RunQueryUnwatched(query) ==
    /\ search' = Launch(search, [query |-> query, offset |-> 0])
    /\ appending' = FALSE
    /\ listOffset' = 0 /\ listComplete' = (query # Browse)
    /\ searching' = TRUE /\ UNCHANGED watchdog
    /\ disturbed' = FALSE
    /\ UNCHANGED <<people, results, backendMissing>>

RunQuery(query) ==
    /\ search' = Launch(search, [query |-> query, offset |-> 0])
    /\ appending' = FALSE
    /\ listOffset' = 0 /\ listComplete' = (query # Browse)
    /\ searching' = TRUE /\ watchdog' = TRUE
    /\ disturbed' = FALSE
    /\ UNCHANGED <<people, results, backendMissing>>

\* Each edit of the text restarts the timer.
SetFilter(text) ==
    /\ Input
    /\ InList
    /\ text # filterText
    /\ filterText' = text
    /\ debounce' = TRUE
    /\ UNCHANGED <<opened, settingsOpen, listVars, detailVars, paneVars>>

Debounced ==
    /\ debounce /\ debounce' = FALSE
    /\ RunQuery(filterText)
    /\ UNCHANGED <<opened, settingsOpen, filterText, detailVars, paneVars,
                   inputs, failures>>

\* Scrolling or arrowing to the end of the list; it does not start the watchdog.
LoadMore ==
    /\ opened
    /\ filterText = Browse /\ ~searching /\ ~listComplete
    /\ ~Running(search)
    /\ appending' = TRUE
    /\ searching' = TRUE
    /\ search' = Launch(search, [query |-> Browse, offset |-> listOffset])
    /\ UNCHANGED <<opened, settingsOpen, filterText, debounce, watchdog,
                   listOffset, listComplete, people, results, backendMissing,
                   disturbed, detailVars, paneVars, inputs, failures>>

\* What `omadex list` and `omadex search` print.
Answer(job) ==
    IF job.query = Browse
    THEN LET last == job.offset + PageSize
             all == Rows[Browse]
         IN  SubSeq(all, job.offset + 1, IF last < Len(all) THEN last ELSE Len(all))
    ELSE Rows[job.query]

ApplyResults(rows) ==
    /\ searching' = FALSE /\ watchdog' = FALSE
    /\ backendMissing' = FALSE
    /\ people' = IF appending THEN people \o rows ELSE rows
    /\ results' = IF appending THEN results \o rows ELSE rows
    /\ listOffset' = listOffset + Len(rows)
    /\ listComplete' = (listComplete \/ Len(rows) < PageSize)
    /\ appending' = FALSE

\* No output at all, or output that cannot be parsed.
ApplyNothing ==
    /\ searching' = FALSE /\ watchdog' = FALSE
    /\ backendMissing' \in BOOLEAN
    /\ results' = <<>>
    /\ UNCHANGED <<people, listOffset, listComplete, appending>>

\* A cancelled child may have written its answer already.
SearchAnswers ==
    /\ Running(search)
    /\ ApplyResults(Answer(search.job))
    /\ search' = Ended(search)
    /\ disturbed' = (disturbed \/ search.killed)
    /\ UNCHANGED <<opened, settingsOpen, filterText, debounce, detailVars,
                   paneVars, inputs, failures>>

\* A child that was not cancelled fails at most MaxFailures times.
Fails(p) ==
    /\ Running(p)
    /\ p.killed \/ failures < MaxFailures
    /\ failures' = IF p.killed THEN failures ELSE failures + 1

SearchFails ==
    /\ Fails(search)
    /\ ApplyNothing
    /\ search' = Ended(search)
    /\ disturbed' = (disturbed \/ ~search.killed)
    /\ UNCHANGED <<opened, settingsOpen, filterText, debounce, detailVars,
                   paneVars, inputs>>

Watchdog ==
    /\ watchdog /\ watchdog' = FALSE
    /\ searching' = FALSE
    /\ backendMissing' = (backendMissing \/ searching)
    /\ UNCHANGED <<opened, settingsOpen, filterText, debounce, search, appending,
                   listOffset, listComplete, people, results, disturbed,
                   detailVars, paneVars, inputs, failures>>

(***************************************************************************)
(* One contact and the records it is made of                               *)
(***************************************************************************)
\* Mutant of OpenDetail: counts the rows from one.
OpenDetailAfter(i) ==
    /\ Input
    /\ InList
    /\ i \in DOMAIN results /\ i \in DOMAIN people
    /\ detail' = IF i + 1 \in DOMAIN people THEN people[i + 1] ELSE "undefined"
    /\ detailRecords' = None
    /\ recordsExpanded' = FALSE /\ recordsLoaded' = FALSE
    /\ UNCHANGED <<opened, settingsOpen, filterText, debounce, records, listVars,
                   paneVars>>

\* Clicking a row or pressing Enter on it: the index is the list's, the person
\* is taken from people.
OpenDetail(i) ==
    /\ Input
    /\ InList
    /\ i \in DOMAIN results /\ i \in DOMAIN people
    /\ detail' = people[i]
    /\ detailRecords' = None
    /\ recordsExpanded' = FALSE /\ recordsLoaded' = FALSE
    /\ UNCHANGED <<opened, settingsOpen, filterText, debounce, records, listVars,
                   paneVars>>

CloseDetail ==
    /\ Input
    /\ InContact
    /\ detail' = None
    /\ detailRecords' = None
    /\ recordsExpanded' = FALSE /\ recordsLoaded' = FALSE
    /\ UNCHANGED <<opened, settingsOpen, filterText, debounce, records, listVars,
                   paneVars>>

\* Mutant of ToggleRecords: lets a child that is running already finish.
ToggleRecordsOnce ==
    /\ Input
    /\ InContact
    /\ recordsExpanded' = ~recordsExpanded
    /\ records' = IF ~recordsExpanded /\ detailRecords = None
                  THEN IF Running(records) THEN [records EXCEPT !.command = detail]
                       ELSE Launch(records, detail)
                  ELSE records
    /\ UNCHANGED <<opened, settingsOpen, filterText, debounce, detail,
                   detailRecords, recordsLoaded, listVars, paneVars>>

ToggleRecords ==
    /\ Input
    /\ InContact
    /\ recordsExpanded' = ~recordsExpanded
    /\ records' = IF ~recordsExpanded /\ detailRecords = None
                  THEN Launch(records, detail) ELSE records
    /\ UNCHANGED <<opened, settingsOpen, filterText, debounce, detail,
                   detailRecords, recordsLoaded, listVars, paneVars>>

ApplyRecords(theirs) ==
    /\ recordsLoaded' = TRUE
    /\ detailRecords' = theirs
    /\ records' = Ended(records)
    /\ UNCHANGED <<opened, settingsOpen, filterText, debounce, detail,
                   recordsExpanded, listVars, paneVars, inputs>>

RecordsAnswer ==
    /\ Running(records)
    /\ ApplyRecords(records.job)
    /\ UNCHANGED failures

RecordsFail == Fails(records) /\ ApplyRecords(None)

(***************************************************************************)
(* Settings                                                                *)
(***************************************************************************)
\* Mutant of LoadSettings: keeps a child that is running already.
LoadSettingsOnce ==
    settings' = IF Running(settings) THEN settings
                ELSE Launch(settings, [phase |-> "asked", enabled |-> FALSE, counted |-> FALSE])

LoadSettings ==
    settings' = Launch(settings, [phase |-> "asked", enabled |-> FALSE, counted |-> FALSE])

\* open(): also leaves the settings pane as it was.
Open ==
    /\ Input
    /\ ~opened /\ opened' = TRUE
    /\ filterText' = Browse
    /\ detail' = None
    /\ LoadSettings
    /\ RunQuery(Browse)
    /\ UNCHANGED <<settingsOpen, debounce, detailRecords, recordsExpanded,
                   recordsLoaded, records, sourceSettings, toggler, config,
                   synced, misread>>

\* dismiss(), close(), and the gestures that end in dismiss().
Dismiss ==
    /\ Input
    /\ opened /\ opened' = FALSE
    /\ UNCHANGED <<settingsOpen, filterText, debounce, listVars, detailVars, paneVars>>

OpenSettings ==
    /\ Input
    /\ InList
    /\ settingsOpen' = TRUE
    /\ LoadSettings
    /\ UNCHANGED <<opened, filterText, debounce, listVars, detailVars,
                   sourceSettings, toggler, config, synced, misread>>

CloseSettings ==
    /\ Input
    /\ InSettings
    /\ settingsOpen' = FALSE
    /\ RunQuery(filterText)
    /\ UNCHANGED <<opened, filterText, debounce, detailVars, paneVars>>

\* A click on the source, which disables it if the pane shows it enabled.
ToggleSource ==
    /\ Input
    /\ InSettings /\ sourceSettings # None
    /\ ~Running(toggler)
    /\ toggler' = Launch(toggler, [phase |-> "asked", to |-> ~sourceSettings.enabled])
    /\ UNCHANGED <<opened, settingsOpen, filterText, debounce, listVars,
                   detailVars, settings, sourceSettings, config, synced, misread>>

Elsewhere == UNCHANGED <<opened, settingsOpen, filterText, debounce, listVars,
                         detailVars, inputs>>

\* `omadex sources` reads the configuration and the store ...
SettingsRead ==
    /\ Running(settings) /\ settings.job.phase = "asked"
    /\ settings' = [settings EXCEPT !.job =
                       [phase |-> "read", enabled |-> config, counted |-> synced]]
    /\ Elsewhere
    /\ UNCHANGED <<sourceSettings, toggler, config, synced, misread, failures>>

\* ... and prints them: applySettings.
SettingsAnswer ==
    /\ Running(settings) /\ settings.job.phase = "read"
    /\ sourceSettings' = [enabled |-> settings.job.enabled, counted |-> settings.job.counted]
    /\ settings' = Ended(settings)
    /\ misread' = FALSE
    /\ Elsewhere
    /\ UNCHANGED <<toggler, config, synced, failures>>

SettingsFail ==
    /\ Fails(settings)
    /\ settings' = Ended(settings)
    /\ misread' = TRUE
    /\ Elsewhere
    /\ UNCHANGED <<sourceSettings, toggler, config, synced>>

\* `omadex sources enable` writes the configuration ...
TogglerWrites ==
    /\ Running(toggler) /\ toggler.job.phase = "asked"
    /\ config' = toggler.job.to
    /\ toggler' = [toggler EXCEPT !.job.phase = "written"]
    /\ Elsewhere
    /\ UNCHANGED <<settings, sourceSettings, synced, misread, failures>>

\* ... and syncs with it.
TogglerSyncs ==
    /\ Running(toggler) /\ toggler.job.phase = "written"
    /\ synced' = config
    /\ toggler' = [toggler EXCEPT !.job.phase = "synced"]
    /\ Elsewhere
    /\ UNCHANGED <<settings, sourceSettings, config, misread, failures>>

\* However it ends, the pane is loaded again.
TogglerEnds ==
    /\ \/ Running(toggler) /\ toggler.job.phase = "synced" /\ UNCHANGED failures
       \/ Fails(toggler)
    /\ toggler' = Ended(toggler)
    /\ LoadSettings
    /\ Elsewhere
    /\ UNCHANGED <<sourceSettings, config, synced, misread>>

Answers == SearchAnswers \/ SearchFails \/ RecordsAnswer \/ RecordsFail
           \/ SettingsRead \/ SettingsAnswer \/ SettingsFail
           \/ TogglerWrites \/ TogglerSyncs \/ TogglerEnds

Next ==
    \/ \E text \in Queries : SetFilter(text)
    \/ \E i \in DOMAIN results : OpenDetail(i)
    \/ Open \/ Dismiss \/ CloseDetail \/ ToggleRecords
    \/ OpenSettings \/ CloseSettings \/ ToggleSource
    \/ Debounced \/ LoadMore \/ Watchdog
    \/ Answers

Spec == Init /\ [][Next]_vars

\* The shell's timers fire; a child may take for ever.
FairSpec == Spec /\ WF_vars(Debounced) /\ WF_vars(Watchdog)

(***************************************************************************)
(* Properties                                                              *)
(***************************************************************************)
\* Every variable keeps to what the overlay can hold in it.
TypeOK ==
    /\ {opened, settingsOpen, debounce, searching, watchdog, appending,
        listComplete, backendMissing, recordsExpanded, recordsLoaded, config,
        synced, disturbed, misread} \subseteq BOOLEAN
    /\ filterText \in Queries
    /\ search \in ProcessOver(Questions)
    /\ listOffset \in Nat
    /\ people \in Seq(People) /\ results \in Seq(People)
    /\ detail \in People \cup {None} /\ detailRecords \in People \cup {None}
    /\ records \in ProcessOver(People)
    /\ settings \in ProcessOver(Readings)
    /\ sourceSettings \in [enabled : BOOLEAN, counted : BOOLEAN] \cup {None}
    /\ toggler \in ProcessOver(Toggles)
    /\ inputs \in 0 .. MaxInputs /\ failures \in 0 .. MaxFailures

\* No timer and no search is outstanding, and since the last query began no
\* search has failed and no cancelled one has answered after all.
AtRest == search.command # None /\ ~debounce /\ ~Running(search) /\ ~disturbed

\* Whatever was typed, cancelled and paged meanwhile, the overlay comes to rest
\* on the answer to the text it shows: the pages are in order and without gaps,
\* row and person are parallel (OmaDex.qml:34), and the end is taken for seen
\* only when everything is there (OmaDex.qml:142-143).
ListAnswersFilter ==
    AtRest =>
        /\ \E n \in 0 .. Len(Rows[filterText]) : people = SubSeq(Rows[filterText], 1, n)
        /\ results = people
        /\ listComplete => people = Rows[filterText]

\* "A query that never answers means the backend is not there to answer it"
\* (OmaDex.qml:407): a query, though not a further page, is waited for only as
\* long as the watchdog lets it, even if the child hangs.
QueryGivenUp == searching /\ ~appending ~> ~searching

\* A contact is expanded while the records of another are still on their way:
\* when the child has ended, the records held are those asked for last.
LastAskedWins ==
    ~Running(records) /\ detailRecords # None => detailRecords = records.command

\* "The counts shown are the ones that follow from the change" (OmaDex.qml:361):
\* when no child is left, the pane shows the configuration and the rows that
\* are stored, unless its last reading failed.
SettingsCurrent ==
    ~Running(settings) /\ ~Running(toggler) /\ sourceSettings # None /\ ~misread =>
        sourceSettings = [enabled |-> config, counted |-> synced]

\* "Expanding it is the evidence" (OmaDex.qml:298): the records shown below a
\* contact are that contact's.
EvidenceIsTheirs ==
    detail # None /\ recordsExpanded /\ detailRecords # None => detailRecords = detail
=============================================================================
