# Omadex in TLA+

Omadex merges the address books of a desktop into one list of people. It reads
up to six sources, decides which records are one person, stores the result in a
SQLite file that may be encrypted, and serves it on D-Bus, on the command line
and in a Quickshell overlay. The user's own decisions ("these two are one
person", "these two are not") are the only state that cannot be read again.

This directory models the parts whose order of steps decides what the user sees
or loses, checks them with TLC on small instances, and proves their safety
properties with TLAPS for all. Paths and line numbers are relative to `src/`; `resolver.py` and the
other Python files are in `src/src/omadex/`.

## The system

| Part | State it keeps | Operations | Interacts with |
| --- | --- | --- | --- |
| Vocabulary (`normalize.py`, `models.py`, `limits.py`) | none | normalise an address, compare names, tell a person from a shortcode | everybody |
| Resolver (`resolver.py`) | a union-find, the review, the edges, for one call | `resolve(records, overrides)` | called by the engine |
| Sync engine (`engine.py`, `sources/__init__.py`) | none between calls | load the sources one by one, read the decisions, resolve, replace | sources, store |
| Source adapters (`sources/*.py`) | none; they read files, an SQLite file, a D-Bus service | `load` yields rows or raises | engine |
| Store (`store.py`) | the tables `identities`, `identity_keys`, `records`, `review`, `overrides`, `meta` | `replace`, `set_override`, `clear_override`, queries | every process that opens the file |
| File and keys (`store.py:66-187`, `crypto.py`) | the file itself, the key in the desktop wallet | open, discard a plaintext file and carry its decisions, seal, blind | settings, wallet |
| Service and daemon (`service.py`, `daemon.py`, `systemd/omadex.service`) | one store handle | `Link`, `Unlink`, `ForgetDecision`, `Refresh`, reads; a first sync, a restart after a failure | engine, store |
| Command line (`cli.py`) | one process per command | `sync`, `link`, `unlink`, `forget`, `sources enable`, reads | engine, store, settings |
| Settings (`config.py`) | a JSON file and a temporary one | `load`, `update_source` | engine, file and keys, command line |
| Overlay (`OmaDex.qml`) | the list and its paging, one contact and its records, the settings pane, five child processes, two timers | keys, clicks, timers, answers of children | spawns the command line |
| Readiness, launch (`readiness.py`, `launch.py`) | none | probe the machine, start another program | command line |

### What is hard here, and what makes it right

- The scan of `resolve` is sequential: each union changes what the later
  comparisons meet, and rulings, hubs and disagreeing names all override each
  other. Right means: it merges only on evidence, asks or merges or was told not
  to, never loses to a "distinct" ruling what a "same" ruling joined, and reports
  the rulings it could not keep.
- After the scan identities are joined by name and renamed while the list is
  rebuilt. Right means: no record is lost or doubled, and the save succeeds.
- Syncs run in several processes and nothing serialises them. Right means: the
  stored projection stands on the standing decisions.
- The database file is replaced when encryption is turned on, and every table
  may hold rows sealed with different keys. Right means: no decision is lost,
  none comes back, nothing stays legible.
- A load takes minutes, and the settings and the sources change meanwhile; the
  phonebook is read page by page over a bus. Right means: what is turned off
  stays out, a failing source takes no other along, nobody is passed over who
  was there throughout, and a command comes to its end.
- The overlay's questions are answered by children that may be cancelled, hang,
  or answer when the user has gone on. Right means: what is shown is the answer
  to what is asked.

`PROJECT.json` lists each hazard at its line, with the properties that watch it.

## The modules

| Module | Models | State and actions against the code |
| --- | --- | --- |
| `Contacts` | `models.py`, `normalize.py` and the resolver's questions about its input | constant-level operators; a string is a number in sort order |
| `Merging` | what a merging may do, abstractly | `rep` is the partition the union-find stands for; one action welds two classes on evidence |
| `Resolver` | `resolve` to the end of its scan (90-187) | `toForce`, `todo`, `others` are what the three loops have left; one action for each branch of each loop |
| `Identities` | `resolve` after the scan (189-209, 231-307) and `Store.replace` | `stage` is the place in the code, `rest` what the current loop has left; one action for each branch |
| `Projection` | what a sync promises, abstractly | the decisions, and those the projection was built with |
| `Sync` | `engine.sync` and the commands of the daemon and of command-line processes | `pc[p]` is the place process `p` is at: loading a source, before reading the decisions, before replacing |
| `StoreFile` | `open_store` and the life of the file (`store.py:66-187`), `crypto.py`, and the commands that follow | a row is its decision, the key its columns are blinded with and the key it is sealed with; `pc` is the place in the command |
| `Settings` | the settings file (`config.py:148-242`) and the commands that change it | `file` and `temporary` are the two files, `ask` and `held` the locals of `update_source`; one action for each step between which a kill or an edit matters |
| `Adapters` | what each adapter in `sources/` reads | functions from what a source holds to its rows; an entry is a contact or nothing |
| `PhoneReading` | what a walk over a changing phonebook promises, abstractly | the book, a reading, the contacts it owes, its result |
| `Readiness` | `readiness.py` | one function per probe, `check_all` with the probes that raise, and `needs_onboarding` |
| `Launch` | `launch.py` and `omadex open` | which source is opened for a contact, on which card |
| `Sources` | `load_all` and the walk of `load_blueferry`, under a changing world | `at` is the place in `SOURCES`, `walked` the rows of `load_blueferry`, `settings` the snapshot; one action for each outcome of a source |
| `ChildProcess` | Quickshell's `Process`, from the way the overlay uses it | `Launch` is "cancel if running, set the command, start" |
| `Overlay` | `OmaDex.qml` | variables and actions are the file's properties, functions and handlers |
| `MergingProofs`, `ResolverProofs`, `IdentitiesProofs`, `SyncProofs`, `StoreFileProofs`, `SourcesProofs`, `OverlayProofs` | nothing of their own | the theorems about the module they are named for, with their proofs |

`Resolver` extends `Merging`, which extends `Contacts`; `Identities` extends
`Resolver`, so its run takes every step of the scan as well. `Sources` extends
`Settings`, `Readiness` and `Launch`, and the last two extend `Adapters`: a
command of `Settings` ends in the load of `Sources`. The `MC*` modules hold the
constants of TLC's instances and nothing else.

Three specifications are abstract, and shown to be implemented:

| Property | Detailed, abstract | Mapping |
| --- | --- | --- |
| `ImplementsMerging` | `Resolver`, `Merging` | the shared variable `rep` |
| `ImplementsProjection` | `Sync`, `Projection` | `decisions` and `applied`, by name |
| `ImplementsReading` | `Sources`, `PhoneReading` | the book as a set; a reading is under way from the start of a load until the walk is over; the result is who is in blueferry's rows; `owed` is a history variable |

`PhoneReading` states what a walk by offset can promise: a contact that is added
while it runs costs it nobody (some may be read twice), a removal costs it the
one removed and at most one more, and a walk that fails gives nothing. What is
behind it in the code is that only an empty reply ends the walk
(`blueferry.py:55-57`): the backend clamps the page to its own maximum.

A few variables record history and decide nothing: `found` in `Sync` (what was
stored when a process's sync began), `owed` there (a sync failed and none has
succeeded since), `lost` and `forfeited` in `StoreFile` (keys lost, decisions
lost) and `turnedOff` there (encryption was on and has been turned off), `owed`
in `Sources`.

`Sync` describes a projection by the version of every source and by the rulings
it was built from, since `resolve` is a function of the two. `Sync` and
`Identities` meet there: `Replace` in `Sync` is the transaction whose failure
`Identities` decides (`SaveSucceeds`) and `ReplaceFails` allows.

Mutant operators (`\* Mutant of X: ...`) stand before the definition they
change. Each is a plausible bug of that code, and TLC finds the property listed
with it in `PROJECT.json` violated when it takes the place of the definition.

## The runs

| Run | Shows | Bounds |
| --- | --- | --- |
| `MCIdentities` | of the scan: its types, merges only on evidence, counted merges, e-mails joined, phones settled, rulings kept and reported, refinement of `Merging`; of the identities: records kept, names that join only the addressless, addresses that follow the records and find them, no person named by a switchboard, the first in sorted order keeps a readable handle, the save succeeds | 3 records with up to 2 of one e-mail and two phones, a blank and three names, and up to 2 rulings; 3 records with at most one address, names that fold together and a shortcode, without rulings; numbered rows |
| `MCSync` | one process at a time: the projection stands on the standing decisions and is rebuilt atomically; a ruling reaches it, over crashes | the daemon, 2 sources, 2 pairs, 3 rulings, 1 edit of each source, 2 faults |
| `MCSync_shared` | however syncs overlap, a command that succeeds stores its own ruling or a later one, and no sync takes back what was stored before it began | the daemon and a command, 2 sources, 1 pair, 2 rulings, 1 edit of each source, 1 fault of any kind |
| `MCStoreFile` | decisions are lost in two circumstances only; until a key is lost every sync with encryption on can read the store; while encryption was never turned off, nothing is legible and no sync applies a ruling that does not stand | 2 pairs, 5 commands, a crash, a lost key, encryption turned on and off, nobody or two people in the sources |
| `MCSources` | a toggle changes its key only; what is off stays out; a failing source takes no other along; the walk implements `PhoneReading`; the opened card is the right one; every command ends | 2 commands that may toggle one source, 5 worlds in which every state of each source occurs, 2 events (a kill, an edit by hand, a source that changes, a contact added or removed) at any moment, 4 contacts, a phonebook of up to 4 read one a page, a cap of 6 |
| `MCOverlay` | the list comes to rest on the answer to the text shown, the records asked for last win, the settings shown are the ones there are, no query waits for ever | 6 gestures, 3 people in pages of two, one search, one failure, any number of cancelled children |
| `MCResolver_defeated`, `MCIdentities_rows`, `MCSync_stale`, `MCStoreFile_upgrade`, `MCSources_onboarding`, `MCOverlay_records` | six statements of the comments and the documentation that the code does not keep | an instance that reaches it, of the size of the passing runs or smaller |

Where the code breaks a promise, the promise is checked as it is worded and
violated, and beside it stands what is left of it:

| Promise, violated | What is left, checked and proved |
| --- | --- |
| `NoSilentDefeat` | `RulingsSurface`: a defeat is reported where the scan makes one person of the owners of each address |
| `DecisionsApplied` with overlapping syncs | `OwnRulingApplied` and `MovesForward`, which need no exclusion |
| `DecisionsSurvive` | `DecisionsKept`: a decision is gone only if it was sealed beside an empty `identities`, or a command died between discarding the file and writing it back |

Three properties say in their own words where they stop. `NothingLegible` and
`OneRulingPerPair` hold until encryption is turned off: what is ruled while it is
off stays beside the sealed rows. `KeyOpensAll` holds until a key is lost. What
the code does beyond is under "Where code and words part".

`EmailsJoin`, `HubsNameNoOne`, `KeysFollowRecords` and `RulingsSurface` do not
use the code's own hub test: `Identifying` states the two thresholds of
`limits.py` afresh, so that a test one record or one name off is caught (the
mutants of `IsHub`).

Why the bounds are enough. Three records are the least for which the order of
the scan matters: an anchor, and two owners that meet through another address.
The hub thresholds are 3 records and 3 names instead of the code's 4 and 3
(`limits.py:12-13`), so that hubs appear among three records; the two tests
stay separate. Two rulings are what it takes to contradict one
another. `MCIdentities` combines two families of inputs: lists whose names matter to the
scan, with rulings, and lists whose names matter to what follows it, without;
rulings are over when the scan ends. In `Sources` two events are what it takes
to lose a contact between pages and another at the next, or to kill a command
and edit what it left; one of the worlds has a backend that ignores the offset,
which only the cap can end. In `Sync` a stale overwrite takes two processes and two commits, and
taking back a source as well takes two sources and an edit of each. In
`StoreFile`, the files that matter are made by a first sync, a change of the
setting, and two commands after it; with `MaxLosses` at 1 there is a lost key and
one made after it, and the seals of two keys meet in one table. In `Overlay` six
gestures are what it takes to ask for the records of two contacts, or to browse, filter, and open and leave the settings.

Deadlock is not checked where the bounded program stops: `resolve` ends, a user
stops giving commands. It is checked in the `MCSync` runs, where a sync can
always be started.

### Fairness

`MCSync` assumes that a process that is running takes its next step (weak
fairness of the steps of a sync) and that the daemon is started when it is down:
`systemd/omadex.service:8` restarts it on failure. The start limit of systemd is not
modelled; the number of faults is bounded. Nothing makes a user give commands.
The run has source failures and crashes and no failing transaction: a daemon
whose `replace` fails answers an error and goes on without trying again
(`service.py:162-168`), so a committed ruling then waits for the next command.
`MCSources` assumes that a command that runs takes its next step: files are read
without waiting, calls to BlueFerry and notmuch have time limits
(`blueferry.py:27`, `notmuch.py:24`), and nothing the command needs is held by
another process. An Evolution book that never answers is outside the model.
`MCOverlay` assumes that the two timers fire. No fairness is assumed of child
processes, which is why `QueryGivenUp` is about the watchdog.

## What is proved

Every safety property that a passing run checks is also a theorem, for every
value of the constants that the named assumptions allow: all lists of records
and rulings, any number of processes, sources and pairs, every content of the
sources, every page size, and any number of commands, crashes, edits and
gestures (the bounds are constants too).

### Assumptions on the constants

Addresses are numbers with e-mails first, the blank name has no identifying
word, the hub thresholds are positive (`Contacts`); the inputs are lists of
records with rulings (`Resolver`). `NoAddress` is no address (`Identities`). A
source holds what its format allows (`MayHold` in `Sources`): a phonebook lists
a contact once, a neomutt directory that is not there has no configuration
files. Where a probe asks something else than its loader, the two answers
are separate fields of a source, and nothing relates them. A search finds less than
a page: `search` returns at most `MAX_SEARCH_RESULTS` rows (`limits.py`), the
overlay's page is 250 (`OmaDex.qml:66`). Values that stand for nothing
(`NoFile`, `Garbled`, `Nobody`, `None`) differ from the real ones. Bounds are
natural numbers. TLC evaluates all of them in the runs.

### The theorems

| Module | Theorem | States | On condition that |
| --- | --- | --- | --- |
| `MergingProofs` | `MergesExplained` | `Explained` | |
| `ResolverProofs` | `ResolverTypeCorrect`, `ScanImplementsMerging`, `ScanExplained` | `TypeOK`, `ImplementsMerging`, `Explained` | |
| | `NeverReasked`, `RulingsHold`, `PhonesSettled`, `EmailsHaveOneOwner` | `DeniedNotReasked`, `SameRulingsHold`, `AnchorsSettled`, `EmailsJoin` | |
| | `DefeatedRulingsSurface`, `EdgesAreMerges` | `RulingsSurface`, `EdgesCountMerges` | |
| `IdentitiesProofs` | `IdentitiesFollowScan`, `ScanStands` | every theorem about the scan, for the whole of `resolve` | |
| | `IdTypeCorrect`, `EveryRecordKept`, `NamesJoinSafely`, `HubsNeverName`, `LookupsFollowRecords` | `IdTypeOK`, `NoRecordLost`, `NamesJoinOnlyAddressless`, `HubsNameNoOne`, `KeysFollowRecords` | |
| | `FirstKeeps` | `FirstKeepsHandle` | |
| | `SaveGoesThrough` | `SaveSucceeds` | no two records bear one row identifier (`RowsDiffer`) |
| `SyncProofs` | `SyncTypeCorrect`, `OwnRulingStored`, `SyncsMoveForward` | `TypeOK`, `OwnRulingApplied`, `MovesForward` | |
| | `AloneDecisionsApplied`, `AloneImplementsProjection` | `DecisionsApplied`, `ImplementsProjection` | no two syncs overlap (`Alone`) |
| `StoreFileProofs` | `StoreTypeCorrect`, `KeyOpensEveryRow`, `DecisionsLostOnlyThere` | `TypeOK`, `KeyOpensAll`, `DecisionsKept` | |
| | `StaysSealed`, `NoStaleRuling` | `NothingLegible`, `OneRulingPerPair`, which are themselves about stores whose encryption was never turned off | |
| `SourcesProofs` | `SourcesTypeCorrect`, `SettingsKeepTheRest`, `DisabledContributesNothing`, `OpenFindsTheCard` | `TypeOK`, `OnlyAskedKeyChanges`, `DisabledStaysOut`, `OpensItsCard` | |
| | `FailuresStayIsolated`, `WalkImplementsReading` | `FailuresIsolated`, `ImplementsReading` | the phonebook is within the cap (`PhonebookFits`) |
| `OverlayProofs` | `OverlayTypeCorrect`, `ListComesToRest`, `LastAskedIsHeld`, `PaneComesToRest` | `TypeOK`, `ListAnswersFilter`, `LastAskedWins`, `SettingsCurrent` | |

### The conditions

The conditions are on behaviours and are what the code needs, not what the
proofs need: outside each of them a run or the section below shows the property
broken. `MCIdentities_rows` breaks `SaveSucceeds` without `RowsDiffer`,
`MCSync_stale` breaks `DecisionsApplied` without `Alone`, and a phonebook over
the cap is cut off there (`blueferry.py:24`). Nothing excludes crashes, lost
keys, empty sources or turning encryption on and off.

`Alone` is the one condition a user does not control: the daemon and the command
line are two processes, and nothing serialises them. `DecisionsApplied` and
`ImplementsProjection` are what a sync does that meets no other, and say nothing
of syncs that overlap; those have `OwnRulingStored` and `SyncsMoveForward`. Nor
does `ImplementsProjection` say that a reader sees the four tables before or
after a `Replace`: that is SQLite's transaction, and the model takes it as one
step.

The passing runs keep the conditions by their constants. A corollary says so for
the cap, for every instance with no more contacts than that
(`FewContactsAreWhole`). `RowsDiffer` is a property of the input: `MCIdentities`
numbers the rows.

### The arguments

*The scan.* `TypeOK` is not inductive: that a comparison is made for an
address both records carry depends on where `others` came from. `TypeInv` adds
`LoopInv`: what is in `others` owns `key`, and a key being scanned is no hub.
With it each branch of the scan is an instance of the abstract weld, which gives
the refinement, and `Explained` is proved once, on the abstract side, where a
weld joins two chains into one. The end-of-scan properties need to know what
lies behind the scan. `ScanInv` adds `AddressesSettled` (for every address
already scanned, and for every owner of the current one that is no longer in
`others`, the anchor and the owner are one person, denied, or asked about),
`RulingsApplied` (a "same" ruling that is not in `toForce` any more holds) and
`QuestionsOpen` (no question is about a denied pair). They survive because
classes only grow and questions are never withdrawn; at the end nothing is ahead
of the scan. `EdgesInv` counts representatives instead of classes: a union that
counts takes one out of use. `RulingsSurface` is read off the end of `ScanInv`:
an address on one record has one owner to look at, the owners of an undivided
e-mail below the thresholds have been made one person (`HubOrIdentifying`,
`EmailOwners`), so that whoever defeats the ruling is one person with the first
owners, which are the ones the conflicts look at.

*The identities.* `IdInv` says that the identities that are kept or still to be
visited share out the records between them (`Apart`, `Placed`), that each is its
first record's class with whole classes of addressless guests of its name, and
that nobody else with an address has that name when there is a guest
(`PersonOK`, `GuestsOK`). Folding preserves it because there is one candidate at
most, so the one folded into is the only addressed person of the name. It gives
the type, the records, the names and the addresses; with `EmailsJoin` from the
scan, two people found under an e-mail have owners in one class, and a class is
in one identity. `HubsFound` says the scan has listed the hubs it has passed.
For the save, `HandlesInv` says that a settled handle is a first one, which knows
no rows, or the fallback with the identity's own rows. For who keeps a readable
handle, `OrderInv` says that whoever is behind the loop with one precedes all
that is ahead in the order of the sort, and that a handle that was taken is held
by somebody behind the loop. Two identities with one handle differ in that order
by folded name or position only.

*Syncs.* `OwnInv`: while a process's sync is under way its own ruling, or a later
one on the pair, is in the decisions, or in what it has read. `ForwardInv`: what
a sync has read is no older than what was stored when it began, and no copy of a
ruling or a source is ahead of the original. Neither needs exclusion of
others. `AloneInv` does: what a sync has read is what stands.

*The file.* A key is never made twice, so while none has been lost every seal is
the one key's or none; `RowsInv` says that a row is blinded with the key it is
sealed with and that a command with encryption on has the key of the wallet,
from which `KeyOpensAll` follows. `KeptInv` accounts for every standing decision
at every place of a command: it is in the table, on its way there (`carried`) or
forfeited, and what is carried is not also in the table, so writing one back
replaces nothing. `LegibleInv` relates the two tables (sealed people stand
beside sealed decisions, because the row that is looked at decides for the file)
to the place of the command. `RulingsInv` says that the readable rows hold
standing decisions: under one key the upsert finds a pair's row, and the rows of
a lost key make the sync fail. The last two say nothing once `turnedOff` is set.

*Sources.* `SettingsInv` follows one toggle from the file through the locals of
`update_source` back to the file; `LoadInv` relates the snapshot of a load to the
file while that is left alone; `TypeInv` and `IsolatedInv` relate the rows of
every source the load is done with to what the source holds. The walk needs
`ReadingInv`: whoever is owed has been walked or stands at or behind the next
offset, which an addition keeps true and a removal breaks for one contact at
most, the one `owed` gives up. `CardsInv` keeps vdir's rows those of its files.

*The overlay.* A child is `Tidy` (killed exactly when another launch waits for
it), and one that was not cancelled works on the last command. `SearchInv` puts
the list at one of three stages: the query has just been put, its pages so far
are on the screen, or a further page is on its way. `SettingsInv` says that
while the pane is behind, a child is on its way that ends in a new reading.

### Only model-checked

Liveness (`RulingReachesProjection`, `QueryGivenUp`, `CommandEnds`) rests on
fairness and `ENABLED`, which the provers do not handle. The six statements of
the violation runs are false. What the proofs do not reach in the models is the
same as for TLC: see "What is abstracted".

## Where code and words part

Those with a run named have one that shows them (see `findings` in
`PROJECT.json`); all were met while the modules were written.

* **A defeated "distinct" ruling may go unreported** (`resolver.py:217`, run
  `MCResolver_defeated`): the conflicts compare the first records of the two
  addresses, and a later owner may be the one that defeats the ruling.
* **A sync may fail on a repeated handle** (`resolver.py:289`, run
  `MCIdentities_rows`): the fallback digest is the same for two people whose
  records have equal names, addresses and row identifiers; vdir uses the file's
  stem in every collection (`sources/vdir.py:145`).
* **Who keeps a readable handle depends on the order of the records**
  (`resolver.py:208`, against 280-282): two people with one handle and one folded
  name tie in the sort. `FirstKeepsHandle` says who keeps it.
* **A slower sync undoes a newer ruling in the projection** (`engine.py:51`, run
  `MCSync_stale`), until the next sync.
* **Turning encryption on may lose the decisions** (`store.py:176`, run
  `MCStoreFile_upgrade`): a command that does not sync leaves `identities`
  empty, and the next takes the file for a plaintext store. An encrypted store
  whose sources yield nobody is in the same state.
* **A crash while decisions are carried to the encrypted file loses those not
  yet written** (`store.py:119`, 186, against 159-162). `DecisionsKept`
  counts this case and the one above, and says that there is no other.
* **After the key is lost, a decision sealed with it makes every sync fail**
  (`store.py:213`, against `README.md:169-171`). `KeyOpensAll` says that it
  does not happen before.
* **A ruling changed while encryption is off is stored beside the sealed one**
  (`store.py:222`, against 55-60); after encryption is on again both are
  applied.
* **A ruling made while encryption is off may stay in the clear** when it is on
  again before the next sync (`store.py:176`, against `README.md:167-169`).
* **The onboarding screen may be shown to a user with contacts**
  (`readiness.py:240`, against 235, run `MCSources_onboarding`): the probes of
  abook and vdir want a configured path, where the loaders have a default
  (`sources/__init__.py:29`, `sources/vdir.py:135`); a probe that gets no answer in
  10 s is `blocked`, where the loader waits 30 or 120; `which blueferry` and
  notmuch's database are asked by the probe only.
* **The records below a contact may be another contact's** (`OmaDex.qml:303`,
  run `MCOverlay_records`).
* A pair the user has linked may be asked about again: the ruling joins the
  first owners only (`resolver.py:145`, against the comment at 141-142).
* A shared e-mail does not always merge: when a ruling divides the anchor from
  one owner, that owner is not compared with the third (`resolver.py:164-168`,
  against `README.md:145`). Nor is "everything else held": two later owners of
  a phone are not compared (`resolver.py:8`). `EmailsJoin` and `AnchorsSettled`
  say what does hold.
* An unnamed record on a phone joins people whose names disagree, since it
  agrees with both (`normalize.py:72-82`, against `README.md:146-147`).
* A question stays in the review after a later address has merged its records
  (`resolver.py:180`, against `cli.py:357-358`).
* A person with an address is dropped when the longest of their names begins
  with `#` or `*` (`normalize.py:95`, against its docstring at 91).
* An identity's key may open another identity that holds the same address
  (`store.py:326-335`, against `service.py:107`).
* A source that cannot be read contributes nothing, and the projection is
  replaced without it (`sources/__init__.py:88`, against 72).
* A settings file that does not parse counts as empty, so the next
  `sources enable` or `disable` writes its one key and drops all others, and
  every other source is on again (`config.py:191-192`, `239-241`, against 5-6 "a typo
  loses one setting instead of all of them"). `OnlyAskedKeyChanges` and
  `DisabledStaysOut` leave that file out.
* Two commands at once write the same `settings.json.tmp`: one change is lost,
  or the second rename fails (`config.py:222-227`, against 232).
* A removal from the phonebook during the walk may cost another contact until
  the next sync (`blueferry.py:54`); `PhoneReading` says how many. A backend
  that ignores the offset is read up to the cap, as copies of its first page.
* An alias file inside the configuration directory is read twice
  (`sources/neomutt.py:81-83`): its rows come twice, and `doctor` and `stats`
  count them twice.
* Of two cards with one file name in different collections, `omadex open` opens
  the first, whoever was asked for; the name is taken for a pattern, which may
  match other names or not match itself; and the directory is looked up in the
  settings only, without the loader's default (`launch.py:70-78`). `OpensItsCard`
  leaves these cases out.
* `needs_onboarding` is false as soon as one source is `ready`, which for abook,
  eds and notmuch does not mean it has a contact, and no probe looks at whether
  its source is on (`readiness.py:36`, `235`).
* An Evolution book or a vCard file that cannot be read is skipped without
  being reported (`sources/eds.py:49-51`, `sources/vdir.py:143`, against
  `sources/__init__.py:72-73`).
* `list_by_source` orders and pages by the sealed name (`store.py:369`, against
  341-343); "smith or jones" finds only those with both words (`store.py:314`,
  against 429-430).
* In the overlay, a cancelled query that answers in full shifts `listOffset` and
  may set `listComplete`, so browsing skips a page or stops after the first; a failed page clears the list and keeps
  `people`, so that later rows open other people (`OmaDex.qml:163-183`, against
  34); a further page is fetched without the watchdog (`OmaDex.qml:144-153`).
  `ListAnswersFilter` and `QueryGivenUp` say what holds otherwise.

## What is abstracted, and what is left out

* Parsing: the models start from normalised addresses and from names with their
  identifying words. Every `mailto:` key sorts before every `tel:` key.
* A digest is what it is computed from: no collisions.
* `Sync` gives a source one version number, which counts its edits.
* `StoreFile` runs one command at a time, `Sync` says nothing of the file: two
  processes that replace the file, or each make a key, are not modelled yet.
* `Overlay` keeps the address book fixed and shows one source. The selection is
  any row on the screen, and further pages are fetched at any time the guards allow. An answer that cannot be parsed and no answer differ only in
  `backendMissing`.
* `Overlay` was written without the source of Quickshell. `ChildProcess` lets a
  cancelled child answer, fail or hang, which covers what it may do.
* `Adapters` keeps of a file which entries it has and whether it can be read:
  vCard properties, abook fields, alias syntax and mail addresses are parsed
  outside the model. "Everyone in a source" is who its loader keeps: a book or a
  card file it skips in silence is not missed by `FailuresIsolated`. An adapter other than blueferry's reads its source in one
  step, so a directory that changes while it is listed is not modelled.
* `Settings` keeps `enabled` of each source. `sources set` takes the same path
  through `update_source` with another key. One command runs at a time.
* A pattern and the stems it matches are a relation (`Matches`), which need not be
  reflexive: a stem such as `[b]` does not match itself.
* `Launch` takes the rows of one contact where the code takes those of one
  identity. Two events, and the sources a command toggles, are bounds.
* Not modelled: the caller check, reply sizes and the `ContactsChanged` signal
  of `service.py`; searching and paging in `store.py`, which are pure reads;
  the argument vector `launch.py` builds; `plugin install`; the permissions of
  files; layout, selection and wording; packaging and the phase 0 script in
  `spike/`, which is not part of the program.

## Plan

1. *Done:* `Contacts`, `Merging`, `Resolver` with their proofs; `Identities`;
   `Projection` and `Sync`; `StoreFile`; `ChildProcess` and `Overlay`;
   `Settings`, `Adapters`, `PhoneReading`, `Readiness`, `Launch` and `Sources`.
2. `StoreFile` with two processes: a daemon that keeps the discarded file open,
   and two processes that each find no key (`crypto.py:67-84`).
3. `Settings` with two commands over one temporary file.
4. `Overlay` with its selection (`select`, `selectPage`, `maybeLoadMore`,
   `OmaDex.qml:241-276`), which an emptied list leaves where it was, and over a
   list that a sync renumbers between two pages.
5. The union-find with its parents (`resolver.py:39-55`) as a refinement of the
   partition in `Merging`.

Every safety property of the runs is proved. Theorems to come: the new modules'
invariants as they are written, and `Resolver`'s union-find as a refinement of
`Merging` when step 5 is there.
