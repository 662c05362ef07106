------------------------------ MODULE Sources ------------------------------
(***************************************************************************)
(* Loading the sources (sources/__init__.py:67-91): a command reads the    *)
(* settings once, then runs the adapters in turn, while the user edits the *)
(* settings and the sources change.  An adapter reads its source in one    *)
(* step, except blueferry's, which asks a service for page after page      *)
(* (blueferry.py:30-61).  What a sync does with the rows is in Sync.       *)
(***************************************************************************)
EXTENDS Settings, Readiness, Launch, SequencesExt

CONSTANTS
    Contacts,         \* the people in the sources
    InitialWorlds,    \* what the sources may hold at first
    States,           \* what each source may change to
    MaxEnumerated     \* MAX_ENUMERATED_CONTACTS

\* What a source may hold.  A phonebook lists a contact once; a directory that
\* is not there holds nothing.
Entries == Contacts \cup {Nobody}
Phones == [installed : BOOLEAN, running : BOOLEAN, lists : BOOLEAN, heeds : BOOLEAN,
           book : Seq(Contacts)]
MayHold(s, m) ==
    /\ s = "abook" => m.sections \in Seq(Entries)
    /\ s = "blueferry" => m \in Phones /\ IsInjective(m.book)
    /\ s = "eds" => \A b \in m.books : b.entries \subseteq Entries
    /\ s = "neomutt" =>
           /\ m.config \subseteq DOMAIN m.files /\ (~m.exists => m.config = {})
           /\ \A p \in DOMAIN m.files : m.files[p].lines \in Seq(Seq(Entries))
    /\ s = "notmuch" => \A e \in m.seen : e.contact \in Contacts
    /\ s = "vdir" => \A f \in m.files :
           f # NoCard /\ f.collection \in Nat /\ f.cards \in Seq(Entries)

ASSUME SourcesAssumption ==
    /\ Nobody \notin Contacts
    /\ MaxEnumerated \in Nat \ {0}
    /\ \A w \in InitialWorlds :
           w = [s \in Sources |-> w[s]] /\ \A s \in Sources : MayHold(s, w[s])
    /\ \A s \in Sources : \A m \in States[s] : MayHold(s, m)

VARIABLES
    world,     \* what each source holds
    settings,  \* the settings the running load has read
    at,        \* its place in SourceOrder
    walked,    \* the contacts the walk over the phonebook has so far
    loaded,    \* the rows of each source
    errors,    \* the sources that failed
    saved,     \* the last command has saved what it loaded
    owed       \* what the walk owes, as in PhoneReading (a history variable)

loadVars == <<settings, at, walked, loaded, errors, saved>>
worldVars == <<world, owed>>
vars == <<settingsVars, steady, loadVars, worldVars>>

SourceOrder == <<"abook", "blueferry", "eds", "neomutt", "notmuch", "vdir">>
Phone == 2                              \* blueferry's place in SourceOrder
Current == SourceOrder[at]
Nothing == [s \in Sources |-> {}]

Init ==
    /\ SettingsInit
    /\ world \in InitialWorlds
    /\ steady = {}
    /\ settings = Defaults
    /\ at = 1 /\ walked = << >>
    /\ loaded = Nothing /\ errors = {}
    /\ saved = FALSE
    /\ owed = {}

(***************************************************************************)
(* The settings and the commands                                           *)
(***************************************************************************)
EditSettings == HandEdit /\ UNCHANGED <<loadVars, worldVars>>

StartCommand ==
    /\ Begin
    /\ saved' = FALSE
    /\ UNCHANGED <<settings, at, walked, loaded, errors, worldVars>>

UpdateSettings == Update /\ UNCHANGED <<loadVars, worldVars>>

KillCommand ==
    /\ Kill
    /\ settings' = Defaults /\ at' = 1 /\ walked' = << >>
    /\ loaded' = Nothing /\ errors' = {}
    /\ UNCHANGED <<saved, worldVars>>

(***************************************************************************)
(* load_all.  An exception of a loader takes only that source's rows along.*)
(***************************************************************************)
settingsStay == UNCHANGED <<file, temporary, ask, held, commands, events>>

StartLoad ==
    /\ pc = "load"
    /\ settings' = Load
    /\ pc' = "sources" /\ at' = 1
    /\ walked' = << >> /\ loaded' = Nothing /\ errors' = {}
    /\ steady' = Sources \cup {"settings"}
    /\ owed' = IF world.blueferry.heeds THEN ToSet(world.blueferry.book) ELSE {}
    /\ settingsStay /\ UNCHANGED <<saved, world>>

\* What the steps that read a source have in common: the next one is Current's
\* successor, and after the last one the rows are saved.
NextSource ==
    /\ at' = IF at = Len(SourceOrder) THEN at ELSE at + 1
    /\ pc' = IF at = Len(SourceOrder) THEN "save" ELSE pc
    /\ walked' = << >>
    /\ settingsStay /\ UNCHANGED <<steady, settings, saved, worldVars>>

\* Mutant of SkipDisabled: a source that is off counts as a failure.
SkipAsFailure ==
    /\ pc = "sources" /\ ~Enabled(settings, Current)
    /\ errors' = errors \cup {Current}
    /\ NextSource /\ UNCHANGED loaded

SkipDisabled ==
    /\ pc = "sources" /\ ~Enabled(settings, Current)
    /\ NextSource /\ UNCHANGED <<loaded, errors>>

LoadSource ==
    /\ pc = "sources" /\ at # Phone /\ Enabled(settings, Current)
    /\ ~Fails(Current, world[Current])
    /\ loaded' = [loaded EXCEPT ![Current] = RowsOf(Current, world[Current])]
    /\ NextSource /\ UNCHANGED errors

\* A loader raises when its source is out of order; a call to blueferry or to
\* notmuch may also take too long.
LoaderRaises == Fails(Current, world[Current]) \/ Current \in {"blueferry", "notmuch"}

\* Mutant of SourceFails: a failure ends the load.
FailureEndsLoad ==
    /\ pc = "sources" /\ Enabled(settings, Current) /\ LoaderRaises
    /\ errors' = errors \cup {Current}
    /\ pc' = "save" /\ walked' = << >>
    /\ settingsStay /\ UNCHANGED <<steady, settings, at, loaded, saved, worldVars>>

\* Mutant of SourceFails: the source is tried again until it answers.
FailureRetried ==
    /\ pc = "sources" /\ Enabled(settings, Current) /\ LoaderRaises
    /\ walked' = << >>
    /\ settingsStay /\ UNCHANGED <<pc, errors, steady, settings, at, loaded, saved, worldVars>>

SourceFails ==
    /\ pc = "sources" /\ Enabled(settings, Current) /\ LoaderRaises
    /\ errors' = errors \cup {Current}
    /\ NextSource /\ UNCHANGED loaded

(***************************************************************************)
(* The walk over the phonebook.  The rows are numbered by the offset, which*)
(* is the number of contacts read so far.                                  *)
(***************************************************************************)
Batch == ListContacts(world.blueferry, Len(walked))

Walking ==
    /\ pc = "sources" /\ at = Phone /\ Enabled(settings, Current)
    /\ ~Fails(Current, world[Current])

WalkPage ==
    /\ Walking
    /\ Len(walked) < MaxEnumerated /\ Batch # << >>
    /\ walked' = walked \o Batch
    /\ settingsStay
    /\ UNCHANGED <<pc, steady, settings, at, loaded, errors, saved, worldVars>>

\* Mutant of WalkIsOver: a short page is taken for the last one.
WalkIsOverOnShortPage ==
    Len(walked) >= MaxEnumerated \/ Batch = << >> \/ Len(walked) % AskedPage # 0

\* Only an empty reply ends the walk, or the cap.
WalkIsOver == Len(walked) >= MaxEnumerated \/ Batch = << >>

WalkEnds ==
    /\ Walking /\ WalkIsOver
    /\ loaded' = [loaded EXCEPT !["blueferry"] =
                     {Row(<<n - 1>>, walked[n], "phone") : n \in DOMAIN walked}]
    /\ NextSource /\ UNCHANGED errors

Save ==
    /\ pc = "save"
    /\ pc' = "idle"
    /\ saved' = TRUE
    /\ settingsStay
    /\ UNCHANGED <<steady, settings, at, walked, loaded, errors, worldVars>>

(***************************************************************************)
(* The sources change while they are read, and between commands.           *)
(***************************************************************************)
Changed(s, m) ==
    /\ Happens
    /\ world' = [world EXCEPT ![s] = m]
    /\ steady' = steady \ {s}
    /\ UNCHANGED <<file, temporary, pc, ask, held, commands, loadVars>>

ChangeSource(s) == \E m \in States[s] \ {world[s]} :
    /\ Changed(s, m)
    /\ owed' = IF s = "blueferry" THEN {} ELSE owed

Phonebook == world.blueferry.book

PhoneAdds == \E c \in Contacts \ ToSet(Phonebook), k \in 1 .. Len(Phonebook) + 1 :
    /\ Changed("blueferry", [world.blueferry EXCEPT !.book = InsertAt(@, k, c)])
    /\ UNCHANGED owed

\* Those behind it move up, and the walk passes over the one that moves to a
\* place it has been at.
PhoneRemoves == \E k \in DOMAIN Phonebook :
    /\ Changed("blueferry", [world.blueferry EXCEPT !.book = RemoveAt(@, k)])
    /\ owed' = owed \ {Phonebook[n] : n \in {k, IF k <= Len(walked) THEN Len(walked) + 1 ELSE k}
                                           \cap DOMAIN Phonebook}

LoadStep ==
    \/ StartLoad \/ SkipDisabled \/ LoadSource \/ SourceFails
    \/ WalkPage \/ WalkEnds \/ Save

Environment ==
    \/ EditSettings \/ StartCommand \/ KillCommand
    \/ (\E s \in Sources : ChangeSource(s)) \/ PhoneAdds \/ PhoneRemoves

Next == Environment \/ UpdateSettings \/ LoadStep

Spec == Init /\ [][Next]_vars

\* A command that runs goes on: nothing it does waits for another process
\* without a time limit.
FairSpec == Spec /\ WF_vars(UpdateSettings \/ LoadStep)

(***************************************************************************)
(* Properties                                                              *)
(***************************************************************************)
Settled(s) == saved /\ {s, "settings"} \subseteq steady
StoredContacts(s) == {r.contact : r \in loaded[s]}

\* The variables have their types; "a source the user turned off is not a
\* failure" (sources/__init__.py:73-74): only sources that are on are errors.
TypeOK ==
    /\ SettingsTypeOK
    /\ pc \in {"idle", "load", "read", "open", "write", "rename", "sources", "save"}
    /\ at \in DOMAIN SourceOrder
    /\ ToSet(walked) \subseteq Contacts
    /\ Len(walked) < MaxEnumerated + Smaller(AskedPage, BackendPage)
    /\ \A s \in Sources : StoredContacts(s) \subseteq Contacts
    /\ errors \subseteq {s \in Sources : Enabled(settings, s)}
    /\ saved \in BOOLEAN /\ owed \subseteq Contacts

\* A source that settings.json has off contributes nothing to what the last
\* command saved, whatever the file looked like and whoever wrote it; a file
\* that cannot be read turns every source on (config.py:211-217).
DisabledStaysOut ==
    saved /\ "settings" \in steady =>
        \A s \in Sources : file # Garbled /\ s \in DOMAIN file /\ ~file[s] => loaded[s] = {}

\* "One unreachable source must not empty the address book" (sources/
\* __init__.py:72): whatever else failed, a source that is on and that was
\* left alone is either reported or there with everyone its loader keeps (an
\* EDS book or a card file that cannot be opened is skipped in silence).  A
\* backend that ignores the offset gives its first page only.
FailuresIsolated ==
    \A s \in Sources : Settled(s) /\ Enabled(Load, s) =>
        IF s \in errors THEN loaded[s] = {}
        ELSE StoredContacts(s) = ContactsIn(s, world[s])
             \/ (s = "blueferry" /\ ~world[s].heeds)

\* The walk implements PhoneReading: no contact is passed over by a phonebook
\* that grows or by a page that is short, and a removal costs one at most.
P == INSTANCE PhoneReading WITH
        book <- ToSet(Phonebook), reading <- pc = "sources" /\ at <= Phone,
        owed <- owed, result <- StoredContacts("blueferry")

ImplementsReading == P!Spec

\* "True when no source can supply a single contact" (readiness.py:235): the
\* probes never send a user to the onboarding screen who has a contact, even
\* if some of them get no answer.
OnboardingHonest ==
    \A raised \in SUBSET MayRaise :
        NeedsOnboarding(world, raised) => \A s \in Sources : ContactsIn(s, world[s]) = {}

\* A row of each source that has a person (cli.py:376-380): this card, and any
\* of the others.
RowsToOpen(card) ==
    LET of(s) == {r \in loaded[s] : r.contact = card.contact}
    IN [s \in {s \in Sources : of(s) # {}} |->
            IF s = "vdir" THEN card ELSE CHOOSE r \in of(s) : TRUE]

StemMatchesOne(card) == \A g \in world.vdir.files : Matches(card.stem, g.stem) => g = card

\* `omadex open` on a person with a card that is still there starts an
\* application that can jump to them, and if that is the card's own, then on
\* the card they are in.  Three exceptions: the directory is the loader's
\* default and not configured, or the stem taken for a pattern does not match
\* itself, and the card is not found; or the stem matches other cards too (of
\* one name in two collections, say), and the first one is opened.
OpensItsCard ==
    saved /\ "vdir" \in steady /\ "vdir" \in Applications /\ world.vdir.configured =>
        \A card \in {r \in loaded["vdir"] : Matches(r.place.stem, r.place.stem)} :
            LET opened == Opened(RowsToOpen(card), world, SourceOrder)
            IN /\ opened # {} /\ opened \cap OpensApplicationOnly = {}
               /\ StemMatchesOne(card.place) => VcardFile(world.vdir, card.id[1]) = card.place

\* A command that runs comes to its end, on a backend that never ends its
\* pages and with sources that do not answer.
CommandEnds == (pc # "idle") ~> (pc = "idle")
=============================================================================
