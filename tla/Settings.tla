------------------------------ MODULE Settings ------------------------------
(***************************************************************************)
(* The settings file (config.py:148-242) and the commands that change it   *)
(* (cli.py:268-289).  Of a source's options the model keeps `enabled`;     *)
(* Other is a key this version does not know.  A dictionary is a function  *)
(* from some of the keys to TRUE or FALSE.                                 *)
(*                                                                         *)
(* One command runs at a time and may be killed between any two steps; the *)
(* user may edit the file by hand at any time, and mistype.                *)
(***************************************************************************)
EXTENDS Naturals

CONSTANTS
    Other,          \* a key of another version
    Garbled,        \* the content of a file that is not JSON
    NoFile,         \* there is no temporary file
    HandEdits,      \* what the user may leave in the file by hand
    Toggled,        \* the sources the commands turn on or off (a bound)
    MaxCommands, MaxEvents   \* bounds

Sources == {"abook", "blueferry", "eds", "neomutt", "notmuch", "vdir"}
Keys == Sources \cup {Other}
Dictionary == UNION {[keys -> BOOLEAN] : keys \in SUBSET Keys}

ASSUME SettingsAssumption ==
    /\ Other \notin Sources
    /\ Garbled \notin Dictionary /\ NoFile \notin Dictionary \cup {Garbled}
    /\ HandEdits \subseteq Dictionary \cup {Garbled}
    /\ Toggled \subseteq Sources
    /\ MaxCommands \in Nat /\ MaxEvents \in Nat

VARIABLES
    file,        \* settings.json; a missing one reads like an empty one
    temporary,   \* settings.json.tmp
    pc,          \* where the running command is
    ask,         \* the change it makes: a dictionary of at most one key
    held,        \* the dictionary it will save
    steady,      \* what has not changed since the command last looked: sources
                 \* and "settings" (a history variable)
    commands,
    events       \* edits of the file, kills, and what happens to the sources

settingsVars == <<file, temporary, pc, ask, held, commands, events>>

Defaults == [s \in Sources |-> TRUE]

\* Mutant of Merge: the defaults go over the overrides.
MergeUnder(defaults, overrides) ==
    [k \in DOMAIN defaults \cup DOMAIN overrides |->
        IF k \in DOMAIN defaults THEN defaults[k] ELSE overrides[k]]

Merge(defaults, overrides) ==
    [k \in DOMAIN defaults \cup DOMAIN overrides |->
        IF k \in DOMAIN overrides THEN overrides[k] ELSE defaults[k]]

\* Mutant of Stored: the change is made to the merged settings.
StoredWithDefaults == IF file = Garbled THEN Defaults ELSE Merge(Defaults, file)

\* A file that cannot be read counts as an empty one.
Stored == IF file = Garbled THEN << >> ELSE file

\* load(): the stored dictionary over the defaults.
Load == Merge(Defaults, Stored)

Enabled(settings, s) == settings[s]

Happens == events < MaxEvents /\ events' = events + 1

SettingsInit ==
    /\ file \in {<< >>} \cup HandEdits
    /\ temporary = NoFile
    /\ pc = "idle" /\ ask = << >> /\ held = << >>
    /\ commands = 0 /\ events = 0

HandEdit ==
    /\ Happens
    /\ file' \in HandEdits \ {file}
    /\ steady' = steady \ {"settings"}
    /\ UNCHANGED <<temporary, pc, ask, held, commands>>

(***************************************************************************)
(* A command: `sync`, or `sources enable` or `disable`, which ends with    *)
(* one.                                                                    *)
(***************************************************************************)
Begin ==
    /\ pc = "idle" /\ commands < MaxCommands
    /\ commands' = commands + 1
    /\ \/ pc' = "load" /\ ask' = << >>
       \/ pc' = "read" /\ \E s \in Toggled, on \in BOOLEAN : ask' = [k \in {s} |-> on]
    /\ UNCHANGED <<file, temporary, held, steady, events>>

\* update_source: the stored dictionary, with the one key changed.
UpdateSource ==
    /\ pc = "read"
    /\ held' = Merge(Stored, ask)
    /\ steady' = steady \cup {"settings"}
    /\ pc' = "open"
    /\ UNCHANGED <<file, temporary, ask, commands, events>>

\* save(): opening the temporary file empties it ...
OpenTemporary ==
    /\ pc = "open"
    /\ temporary' = Garbled
    /\ pc' = "write"
    /\ UNCHANGED <<file, ask, held, steady, commands, events>>

\* ... it is written ...
WriteTemporary ==
    /\ pc = "write"
    /\ temporary' = held
    /\ pc' = "rename"
    /\ UNCHANGED <<file, ask, held, steady, commands, events>>

\* ... and takes the place of the settings; the sync that follows looks anew.
Rename ==
    /\ pc = "rename"
    /\ file' = temporary /\ temporary' = NoFile
    /\ ask' = << >> /\ held' = << >>
    /\ pc' = "load"
    /\ UNCHANGED <<steady, commands, events>>

Update == UpdateSource \/ OpenTemporary \/ WriteTemporary \/ Rename

Kill ==
    /\ pc # "idle" /\ Happens
    /\ pc' = "idle" /\ ask' = << >> /\ held' = << >>
    /\ UNCHANGED <<file, temporary, steady, commands>>

(***************************************************************************)
(* Properties                                                              *)
(***************************************************************************)
SettingsTypeOK ==
    /\ file \in Dictionary \cup {Garbled}
    /\ temporary \in Dictionary \cup {Garbled, NoFile}
    /\ ask \in Dictionary /\ held \in Dictionary
    /\ steady \subseteq Sources \cup {"settings"}
    /\ commands \in 0 .. MaxCommands /\ events \in 0 .. MaxEvents

\* "Change one source's settings, leaving every other key untouched", "only
\* the change is written" (config.py:231-238): whatever a command is killed
\* in the middle of, the program never leaves the settings in another form
\* than with the one key changed.  Two exceptions of the code: a file that
\* cannot be read counts as empty, and an edit made between the reading and
\* the rename is overwritten.
OnlyAskedKeyChanges ==
    [][\/ file' = file
       \/ events' # events
       \/ file = Garbled \/ "settings" \notin steady
       \/ file' = Merge(file, ask)]_<<settingsVars, steady>>
=============================================================================
