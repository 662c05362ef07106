---------------------------- MODULE SourcesProofs ----------------------------
(***************************************************************************)
(* Machine-checked proofs about the settings file and the loading of the   *)
(* sources, for every content of the sources, every settings file and      *)
(* every page size: what a command does to the settings, that a source     *)
(* that is off contributes nothing, that a source that fails takes only    *)
(* its own rows along, that the probes agree with the loaders, that the    *)
(* walk over the phonebook implements PhoneReading, and that a person is   *)
(* opened on their card.                                                   *)
(***************************************************************************)
EXTENDS Sources, SequenceTheorems, FiniteSetTheorems, WellFoundedInduction, TLAPS

-----------------------------------------------------------------------------
(***************************************************************************)
(* Dictionaries                                                            *)
(***************************************************************************)
LEMMA DictionaryDef ==
    ASSUME NEW d
    PROVE  d \in Dictionary <=> \E keys \in SUBSET Keys : d \in [keys -> BOOLEAN]
BY DEF Dictionary

\* An empty settings file is a dictionary.
LEMMA EmptyIsDictionary == << >> \in Dictionary
<1>1. << >> \in [{} -> BOOLEAN]
  <2>1. << >> \in Seq(BOOLEAN) /\ Len(<< >>) = 0
    BY EmptySeq
  <2>2. << >> \in [1 .. 0 -> BOOLEAN]
    BY <2>1, LenProperties
  <2> QED
    BY <2>2
<1> QED
  BY <1>1, DictionaryDef

\* Merging the file over the defaults gives a dictionary.
LEMMA MergeIsDictionary ==
    ASSUME NEW d \in Dictionary, NEW o \in Dictionary
    PROVE  Merge(d, o) \in Dictionary
<1>1. PICK D \in SUBSET Keys : d \in [D -> BOOLEAN]
  BY DictionaryDef
<1>2. PICK O \in SUBSET Keys : o \in [O -> BOOLEAN]
  BY DictionaryDef
<1>3. Merge(d, o) \in [D \cup O -> BOOLEAN]
  BY <1>1, <1>2 DEF Merge
<1> QED
  BY <1>3, DictionaryDef

\* What a toggle writes is a dictionary of one key.
LEMMA AskIsDictionary ==
    ASSUME NEW s \in Sources, NEW on \in BOOLEAN
    PROVE  [k \in {s} |-> on] \in Dictionary
<1>1. [k \in {s} |-> on] \in [{s} -> BOOLEAN] /\ {s} \in SUBSET Keys
  BY DEF Keys
<1> QED
  BY <1>1, DictionaryDef

\* The defaults are a dictionary.
LEMMA DefaultsIsDictionary == Defaults \in Dictionary
<1>1. Defaults \in [Sources -> BOOLEAN] /\ Sources \in SUBSET Keys
  BY DEF Defaults, Keys
<1> QED
  BY <1>1, DictionaryDef

\* Whatever is in the file, it is read as a dictionary.
LEMMA StoredIsDictionary == SettingsTypeOK => Stored \in Dictionary
BY EmptyIsDictionary DEF SettingsTypeOK, Stored

\* What is loaded has a value for every source: the file's, if it can be read
\* and has one, and TRUE otherwise (config.py:211-228).
LEMMA LoadProperties ==
    ASSUME SettingsTypeOK
    PROVE  /\ Load \in Dictionary
           /\ \A s \in Sources :
                  /\ s \in DOMAIN Load /\ Load[s] \in BOOLEAN
                  /\ file # Garbled /\ s \in DOMAIN file => Load[s] = file[s]
<1>1. Stored \in Dictionary
  BY StoredIsDictionary
<1>2. Load \in Dictionary
  BY <1>1, DefaultsIsDictionary, MergeIsDictionary DEF Load
<1>3. PICK O \in SUBSET Keys : Stored \in [O -> BOOLEAN]
  BY <1>1, DictionaryDef
<1>4. \A s \in Sources : s \in DOMAIN Load /\ Load[s] \in BOOLEAN
  BY <1>3 DEF Load, Merge, Defaults
<1>5. \A s \in Sources : file # Garbled /\ s \in DOMAIN file => Load[s] = file[s]
  BY DEF Load, Merge, Stored
<1> QED
  BY <1>2, <1>4, <1>5

-----------------------------------------------------------------------------
(***************************************************************************)
(* The settings file                                                       *)
(***************************************************************************)
\* Between the reading and the rename a command holds the file with its one key
\* changed, and what it renames is what it holds.
Held ==
    /\ pc \in {"open", "write", "rename"} /\ "settings" \in steady => held = Merge(Stored, ask)
    /\ pc = "rename" => temporary = held

SettingsInv == SettingsTypeOK /\ Held

\* At first no command runs.
LEMMA SettingsInvInit == Init => SettingsInv
BY EmptyIsDictionary, SettingsAssumption
DEF Init, SettingsInit, SettingsInv, SettingsTypeOK, Held

\* A step that leaves the files and the change to make alone.
LEMMA SettingsQuiet ==
    ASSUME SettingsInv, UNCHANGED <<file, temporary, ask, held, commands>>,
           events' \in 0 .. MaxEvents, steady' \subseteq Sources \cup {"settings"},
           \/ pc' \notin {"open", "write", "rename"}
           \/ pc' = pc /\ ("settings" \in steady' => "settings" \in steady)
    PROVE  SettingsInv'
BY DEF SettingsInv, SettingsTypeOK, Held, Stored

\* Events are counted up to their bound.
LEMMA HappensBound == SettingsTypeOK /\ Happens => events' \in 0 .. MaxEvents
BY SettingsAssumption DEF SettingsTypeOK, Happens

\* The steps of loading leave the settings alone.
LEMMA LoadStepQuiet ==
    ASSUME SettingsTypeOK, LoadStep
    PROVE  /\ settingsStay
           /\ pc' \in {"sources", "save", "idle"}
           /\ steady' \in {steady, Sources \cup {"settings"}}
BY DEF LoadStep, StartLoad, SkipDisabled, LoadSource, SourceFails, WalkPage, WalkEnds, Walking,
       Save, NextSource

\* Whatever changes in the world, it is what one source holds.
LEMMA WorldStepQuiet ==
    ASSUME (\E s \in Sources : ChangeSource(s)) \/ PhoneAdds \/ PhoneRemoves
    PROVE  \E s \in Sources : \E m : Changed(s, m)
<1>1. ASSUME NEW s \in Sources, ChangeSource(s) PROVE \E m : Changed(s, m)
  BY <1>1 DEF ChangeSource
<1>2. CASE PhoneAdds
  BY <1>2 DEF PhoneAdds, Sources
<1>3. CASE PhoneRemoves
  BY <1>3 DEF PhoneRemoves, Sources
<1> QED
  BY <1>1, <1>2, <1>3

\* Reading the file and merging the asked key into it.
LEMMA UpdateStep ==
    ASSUME SettingsInv, Update
    PROVE  SettingsInv'
<1> USE DEF SettingsInv
<1>1. CASE UpdateSource
  <2>1. held' \in Dictionary
    BY <1>1, StoredIsDictionary, MergeIsDictionary DEF UpdateSource, SettingsTypeOK
  <2> QED
    BY <1>1, <2>1 DEF UpdateSource, SettingsTypeOK, Held, Stored
<1>2. CASE OpenTemporary
  BY <1>2 DEF OpenTemporary, SettingsTypeOK, Held, Stored
<1>3. CASE WriteTemporary
  BY <1>3 DEF WriteTemporary, SettingsTypeOK, Held, Stored
<1>4. CASE Rename
  <2>1. temporary = held
    BY <1>4 DEF Rename, Held
  <2> QED
    BY <1>4, <2>1, EmptyIsDictionary DEF Rename, SettingsTypeOK, Held
<1> QED
  BY <1>1, <1>2, <1>3, <1>4 DEF Update

\* Every step of the program and outside it keeps the settings part.
LEMMA SettingsInvStep == SettingsInv /\ [Next]_vars => SettingsInv'
<1> SUFFICES ASSUME SettingsInv, [Next]_vars PROVE SettingsInv'
  OBVIOUS
<1>t. SettingsTypeOK
  BY DEF SettingsInv
<1>1. CASE EditSettings
  BY <1>1, <1>t, HappensBound, SettingsAssumption
  DEF EditSettings, HandEdit, SettingsInv, SettingsTypeOK, Held
<1>2. CASE StartCommand
  <2>1. ask' \in Dictionary
    BY <1>2, EmptyIsDictionary, AskIsDictionary, SettingsAssumption DEF StartCommand, Begin
  <2> QED
    BY <1>2, <1>t, <2>1, SettingsAssumption
    DEF StartCommand, Begin, SettingsInv, SettingsTypeOK, Held
<1>3. CASE UpdateSettings
  BY <1>3, UpdateStep DEF UpdateSettings
<1>4. CASE KillCommand
  BY <1>4, <1>t, HappensBound, EmptyIsDictionary
  DEF KillCommand, Kill, SettingsInv, SettingsTypeOK, Held
<1>5. CASE (\E s \in Sources : ChangeSource(s)) \/ PhoneAdds \/ PhoneRemoves
  <2>0. PICK s \in Sources : \E m : Changed(s, m)
    BY <1>5, WorldStepQuiet
  <2>1. PICK m : Changed(s, m)
    BY <2>0
  <2>2. /\ UNCHANGED <<file, temporary, ask, held, commands, pc>>
        /\ events' \in 0 .. MaxEvents /\ steady' = steady \ {s}
    BY <2>1, <1>t, HappensBound DEF Changed
  <2> QED
    BY <1>t, <2>2, SettingsQuiet DEF SettingsTypeOK
<1>6. CASE LoadStep
  BY <1>6, <1>t, LoadStepQuiet, SettingsQuiet DEF settingsStay, SettingsTypeOK
<1>7. CASE UNCHANGED vars
  BY <1>7 DEF vars, settingsVars, SettingsInv, SettingsTypeOK, Held, Stored
<1> QED
  BY <1>1, <1>2, <1>3, <1>4, <1>5, <1>6, <1>7 DEF Next, Environment

\* The program never leaves the settings in another form than with the one key
\* changed, for every file, whatever the user leaves in it and whenever a
\* command is killed.
THEOREM SettingsKeepTheRest == Spec => OnlyAskedKeyChanges
<1> DEFINE KeepsTheRest ==
        \/ file' = file
        \/ events' # events
        \/ file = Garbled \/ "settings" \notin steady
        \/ file' = Merge(file, ask)
<1>1. SettingsInv /\ [Next]_vars => [KeepsTheRest]_<<settingsVars, steady>>
  <2> SUFFICES ASSUME SettingsInv, [Next]_vars PROVE KeepsTheRest
    OBVIOUS
  <2>1. CASE EditSettings
    BY <2>1, SettingsAssumption DEF EditSettings, HandEdit, Happens, SettingsInv, SettingsTypeOK
  <2>2. CASE UpdateSettings
    <3>1. CASE Rename
      BY <3>1 DEF Rename, SettingsInv, Held, Stored
    <3> QED
      BY <2>2, <3>1 DEF UpdateSettings, Update, UpdateSource, OpenTemporary, WriteTemporary
  <2>3. CASE (\E s \in Sources : ChangeSource(s)) \/ PhoneAdds \/ PhoneRemoves
    BY <2>3, WorldStepQuiet DEF Changed
  <2>4. CASE LoadStep
    BY <2>4, LoadStepQuiet DEF settingsStay, SettingsInv
  <2> QED
    BY <2>1, <2>2, <2>3, <2>4
    DEF Next, Environment, StartCommand, Begin, KillCommand, Kill, vars, settingsVars
<1> QED
  BY SettingsInvInit, SettingsInvStep, <1>1, PTL DEF Spec, OnlyAskedKeyChanges
-----------------------------------------------------------------------------
(***************************************************************************)
(* A source that is off contributes nothing                                *)
(***************************************************************************)
LEMMA Places ==
    /\ DOMAIN SourceOrder = 1 .. 6 /\ Len(SourceOrder) = 6
    /\ \A k \in 1 .. 6 : SourceOrder[k] \in Sources
    /\ \A k \in 1 .. 6 : SourceOrder[k] = "blueferry" <=> k = Phone
    /\ \A j, k \in 1 .. 6 : SourceOrder[j] = SourceOrder[k] => j = k
    /\ \A s \in Sources : \E k \in 1 .. 6 : SourceOrder[k] = s
BY DEF SourceOrder, Sources, Phone

\* A load or what it saved is there to be looked at.
UnderWay == pc \in {"sources", "save"} \/ saved

LoadInv ==
    /\ SettingsInv
    /\ pc \in {"idle", "load", "read", "open", "write", "rename", "sources", "save"}
    /\ at \in 1 .. 6
    /\ saved \in BOOLEAN /\ (saved => pc = "idle")
    /\ UnderWay /\ "settings" \in steady => settings = Load
    /\ loaded = [s \in Sources |-> loaded[s]]
    /\ errors \subseteq {s \in Sources : Enabled(settings, s)}
    /\ \A s \in Sources : loaded[s] # {} => Enabled(settings, s)

\* What the steps that read a source have in common.
LEMMA ReadingStep ==
    ASSUME LoadInv, SkipDisabled \/ LoadSource \/ SourceFails \/ WalkEnds
    PROVE  /\ pc = "sources" /\ NextSource /\ Current \in Sources
           /\ \/ UNCHANGED loaded
              \/ Enabled(settings, Current) /\ \E rows : loaded' = [loaded EXCEPT ![Current] = rows]
           /\ \/ UNCHANGED errors
              \/ Enabled(settings, Current) /\ errors' = errors \cup {Current}
<1>1. Current \in Sources
  BY Places DEF LoadInv, Current
<1>2. at = Phone => Current = "blueferry"
  BY Places DEF LoadInv, Current
<1> QED
  BY <1>1, <1>2 DEF SkipDisabled, LoadSource, SourceFails, WalkEnds, Walking

\* At first nothing is loaded.
LEMMA LoadInvInit == Init => LoadInv
<1> SUFFICES ASSUME Init PROVE LoadInv
  OBVIOUS
<1>1. /\ pc = "idle" /\ saved = FALSE /\ at = 1 /\ errors = {} /\ loaded = Nothing
  BY DEF Init, SettingsInit
<1>2. \A s \in Sources : loaded[s] = {}
  BY <1>1 DEF Nothing
<1>3. loaded = [s \in Sources |-> loaded[s]]
  BY <1>1 DEF Nothing
<1>4. ~UnderWay
  BY <1>1 DEF UnderWay
<1>5. \A s \in Sources : loaded[s] # {} => Enabled(settings, s)
  BY <1>2
<1>6. SettingsInv
  BY SettingsInvInit
<1>7. saved \in BOOLEAN /\ (saved => pc = "idle")
  BY <1>1, Zenon
<1>9. at \in 1 .. 6
  BY <1>1
<1>8. errors \subseteq {s \in Sources : Enabled(settings, s)}
  BY <1>1
<1> QED
  BY <1>1, <1>3, <1>4, <1>5, <1>6, <1>7, <1>8, <1>9, Zenon DEF LoadInv

\* A step that leaves the load alone, and with it the settings it has read.
LEMMA LoadQuiet ==
    ASSUME LoadInv, SettingsInv', UNCHANGED loadVars, UNCHANGED pc,
           UnderWay /\ "settings" \in steady' => "settings" \in steady /\ Load' = Load
    PROVE  LoadInv'
BY DEF LoadInv, UnderWay, loadVars

\* Every step keeps what is known of a load and its settings.
LEMMA LoadInvStep == LoadInv /\ [Next]_vars => LoadInv'
<1> SUFFICES ASSUME LoadInv, [Next]_vars PROVE LoadInv'
  OBVIOUS
<1>s. SettingsInv'
  BY SettingsInvStep DEF LoadInv
<1>1. CASE EditSettings
  BY <1>1, <1>s, LoadQuiet DEF EditSettings, HandEdit
<1>2. CASE StartCommand
  BY <1>2, <1>s DEF StartCommand, Begin, LoadInv, UnderWay
<1>3. CASE UpdateSettings
  <2>1. /\ UNCHANGED loadVars /\ pc \in {"read", "open", "write", "rename"}
        /\ pc' \in {"open", "write", "rename", "load"}
    BY <1>3 DEF UpdateSettings, Update, UpdateSource, OpenTemporary, WriteTemporary, Rename
  <2> QED
    BY <1>s, <2>1 DEF LoadInv, UnderWay, loadVars
<1>4. CASE KillCommand
  <2>1. /\ pc' = "idle" /\ pc # "idle" /\ saved' = saved /\ settings' = Defaults /\ at' = 1
        /\ loaded' = Nothing /\ errors' = {}
    BY <1>4 DEF KillCommand, Kill
  <2>2. \A s \in Sources : loaded'[s] = {}
    BY <2>1 DEF Nothing
  <2> QED
    BY <1>s, <2>1, <2>2 DEF LoadInv, UnderWay, Nothing
<1>5. CASE (\E s \in Sources : ChangeSource(s)) \/ PhoneAdds \/ PhoneRemoves
  <2>0. PICK s \in Sources : \E m : Changed(s, m)
    BY <1>5, WorldStepQuiet
  <2>1. PICK m : Changed(s, m)
    BY <2>0
  <2>2. UNCHANGED <<file, pc, loadVars>> /\ steady' = steady \ {s}
    BY <2>1 DEF Changed
  <2> QED
    BY <1>s, <2>2, LoadQuiet DEF Load, Stored
<1>6. CASE StartLoad
  <2>1. /\ settings' = Load /\ file' = file /\ loaded' = Nothing /\ errors' = {} /\ at' = 1
        /\ pc' = "sources" /\ pc = "load" /\ saved' = saved
    BY <1>6 DEF StartLoad, settingsStay
  <2>2. \A s \in Sources : loaded'[s] = {}
    BY <2>1 DEF Nothing
  <2> QED
    BY <1>s, <2>1, <2>2 DEF LoadInv, UnderWay, Nothing, Load, Stored
<1>7. CASE SkipDisabled \/ LoadSource \/ SourceFails \/ WalkEnds
  <2>1. /\ pc = "sources" /\ NextSource /\ Current \in Sources
        /\ \/ UNCHANGED loaded
           \/ Enabled(settings, Current) /\ \E rows : loaded' = [loaded EXCEPT ![Current] = rows]
        /\ \/ UNCHANGED errors
           \/ Enabled(settings, Current) /\ errors' = errors \cup {Current}
    BY <1>7, ReadingStep
  <2>2. /\ UNCHANGED <<file, steady, settings, saved>>
        /\ pc' \in {"sources", "save"} /\ at' \in 1 .. 6
    BY <2>1, Places DEF NextSource, settingsStay, LoadInv
  <2>3. /\ loaded' = [s \in Sources |-> loaded'[s]]
        /\ \A s \in Sources : loaded'[s] # {} => Enabled(settings, s)
    BY <2>1 DEF LoadInv
  <2> QED
    BY <1>s, <2>1, <2>2, <2>3 DEF LoadInv, UnderWay, Load, Stored, Enabled
<1>8. CASE WalkPage
  BY <1>8, <1>s DEF WalkPage, Walking, settingsStay, LoadInv, UnderWay, Load, Stored
<1>9. CASE Save
  BY <1>9, <1>s DEF Save, settingsStay, LoadInv, UnderWay, Load, Stored
<1>10. CASE UNCHANGED vars
  BY <1>10, <1>s, LoadQuiet DEF vars, settingsVars, Load, Stored
<1> QED
  BY <1>1, <1>2, <1>3, <1>4, <1>5, <1>6, <1>7, <1>8, <1>9, <1>10 DEF Next, Environment, LoadStep

\* What settings.json has off contributes nothing to what a command saves,
\* whatever else the file has and whatever the sources hold.
THEOREM DisabledContributesNothing == Spec => []DisabledStaysOut
<1>1. LoadInv => DisabledStaysOut
  <2> SUFFICES ASSUME LoadInv, saved, "settings" \in steady, NEW s \in Sources,
                      file # Garbled, s \in DOMAIN file, ~file[s]
               PROVE  loaded[s] = {}
    BY DEF DisabledStaysOut
  <2>1. settings = Load /\ Load[s] = file[s]
    BY LoadProperties DEF LoadInv, UnderWay, SettingsInv
  <2> QED
    BY <2>1 DEF LoadInv, Enabled
<1> QED
  BY LoadInvInit, LoadInvStep, <1>1, PTL DEF Spec
-----------------------------------------------------------------------------
(***************************************************************************)
(* What the sources hold, and what the adapters make of it                 *)
(***************************************************************************)
WorldOK ==
    /\ world = [s \in Sources |-> world[s]]
    /\ \A s \in Sources : MayHold(s, world[s])

\* The phone's part of the world.
LEMMA PhonebookOK ==
    ASSUME WorldOK
    PROVE  /\ world.blueferry \in Phones /\ Phonebook \in Seq(Contacts) /\ IsInjective(Phonebook)
           /\ world.blueferry = world["blueferry"]
BY DEF WorldOK, MayHold, Sources, Phonebook, Phones

\* A source other than the phone may be anything that it may hold.
LEMMA ChangedWorld ==
    ASSUME WorldOK, NEW s \in Sources, NEW m, MayHold(s, m), world' = [world EXCEPT ![s] = m]
    PROVE  WorldOK'
BY DEF WorldOK, MayHold

-----------------------------------------------------------------------------
(***************************************************************************)
(* A phonebook that changes                                                *)
(***************************************************************************)
LEMMA SubSeqOf ==
    ASSUME NEW S, NEW q \in Seq(S), NEW m \in Nat \ {0}, NEW n \in 0 .. Len(q)
    PROVE  /\ SubSeq(q, m, n) \in Seq(S)
           /\ Len(SubSeq(q, m, n)) = IF m <= n THEN n - m + 1 ELSE 0
           /\ \A i \in 1 .. n - m + 1 : SubSeq(q, m, n)[i] = q[m + i - 1]
<1>1. m \in Int /\ n \in Int /\ \A i \in m .. n : q[i] \in S
  BY ElementOfSeq, LenProperties
<1> QED
  BY <1>1, SubSeqProperties

\* Removing from a sequence moves what is behind one place up.
LEMMA RemoveAtProperties ==
    ASSUME NEW S, NEW q \in Seq(S), NEW k \in 1 .. Len(q)
    PROVE  /\ RemoveAt(q, k) \in Seq(S)
           /\ Len(RemoveAt(q, k)) = Len(q) - 1
           /\ \A i \in 1 .. Len(q) - 1 : RemoveAt(q, k)[i] = IF i < k THEN q[i] ELSE q[i + 1]
<1> DEFINE a == SubSeq(q, 1, k - 1)
           b == SubSeq(q, k + 1, Len(q))
<1>0. Len(q) \in Nat
  BY LenProperties
<1>1. a \in Seq(S) /\ Len(a) = k - 1 /\ \A i \in 1 .. k - 1 : a[i] = q[i]
  BY <1>0, SubSeqOf
<1>2. b \in Seq(S) /\ Len(b) = Len(q) - k /\ \A i \in 1 .. Len(q) - k : b[i] = q[k + i]
  BY <1>0, SubSeqOf
<1>3. RemoveAt(q, k) = a \o b
  BY DEF RemoveAt
<1> HIDE DEF a, b
<1>c. /\ a \o b \in Seq(S) /\ Len(a \o b) = Len(a) + Len(b)
      /\ \A i \in 1 .. Len(a) + Len(b) : (a \o b)[i] = IF i <= Len(a) THEN a[i] ELSE b[i - Len(a)]
  BY <1>1, <1>2, ConcatProperties
<1>n. Len(a) + Len(b) = Len(q) - 1
  BY <1>0, <1>1, <1>2
<1>4. /\ a \o b \in Seq(S) /\ Len(a \o b) = Len(q) - 1
      /\ \A i \in 1 .. Len(q) - 1 : (a \o b)[i] = IF i <= k - 1 THEN a[i] ELSE b[i - (k - 1)]
  BY <1>1, <1>c, <1>n
<1>5. ASSUME NEW i \in 1 .. Len(q) - 1
      PROVE  (a \o b)[i] = IF i < k THEN q[i] ELSE q[i + 1]
  <2>1. CASE i < k
    BY <1>0, <1>1, <1>4, <2>1
  <2>2. CASE ~(i < k)
    <3>1. i - (k - 1) \in 1 .. Len(q) - k /\ k + (i - (k - 1)) = i + 1
      BY <1>0, <2>2
    <3>2. (a \o b)[i] = b[i - (k - 1)]
      BY <1>0, <1>4, <2>2
    <3> QED
      BY <1>2, <2>2, <3>1, <3>2
  <2> QED
    BY <2>1, <2>2
<1> QED
  BY <1>3, <1>4, <1>5

\* Inserting into a sequence moves what is behind one place down.
LEMMA InsertAtProperties ==
    ASSUME NEW S, NEW q \in Seq(S), NEW k \in 1 .. Len(q) + 1, NEW c \in S
    PROVE  /\ InsertAt(q, k, c) \in Seq(S)
           /\ Len(InsertAt(q, k, c)) = Len(q) + 1
           /\ \A i \in 1 .. Len(q) + 1 :
                  InsertAt(q, k, c)[i] = IF i < k THEN q[i] ELSE IF i = k THEN c ELSE q[i - 1]
<1> DEFINE a == SubSeq(q, 1, k - 1)
           b == SubSeq(q, k, Len(q))
           ac == a \o <<c>>
<1>0. Len(q) \in Nat
  BY LenProperties
<1>1. a \in Seq(S) /\ Len(a) = k - 1 /\ \A i \in 1 .. k - 1 : a[i] = q[i]
  BY <1>0, SubSeqOf
<1>2. b \in Seq(S) /\ Len(b) = Len(q) - k + 1 /\ \A i \in 1 .. Len(q) - k + 1 : b[i] = q[k + i - 1]
  BY <1>0, SubSeqOf
<1>3. InsertAt(q, k, c) = ac \o b
  BY DEF InsertAt
<1>4. <<c>> \in Seq(S) /\ Len(<<c>>) = 1 /\ <<c>>[1] = c
  OBVIOUS
<1> HIDE DEF a, b
<1>5. /\ ac \in Seq(S) /\ Len(ac) = k
      /\ \A i \in 1 .. k : ac[i] = IF i <= k - 1 THEN a[i] ELSE <<c>>[i - (k - 1)]
  BY <1>0, <1>1, <1>4, ConcatProperties
<1>6. \A i \in 1 .. k : ac[i] = IF i < k THEN q[i] ELSE c
  BY <1>0, <1>1, <1>4, <1>5
<1> HIDE DEF ac
<1>c. /\ ac \o b \in Seq(S) /\ Len(ac \o b) = Len(ac) + Len(b)
      /\ \A i \in 1 .. Len(ac) + Len(b) : (ac \o b)[i] = IF i <= Len(ac) THEN ac[i] ELSE b[i - Len(ac)]
  BY <1>2, <1>5, ConcatProperties
<1>n. Len(ac) + Len(b) = Len(q) + 1
  BY <1>0, <1>2, <1>5
<1>7. /\ ac \o b \in Seq(S) /\ Len(ac \o b) = Len(q) + 1
      /\ \A i \in 1 .. Len(q) + 1 : (ac \o b)[i] = IF i <= k THEN ac[i] ELSE b[i - k]
  BY <1>5, <1>c, <1>n
<1> QED
  BY <1>0, <1>2, <1>3, <1>6, <1>7

\* A sequence without repetitions, by its places.
LEMMA InjectiveSeq ==
    ASSUME NEW S, NEW q \in Seq(S)
    PROVE  IsInjective(q) <=> \A i, j \in 1 .. Len(q) : q[i] = q[j] => i = j
BY LenProperties DEF IsInjective

\* The members of a sequence, by its places.
LEMMA ToSetOf ==
    ASSUME NEW S, NEW q \in Seq(S)
    PROVE  /\ ToSet(q) \subseteq S
           /\ \A x : x \in ToSet(q) <=> \E i \in 1 .. Len(q) : q[i] = x
BY LenProperties, ElementOfSeq DEF ToSet

\* A removal takes one contact away, and an addition one in.
LEMMA RemovedFrom ==
    ASSUME NEW S, NEW q \in Seq(S), IsInjective(q), NEW k \in 1 .. Len(q)
    PROVE  /\ IsInjective(RemoveAt(q, k))
           /\ ToSet(RemoveAt(q, k)) = ToSet(q) \ {q[k]}
<1> DEFINE r == RemoveAt(q, k)
<1>0. Len(q) \in Nat
  BY LenProperties
<1>1. r \in Seq(S) /\ Len(r) = Len(q) - 1 /\ \A i \in 1 .. Len(q) - 1 : r[i] = IF i < k THEN q[i] ELSE q[i + 1]
  BY RemoveAtProperties
<1>2. \A i, j \in 1 .. Len(q) : q[i] = q[j] => i = j
  BY InjectiveSeq
<1> HIDE DEF r
<1>3. \A i, j \in 1 .. Len(r) : r[i] = r[j] => i = j
  BY <1>0, <1>1, <1>2
<1>4. IsInjective(r)
  BY <1>1, <1>3, InjectiveSeq
<1>5. ASSUME NEW x \in ToSet(r) PROVE x \in ToSet(q) \ {q[k]}
  <2>1. PICK i \in 1 .. Len(r) : r[i] = x
    BY <1>1, ToSetOf
  <2>2. \E j \in 1 .. Len(q) : j # k /\ q[j] = x
    BY <1>0, <1>1, <2>1
  <2> QED
    BY <1>2, <2>2, ToSetOf
<1>6. ASSUME NEW x \in ToSet(q) \ {q[k]} PROVE x \in ToSet(r)
  <2>1. PICK j \in 1 .. Len(q) : q[j] = x
    BY ToSetOf
  <2>2. j # k
    BY <2>1
  <2>3. CASE j < k
    <3>1. j \in 1 .. Len(r) /\ r[j] = x
      BY <1>0, <1>1, <2>1, <2>3
    <3> QED
      BY <1>1, <3>1, ToSetOf
  <2>4. CASE j > k
    <3>1. j - 1 \in 1 .. Len(r) /\ r[j - 1] = x
      BY <1>0, <1>1, <2>1, <2>4
    <3> QED
      BY <1>1, <3>1, ToSetOf
  <2> QED
    BY <1>0, <2>2, <2>3, <2>4
<1>7. ToSet(r) = ToSet(q) \ {q[k]}
  BY <1>5, <1>6
<1> QED
  BY <1>4, <1>7 DEF r

\* An addition keeps a phonebook without repetitions and adds the one contact.
LEMMA AddedTo ==
    ASSUME NEW S, NEW q \in Seq(S), IsInjective(q), NEW k \in 1 .. Len(q) + 1,
           NEW c \in S \ ToSet(q)
    PROVE  /\ IsInjective(InsertAt(q, k, c))
           /\ ToSet(InsertAt(q, k, c)) = ToSet(q) \cup {c}
<1> DEFINE r == InsertAt(q, k, c)
<1>0. Len(q) \in Nat
  BY LenProperties
<1>1. /\ r \in Seq(S) /\ Len(r) = Len(q) + 1
      /\ \A i \in 1 .. Len(q) + 1 : r[i] = IF i < k THEN q[i] ELSE IF i = k THEN c ELSE q[i - 1]
  BY InsertAtProperties
<1>2. \A i, j \in 1 .. Len(q) : q[i] = q[j] => i = j
  BY InjectiveSeq
<1>3. \A i \in 1 .. Len(q) : q[i] # c
  BY ToSetOf
<1> HIDE DEF r
<1>4. ASSUME NEW i \in 1 .. Len(r), NEW j \in 1 .. Len(r), r[i] = r[j] PROVE i = j
  <2> DEFINE old(n) == IF n < k THEN n ELSE n - 1
  <2>1. \A n \in 1 .. Len(r) : n # k => old(n) \in 1 .. Len(q) /\ r[n] = q[old(n)]
    BY <1>0, <1>1
  <2>2. r[k] = c
    BY <1>0, <1>1
  <2>3. CASE i = k \/ j = k
    BY <1>3, <1>4, <2>1, <2>2, <2>3
  <2>4. CASE i # k /\ j # k
    <3>1. old(i) = old(j)
      BY <1>2, <1>4, <2>1, <2>4
    <3> QED
      BY <1>0, <1>1, <2>4, <3>1
  <2> QED
    BY <2>3, <2>4
<1>5. IsInjective(r)
  <2>1. \A i, j \in 1 .. Len(r) : r[i] = r[j] => i = j
    BY <1>4
  <2> QED
    BY <1>1, <2>1, InjectiveSeq
<1>6. ASSUME NEW x \in ToSet(r) PROVE x \in ToSet(q) \cup {c}
  <2>1. PICK i \in 1 .. Len(r) : r[i] = x
    BY <1>1, ToSetOf
  <2>2. x = c \/ \E j \in 1 .. Len(q) : q[j] = x
    BY <1>0, <1>1, <2>1
  <2> QED
    BY <2>2, ToSetOf
<1>7. ASSUME NEW x \in ToSet(q) \cup {c} PROVE x \in ToSet(r)
  <2>1. CASE x = c
    <3>1. k \in 1 .. Len(r) /\ r[k] = x
      BY <1>0, <1>1, <2>1
    <3> QED
      BY <1>1, <3>1, ToSetOf
  <2>2. CASE x \in ToSet(q)
    <3>1. PICK j \in 1 .. Len(q) : q[j] = x
      BY <2>2, ToSetOf
    <3>2. \E i \in 1 .. Len(r) : r[i] = x
      <4>1. CASE j < k
        <5>1. j \in 1 .. Len(r) /\ r[j] = x
          BY <1>0, <1>1, <3>1, <4>1
        <5> QED
          BY <5>1
      <4>2. CASE j >= k
        <5>1. j + 1 \in 1 .. Len(r) /\ r[j + 1] = x
          BY <1>0, <1>1, <3>1, <4>2
        <5> QED
          BY <5>1
      <4> QED
        BY <1>0, <4>1, <4>2
    <3> QED
      BY <1>1, <3>2, ToSetOf
  <2> QED
    BY <2>1, <2>2
<1>8. ToSet(r) = ToSet(q) \cup {c}
  BY <1>6, <1>7
<1> QED
  BY <1>5, <1>8 DEF r
\* The world keeps to what the sources may hold.
LEMMA WorldInit == Init => WorldOK
BY SourcesAssumption DEF Init, WorldOK

\* A changed phonebook changes the phone and nothing else.
LEMMA PhoneReplaced ==
    ASSUME WorldOK, NEW q \in Seq(Contacts), IsInjective(q),
           world' = [world EXCEPT !["blueferry"] = [world.blueferry EXCEPT !.book = q]]
    PROVE  /\ WorldOK' /\ Phonebook' = q
           /\ world'.blueferry.heeds = world.blueferry.heeds
           /\ \A s \in Sources \ {"blueferry"} : world'[s] = world[s]
<1> DEFINE m == [world.blueferry EXCEPT !.book = q]
<1>1. m \in Phones /\ m.book = q /\ m.heeds = world.blueferry.heeds
  BY PhonebookOK DEF Phones
<1>2. MayHold("blueferry", m)
  BY <1>1 DEF MayHold
<1> HIDE DEF m
<1>3. world' = [world EXCEPT !["blueferry"] = m]
  BY DEF m
<1>4. WorldOK'
  BY <1>2, <1>3, ChangedWorld DEF Sources
<1>5. world'["blueferry"] = m /\ \A s \in Sources \ {"blueferry"} : world'[s] = world[s]
  BY <1>3 DEF WorldOK, Sources
<1> QED
  BY <1>1, <1>4, <1>5 DEF Phonebook

\* A contact is added to the phonebook somewhere.
LEMMA PhoneAddsStep ==
    ASSUME WorldOK, PhoneAdds
    PROVE  \E c \in Contacts \ ToSet(Phonebook), k \in 1 .. Len(Phonebook) + 1 :
               /\ WorldOK' /\ Phonebook' = InsertAt(Phonebook, k, c)
               /\ world'.blueferry.heeds = world.blueferry.heeds
               /\ \A s \in Sources \ {"blueferry"} : world'[s] = world[s]
<1>1. PICK c \in Contacts \ ToSet(Phonebook), k \in 1 .. Len(Phonebook) + 1 :
         world' = [world EXCEPT !["blueferry"] =
                      [world.blueferry EXCEPT !.book = InsertAt(Phonebook, k, c)]]
  BY DEF PhoneAdds, Changed, Phonebook
<1>2. InsertAt(Phonebook, k, c) \in Seq(Contacts) /\ IsInjective(InsertAt(Phonebook, k, c))
  BY PhonebookOK, InsertAtProperties, AddedTo
<1> QED
  BY <1>1, <1>2, PhoneReplaced

\* A contact is removed, and the walk may pass over one more.
LEMMA PhoneRemovesStep ==
    ASSUME WorldOK, PhoneRemoves
    PROVE  \E k \in 1 .. Len(Phonebook) :
               /\ WorldOK' /\ Phonebook' = RemoveAt(Phonebook, k)
               /\ world'.blueferry.heeds = world.blueferry.heeds
               /\ \A s \in Sources \ {"blueferry"} : world'[s] = world[s]
               /\ owed' = owed \ {Phonebook[n] : n \in {k, IF k <= Len(walked) THEN Len(walked) + 1 ELSE k}
                                                       \cap 1 .. Len(Phonebook)}
<1>0. DOMAIN Phonebook = 1 .. Len(Phonebook)
  BY PhonebookOK, LenProperties
<1>1. PICK k \in 1 .. Len(Phonebook) :
         /\ world' = [world EXCEPT !["blueferry"] =
                         [world.blueferry EXCEPT !.book = RemoveAt(Phonebook, k)]]
         /\ owed' = owed \ {Phonebook[n] : n \in {k, IF k <= Len(walked) THEN Len(walked) + 1 ELSE k}
                                                 \cap 1 .. Len(Phonebook)}
  BY <1>0 DEF PhoneRemoves, Changed, Phonebook
<1>2. RemoveAt(Phonebook, k) \in Seq(Contacts) /\ IsInjective(RemoveAt(Phonebook, k))
  BY PhonebookOK, RemoveAtProperties, RemovedFrom
<1> QED
  BY <1>1, <1>2, PhoneReplaced

\* A source changes as a whole and is not left alone any more.
LEMMA ChangeSourceStep ==
    ASSUME WorldOK, NEW s \in Sources, ChangeSource(s)
    PROVE  /\ WorldOK' /\ \A t \in Sources \ {s} : world'[t] = world[t]
           /\ steady' = steady \ {s} /\ UNCHANGED <<pc, loadVars>>
           /\ owed' = IF s = "blueferry" THEN {} ELSE owed
<1>1. PICK m \in States[s] : Changed(s, m)
  BY DEF ChangeSource
<1>2. world' = [world EXCEPT ![s] = m] /\ MayHold(s, m)
  BY <1>1, SourcesAssumption DEF Changed
<1>3. WorldOK'
  BY <1>2, ChangedWorld
<1>4. \A t \in Sources \ {s} : world'[t] = world[t]
  BY <1>2 DEF WorldOK
<1> QED
  BY <1>1, <1>3, <1>4 DEF ChangeSource, Changed

\* The world is right as long as nothing changes it.
LEMMA WorldStays == ASSUME WorldOK, UNCHANGED world PROVE WorldOK'
BY DEF WorldOK

\* Whatever happens, every source holds what it may hold.
LEMMA WorldStep == WorldOK /\ [Next]_vars => WorldOK'
<1> SUFFICES ASSUME WorldOK, [Next]_vars PROVE WorldOK'
  OBVIOUS
<1>1. CASE \E s \in Sources : ChangeSource(s)
  BY <1>1, ChangeSourceStep
<1>2. CASE PhoneAdds
  BY <1>2, PhoneAddsStep
<1>3. CASE PhoneRemoves
  BY <1>3, PhoneRemovesStep
<1>4. CASE EditSettings \/ StartCommand \/ KillCommand \/ UpdateSettings \/ UNCHANGED vars
  BY <1>4, WorldStays DEF EditSettings, StartCommand, KillCommand, UpdateSettings, worldVars, vars
<1>5. CASE LoadStep
  <2>1. UNCHANGED world
    BY <1>5 DEF LoadStep, StartLoad, SkipDisabled, LoadSource, SourceFails, WalkPage, WalkEnds,
       Save, NextSource, worldVars
  <2> QED
    BY <2>1, WorldStays
<1> QED
  BY <1>1, <1>2, <1>3, <1>4, <1>5 DEF Next, Environment
-----------------------------------------------------------------------------
(***************************************************************************)
(* Type correctness                                                        *)
(***************************************************************************)
\* An adapter gives rows about contacts only: entries without a name and an
\* address are left behind by each of them.
LEMMA RowsAreAboutContacts ==
    ASSUME NEW s \in Sources \ {"blueferry"}, NEW m, MayHold(s, m), NEW r \in RowsOf(s, m)
    PROVE  r.contact \in Contacts
<1>1. CASE s = "abook"
  <2>1. m.sections \in Seq(Entries) /\ r \in AbookRows(m)
    BY <1>1 DEF MayHold, RowsOf
  <2>2. PICK n \in DOMAIN m.sections : m.sections[n] # Nobody /\ r.contact = m.sections[n]
    BY <2>1 DEF AbookRows, Row
  <2>3. m.sections[n] \in Entries
    BY <2>1, <2>2, ElementOfSeq, LenProperties
  <2> QED
    BY <2>2, <2>3 DEF Entries
<1>2. CASE s = "eds"
  <2>1. (\A b \in m.books : b.entries \subseteq Entries) /\ r \in EdsRows(m)
    BY <1>2 DEF MayHold, RowsOf
  <2>2. PICK b \in m.books : \E c \in b.entries \ {Nobody} : r = Row(<<b.uid, c>>, c, b.uid)
    BY <2>1 DEF EdsRows
  <2> QED
    BY <2>1, <2>2 DEF Row, Entries
<1>3. CASE s = "neomutt"
  <2>1. /\ m.config \subseteq DOMAIN m.files /\ r \in NeomuttRows(m)
        /\ \A p \in DOMAIN m.files : m.files[p].lines \in Seq(Seq(Entries))
    BY <1>3 DEF MayHold, RowsOf
  <2>2. PICK reading \in Readings(m) : r \in AliasLines(m.files[reading[2]], reading)
    BY <2>1 DEF NeomuttRows
  <2>3. reading[2] \in DOMAIN m.files
    <3>1. CASE \E p \in m.config : reading = <<"config", p>>
      BY <2>1, <3>1
    <3>2. CASE \E p \in AliasFiles(m) : reading = <<"alias", p>>
      <4>1. AliasFiles(m) \subseteq DOMAIN m.files
        BY DEF AliasFiles
      <4>2. PICK p \in AliasFiles(m) : reading = <<"alias", p>>
        BY <3>2
      <4>3. reading[2] = p
        BY <4>2
      <4> QED
        BY <4>1, <4>3
    <3> QED
      BY <2>2, <3>1, <3>2 DEF Readings
  <2> DEFINE lines == m.files[reading[2]].lines
  <2>4. PICK n \in DOMAIN lines : \E k \in DOMAIN lines[n] :
           lines[n][k] # Nobody /\ r.contact = lines[n][k]
    BY <2>2 DEF AliasLines, Row
  <2>5. lines[n] \in Seq(Entries)
    BY <2>1, <2>3, <2>4, ElementOfSeq, LenProperties
  <2>6. \A k \in DOMAIN lines[n] : lines[n][k] \in Entries
    BY <2>5, ElementOfSeq, LenProperties
  <2> HIDE DEF lines
  <2> QED
    BY <2>4, <2>6 DEF Entries
<1>4. CASE s = "notmuch"
  <2>1. (\A e \in m.seen : e.contact \in Contacts) /\ r \in NotmuchRows(m)
    BY <1>4 DEF MayHold, RowsOf
  <2> QED
    BY <2>1 DEF NotmuchRows, Row
<1>5. CASE s = "vdir"
  <2>1. (\A f \in m.files : f.cards \in Seq(Entries)) /\ r \in VdirRows(m)
    BY <1>5 DEF MayHold, RowsOf
  <2>2. PICK f \in m.files : r \in ParseCards(f)
    BY <2>1 DEF VdirRows
  <2>3. PICK n \in DOMAIN f.cards : f.cards[n] # Nobody /\ r.contact = f.cards[n]
    <3> DEFINE kept == {n \in DOMAIN f.cards : f.cards[n] # Nobody}
               place(n) == <<f.stem, Cardinality({k \in kept : k < n})>>
    <3>1. ParseCards(f) = {Row(place(n), f.cards[n], f) : n \in kept}
      BY DEF ParseCards
    <3> HIDE DEF place
    <3>2. PICK n \in kept : r = Row(place(n), f.cards[n], f)
      BY <2>2, <3>1
    <3> QED
      BY <3>2 DEF Row
  <2>4. f.cards[n] \in Entries
    BY <2>1, <2>3, ElementOfSeq, LenProperties
  <2> QED
    BY <2>3, <2>4 DEF Entries
<1> QED
  BY <1>1, <1>2, <1>3, <1>4, <1>5 DEF Sources

PageLimit == Smaller(AskedPage, BackendPage)

\* A page has room for a contact.
LEMMA PageLimitPositive == PageLimit \in Nat \ {0}
BY AdaptersAssumption DEF PageLimit, Smaller

\* One reply of the backend continues what has been walked, if it heeds the
\* offset; it is empty only when nothing is left.
LEMMA BatchProperties ==
    ASSUME WorldOK, walked \in Seq(Contacts)
    PROVE  /\ Batch \in Seq(Contacts) /\ Len(Batch) <= PageLimit
           /\ world.blueferry.heeds /\ Len(walked) <= Len(Phonebook) =>
                  /\ Len(walked) + Len(Batch) <= Len(Phonebook)
                  /\ \A i \in 1 .. Len(Batch) : Batch[i] = Phonebook[Len(walked) + i]
           /\ world.blueferry.heeds /\ Batch = << >> => Len(Phonebook) <= Len(walked)
<1> DEFINE from == IF world.blueferry.heeds THEN Len(walked) ELSE 0
           to == Smaller(from + PageLimit, Len(Phonebook))
<1>1. Phonebook \in Seq(Contacts) /\ Len(Phonebook) \in Nat /\ Len(walked) \in Nat
  BY PhonebookOK, LenProperties
<1>2. from \in Nat /\ to \in 0 .. Len(Phonebook) /\ to <= from + PageLimit
      /\ (to < from + PageLimit => to = Len(Phonebook))
  BY <1>1, PageLimitPositive DEF Smaller
<1>3. Batch = SubSeq(Phonebook, from + 1, to)
  BY DEF Batch, ListContacts, Phonebook, PageLimit
<1>4. world.blueferry.heeds => from = Len(walked)
  OBVIOUS
<1> HIDE DEF from, to
<1>5. /\ Batch \in Seq(Contacts)
      /\ Len(Batch) = IF from + 1 <= to THEN to - (from + 1) + 1 ELSE 0
      /\ \A i \in 1 .. to - (from + 1) + 1 : Batch[i] = Phonebook[(from + 1) + i - 1]
  BY <1>1, <1>2, <1>3, SubSeqOf
<1>6. Len(Batch) <= PageLimit
  BY <1>2, <1>5, PageLimitPositive
<1>7. ASSUME world.blueferry.heeds, Len(walked) <= Len(Phonebook)
      PROVE  /\ Len(walked) + Len(Batch) <= Len(Phonebook)
             /\ \A i \in 1 .. Len(Batch) : Batch[i] = Phonebook[Len(walked) + i]
  <2>1. Len(walked) + Len(Batch) <= Len(Phonebook)
    BY <1>1, <1>2, <1>4, <1>5, <1>7
  <2>2. ASSUME NEW i \in 1 .. Len(Batch) PROVE Batch[i] = Phonebook[Len(walked) + i]
    <3>1. i \in 1 .. to - (from + 1) + 1 /\ (from + 1) + i - 1 = Len(walked) + i
      <4>1. from + 1 <= to
        BY <1>5, <2>2
      <4>2. from = Len(walked) /\ Len(Batch) = to - (from + 1) + 1
        BY <1>4, <1>5, <1>7, <4>1
      <4> HIDE DEF Batch
      <4> QED
        BY <1>1, <1>2, <2>2, <4>2
    <3> QED
      BY <1>5, <3>1
  <2> QED
    BY <2>1, <2>2
<1>8. ASSUME world.blueferry.heeds, Batch = << >> PROVE Len(Phonebook) <= Len(walked)
  <2>1. Len(Batch) = 0
    BY <1>8
  <2> QED
    BY <1>1, <1>2, <1>4, <1>5, <1>8, <2>1, PageLimitPositive
<1> QED
  BY <1>5, <1>6, <1>7, <1>8
\* What the walk and the rows are made of.
RowsInv ==
    /\ walked \in Seq(Contacts)
    /\ Len(walked) < MaxEnumerated + PageLimit
    /\ \A s \in Sources : StoredContacts(s) \subseteq Contacts
    /\ owed \subseteq Contacts

TypeInv == LoadInv /\ WorldOK /\ RowsInv

\* A load that has not begun has stored nobody.
LEMMA NoRows ==
    ASSUME loaded = Nothing, NEW s \in Sources
    PROVE  StoredContacts(s) = {}
BY DEF Nothing, StoredContacts

\* A walk that has not begun.
LEMMA EmptyWalk == << >> \in Seq(Contacts) /\ Len(<< >>) < MaxEnumerated + PageLimit
BY EmptySeq, SourcesAssumption, PageLimitPositive

\* At first nothing is loaded, walked or owed.
LEMMA TypeInit == Init => TypeInv
<1> SUFFICES ASSUME Init PROVE TypeInv
  OBVIOUS
<1>1. walked = << >> /\ loaded = Nothing /\ owed = {}
  BY DEF Init
<1>2. RowsInv
  BY <1>1, NoRows, EmptyWalk DEF RowsInv
<1> QED
  BY <1>2, LoadInvInit, WorldInit DEF TypeInv

\* The steps that read a source leave the walk empty, and what they store of the
\* source is what its adapter gives, or what has been walked.
LEMMA RowsRead ==
    ASSUME TypeInv, LoadSource
    PROVE  /\ loaded' = [loaded EXCEPT ![Current] = RowsOf(Current, world[Current])]
           /\ Current \in Sources \ {"blueferry"}
           /\ {r.contact : r \in loaded'[Current]} = ContactsIn(Current, world[Current])
           /\ \A s \in Sources \ {Current} : loaded'[s] = loaded[s]
<1>1. Current \in Sources \ {"blueferry"} /\ ~Fails(Current, world[Current])
  BY Places DEF LoadSource, Current, TypeInv, LoadInv
<1>2. loaded' = [loaded EXCEPT ![Current] = RowsOf(Current, world[Current])]
  BY DEF LoadSource
<1>3. \A s \in Sources \ {Current} : loaded'[s] = loaded[s]
  BY <1>2 DEF TypeInv, LoadInv
<1>4. loaded'[Current] = RowsOf(Current, world[Current])
  BY <1>1, <1>2 DEF TypeInv, LoadInv
<1>5. ContactsIn(Current, world[Current]) = {r.contact : r \in RowsOf(Current, world[Current])}
  BY <1>1 DEF ContactsIn
<1> QED
  BY <1>1, <1>2, <1>3, <1>4, <1>5
\* The walk stores whom it has walked past.
LEMMA WalkStored ==
    ASSUME TypeInv, WalkEnds
    PROVE  /\ {r.contact : r \in loaded'["blueferry"]} = ToSet(walked)
           /\ \A s \in Sources \ {"blueferry"} : loaded'[s] = loaded[s]
<1>1. loaded' = [loaded EXCEPT !["blueferry"] =
                    {Row(<<n - 1>>, walked[n], "phone") : n \in DOMAIN walked}]
  BY DEF WalkEnds
<1>2. /\ loaded'["blueferry"] = {Row(<<n - 1>>, walked[n], "phone") : n \in DOMAIN walked}
      /\ \A s \in Sources \ {"blueferry"} : loaded'[s] = loaded[s]
  BY <1>1 DEF TypeInv, LoadInv, Sources
<1>3. {r.contact : r \in loaded'["blueferry"]} = ToSet(walked)
  <2> DEFINE row(n) == Row(<<n - 1>>, walked[n], "phone")
  <2>1. \A n : row(n).contact = walked[n]
    BY DEF Row
  <2>2. loaded'["blueferry"] = {row(n) : n \in DOMAIN walked}
    BY <1>2
  <2> HIDE DEF row
  <2> QED
    BY <2>1, <2>2 DEF ToSet
<1> QED
  BY <1>2, <1>3

\* A page is put behind what has been walked, and the cap is passed by one page
\* at most.
LEMMA WalkGrows ==
    ASSUME TypeInv, WalkPage
    PROVE  /\ walked' \in Seq(Contacts) /\ Len(walked') = Len(walked) + Len(Batch)
           /\ \A i \in 1 .. Len(walked') :
                  walked'[i] = IF i <= Len(walked) THEN walked[i] ELSE Batch[i - Len(walked)]
           /\ Len(walked') < MaxEnumerated + PageLimit
<1>1. walked' = walked \o Batch /\ Len(walked) < MaxEnumerated
  BY DEF WalkPage
<1>2. walked \in Seq(Contacts) /\ Batch \in Seq(Contacts) /\ Len(Batch) <= PageLimit
  BY BatchProperties DEF TypeInv, RowsInv
<1>3. Len(walked) \in Nat /\ Len(Batch) \in Nat
  BY <1>2, LenProperties
<1> HIDE DEF Batch
<1>4. /\ walked \o Batch \in Seq(Contacts) /\ Len(walked \o Batch) = Len(walked) + Len(Batch)
      /\ \A i \in 1 .. Len(walked) + Len(Batch) :
             (walked \o Batch)[i] = IF i <= Len(walked) THEN walked[i] ELSE Batch[i - Len(walked)]
  BY <1>2, ConcatProperties
<1>5. Len(walked) + Len(Batch) < MaxEnumerated + PageLimit
  BY <1>1, <1>2, <1>3, SourcesAssumption, PageLimitPositive
<1> QED
  BY <1>1, <1>4, <1>5

\* Nothing is loaded by a step that leaves the walk or gives it up.
LEMMA RowsStay ==
    ASSUME RowsInv, walked' \in {walked, << >>}, UNCHANGED loaded, owed' \subseteq owed
    PROVE  RowsInv'
BY EmptyWalk DEF RowsInv, StoredContacts

\* Every step keeps the types of what is read.
LEMMA TypeStep == TypeInv /\ [Next]_vars => TypeInv'
<1> SUFFICES ASSUME TypeInv, [Next]_vars PROVE RowsInv'
  BY LoadInvStep, WorldStep DEF TypeInv
<1>t. RowsInv /\ WorldOK /\ LoadInv
  BY DEF TypeInv
<1>1. CASE EditSettings \/ StartCommand \/ UpdateSettings \/ UNCHANGED vars
  BY <1>1, <1>t, RowsStay
  DEF EditSettings, StartCommand, UpdateSettings, loadVars, worldVars, vars
<1>2. CASE KillCommand
  <2>1. walked' = << >> /\ loaded' = Nothing /\ owed' = owed
    BY <1>2 DEF KillCommand, worldVars
  <2>2. \A s \in Sources : {r.contact : r \in loaded'[s]} = {}
    BY <2>1 DEF Nothing
  <2> QED
    BY <1>t, <2>1, <2>2, EmptyWalk DEF RowsInv, StoredContacts
<1>3. CASE (\E s \in Sources : ChangeSource(s)) \/ PhoneAdds \/ PhoneRemoves
  <2>1. UNCHANGED loadVars
    BY <1>3, WorldStepQuiet DEF Changed
  <2>2. owed' \subseteq owed
    BY <1>3 DEF ChangeSource, PhoneAdds, PhoneRemoves
  <2> QED
    BY <1>t, <2>1, <2>2, RowsStay DEF loadVars
<1>4. CASE StartLoad
  <2>1. walked' = << >> /\ loaded' = Nothing /\ owed' \subseteq ToSet(Phonebook)
    BY <1>4 DEF StartLoad, Phonebook
  <2>2. \A s \in Sources : {r.contact : r \in loaded'[s]} = {}
    BY <2>1 DEF Nothing
  <2>3. owed' \subseteq Contacts
    BY <1>t, <2>1, PhonebookOK, ToSetOf
  <2> QED
    BY <1>t, <2>1, <2>2, <2>3, EmptyWalk DEF RowsInv, StoredContacts
<1>5. CASE SkipDisabled \/ SourceFails
  BY <1>5, <1>t, RowsStay DEF SkipDisabled, SourceFails, NextSource, worldVars
<1>6. CASE LoadSource
  <2>1. walked' = << >> /\ owed' = owed
    BY <1>6 DEF LoadSource, NextSource, worldVars
  <2>2. \A s \in Sources : {r.contact : r \in loaded'[s]} \subseteq Contacts
    <3> SUFFICES ASSUME NEW s \in Sources, NEW r \in loaded'[s] PROVE r.contact \in Contacts
      OBVIOUS
    <3>1. CASE s # Current
      BY <1>6, <1>t, <3>1, RowsRead DEF RowsInv, StoredContacts
    <3>2. CASE s = Current
      <4>1. Current \in Sources \ {"blueferry"} /\ r \in RowsOf(Current, world[Current])
        BY <1>6, <3>2, RowsRead DEF TypeInv, LoadInv
      <4>2. MayHold(Current, world[Current])
        BY <1>t, <4>1 DEF WorldOK
      <4> QED
        BY <4>1, <4>2, RowsAreAboutContacts
    <3> QED
      BY <3>1, <3>2
  <2> QED
    BY <1>t, <2>1, <2>2, EmptyWalk DEF RowsInv, StoredContacts
<1>7. CASE WalkPage
  <2>1. loaded' = loaded /\ owed' = owed
    BY <1>7 DEF WalkPage, worldVars
  <2> QED
    BY <1>7, <1>t, <2>1, WalkGrows DEF RowsInv, StoredContacts
<1>8. CASE WalkEnds
  <2>1. walked' = << >> /\ owed' = owed
    BY <1>8 DEF WalkEnds, NextSource, worldVars
  <2>2. ToSet(walked) \subseteq Contacts
    BY <1>t, ToSetOf DEF RowsInv
  <2>3. \A s \in Sources : {r.contact : r \in loaded'[s]} \subseteq Contacts
    BY <1>8, <1>t, <2>2, WalkStored DEF RowsInv, StoredContacts
  <2> QED
    BY <1>t, <2>1, <2>3, EmptyWalk DEF RowsInv, StoredContacts
<1>9. CASE Save
  BY <1>9, <1>t, RowsStay DEF Save, worldVars
<1> QED
  BY <1>1, <1>2, <1>3, <1>4, <1>5, <1>6, <1>7, <1>8, <1>9 DEF Next, Environment, LoadStep

\* Whatever the sources hold, however large a page is and whatever changes while
\* they are read: only contacts are stored, and only sources that are on fail.
THEOREM SourcesTypeCorrect == Spec => []TypeOK
<1>1. TypeInv => TypeOK
  <2> SUFFICES ASSUME TypeInv PROVE TypeOK
    OBVIOUS
  <2>1. ToSet(walked) \subseteq Contacts
    BY ToSetOf DEF TypeInv, RowsInv
  <2>2. at \in DOMAIN SourceOrder
    BY Places DEF TypeInv, LoadInv
  <2> QED
    BY <2>1, <2>2 DEF TypeInv, RowsInv, LoadInv, SettingsInv, TypeOK, PageLimit
<1> QED
  BY TypeInit, TypeStep, <1>1, PTL DEF Spec
-----------------------------------------------------------------------------
(***************************************************************************)
(* A source that fails takes only its own rows along                       *)
(***************************************************************************)
\* The phonebook is no longer than the walk may go (a condition on behaviours;
\* the cap is MAX_ENUMERATED_CONTACTS, blueferry.py:24).
PhonebookFits == Len(Phonebook) <= MaxEnumerated

\* The load has been at the source.
Done(s) == pc = "sources" => \E k \in 1 .. at - 1 : SourceOrder[k] = s

\* The source is reported, or there with everyone in it.
IsRead(s) ==
    IF s \in errors THEN loaded[s] = {}
    ELSE StoredContacts(s) = ContactsIn(s, world[s])
         \/ (s = "blueferry" /\ ~world[s].heeds)

\* The walk has the beginning of the phonebook, if that was left alone.
WalkInOrder ==
    /\ pc = "sources" /\ at # Phone => walked = << >>
    /\ pc = "sources" /\ "blueferry" \in steady /\ world.blueferry.heeds =>
           /\ Len(walked) <= Len(Phonebook)
           /\ \A i \in 1 .. Len(walked) : walked[i] = Phonebook[i]

IsolatedInv ==
    /\ TypeInv /\ WalkInOrder
    /\ \A s \in Sources : UnderWay /\ Done(s) /\ s \in steady /\ Enabled(settings, s) => IsRead(s)
    /\ \A s \in Sources : UnderWay /\ ~Done(s) => s \notin errors /\ loaded[s] = {}

\* At first no load is under way.
LEMMA IsolatedInit == Init => IsolatedInv
BY TypeInit DEF Init, SettingsInit, IsolatedInv, WalkInOrder, UnderWay

\* A load that goes on to the next source is done with the current one.
LEMMA NextSourceIsDone ==
    ASSUME LoadInv, pc = "sources", NextSource, NEW s \in Sources
    PROVE  /\ Done(s)' <=> Done(s) \/ s = Current
           /\ ~Done(Current) /\ Current \in Sources
           /\ UnderWay /\ UnderWay'
<1>1. at \in 1 .. 6 /\ Current = SourceOrder[at] /\ saved' = saved
  BY DEF LoadInv, Current, NextSource
<1>2. Current \in Sources /\ ~Done(Current)
  BY <1>1, Places DEF Done
<1>3. CASE at = 6
  <2>1. pc' = "save"
    BY <1>3, Places DEF NextSource
  <2>2. Done(s) \/ s = Current
    BY <1>1, <1>3, Places DEF Done
  <2> QED
    BY <1>2, <2>1, <2>2 DEF Done, UnderWay
<1>4. CASE at # 6
  <2>1. at' = at + 1 /\ pc' = "sources"
    BY <1>4, Places DEF NextSource
  <2> QED
    BY <1>1, <1>2, <2>1 DEF Done, UnderWay
<1> QED
  BY <1>1, <1>3, <1>4

\* A walk that is over has the whole of a phonebook that was left alone.
LEMMA WalkIsWhole ==
    ASSUME IsolatedInv, PhonebookFits, pc = "sources", WalkIsOver,
           "blueferry" \in steady, world.blueferry.heeds
    PROVE  ToSet(walked) = ToSet(Phonebook)
<1>1. /\ walked \in Seq(Contacts) /\ Phonebook \in Seq(Contacts)
      /\ Len(walked) \in Nat /\ Len(Phonebook) \in Nat
  BY PhonebookOK, LenProperties DEF IsolatedInv, TypeInv, RowsInv
<1>2. Len(walked) <= Len(Phonebook) /\ \A i \in 1 .. Len(walked) : walked[i] = Phonebook[i]
  BY DEF IsolatedInv, WalkInOrder
<1>3. Len(Phonebook) <= Len(walked)
  <2>1. CASE Len(walked) >= MaxEnumerated
    BY <1>1, <2>1, SourcesAssumption DEF PhonebookFits
  <2>2. CASE Batch = << >>
    BY <1>1, <2>2, BatchProperties DEF IsolatedInv, TypeInv
  <2> QED
    BY <2>1, <2>2 DEF WalkIsOver
<1>4. walked = Phonebook
  BY <1>1, <1>2, <1>3, SeqEqual
<1> QED
  BY <1>4

\* A step that leaves the load alone, or only begins and saves one.
LEMMA IsolatedStays ==
    ASSUME IsolatedInv, TypeInv', UNCHANGED <<settings, loaded, errors, walked>>,
           \A s \in Sources : s \in steady' => s \in steady /\ world'[s] = world[s],
           UnderWay' => UnderWay,
           \A s \in Sources : UnderWay' => (Done(s)' <=> Done(s)),
           pc' = "sources" => pc = "sources" /\ at' = at
    PROVE  IsolatedInv'
<1>1. WorldOK /\ WorldOK'
  BY DEF IsolatedInv, TypeInv
<1>2. "blueferry" \in steady' => Phonebook' = Phonebook /\ world'.blueferry = world.blueferry
  BY <1>1, PhonebookOK DEF WorldOK, Phonebook, Sources
<1>3. WalkInOrder'
  BY <1>2 DEF IsolatedInv, WalkInOrder, Sources
<1>4. \A s \in Sources : UnderWay' /\ Done(s)' /\ s \in steady' /\ Enabled(settings, s) => IsRead(s)'
  BY DEF IsolatedInv, IsRead, StoredContacts
<1> QED
  BY <1>3, <1>4 DEF IsolatedInv, Enabled

\* A step that reads a source.
LEMMA IsolatedReads ==
    ASSUME IsolatedInv, TypeInv', pc = "sources", NextSource,
           \A s \in Sources \ {Current} : loaded'[s] = loaded[s],
           errors' \in {errors, errors \cup {Current}},
           Current \in steady /\ Enabled(settings, Current) =>
               IF Current \in errors' THEN loaded'[Current] = {}
               ELSE \/ {r.contact : r \in loaded'[Current]} = ContactsIn(Current, world[Current])
                    \/ Current = "blueferry" /\ ~world[Current].heeds
    PROVE  IsolatedInv'
<1>1. LoadInv
  BY DEF IsolatedInv, TypeInv
<1>2. /\ Current \in Sources /\ ~Done(Current) /\ UnderWay
      /\ \A s \in Sources : Done(s)' <=> Done(s) \/ s = Current
  BY <1>1, NextSourceIsDone, Places
<1>3. UNCHANGED <<steady, settings, world>> /\ walked' = << >>
  BY DEF NextSource, worldVars
<1>4. WalkInOrder'
  BY <1>3, PhonebookOK, LenProperties, EmptySeq DEF WalkInOrder, Phonebook, IsolatedInv, TypeInv
<1>5. ASSUME NEW s \in Sources, Done(s)', s \in steady, Enabled(settings, s) PROVE IsRead(s)'
  <2>1. CASE s = Current
    BY <1>3, <1>5, <2>1 DEF IsRead, StoredContacts
  <2>2. CASE s # Current
    <3>1. IsRead(s)
      BY <1>2, <1>5, <2>2 DEF IsolatedInv
    <3> QED
      BY <1>3, <2>2, <3>1 DEF IsRead, StoredContacts
  <2> QED
    BY <2>1, <2>2
<1>6. ASSUME NEW s \in Sources, ~Done(s)' PROVE s \notin errors' /\ loaded'[s] = {}
  BY <1>2, <1>6 DEF IsolatedInv
<1> QED
  BY <1>3, <1>4, <1>5, <1>6 DEF IsolatedInv, Enabled

\* Every step keeps it, whichever source fails or changes.
LEMMA IsolatedStep ==
    ASSUME IsolatedInv, [Next]_vars, PhonebookFits
    PROVE  IsolatedInv'
<1>t. TypeInv' /\ TypeInv /\ LoadInv /\ WorldOK
  BY TypeStep DEF IsolatedInv, TypeInv
<1>1. CASE EditSettings
  BY <1>1, <1>t, IsolatedStays DEF EditSettings, HandEdit, loadVars, worldVars, UnderWay, Done, Sources
<1>2. CASE StartCommand
  <2>1. /\ UNCHANGED <<settings, loaded, errors, walked, steady, world>>
        /\ saved' = FALSE /\ pc' \in {"load", "read"}
    BY <1>2 DEF StartCommand, Begin, worldVars
  <2>2. ~UnderWay' /\ pc' # "sources"
    BY <2>1 DEF UnderWay
  <2> QED
    BY <1>t, <2>1, <2>2, IsolatedStays
<1>3. CASE UpdateSettings
  <2>1. /\ UNCHANGED <<settings, loaded, errors, walked, world, saved>>
        /\ pc \in {"read", "open", "write", "rename"} /\ pc' \in {"open", "write", "rename", "load"}
        /\ steady' \in {steady, steady \cup {"settings"}}
    BY <1>3 DEF UpdateSettings, Update, UpdateSource, OpenTemporary, WriteTemporary, Rename,
       loadVars, worldVars
  <2>2. ~UnderWay' /\ pc' # "sources"
    BY <1>t, <2>1 DEF UnderWay, LoadInv
  <2>3. \A s \in Sources : s \in steady' => s \in steady
    BY <2>1 DEF Sources
  <2> QED
    BY <1>t, <2>1, <2>2, <2>3, IsolatedStays
<1>4. CASE KillCommand
  <2>1. pc' = "idle" /\ saved' = saved /\ pc # "idle"
    BY <1>4 DEF KillCommand, Kill
  <2>2. ~UnderWay'
    BY <1>t, <2>1 DEF UnderWay, LoadInv
  <2> QED
    BY <1>t, <2>1, <2>2 DEF IsolatedInv, WalkInOrder
<1>5. CASE \E s \in Sources : ChangeSource(s)
  <2>1. PICK s \in Sources : ChangeSource(s)
    BY <1>5
  <2>2. /\ \A t \in Sources \ {s} : world'[t] = world[t]
        /\ steady' = steady \ {s} /\ UNCHANGED <<pc, loadVars>>
    BY <1>t, <2>1, ChangeSourceStep
  <2> QED
    BY <1>t, <2>2, IsolatedStays DEF loadVars, UnderWay, Done
<1>6. CASE PhoneAdds \/ PhoneRemoves
  <2>1. \A s \in Sources \ {"blueferry"} : world'[s] = world[s]
    BY <1>6, <1>t, PhoneAddsStep, PhoneRemovesStep
  <2>2. steady' = steady \ {"blueferry"} /\ UNCHANGED <<pc, loadVars>>
    BY <1>6 DEF PhoneAdds, PhoneRemoves, Changed
  <2> QED
    BY <1>t, <2>1, <2>2, IsolatedStays DEF loadVars, UnderWay, Done
<1>7. CASE StartLoad
  <2>1. /\ pc' = "sources" /\ at' = 1 /\ walked' = << >> /\ loaded' = Nothing /\ errors' = {}
    BY <1>7 DEF StartLoad
  <2>2. \A s \in Sources : ~Done(s)' /\ loaded'[s] = {}
    BY <2>1 DEF Done, Nothing
  <2>3. WalkInOrder'
    BY <1>t, <2>1, PhonebookOK, LenProperties, EmptySeq DEF WalkInOrder, TypeInv
  <2> QED
    BY <1>t, <2>1, <2>2, <2>3 DEF IsolatedInv
<1>8. CASE SkipDisabled
  BY <1>8, <1>t, IsolatedReads DEF SkipDisabled
<1>9. CASE SourceFails
  <2>1. Current \in Sources /\ ~Done(Current) /\ UnderWay
    BY <1>9, <1>t, NextSourceIsDone, Places DEF SourceFails
  <2>2. loaded[Current] = {}
    BY <2>1 DEF IsolatedInv
  <2> QED
    BY <1>9, <1>t, <2>2, IsolatedReads DEF SourceFails
<1>10. CASE LoadSource
  <2>1. Current \in Sources /\ ~Done(Current) /\ UnderWay
    BY <1>10, <1>t, NextSourceIsDone, Places DEF LoadSource
  <2>2. Current \notin errors
    BY <2>1 DEF IsolatedInv
  <2> QED
    BY <1>10, <1>t, <2>2, RowsRead, IsolatedReads DEF LoadSource
<1>11. CASE WalkPage
  <2>1. /\ UNCHANGED <<settings, loaded, errors, steady, world, pc, at, saved>>
        /\ pc = "sources" /\ at = Phone
    BY <1>11 DEF WalkPage, Walking, worldVars
  <2>2. ASSUME "blueferry" \in steady, world.blueferry.heeds
        PROVE  /\ Len(walked') <= Len(Phonebook)
               /\ \A i \in 1 .. Len(walked') : walked'[i] = Phonebook[i]
    <3>1. Len(walked) <= Len(Phonebook) /\ \A i \in 1 .. Len(walked) : walked[i] = Phonebook[i]
      BY <2>1, <2>2 DEF IsolatedInv, WalkInOrder
    <3>2. /\ Batch \in Seq(Contacts) /\ Len(walked) + Len(Batch) <= Len(Phonebook)
          /\ \A i \in 1 .. Len(Batch) : Batch[i] = Phonebook[Len(walked) + i]
      BY <1>t, <2>2, <3>1, BatchProperties DEF TypeInv, RowsInv
    <3>3. Len(walked) \in Nat /\ Len(Batch) \in Nat
      BY <1>t, <3>2, LenProperties DEF TypeInv, RowsInv
    <3>4. /\ Len(walked') = Len(walked) + Len(Batch)
          /\ \A i \in 1 .. Len(walked') :
                 walked'[i] = IF i <= Len(walked) THEN walked[i] ELSE Batch[i - Len(walked)]
      BY <1>11, <1>t, WalkGrows
    <3> HIDE DEF Batch
    <3>5. ASSUME NEW i \in 1 .. Len(walked') PROVE walked'[i] = Phonebook[i]
      <4>1. CASE i <= Len(walked)
        BY <3>1, <3>3, <3>4, <4>1
      <4>2. CASE i > Len(walked)
        <5>1. i - Len(walked) \in 1 .. Len(Batch) /\ Len(walked) + (i - Len(walked)) = i
          BY <3>3, <3>4, <4>2
        <5>2. walked'[i] = Batch[i - Len(walked)]
          BY <3>3, <3>4, <4>2
        <5> QED
          BY <3>2, <5>1, <5>2
      <4> QED
        BY <3>3, <3>4, <4>1, <4>2
    <3> QED
      BY <3>2, <3>4, <3>5
  <2>3. WalkInOrder'
    BY <2>1, <2>2 DEF WalkInOrder, Phonebook
  <2> QED
    BY <1>t, <2>1, <2>3 DEF IsolatedInv, IsRead, StoredContacts, Done, UnderWay
<1>12. CASE WalkEnds
  <2>1. /\ pc = "sources" /\ NextSource /\ Current = "blueferry" /\ errors' = errors /\ WalkIsOver
        /\ ~Fails("blueferry", world["blueferry"])
    BY <1>12, <1>t, Places DEF WalkEnds, Walking, Current, LoadInv
  <2>2. ~Done("blueferry") /\ UnderWay
    BY <1>t, <2>1, NextSourceIsDone, Places
  <2>3. "blueferry" \notin errors
    BY <2>2 DEF IsolatedInv, Sources
  <2>4. ContactsIn("blueferry", world["blueferry"]) = ToSet(Phonebook)
    BY <1>t, <2>1, PhonebookOK DEF ContactsIn, ToSet, Phonebook
  <2>5. "blueferry" \in steady /\ world["blueferry"].heeds =>
           {r.contact : r \in loaded'["blueferry"]} = ContactsIn("blueferry", world["blueferry"])
    BY <1>12, <1>t, <2>1, <2>4, WalkIsWhole, WalkStored, PhonebookOK
  <2>6. \A s \in Sources \ {"blueferry"} : loaded'[s] = loaded[s]
    BY <1>12, <1>t, WalkStored
  <2> QED
    BY <1>t, <2>1, <2>3, <2>5, <2>6, IsolatedReads
<1>13. CASE Save
  <2>1. /\ UNCHANGED <<settings, loaded, errors, walked, steady, world>>
        /\ pc = "save" /\ pc' = "idle"
    BY <1>13 DEF Save, worldVars
  <2> QED
    BY <1>t, <2>1, IsolatedStays DEF UnderWay, Done
<1>14. CASE UNCHANGED vars
  BY <1>14, <1>t, IsolatedStays DEF vars, settingsVars, loadVars, worldVars, UnderWay, Done
<1> QED
  BY <1>1, <1>2, <1>3, <1>4, <1>5, <1>6, <1>7, <1>8, <1>9, <1>10, <1>11, <1>12, <1>13, <1>14
  DEF Next, Environment, LoadStep

\* Whatever else fails, a source that is on and was left alone is reported, or
\* stored with everyone in it, as long as the phonebook stays under the cap.
THEOREM FailuresStayIsolated == Spec /\ []PhonebookFits => []FailuresIsolated
<1>1. IsolatedInv => FailuresIsolated
  <2> SUFFICES ASSUME IsolatedInv, NEW s \in Sources, Settled(s), Enabled(Load, s)
               PROVE  IsRead(s)
    BY DEF FailuresIsolated, IsRead
  <2>1. pc = "idle" /\ settings = Load
    BY DEF IsolatedInv, TypeInv, LoadInv, Settled, UnderWay
  <2> QED
    BY <2>1 DEF IsolatedInv, Settled, UnderWay, Done
<1>2. IsolatedInv /\ PhonebookFits /\ [Next]_vars => IsolatedInv'
  BY IsolatedStep
<1> QED
  BY IsolatedInit, <1>1, <1>2, PTL DEF Spec
-----------------------------------------------------------------------------
(***************************************************************************)
(* The walk over the phonebook implements PhoneReading                     *)
(***************************************************************************)
Reading == pc = "sources" /\ at <= Phone

\* Whoever the walk owes it has walked past, or has still to come to.
Ahead(c) == \E k \in Len(walked) + 1 .. Len(Phonebook) : Phonebook[k] = c

OwedInv ==
    Reading => \A c \in owed : world.blueferry.heeds /\ (c \in ToSet(walked) \/ Ahead(c))

ReadingInv == IsolatedInv /\ OwedInv

\* At first no walk is under way and nobody is owed.
LEMMA ReadingInit == Init => ReadingInv
BY IsolatedInit DEF Init, SettingsInit, ReadingInv, OwedInv, Reading

\* A step that leaves the phonebook and the walk alone.
LEMMA OwedStays ==
    ASSUME OwedInv, UNCHANGED <<walked, owed>>, Phonebook' = Phonebook,
           world'.blueferry.heeds = world.blueferry.heeds, Reading' => Reading
    PROVE  OwedInv'
BY DEF OwedInv, Ahead

\* Who is added moves nobody back to a place the walk has passed.
LEMMA OwedAfterAdd ==
    ASSUME ReadingInv, PhoneAdds
    PROVE  OwedInv'
<1>t. WorldOK /\ walked \in Seq(Contacts)
  BY DEF ReadingInv, IsolatedInv, TypeInv, RowsInv
<1>1. PICK c \in Contacts \ ToSet(Phonebook), k \in 1 .. Len(Phonebook) + 1 :
         /\ Phonebook' = InsertAt(Phonebook, k, c)
         /\ world'.blueferry.heeds = world.blueferry.heeds
  BY <1>t, PhoneAddsStep
<1>2. UNCHANGED <<pc, at, walked, owed>>
  BY DEF PhoneAdds, Changed, loadVars
<1>3. Phonebook \in Seq(Contacts) /\ Len(Phonebook) \in Nat /\ Len(walked) \in Nat
  BY <1>t, PhonebookOK, LenProperties
<1>4. /\ Len(Phonebook') = Len(Phonebook) + 1
      /\ \A i \in 1 .. Len(Phonebook) + 1 :
             Phonebook'[i] = IF i < k THEN Phonebook[i] ELSE IF i = k THEN c ELSE Phonebook[i - 1]
  BY <1>1, <1>3, InsertAtProperties
<1>5. ASSUME NEW d, NEW j \in Len(walked) + 1 .. Len(Phonebook), Phonebook[j] = d
      PROVE  \E i \in Len(walked) + 1 .. Len(Phonebook') : Phonebook'[i] = d
  <2>1. CASE j < k
    <3>1. j \in Len(walked) + 1 .. Len(Phonebook') /\ Phonebook'[j] = d
      BY <1>3, <1>4, <1>5, <2>1
    <3> QED
      BY <3>1
  <2>2. CASE j >= k
    <3>1. j + 1 \in Len(walked) + 1 .. Len(Phonebook') /\ Phonebook'[j + 1] = d
      BY <1>3, <1>4, <1>5, <2>2
    <3> QED
      BY <3>1
  <2> QED
    BY <1>3, <2>1, <2>2
<1> QED
  BY <1>1, <1>2, <1>5 DEF ReadingInv, OwedInv, Reading, Ahead

\* A removal takes away what it may cost: the one removed, and the one that
\* moves up to a place the walk has passed.
LEMMA OwedAfterRemove ==
    ASSUME ReadingInv, PhoneRemoves
    PROVE  OwedInv'
<1>t. WorldOK /\ walked \in Seq(Contacts)
  BY DEF ReadingInv, IsolatedInv, TypeInv, RowsInv
<1>1. PICK k \in 1 .. Len(Phonebook) :
         /\ Phonebook' = RemoveAt(Phonebook, k)
         /\ world'.blueferry.heeds = world.blueferry.heeds
         /\ owed' = owed \ {Phonebook[n] : n \in {k, IF k <= Len(walked) THEN Len(walked) + 1 ELSE k}
                                                 \cap 1 .. Len(Phonebook)}
  BY <1>t, PhoneRemovesStep
<1>2. UNCHANGED <<pc, at, walked>>
  BY DEF PhoneRemoves, Changed, loadVars
<1>3. Phonebook \in Seq(Contacts) /\ Len(Phonebook) \in Nat /\ Len(walked) \in Nat
  BY <1>t, PhonebookOK, LenProperties
<1>4. /\ Len(Phonebook') = Len(Phonebook) - 1
      /\ \A i \in 1 .. Len(Phonebook) - 1 :
             Phonebook'[i] = IF i < k THEN Phonebook[i] ELSE Phonebook[i + 1]
  BY <1>1, <1>3, RemoveAtProperties
<1>5. ASSUME NEW d \in owed', NEW j \in Len(walked) + 1 .. Len(Phonebook), Phonebook[j] = d
      PROVE  \E i \in Len(walked) + 1 .. Len(Phonebook') : Phonebook'[i] = d
  <2>1. j # k
    BY <1>1, <1>5
  <2>2. k <= Len(walked) => j # Len(walked) + 1
    BY <1>1, <1>3, <1>5
  <2>3. CASE j < k
    <3>1. j \in Len(walked) + 1 .. Len(Phonebook') /\ Phonebook'[j] = d
      BY <1>3, <1>4, <1>5, <2>3
    <3> QED
      BY <3>1
  <2>4. CASE j > k
    <3>1. j - 1 \in Len(walked) + 1 .. Len(Phonebook') /\ Phonebook'[j - 1] = d
      BY <1>3, <1>4, <1>5, <2>2, <2>4
    <3> QED
      BY <3>1
  <2> QED
    BY <1>3, <2>1, <2>3, <2>4
<1>6. owed' \subseteq owed
  BY <1>1
<1> QED
  BY <1>1, <1>2, <1>5, <1>6 DEF ReadingInv, OwedInv, Reading, Ahead

\* A page brings those who were next.
LEMMA OwedAfterPage ==
    ASSUME ReadingInv, WalkPage
    PROVE  OwedInv'
<1>t. TypeInv /\ WorldOK /\ walked \in Seq(Contacts)
  BY DEF ReadingInv, IsolatedInv, TypeInv, RowsInv
<1>1. UNCHANGED <<owed, world, pc, at>> /\ Reading
  BY DEF WalkPage, Walking, worldVars, Reading, Phone
<1>2. /\ walked' \in Seq(Contacts) /\ Len(walked') = Len(walked) + Len(Batch)
      /\ \A i \in 1 .. Len(walked') :
             walked'[i] = IF i <= Len(walked) THEN walked[i] ELSE Batch[i - Len(walked)]
  BY <1>t, WalkGrows
<1>3. /\ Batch \in Seq(Contacts)
      /\ world.blueferry.heeds /\ Len(walked) <= Len(Phonebook) =>
            /\ Len(walked) + Len(Batch) <= Len(Phonebook)
            /\ \A i \in 1 .. Len(Batch) : Batch[i] = Phonebook[Len(walked) + i]
  BY <1>t, BatchProperties
<1>4. Phonebook \in Seq(Contacts) /\ Len(Phonebook) \in Nat /\ Len(walked) \in Nat /\ Len(Batch) \in Nat
  BY <1>t, <1>3, PhonebookOK, LenProperties
<1> HIDE DEF Batch
<1>5. ASSUME NEW c \in ToSet(walked) PROVE c \in ToSet(walked')
  <2>1. PICK i \in 1 .. Len(walked) : walked[i] = c
    BY <1>t, ToSetOf
  <2>2. i \in 1 .. Len(walked') /\ walked'[i] = c
    BY <1>2, <1>4, <2>1
  <2> QED
    BY <1>2, <2>2, ToSetOf
<1>6. ASSUME world.blueferry.heeds, NEW c, NEW k \in Len(walked) + 1 .. Len(Phonebook), Phonebook[k] = c
      PROVE  c \in ToSet(walked') \/ \E i \in Len(walked') + 1 .. Len(Phonebook) : Phonebook[i] = c
  <2>1. CASE k <= Len(walked')
    <3>1. k - Len(walked) \in 1 .. Len(Batch) /\ Len(walked) + (k - Len(walked)) = k /\ k \in 1 .. Len(walked')
      BY <1>2, <1>4, <2>1
    <3>2. Batch[k - Len(walked)] = c
      BY <1>3, <1>4, <1>6, <3>1
    <3>3. walked'[k] = c
      BY <1>2, <1>4, <3>1, <3>2
    <3> QED
      BY <1>2, <3>1, <3>3, ToSetOf
  <2>2. CASE k > Len(walked')
    BY <1>2, <1>4, <1>6, <2>2
  <2> QED
    BY <1>2, <1>4, <2>1, <2>2
<1>7. Phonebook' = Phonebook
  BY <1>1 DEF Phonebook
<1> QED
  BY <1>1, <1>5, <1>6, <1>7 DEF ReadingInv, OwedInv, Ahead

\* Every step keeps that who is owed has been walked or is still ahead.
LEMMA OwedStep ==
    ASSUME ReadingInv, [Next]_vars, PhonebookFits
    PROVE  ReadingInv'
<1>t. IsolatedInv /\ OwedInv /\ WorldOK /\ LoadInv
  BY DEF ReadingInv, IsolatedInv, TypeInv
<1>i. IsolatedInv'
  BY <1>t, IsolatedStep
<1> SUFFICES OwedInv'
  BY <1>i DEF ReadingInv
<1>1. CASE EditSettings \/ UNCHANGED vars
  BY <1>1, <1>t, OwedStays
  DEF EditSettings, HandEdit, loadVars, worldVars, vars, settingsVars, Phonebook, Reading
<1>2. CASE StartCommand \/ UpdateSettings \/ KillCommand \/ Save
  <2>1. pc' # "sources"
    BY <1>2 DEF StartCommand, Begin, UpdateSettings, Update, UpdateSource, OpenTemporary,
       WriteTemporary, Rename, KillCommand, Kill, Save
  <2> QED
    BY <2>1 DEF OwedInv, Reading
<1>3. CASE \E s \in Sources : ChangeSource(s)
  <2>1. PICK s \in Sources : ChangeSource(s)
    BY <1>3
  <2>2. /\ \A t \in Sources \ {s} : world'[t] = world[t]
        /\ UNCHANGED <<pc, loadVars>> /\ WorldOK'
        /\ owed' = IF s = "blueferry" THEN {} ELSE owed
    BY <1>t, <2>1, ChangeSourceStep
  <2>3. CASE s = "blueferry"
    BY <2>2, <2>3 DEF OwedInv
  <2>4. CASE s # "blueferry"
    <3>1. world'["blueferry"] = world["blueferry"]
      BY <2>2, <2>4 DEF Sources
    <3> QED
      BY <1>t, <2>2, <2>4, <3>1, OwedStays DEF loadVars, Phonebook, Reading
  <2> QED
    BY <2>3, <2>4
<1>4. CASE PhoneAdds
  BY <1>4, OwedAfterAdd
<1>5. CASE PhoneRemoves
  BY <1>5, OwedAfterRemove
<1>6. CASE StartLoad
  <2>1. /\ walked' = << >> /\ world' = world
        /\ owed' = IF world.blueferry.heeds THEN ToSet(Phonebook) ELSE {}
    BY <1>6 DEF StartLoad, Phonebook
  <2>2. \A c \in ToSet(Phonebook) : \E k \in 1 .. Len(Phonebook) : Phonebook[k] = c
    BY <1>t, PhonebookOK, ToSetOf
  <2>3. Len(walked') + 1 = 1 /\ Phonebook' = Phonebook
    BY <2>1, EmptySeq DEF Phonebook
  <2> QED
    BY <2>1, <2>2, <2>3 DEF OwedInv, Ahead
<1>7. CASE SkipDisabled \/ SourceFails \/ LoadSource \/ WalkEnds
  <2>1. pc = "sources" /\ NextSource
    BY <1>7, ReadingStep, <1>t
  <2>2. CASE Reading'
    <3>1. at = 1
      BY <1>t, <2>1, <2>2, Places DEF Reading, Phone, NextSource, LoadInv
    <3>2. walked = << >>
      BY <1>t, <2>1, <3>1 DEF IsolatedInv, WalkInOrder, Phone
    <3> QED
      BY <1>t, <2>1, <3>1, <3>2, OwedStays DEF NextSource, worldVars, Phonebook, Reading, Phone
  <2> QED
    BY <2>2 DEF OwedInv
<1>8. CASE WalkPage
  BY <1>8, OwedAfterPage
<1> QED
  BY <1>1, <1>2, <1>3, <1>4, <1>5, <1>6, <1>7, <1>8 DEF Next, Environment, LoadStep

\* The phonebook's set of contacts, when one of them is removed.
LEMMA RemoveImplements ==
    ASSUME WorldOK, PhoneRemoves
    PROVE  P!Remove
<1>1. PICK k \in 1 .. Len(Phonebook) :
         /\ Phonebook' = RemoveAt(Phonebook, k)
         /\ owed' = owed \ {Phonebook[n] : n \in {k, IF k <= Len(walked) THEN Len(walked) + 1 ELSE k}
                                                 \cap 1 .. Len(Phonebook)}
  BY PhoneRemovesStep
<1>2. Phonebook[k] \in ToSet(Phonebook) /\ ToSet(Phonebook)' = ToSet(Phonebook) \ {Phonebook[k]}
  BY <1>1, PhonebookOK, RemovedFrom, ToSetOf
<1>3. UNCHANGED <<pc, at, loaded>>
  BY DEF PhoneRemoves, Changed, loadVars
<1>4. \E other \in Contacts : owed' \in {owed \ {Phonebook[k]}, owed \ {Phonebook[k], other}}
  <2> DEFINE n == IF k <= Len(walked) THEN Len(walked) + 1 ELSE k
  <2>1. Phonebook[k] \in Contacts
    BY PhonebookOK, ElementOfSeq
  <2>2. CASE n \in 1 .. Len(Phonebook)
    <3>1. Phonebook[n] \in Contacts
      BY <2>2, PhonebookOK, ElementOfSeq
    <3>2. owed' = owed \ {Phonebook[k], Phonebook[n]}
      BY <1>1, <2>2
    <3> HIDE DEF n
    <3> QED
      BY <3>1, <3>2
  <2>3. CASE n \notin 1 .. Len(Phonebook)
    <3>1. owed' = owed \ {Phonebook[k]}
      BY <1>1, <2>3
    <3> QED
      BY <2>1, <3>1
  <2> QED
    BY <2>2, <2>3
<1> QED
  BY <1>2, <1>3, <1>4 DEF P!Remove, StoredContacts

\* Every step of a load is one of PhoneReading's, or none.
LEMMA ReadingImplements ==
    ASSUME ReadingInv, [Next]_vars, PhonebookFits
    PROVE  [P!Next]_(P!readingVars)
<1>t. IsolatedInv /\ TypeInv /\ WorldOK /\ LoadInv /\ OwedInv
  BY DEF ReadingInv, IsolatedInv, TypeInv
<1>r. Reading => UnderWay /\ ~Done("blueferry")
  BY <1>t, Places DEF Reading, UnderWay, Done, LoadInv, Phone
<1>s. Reading => loaded["blueferry"] = {}
  BY <1>t, <1>r DEF IsolatedInv, Sources
<1>1. CASE EditSettings \/ UNCHANGED vars
  BY <1>1 DEF EditSettings, HandEdit, loadVars, worldVars, vars, settingsVars, Phonebook,
     StoredContacts, P!readingVars
<1>2. CASE StartCommand \/ UpdateSettings \/ Save
  <2>1. pc # "sources" /\ pc' # "sources" /\ UNCHANGED <<world, owed, loaded>>
    BY <1>2 DEF StartCommand, Begin, UpdateSettings, Update, UpdateSource, OpenTemporary,
       WriteTemporary, Rename, Save, loadVars, worldVars
  <2> QED
    BY <2>1 DEF Phonebook, StoredContacts, P!readingVars
<1>3. CASE KillCommand
  <2>1. pc' = "idle" /\ loaded' = Nothing /\ UNCHANGED <<world, owed>>
    BY <1>3 DEF KillCommand, Kill, worldVars
  <2>2. {r.contact : r \in loaded'["blueferry"]} = {}
    BY <2>1 DEF Nothing, Sources
  <2>3. P!GiveUp
    BY <2>1, <2>2 DEF P!GiveUp, StoredContacts, Phonebook
  <2> QED
    BY <2>3 DEF P!Next
<1>4. CASE \E s \in Sources : ChangeSource(s)
  <2>1. PICK s \in Sources : ChangeSource(s)
    BY <1>4
  <2>2. /\ \A t \in Sources \ {s} : world'[t] = world[t]
        /\ UNCHANGED <<pc, loadVars>> /\ WorldOK'
        /\ owed' = IF s = "blueferry" THEN {} ELSE owed
    BY <1>t, <2>1, ChangeSourceStep
  <2>3. CASE s = "blueferry"
    <3>1. Phonebook' \in Seq(Contacts)
      BY <2>2 DEF WorldOK, MayHold, Sources, Phones, Phonebook
    <3>2. ToSet(Phonebook)' \subseteq Contacts
      BY <3>1, ToSetOf
    <3>3. P!Replace
      BY <2>2, <2>3, <3>2 DEF P!Replace, loadVars, StoredContacts
    <3> QED
      BY <3>3 DEF P!Next
  <2>4. CASE s # "blueferry"
    <3>1. world'["blueferry"] = world["blueferry"]
      BY <2>2, <2>4 DEF Sources
    <3> QED
      BY <2>2, <2>4, <3>1 DEF loadVars, Phonebook, StoredContacts, P!readingVars
  <2> QED
    BY <2>3, <2>4
<1>5. CASE PhoneAdds
  <2>1. PICK c \in Contacts \ ToSet(Phonebook), k \in 1 .. Len(Phonebook) + 1 :
           Phonebook' = InsertAt(Phonebook, k, c)
    BY <1>t, <1>5, PhoneAddsStep
  <2>2. ToSet(Phonebook)' = ToSet(Phonebook) \cup {c}
    BY <1>t, <2>1, PhonebookOK, AddedTo
  <2>3. UNCHANGED <<pc, at, loaded, owed>>
    BY <1>5 DEF PhoneAdds, Changed, loadVars
  <2>4. P!Add
    BY <2>2, <2>3 DEF P!Add, StoredContacts
  <2> QED
    BY <2>4 DEF P!Next
<1>6. CASE PhoneRemoves
  BY <1>6, <1>t, RemoveImplements DEF P!Next
<1>7. CASE StartLoad
  <2>1. /\ pc = "load" /\ pc' = "sources" /\ at' = 1 /\ world' = world /\ loaded' = Nothing
        /\ owed' = IF world.blueferry.heeds THEN ToSet(Phonebook) ELSE {}
    BY <1>7 DEF StartLoad, Phonebook
  <2>2. {r.contact : r \in loaded'["blueferry"]} = {}
    BY <2>1 DEF Nothing, Sources
  <2>3. P!Begin
    BY <2>1, <2>2 DEF P!Begin, StoredContacts, Phonebook, Phone
  <2> QED
    BY <2>3 DEF P!Next
<1>8. CASE SkipDisabled \/ SourceFails \/ LoadSource \/ WalkEnds
  <2>1. pc = "sources" /\ NextSource /\ UNCHANGED <<world, owed>> /\ at \in 1 .. 6
    BY <1>8, <1>t, ReadingStep DEF NextSource, worldVars, LoadInv
  <2>2. Reading' <=> at = 1
    BY <2>1, Places DEF NextSource, Reading, Phone
  <2>3. at # Phone => loaded'["blueferry"] = loaded["blueferry"]
    BY <1>8, <1>t, Places
    DEF SkipDisabled, SourceFails, LoadSource, WalkEnds, Walking, Current, LoadInv, Sources, Phone
  <2>4. CASE at # Phone
    BY <2>1, <2>2, <2>3, <2>4 DEF Reading, Phone, Phonebook, StoredContacts, P!readingVars
  <2>5. CASE at = Phone /\ (SkipDisabled \/ SourceFails)
    <3>1. loaded' = loaded /\ loaded["blueferry"] = {}
      BY <1>s, <2>1, <2>5 DEF SkipDisabled, SourceFails, Reading, Phone
    <3>2. ~Reading'
      BY <2>2, <2>5 DEF Phone
    <3>3. P!GiveUp
      BY <2>1, <3>1, <3>2 DEF P!GiveUp, StoredContacts, Phonebook, Reading
    <3> QED
      BY <3>3 DEF P!Next
  <2>6. CASE WalkEnds
    <3>1. at = Phone /\ WalkIsOver
      BY <2>6 DEF WalkEnds, Walking
    <3>2. walked \in Seq(Contacts) /\ {r.contact : r \in loaded'["blueferry"]} = ToSet(walked)
      BY <1>t, <2>6, WalkStored DEF TypeInv, RowsInv
    <3>3. ASSUME NEW c \in owed PROVE c \in ToSet(walked)
      <4>1. world.blueferry.heeds /\ (c \in ToSet(walked) \/ Ahead(c))
        BY <1>t, <2>1, <3>1 DEF OwedInv, Reading, Phone
      <4>2. Len(Phonebook) <= Len(walked)
        <5>1. Len(Phonebook) \in Nat /\ Len(walked) \in Nat
          BY <1>t, <3>2, PhonebookOK, LenProperties
        <5>2. CASE Batch = << >>
          BY <1>t, <3>2, <4>1, <5>2, BatchProperties
        <5>3. CASE Len(walked) >= MaxEnumerated
          BY <5>1, <5>3, SourcesAssumption DEF PhonebookFits
        <5> QED
          BY <3>1, <5>2, <5>3 DEF WalkIsOver
      <4>3. ~Ahead(c)
        <5>1. Len(Phonebook) \in Nat /\ Len(walked) \in Nat
          BY <1>t, <3>2, PhonebookOK, LenProperties
        <5> QED
          BY <4>2, <5>1 DEF Ahead
      <4> QED
        BY <4>1, <4>3
    <3>4. ToSet(walked) \subseteq Contacts
      BY <3>2, ToSetOf
    <3>5. P!Finish
      BY <2>1, <2>2, <3>1, <3>2, <3>3, <3>4 DEF P!Finish, StoredContacts, Phonebook, Reading, Phone
    <3> QED
      BY <3>5 DEF P!Next
  <2> QED
    BY <1>8, <2>4, <2>5, <2>6 DEF LoadSource
<1>9. CASE WalkPage
  BY <1>9 DEF WalkPage, worldVars, Phonebook, StoredContacts, P!readingVars
<1> QED
  BY <1>1, <1>2, <1>3, <1>4, <1>5, <1>6, <1>7, <1>8, <1>9 DEF Next, Environment, LoadStep

\* A walk that ends has everyone it owes, for every page size and however the
\* phonebook changes under it, as long as it stays under the cap.
THEOREM WalkImplementsReading == Spec /\ []PhonebookFits => ImplementsReading
<1>1. Init => P!Init
  <2> SUFFICES ASSUME Init PROVE P!Init
    OBVIOUS
  <2>1. WorldOK /\ pc = "idle" /\ owed = {} /\ loaded = Nothing
    BY WorldInit DEF Init, SettingsInit
  <2>2. ToSet(Phonebook) \subseteq Contacts
    BY <2>1, PhonebookOK, ToSetOf
  <2>3. StoredContacts("blueferry") = {}
    BY <2>1, NoRows DEF Sources
  <2> QED
    BY <2>1, <2>2, <2>3 DEF P!Init
<1>2. ReadingInv /\ PhonebookFits /\ [Next]_vars => ReadingInv'
  BY OwedStep
<1>3. ReadingInv /\ PhonebookFits /\ [Next]_vars => [P!Next]_(P!readingVars)
  BY ReadingImplements
<1> QED
  BY ReadingInit, <1>1, <1>2, <1>3, PTL DEF Spec, ImplementsReading, P!Spec

\* A phonebook lists a contact once, so it is no longer than there are contacts.
LEMMA PhonebookIsSmall ==
    ASSUME WorldOK, IsFiniteSet(Contacts), Cardinality(Contacts) <= MaxEnumerated
    PROVE  PhonebookFits
<1>1. Phonebook \in Seq(Contacts) /\ IsInjective(Phonebook)
  BY PhonebookOK
<1>2. Len(Phonebook) \in Nat /\ Phonebook \in [1 .. Len(Phonebook) -> Contacts]
  BY <1>1, LenProperties
<1>3. Phonebook \in Injection(1 .. Len(Phonebook), Contacts)
  BY <1>1, <1>2 DEF Injection
<1>4. Cardinality(1 .. Len(Phonebook)) <= Cardinality(Contacts)
  BY <1>3, FS_Injection, Zenon
<1>5. Cardinality(1 .. Len(Phonebook)) = Len(Phonebook)
  <2>1. Cardinality(1 .. Len(Phonebook)) =
            IF 1 > Len(Phonebook) THEN 0 ELSE Len(Phonebook) - 1 + 1
    BY <1>2, FS_Interval
  <2> QED
    BY <1>2, <2>1
<1>6. Cardinality(Contacts) \in Nat
  BY FS_CardinalityType
<1> QED
  BY <1>2, <1>4, <1>5, <1>6, SourcesAssumption DEF PhonebookFits

\* Where there are no more contacts than the walk may list, both hold without a
\* condition on the phonebook.
COROLLARY FewContactsAreWhole ==
    ASSUME IsFiniteSet(Contacts), Cardinality(Contacts) <= MaxEnumerated
    PROVE  Spec => []FailuresIsolated /\ ImplementsReading
<1>1. WorldOK => PhonebookFits
  BY PhonebookIsSmall
<1>2. Spec => []PhonebookFits
  BY <1>1, WorldInit, WorldStep, PTL DEF Spec
<1> QED
  BY <1>2, FailuresStayIsolated, WalkImplementsReading, PTL
-----------------------------------------------------------------------------
(***************************************************************************)
(* Opening a person on their card                                          *)
(***************************************************************************)
LEMMA SmallestNat ==
    ASSUME NEW T \in SUBSET Nat, T # {}
    PROVE  \E x \in T : \A y \in T : x <= y
<1> DEFINE R == OpToRel(<, Nat)
<1>1. IsWellFoundedOn(R, Nat)
  BY NatLessThanWellFounded
<1>2. \A x, y \in Nat : y < x => <<y, x>> \in R
  BY DEF OpToRel
<1> HIDE DEF R
<1>3. PICK x \in T : \A y \in T : ~(<<y, x>> \in R)
  BY <1>1, WFMin
<1>4. \A y \in T : ~(y < x)
  BY <1>2, <1>3, Zenon
<1> QED
  BY <1>4

\* In a directory that is configured a card is found that the stem matches as
\* a pattern, and that is this one if the stem matches no other.
LEMMA CardIsFound ==
    ASSUME NEW m, MayHold("vdir", m), m.configured, m.exists, NEW card \in m.files,
           Matches(card.stem, card.stem)
    PROVE  /\ VcardFile(m, card.stem) \in m.files /\ VcardFile(m, card.stem) # NoCard
           /\ Matches(card.stem, VcardFile(m, card.stem).stem)
<1> DEFINE direct == {f \in m.files : f.stem = card.stem /\ f.collection = 0}
           named == {f \in m.files : Matches(card.stem, f.stem)}
           first == CHOOSE f \in named : \A g \in named : f.collection <= g.collection
<1>1. /\ card \in named /\ direct \subseteq named
      /\ \A f \in m.files : f # NoCard /\ f.collection \in Nat
  BY DEF MayHold
<1>2. VcardFile(m, card.stem) = IF direct # {} THEN CHOOSE f \in direct : TRUE ELSE first
  BY <1>1 DEF VcardFile
<1>3. first \in named
  <2>1. PICK d \in {f.collection : f \in named} : \A e \in {f.collection : f \in named} : d <= e
    BY <1>1, SmallestNat
  <2>2. \E f \in named : \A g \in named : f.collection <= g.collection
    BY <2>1
  <2> HIDE DEF named
  <2> QED
    BY <2>2
<1>4. direct # {} => (CHOOSE f \in direct : TRUE) \in direct
  OBVIOUS
<1>5. VcardFile(m, card.stem) \in named
  <2> HIDE DEF first, direct, named
  <2> QED
    BY <1>1, <1>2, <1>3, <1>4
<1> QED
  BY <1>1, <1>5

\* What is opened can jump to the person, if their card can be opened: that is
\* tried before any application that is only started.
LEMMA CardBeatsApplications ==
    ASSUME NEW choice, NEW w, "vdir" \in DOMAIN choice,
           ~Refused("vdir", choice["vdir"], w["vdir"])
    PROVE  /\ Opened(choice, w, SourceOrder) # {}
           /\ Opened(choice, w, SourceOrder) \cap OpensApplicationOnly = {}
<1> DEFINE usable == {k \in DOMAIN SourceOrder :
                         /\ SourceOrder[k] \in DOMAIN choice
                         /\ ~Refused(SourceOrder[k], choice[SourceOrder[k]], w[SourceOrder[k]])}
           rank(k) == k + (IF SourceOrder[k] \in OpensApplicationOnly THEN Len(SourceOrder) ELSE 0)
           best == {k \in usable : \A other \in usable : rank(k) <= rank(other)}
<1>1. Opened(choice, w, SourceOrder) = {SourceOrder[k] : k \in best}
  BY DEF Opened
<1>2. 6 \in usable /\ usable \subseteq 1 .. 6
  <2>1. SourceOrder[6] = "vdir" /\ DOMAIN SourceOrder = 1 .. 6
    BY Places DEF SourceOrder
  <2> QED
    BY <2>1
<1>3. /\ \A k \in 1 .. 6 : rank(k) \in Nat
      /\ \A k \in 1 .. 6 : SourceOrder[k] \in OpensApplicationOnly => rank(k) = k + 6
      /\ rank(6) = 6
  BY Places DEF OpensApplicationOnly, SourceOrder
<1> HIDE DEF usable, rank
<1>4. \A k \in best : SourceOrder[k] \notin OpensApplicationOnly
  BY <1>2, <1>3
<1>5. best # {}
  <2>1. PICK r \in {rank(k) : k \in usable} : \A e \in {rank(k) : k \in usable} : r <= e
    BY <1>2, <1>3, SmallestNat
  <2> QED
    BY <2>1
<1> QED
  BY <1>1, <1>4, <1>5

\* What is stored of the card files is what is in them, if they were left alone.
CardsInv ==
    TypeInv /\ (UnderWay /\ "vdir" \in steady => loaded["vdir"] \subseteq VdirRows(world.vdir))

\* At first no row is loaded.
LEMMA CardsInit == Init => CardsInv
BY TypeInit DEF Init, SettingsInit, CardsInv, UnderWay

\* A step keeps it that leaves vdir's rows and directory alone.
LEMMA CardsStay ==
    ASSUME CardsInv, TypeInv', UnderWay' => UnderWay, loaded'["vdir"] = loaded["vdir"],
           "vdir" \in steady' => "vdir" \in steady /\ world'["vdir"] = world["vdir"]
    PROVE  CardsInv'
<1>1. world["vdir"] = world.vdir /\ world'["vdir"] = world'.vdir
  OBVIOUS
<1> QED
  BY <1>1 DEF CardsInv

\* Every step keeps vdir's rows those of its files.
LEMMA CardsStep == CardsInv /\ [Next]_vars => CardsInv'
<1> SUFFICES ASSUME CardsInv, [Next]_vars PROVE CardsInv'
  OBVIOUS
<1>t. TypeInv' /\ TypeInv /\ LoadInv /\ WorldOK
  BY TypeStep DEF CardsInv, TypeInv
<1>1. CASE EditSettings
  BY <1>1, <1>t, CardsStay DEF EditSettings, HandEdit, loadVars, worldVars, UnderWay
<1>2. CASE StartCommand
  BY <1>2, <1>t, CardsStay DEF StartCommand, Begin, worldVars, UnderWay
<1>3. CASE UpdateSettings
  <2>1. /\ UNCHANGED <<saved, loaded, world>> /\ pc' \in {"open", "write", "rename", "load"}
        /\ steady' \in {steady, steady \cup {"settings"}}
    BY <1>3 DEF UpdateSettings, Update, UpdateSource, OpenTemporary, WriteTemporary, Rename,
       loadVars, worldVars
  <2> QED
    BY <1>t, <2>1, CardsStay DEF UnderWay
<1>4. CASE KillCommand
  <2>1. pc' = "idle" /\ saved' = saved /\ pc # "idle"
    BY <1>4 DEF KillCommand, Kill
  <2>2. ~UnderWay'
    BY <1>t, <2>1 DEF UnderWay, LoadInv
  <2> QED
    BY <1>t, <2>2 DEF CardsInv
<1>5. CASE \E s \in Sources : ChangeSource(s)
  <2>1. PICK s \in Sources : ChangeSource(s)
    BY <1>5
  <2>2. /\ \A t \in Sources \ {s} : world'[t] = world[t]
        /\ steady' = steady \ {s} /\ UNCHANGED <<pc, loadVars>>
    BY <1>t, <2>1, ChangeSourceStep
  <2>3. "vdir" \in Sources
    BY DEF Sources
  <2> QED
    BY <1>t, <2>2, <2>3, CardsStay DEF loadVars, UnderWay
<1>6. CASE PhoneAdds \/ PhoneRemoves
  <2>1. \A s \in Sources \ {"blueferry"} : world'[s] = world[s]
    BY <1>6, <1>t, PhoneAddsStep, PhoneRemovesStep
  <2>2. steady' = steady \ {"blueferry"} /\ UNCHANGED <<pc, loadVars>>
    BY <1>6 DEF PhoneAdds, PhoneRemoves, Changed
  <2>3. world'["vdir"] = world["vdir"]
    BY <2>1 DEF Sources
  <2> QED
    BY <1>t, <2>2, <2>3, CardsStay DEF loadVars, UnderWay
<1>7. CASE StartLoad
  <2>1. loaded'["vdir"] = {}
    BY <1>7 DEF StartLoad, Nothing, Sources
  <2> QED
    BY <1>t, <2>1 DEF CardsInv
<1>8. CASE SkipDisabled \/ SourceFails
  <2>1. pc = "sources" /\ UNCHANGED <<loaded, steady, world>>
    BY <1>8 DEF SkipDisabled, SourceFails, NextSource, worldVars
  <2> QED
    BY <1>t, <2>1, CardsStay DEF UnderWay
<1>9. CASE WalkEnds
  <2>1. pc = "sources" /\ UNCHANGED <<steady, world>>
    BY <1>9 DEF WalkEnds, Walking, NextSource, worldVars
  <2>2. loaded'["vdir"] = loaded["vdir"]
    BY <1>9, <1>t, WalkStored DEF Sources
  <2> QED
    BY <1>t, <2>1, <2>2, CardsStay DEF UnderWay
<1>10. CASE LoadSource
  <2>1. pc = "sources" /\ UNCHANGED <<steady, world>>
    BY <1>10 DEF LoadSource, NextSource, worldVars
  <2>2. CASE Current # "vdir"
    <3>1. loaded'["vdir"] = loaded["vdir"]
      BY <1>10, <1>t, <2>2, RowsRead DEF Sources
    <3> QED
      BY <1>t, <2>1, <3>1, CardsStay DEF UnderWay
  <2>3. CASE Current = "vdir"
    <3>1. loaded'["vdir"] = RowsOf("vdir", world["vdir"])
      BY <1>10, <1>t, <2>3, RowsRead DEF TypeInv, LoadInv, Sources
    <3>2. RowsOf("vdir", world["vdir"]) = VdirRows(world.vdir)
      BY DEF RowsOf
    <3> QED
      BY <1>t, <2>1, <3>1, <3>2 DEF CardsInv
  <2> QED
    BY <2>2, <2>3
<1>11. CASE WalkPage
  <2>1. pc = "sources" /\ UNCHANGED <<loaded, steady, world>>
    BY <1>11 DEF WalkPage, Walking, worldVars
  <2> QED
    BY <1>t, <2>1, CardsStay DEF UnderWay
<1>12. CASE Save
  BY <1>12, <1>t, CardsStay DEF Save, worldVars, UnderWay
<1>13. CASE UNCHANGED vars
  BY <1>13, <1>t, CardsStay DEF vars, settingsVars, loadVars, worldVars, UnderWay
<1> QED
  BY <1>1, <1>2, <1>3, <1>4, <1>5, <1>6, <1>7, <1>8, <1>9, <1>10, <1>11, <1>12, <1>13
  DEF Next, Environment, LoadStep

\* For every tree of card files and every reading of a stem as a pattern,
\* whatever applications there are besides the one for cards.
THEOREM OpenFindsTheCard == Spec => []OpensItsCard
<1>1. CardsInv => OpensItsCard
  <2> SUFFICES ASSUME CardsInv, saved, "vdir" \in steady, "vdir" \in Applications,
                      world.vdir.configured, NEW card \in loaded["vdir"],
                      Matches(card.place.stem, card.place.stem)
               PROVE  /\ Opened(RowsToOpen(card), world, SourceOrder) # {}
                      /\ Opened(RowsToOpen(card), world, SourceOrder) \cap OpensApplicationOnly = {}
                      /\ StemMatchesOne(card.place) => VcardFile(world.vdir, card.id[1]) = card.place
    BY DEF OpensItsCard
  <2> DEFINE m == world.vdir
  <2>1. MayHold("vdir", m) /\ world["vdir"] = m
    BY DEF CardsInv, TypeInv, WorldOK, Sources
  <2>2. card \in VdirRows(m)
    BY DEF CardsInv, UnderWay
  <2>3. m.exists /\ card.place \in m.files /\ card.id[1] = card.place.stem
    <3>1. m.exists
      BY <2>2 DEF VdirRows
    <3>2. PICK f \in m.files : card \in ParseCards(f)
      BY <2>2, <3>1 DEF VdirRows
    <3>3. card.place = f /\ card.id[1] = f.stem
      <4> DEFINE kept == {n \in DOMAIN f.cards : f.cards[n] # Nobody}
                 count(n) == Cardinality({k \in kept : k < n})
      <4>1. ParseCards(f) = {Row(<<f.stem, count(n)>>, f.cards[n], f) : n \in kept}
        BY DEF ParseCards
      <4> HIDE DEF count
      <4>2. PICK n \in kept : card = Row(<<f.stem, count(n)>>, f.cards[n], f)
        BY <3>2, <4>1
      <4> QED
        BY <4>2 DEF Row
    <3> QED
      BY <3>1, <3>2, <3>3
  <2>4. /\ VcardFile(m, card.id[1]) \in m.files /\ VcardFile(m, card.id[1]) # NoCard
        /\ Matches(card.place.stem, VcardFile(m, card.id[1]).stem)
    BY <2>1, <2>3, CardIsFound
  <2>5. "vdir" \in DOMAIN RowsToOpen(card) /\ RowsToOpen(card)["vdir"] = card
    BY DEF RowsToOpen, Sources
  <2>6. ~Refused("vdir", card, world["vdir"])
    BY <2>1, <2>4 DEF Refused
  <2>7. /\ Opened(RowsToOpen(card), world, SourceOrder) # {}
        /\ Opened(RowsToOpen(card), world, SourceOrder) \cap OpensApplicationOnly = {}
    BY <2>5, <2>6, CardBeatsApplications
  <2>8. StemMatchesOne(card.place) => VcardFile(m, card.id[1]) = card.place
    BY <2>4 DEF StemMatchesOne
  <2> QED
    BY <2>7, <2>8
<1> QED
  BY CardsInit, CardsStep, <1>1, PTL DEF Spec
=============================================================================
