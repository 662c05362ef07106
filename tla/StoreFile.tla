------------------------------ MODULE StoreFile ------------------------------
(***************************************************************************)
(* The life of the database file (store.py:66-187) under a storage key     *)
(* that may or may not exist (crypto.py:50-84) and a setting that turns    *)
(* encryption on and off: opening, replacing a plaintext file, carrying    *)
(* its decisions over, committing a decision, and syncing.  One command    *)
(* runs at a time and may die between any two of its steps.                *)
(*                                                                         *)
(* A key is a natural number, Clear stands for no key.  A row of overrides *)
(* is its decision, the key its lookup columns are blinded with and the    *)
(* key its payload is sealed with.                                         *)
(***************************************************************************)
EXTENDS Naturals, FiniteSets

CONSTANTS
    Pairs,             \* pairs of addresses the user may rule on
    PeopleCounts,      \* how many people the sources may yield
    InitialEncrypt,    \* values the setting may start with
    Switches,          \* the ways the user may change it: "on", "off"
    MaxCommands, MaxCrashes, MaxLosses    \* bounds

ASSUME StoreFileAssumption ==
    /\ PeopleCounts \subseteq Nat
    /\ InitialEncrypt \subseteq BOOLEAN
    /\ Switches \subseteq {"on", "off"}
    /\ MaxCommands \in Nat /\ MaxCrashes \in Nat /\ MaxLosses \in Nat

Clear == 0
\* A key is made when there is none, and there is none again when one is lost.
Keys == 1 .. MaxLosses + 1
Verdicts == {"same", "distinct"}
Decision == [pair : Pairs, verdict : Verdicts]
\* What a command may ask for: a ruling, or the removal of one.
Wish == [pair : Pairs, verdict : Verdicts \cup {"forget"}]
Row == [pair : Pairs, blind : Keys \cup {Clear}, verdict : Verdicts, seal : Keys \cup {Clear}]

VARIABLES
    exists,      \* the database file is there
    tables,      \* and has its tables
    identities,  \* the seals of the rows in identities: {} when it is empty
    overrides,   \* the rows in overrides
    wallet,      \* the key in the wallet, or Clear
    keyCount,    \* keys made so far
    lost,        \* keys lost so far
    encrypt,     \* the setting store.encrypt
    turnedOff,   \* it has been turned off at some time (a history variable)
    people,      \* how many people the sources yield
    pc,          \* "idle", "open", "discard", "connect", "carry", "command", "sync"
    key,         \* the running command's key, Clear for none
    carried,     \* decisions read out of a discarded file, to be written back
    wish,        \* the ruling the command will make: a set of at most one Wish
    decided,     \* the decisions the user made that stand
    forfeited,   \* those of them that went with a discarded file (see Crash, DiscardFile)
    commands, crashes,
    failed       \* the last command ended with an exception

file == <<exists, tables, identities, overrides>>
vars == <<file, wallet, keyCount, lost, encrypt, turnedOff, people, pc, key,
          carried, wish, decided, forfeited, commands, crashes, failed>>

Init ==
    /\ exists = FALSE /\ tables = FALSE /\ identities = {} /\ overrides = {}
    /\ wallet = Clear /\ keyCount = 0 /\ lost = 0
    /\ encrypt \in InitialEncrypt /\ turnedOff = FALSE
    /\ people \in PeopleCounts
    /\ pc = "idle" /\ key = Clear /\ carried = {} /\ wish = {}
    /\ decided = {} /\ forfeited = {}
    /\ commands = 0 /\ crashes = 0 /\ failed = FALSE

(***************************************************************************)
(* Outside the program                                                     *)
(***************************************************************************)
Toggle ==
    /\ pc = "idle"
    /\ (IF encrypt THEN "off" ELSE "on") \in Switches
    /\ encrypt' = ~encrypt
    /\ turnedOff' = (turnedOff \/ encrypt)
    /\ UNCHANGED <<file, wallet, keyCount, lost, people, pc, key, carried, wish,
                   decided, forfeited, commands, crashes, failed>>

SourcesChange ==
    /\ pc = "idle"
    /\ people' \in PeopleCounts \ {people}
    /\ UNCHANGED <<file, wallet, keyCount, lost, encrypt, turnedOff, pc, key,
                   carried, wish, decided, forfeited, commands, crashes,
                   failed>>

LoseKey ==
    /\ pc = "idle" /\ wallet # Clear /\ lost < MaxLosses
    /\ wallet' = Clear /\ lost' = lost + 1
    /\ UNCHANGED <<file, keyCount, encrypt, turnedOff, people, pc, key,
                   carried, wish, decided, forfeited, commands, crashes,
                   failed>>

(***************************************************************************)
(* open_store                                                              *)
(***************************************************************************)
\* A command begins: a ruling followed by a sync, or a sync or a read alone.
Begin ==
    /\ pc = "idle" /\ commands < MaxCommands
    /\ commands' = commands + 1
    /\ wish' \in {{}} \cup {{w} : w \in Wish}
    /\ pc' = "open"
    /\ UNCHANGED <<file, wallet, keyCount, lost, encrypt, turnedOff, people,
                   key, carried, decided, forfeited, crashes, failed>>

\* Mutant of OpenKeyRing: never finds the key it stored.
NewKeyEveryTime ==
    /\ pc = "open"
    /\ IF ~encrypt
       THEN key' = Clear /\ UNCHANGED <<wallet, keyCount>>
       ELSE /\ keyCount' = keyCount + 1
            /\ wallet' = keyCount + 1
            /\ key' = keyCount + 1
    /\ pc' = IF encrypt THEN "discard" ELSE "connect"
    /\ UNCHANGED <<file, lost, encrypt, turnedOff, people, carried, wish,
                   decided, forfeited, commands, crashes, failed>>

\* KeyRing.open makes and stores a key when the wallet has none.
OpenKeyRing ==
    /\ pc = "open"
    /\ IF ~encrypt
       THEN key' = Clear /\ UNCHANGED <<wallet, keyCount>>
       ELSE IF wallet # Clear
            THEN key' = wallet /\ UNCHANGED <<wallet, keyCount>>
            ELSE /\ keyCount' = keyCount + 1
                 /\ wallet' = keyCount + 1
                 /\ key' = keyCount + 1
    /\ pc' = IF encrypt THEN "discard" ELSE "connect"
    /\ UNCHANGED <<file, lost, encrypt, turnedOff, people, carried, wish,
                   decided, forfeited, commands, crashes, failed>>

\* Mutant of LooksPlain: an empty identities table counts as sealed.
LooksPlainWhenFilled == exists /\ tables /\ Clear \in identities

\* Mutant of LooksPlain: a file another key sealed counts as plaintext.
LooksPlainToThisKey == exists /\ tables /\ key \notin identities

\* The row _discard_plaintext_store looks at decides for the whole file; an
\* empty identities table counts as plaintext.
LooksPlain == exists /\ tables /\ (identities = {} \/ Clear \in identities)

KeepFile ==
    /\ pc = "discard"
    /\ ~LooksPlain
    /\ pc' = "connect"
    /\ UNCHANGED <<file, wallet, keyCount, lost, encrypt, turnedOff, people,
                   key, carried, wish, decided, forfeited, commands, crashes,
                   failed>>

\* Mutant of DiscardFile: carries rows with their old lookup columns.
DiscardFileKeepingRows ==
    /\ pc = "discard"
    /\ LooksPlain
    /\ carried' = {row \in overrides : row.seal = Clear}
    /\ UNCHANGED forfeited
    /\ exists' = FALSE /\ tables' = FALSE /\ identities' = {} /\ overrides' = {}
    /\ pc' = "connect"
    /\ UNCHANGED <<wallet, keyCount, lost, encrypt, turnedOff, people, key,
                   wish, decided, commands, crashes, failed>>

Ruling(row) == [pair |-> row.pair, verdict |-> row.verdict]

\* Only rows that are not sealed can be carried; the file goes.  The sealed
\* rulings beside an empty identities table are forfeited.
DiscardFile ==
    /\ pc = "discard"
    /\ LooksPlain
    /\ carried' = {Ruling(row) : row \in {r \in overrides : r.seal = Clear}}
    /\ forfeited' = IF identities # {} THEN forfeited
                    ELSE forfeited \cup {Ruling(row) : row \in {r \in overrides : r.seal # Clear}}
    /\ exists' = FALSE /\ tables' = FALSE /\ identities' = {} /\ overrides' = {}
    /\ pc' = "connect"
    /\ UNCHANGED <<wallet, keyCount, lost, encrypt, turnedOff, people, key,
                   wish, decided, commands, crashes, failed>>

Connect ==
    /\ pc = "connect"
    /\ exists' = TRUE /\ tables' = TRUE
    /\ pc' = "carry"
    /\ UNCHANGED <<identities, overrides, wallet, keyCount, lost, encrypt,
                   turnedOff, people, key, carried, wish, decided, forfeited,
                   commands, crashes, failed>>

\* Mutant of Upsert: a plain insert.
InsertOnly(decision) ==
    overrides \cup
    {[pair |-> decision.pair, blind |-> key, verdict |-> decision.verdict, seal |-> key]}

\* set_override: an upsert on the blinded pair.
Upsert(decision) ==
    {row \in overrides : ~(row.pair = decision.pair /\ row.blind = key)} \cup
    {[pair |-> decision.pair, blind |-> key, verdict |-> decision.verdict, seal |-> key]}

CarryOne ==
    /\ pc = "carry"
    /\ \E decision \in carried :
           /\ overrides' = Upsert(decision)
           /\ carried' = carried \ {decision}
    /\ UNCHANGED <<exists, tables, identities, wallet, keyCount, lost,
                   encrypt, turnedOff, people, pc, key, wish, decided,
                   forfeited, commands, crashes, failed>>

Yield ==
    /\ pc = "carry" /\ carried = {}
    /\ pc' = "command"
    /\ UNCHANGED <<file, wallet, keyCount, lost, encrypt, turnedOff, people,
                   key, carried, wish, decided, forfeited, commands, crashes,
                   failed>>

(***************************************************************************)
(* The command                                                             *)
(***************************************************************************)
Rule ==
    /\ pc = "command"
    /\ \E decision \in wish \cap Decision :
           /\ overrides' = Upsert(decision)
           /\ decided' = {d \in decided : d.pair # decision.pair} \cup {decision}
           /\ forfeited' = {d \in forfeited : d.pair # decision.pair}
    /\ pc' = "sync"
    /\ UNCHANGED <<exists, tables, identities, wallet, keyCount, lost,
                   encrypt, turnedOff, people, key, carried, wish, commands,
                   crashes, failed>>

\* clear_override deletes the row blinded with this key; without one there is
\* "no such decision" and no sync.
Forget ==
    /\ pc = "command"
    /\ \E w \in wish \ Decision :
           LET mine == {row \in overrides : row.pair = w.pair /\ row.blind = key}
           IN  /\ overrides' = overrides \ mine
               /\ decided' = IF mine = {} THEN decided
                             ELSE {d \in decided : d.pair # w.pair}
               /\ forfeited' = IF mine = {} THEN forfeited
                               ELSE {d \in forfeited : d.pair # w.pair}
               /\ pc' = IF mine = {} THEN "idle" ELSE "sync"
               /\ wish' = IF mine = {} THEN {} ELSE wish
    /\ UNCHANGED <<exists, tables, identities, wallet, keyCount, lost,
                   encrypt, turnedOff, people, key, carried, commands,
                   crashes, failed>>

Refresh ==
    /\ pc = "command" /\ wish = {}
    /\ pc' = "sync"
    /\ UNCHANGED <<file, wallet, keyCount, lost, encrypt, turnedOff, people,
                   key, carried, wish, decided, forfeited, commands, crashes,
                   failed>>

\* search, show, list, review, stats and open end without a sync.
Read ==
    /\ pc = "command" /\ wish = {}
    /\ pc' = "idle"
    /\ UNCHANGED <<file, wallet, keyCount, lost, encrypt, turnedOff, people,
                   key, carried, wish, decided, forfeited, commands, crashes,
                   failed>>

\* With a key, a row that is not sealed passes through and any other seal
\* raises; without one, a sealed payload is no JSON and raises.
Readable(row) == row.seal \in {Clear, key}

Sync ==
    /\ pc = "sync"
    /\ \A row \in overrides : Readable(row)
    /\ identities' = IF people = 0 THEN {} ELSE {key}
    /\ failed' = FALSE
    /\ pc' = "idle" /\ wish' = {}
    /\ UNCHANGED <<exists, tables, overrides, wallet, keyCount, lost, encrypt,
                   turnedOff, people, key, carried, decided, forfeited,
                   commands, crashes>>

SyncFails ==
    /\ pc = "sync"
    /\ \E row \in overrides : ~Readable(row)
    /\ failed' = TRUE
    /\ pc' = "idle" /\ wish' = {}
    /\ UNCHANGED <<file, wallet, keyCount, lost, encrypt, turnedOff, people,
                   key, carried, decided, forfeited, commands, crashes>>

\* What was read out of a discarded file and not yet written back is forfeited.
Crash ==
    /\ pc # "idle" /\ crashes < MaxCrashes
    /\ crashes' = crashes + 1
    /\ pc' = "idle" /\ wish' = {} /\ carried' = {}
    /\ forfeited' = forfeited \cup carried
    /\ failed' = TRUE
    /\ UNCHANGED <<file, wallet, keyCount, lost, encrypt, turnedOff, people,
                   key, decided, commands>>

Next ==
    \/ Toggle \/ SourcesChange \/ LoseKey
    \/ Begin \/ OpenKeyRing \/ KeepFile \/ DiscardFile \/ Connect \/ CarryOne \/ Yield
    \/ Rule \/ Forget \/ Refresh \/ Read \/ Sync \/ SyncFails \/ Crash

Spec == Init /\ [][Next]_vars

(***************************************************************************)
(* Properties                                                              *)
(***************************************************************************)
TypeOK ==
    /\ exists \in BOOLEAN /\ tables \in BOOLEAN
    /\ identities \subseteq Keys \cup {Clear}
    /\ overrides \subseteq Row
    /\ wallet \in Keys \cup {Clear} /\ keyCount \in 0 .. MaxLosses + 1
    /\ lost \in 0 .. MaxLosses
    /\ encrypt \in BOOLEAN /\ turnedOff \in BOOLEAN /\ people \in PeopleCounts
    /\ pc \in {"idle", "open", "discard", "connect", "carry", "command", "sync"}
    /\ key \in Keys \cup {Clear}
    /\ carried \subseteq Decision /\ decided \subseteq Decision /\ forfeited \subseteq Decision
    /\ wish \subseteq Wish /\ Cardinality(wish) <= 1
    /\ commands \in 0 .. MaxCommands /\ crashes \in 0 .. MaxCrashes
    /\ failed \in BOOLEAN

Recorded(decision) ==
    \E row \in overrides : row.pair = decision.pair /\ row.verdict = decision.verdict

\* "Never cleared by a sync" (store.py:3-6), "your decision survives every
\* later sync" (README.md:28), and replacing the file loses nothing (store.py:
\* 159-162): between commands, the table records every standing decision.
DecisionsSurvive == pc = "idle" => \A decision \in decided : Recorded(decision)

\* What is left of it: a decision is gone only if it was sealed beside an empty
\* identities table, or a command died between discarding the file and writing
\* it back.  No switching of encryption, lost key, failed sync or replaced
\* ruling of the pair under another key loses one otherwise.
DecisionsKept == pc = "idle" => \A decision \in decided : Recorded(decision) \/ decision \in forfeited

\* The reverse: a sync that goes through applies no ruling the user has replaced
\* or forgotten (UNIQUE(left_key, right_key), store.py:55-60), although the
\* digests of a pair under two keys are two keys to the table.  Once encryption
\* has been off, a ruling changed meanwhile may stand beside the sealed one.
OneRulingPerPair ==
    ~turnedOff /\ pc = "sync" /\ (\A row \in overrides : Readable(row)) =>
        \A row \in overrides : Ruling(row) \in decided

\* "Nothing legible is left in the file" (README.md:167-169): after a command
\* that succeeded with a key, no row is in the clear.  Once encryption has been
\* off, a ruling made meanwhile may stay so beside identities that are sealed.
NothingLegible ==
    ~turnedOff /\ pc = "idle" /\ ~failed /\ key # Clear =>
        Clear \notin identities /\ \A row \in overrides : row.seal # Clear

\* While no key has been lost, a sync with encryption on can read whatever
\* crashes and the switching on and off of encryption have left (crypto.py:67-84
\* makes a key only when there is none).  After a loss it cannot, as long as a
\* decision sealed with the lost key is stored (store.py:213).
KeyOpensAll == lost = 0 /\ pc = "sync" /\ encrypt => \A row \in overrides : Readable(row)
=============================================================================
