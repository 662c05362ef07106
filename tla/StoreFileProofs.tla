--------------------------- MODULE StoreFileProofs ---------------------------
(***************************************************************************)
(* Machine-checked proofs about the database file, whatever is switched,   *)
(* lost or killed: type correctness; that while no key has been lost every *)
(* sync can read the store; and that a decision is lost only beside an     *)
(* empty identities table or by a crash during the carrying.  While        *)
(* encryption is not turned off: that nothing legible is left, and that no *)
(* sync that goes through applies a replaced or forgotten ruling.          *)
(***************************************************************************)
EXTENDS StoreFile, FiniteSetTheorems, TLAPS

-----------------------------------------------------------------------------
(***************************************************************************)
(* Keys: the wallet has the key that was made last, or none, and every     *)
(* other one has been lost.                                                *)
(***************************************************************************)
WalletInv ==
    /\ wallet = Clear => keyCount = lost
    /\ wallet # Clear => wallet = keyCount /\ keyCount = lost + 1

TypeInv == TypeOK /\ WalletInv

\* A wish is at most one: nothing, or one ruling.
LEMMA WishIsOne ==
    ASSUME NEW w \in {{}} \cup {{x} : x \in Wish}
    PROVE  w \subseteq Wish /\ Cardinality(w) <= 1
<1>1. CASE w = {}
  BY <1>1, FS_EmptySet
<1>2. CASE w \in {{x} : x \in Wish}
  <2>1. PICK x \in Wish : w = {x}
    BY <1>2
  <2> QED
    BY <2>1, FS_Singleton
<1> QED
  BY <1>1, <1>2

\* set_override (store.py:55-60, 285-296) writes rows of the table.
LEMMA UpsertIsRows ==
    ASSUME TypeOK, NEW decision \in Decision
    PROVE  Upsert(decision) \subseteq Row
BY StoreFileAssumption DEF TypeOK, Upsert, Decision, Row

\* Every operation keeps the types and the wallet's key the newest.
LEMMA TypeStep == TypeInv /\ [Next]_vars => TypeInv'
<1> SUFFICES ASSUME TypeInv, [Next]_vars PROVE TypeInv'
  OBVIOUS
<1> USE StoreFileAssumption
<1>1. CASE Toggle
  BY <1>1 DEF Toggle, TypeInv, TypeOK, WalletInv, file
<1>2. CASE SourcesChange
  BY <1>2 DEF SourcesChange, TypeInv, TypeOK, WalletInv, file
<1>3. CASE LoseKey
  BY <1>3 DEF LoseKey, TypeInv, TypeOK, WalletInv, file, Clear
<1>4. CASE Begin
  <2>1. wish' \subseteq Wish /\ Cardinality(wish') <= 1
    BY <1>4, WishIsOne DEF Begin
  <2> QED
    BY <1>4, <2>1 DEF Begin, TypeInv, TypeOK, WalletInv, file
<1>5. CASE OpenKeyRing
  BY <1>5 DEF OpenKeyRing, TypeInv, TypeOK, WalletInv, file, Keys, Clear
<1>6. CASE KeepFile
  BY <1>6 DEF KeepFile, TypeInv, TypeOK, WalletInv, file
<1>7. CASE DiscardFile
  <2>1. carried' \subseteq Decision /\ forfeited' \subseteq Decision
    BY <1>7 DEF DiscardFile, TypeInv, TypeOK, Row, Decision, Ruling
  <2> QED
    BY <1>7, <2>1 DEF DiscardFile, TypeInv, TypeOK, WalletInv
<1>8. CASE Connect
  BY <1>8 DEF Connect, TypeInv, TypeOK, WalletInv
<1>9. CASE CarryOne
  <2>1. PICK decision \in carried : overrides' = Upsert(decision) /\ carried' = carried \ {decision}
    BY <1>9 DEF CarryOne
  <2>2. overrides' \subseteq Row
    BY <2>1, UpsertIsRows DEF TypeInv, TypeOK
  <2> QED
    BY <1>9, <2>1, <2>2 DEF CarryOne, TypeInv, TypeOK, WalletInv
<1>10. CASE Yield
  BY <1>10 DEF Yield, TypeInv, TypeOK, WalletInv, file
<1>11. CASE Rule
  <2>1. PICK decision \in wish \cap Decision :
           /\ overrides' = Upsert(decision)
           /\ decided' = {d \in decided : d.pair # decision.pair} \cup {decision}
           /\ forfeited' = {d \in forfeited : d.pair # decision.pair}
    BY <1>11 DEF Rule
  <2>2. overrides' \subseteq Row
    BY <2>1, UpsertIsRows DEF TypeInv
  <2> QED
    BY <1>11, <2>1, <2>2 DEF Rule, TypeInv, TypeOK, WalletInv
<1>12. CASE Forget
  <2>1. wish' \in {{}, wish} /\ pc' \in {"idle", "sync"}
    BY <1>12 DEF Forget
  <2>2. wish' \subseteq Wish /\ Cardinality(wish') <= 1
    BY <2>1, FS_EmptySet DEF TypeInv, TypeOK
  <2>3. overrides' \subseteq overrides /\ decided' \subseteq decided /\ forfeited' \subseteq forfeited
    BY <1>12 DEF Forget
  <2> QED
    BY <1>12, <2>1, <2>2, <2>3 DEF Forget, TypeInv, TypeOK, WalletInv
<1>13. CASE Refresh
  BY <1>13 DEF Refresh, TypeInv, TypeOK, WalletInv, file
<1>14. CASE Read
  BY <1>14 DEF Read, TypeInv, TypeOK, WalletInv, file
<1>15. CASE Sync
  <2>1. identities' \subseteq Keys \cup {Clear}
    BY <1>15 DEF Sync, TypeInv, TypeOK
  <2>2. /\ pc' \in {"idle"} /\ failed' \in BOOLEAN
        /\ wish' \subseteq Wish /\ Cardinality(wish') <= 1
    <3>1. pc' = "idle" /\ failed' = FALSE /\ wish' = {}
      BY <1>15 DEF Sync
    <3>2. Cardinality({}) <= 1
      BY FS_EmptySet
    <3>3. Cardinality(wish') <= 1
      BY <3>1, <3>2, Zenon
    <3> QED
      BY <3>1, <3>3
  <2> QED
    BY <1>15, <2>1, <2>2 DEF Sync, TypeInv, TypeOK, WalletInv
<1>16. CASE SyncFails
  BY <1>16, FS_EmptySet DEF SyncFails, TypeInv, TypeOK, WalletInv, file
<1>17. CASE Crash
  BY <1>17, FS_EmptySet DEF Crash, TypeInv, TypeOK, WalletInv, file
<1>18. CASE UNCHANGED vars
  BY <1>18 DEF vars, file, TypeInv, TypeOK, WalletInv
<1> QED
  BY <1>1, <1>2, <1>3, <1>4, <1>5, <1>6, <1>7, <1>8, <1>9, <1>10, <1>11, <1>12,
     <1>13, <1>14, <1>15, <1>16, <1>17, <1>18 DEF Next

\* Without a file, a key or a command every variable has its type.
LEMMA TypeInit == Init => TypeInv
<1> SUFFICES ASSUME Init PROVE TypeInv
  OBVIOUS
<1>1. WalletInv /\ keyCount \in 0 .. MaxLosses + 1 /\ lost \in 0 .. MaxLosses /\ commands \in 0 .. MaxCommands /\ crashes \in 0 .. MaxCrashes
  BY StoreFileAssumption DEF Init, WalletInv, Clear
<1>2. encrypt \in BOOLEAN /\ people \in PeopleCounts
  BY StoreFileAssumption DEF Init
<1>3. wish \subseteq Wish /\ Cardinality(wish) <= 1
  BY FS_EmptySet DEF Init
<1> QED
  BY <1>1, <1>2, <1>3 DEF Init, TypeInv, TypeOK

\* The file, the wallet and the command keep their types whatever is opened,
\* lost, switched or killed; a key is never made twice.
THEOREM StoreTypeCorrect == Spec => []TypeOK
<1>1. TypeInv => TypeOK
  BY DEF TypeInv
<1> QED
  BY TypeInit, TypeStep, <1>1, PTL DEF Spec

-----------------------------------------------------------------------------
(***************************************************************************)
(* Rows and keys                                                           *)
(***************************************************************************)
\* A row is blinded and sealed with the same key, so the table has one row of
\* a pair and a key.
RowsOfKeys ==
    /\ \A row \in overrides : row.blind = row.seal
    /\ \A row, other \in overrides : row.pair = other.pair /\ row.seal = other.seal => row = other

\* No row is sealed with a key that is yet to be made.
SealsMade == \A row \in overrides : row.seal <= keyCount

\* From the moment it has opened the key ring, a command's key is the wallet's
\* if encryption is on, and none otherwise.
KeyOfCommand ==
    pc \notin {"idle", "open"} =>
        /\ encrypt => wallet # Clear /\ key = wallet
        /\ ~encrypt => key = Clear

RowsInv == TypeInv /\ RowsOfKeys /\ SealsMade /\ KeyOfCommand

\* A row of an upsert was there or is sealed and blinded with the running key.
LEMMA UpsertAddsOne ==
    ASSUME NEW decision, NEW row \in Upsert(decision)
    PROVE  \/ row \in overrides /\ ~(row.pair = decision.pair /\ row.blind = key)
           \/ row = [pair |-> decision.pair, blind |-> key,
                     verdict |-> decision.verdict, seal |-> key]
BY DEF Upsert

\* set_override (store.py:285-296) leaves one row of a pair and a key.
LEMMA UpsertKeepsRows ==
    ASSUME RowsInv, NEW decision \in Decision, pc \in {"carry", "command"},
           overrides' = Upsert(decision), UNCHANGED <<keyCount>>
    PROVE  RowsOfKeys' /\ SealsMade'
<1>1. key \in Nat /\ keyCount \in Nat /\ key <= keyCount
  <2>1. key \in Nat /\ keyCount \in Nat
    BY StoreFileAssumption DEF RowsInv, TypeInv, TypeOK, Keys, Clear
  <2>2. key = Clear \/ key = keyCount
    BY DEF RowsInv, KeyOfCommand, TypeInv, TypeOK, WalletInv
  <2> QED
    BY <2>1, <2>2 DEF Clear
<1>2. \A row \in overrides' : row.blind = row.seal
  BY UpsertAddsOne DEF RowsInv, RowsOfKeys
<1>3. \A row, other \in overrides' : row.pair = other.pair /\ row.seal = other.seal => row = other
  BY UpsertAddsOne DEF RowsInv, RowsOfKeys
<1>4. SealsMade'
  BY <1>1, UpsertAddsOne DEF RowsInv, SealsMade
<1> QED
  BY <1>2, <1>3, <1>4 DEF RowsOfKeys

\* There are no rows at first.
LEMMA RowsInit == Init => RowsInv
<1> SUFFICES ASSUME Init PROVE RowsInv
  OBVIOUS
<1>1. TypeInv
  BY TypeInit
<1> QED
  BY <1>1 DEF Init, RowsInv, RowsOfKeys, SealsMade, KeyOfCommand

\* What a step keeps that leaves the rows and the keys alone.
LEMMA RowsStay ==
    ASSUME RowsInv, TypeInv', UNCHANGED <<overrides, wallet, keyCount, encrypt, key>>,
           pc' \in {"idle", "open"} \/ pc \notin {"idle", "open"}
    PROVE  RowsInv'
BY DEF RowsInv, RowsOfKeys, SealsMade, KeyOfCommand

\* Every operation keeps the rows and keys in order.
LEMMA RowsStep == RowsInv /\ [Next]_vars => RowsInv'
<1> SUFFICES ASSUME RowsInv, [Next]_vars PROVE RowsInv'
  OBVIOUS
<1>t. TypeInv /\ TypeInv' /\ TypeOK
  BY TypeStep DEF RowsInv, TypeInv
<1>1. CASE Toggle \/ LoseKey
  <2>1. UNCHANGED <<overrides, keyCount>> /\ pc' = "idle"
    BY <1>1 DEF Toggle, LoseKey, file
  <2> QED
    BY <1>t, <2>1 DEF RowsInv, RowsOfKeys, SealsMade, KeyOfCommand
<1>2. CASE SourcesChange \/ Begin
  BY <1>2, <1>t, RowsStay DEF SourcesChange, Begin, file
<1>3. CASE OpenKeyRing
  <2>1. \/ ~encrypt /\ key' = Clear /\ UNCHANGED <<wallet, keyCount>>
        \/ encrypt /\ wallet # Clear /\ key' = wallet /\ UNCHANGED <<wallet, keyCount>>
        \/ encrypt /\ wallet = Clear /\ keyCount' = keyCount + 1 /\ wallet' = keyCount + 1 /\ key' = keyCount + 1
    BY <1>3 DEF OpenKeyRing
  <2>2. UNCHANGED <<overrides, encrypt>> /\ keyCount \in Nat /\ encrypt \in BOOLEAN
    BY <1>3, <1>t DEF OpenKeyRing, file, TypeOK
  <2>3. KeyOfCommand'
    BY <2>1, <2>2 DEF KeyOfCommand, Clear
  <2>4. SealsMade'
    <3>1. \A row \in overrides : row.seal \in Nat
      BY <1>t DEF TypeOK, Row, Keys, Clear
    <3>2. keyCount' \in Nat /\ keyCount <= keyCount'
      BY <2>1, <2>2
    <3> QED
      BY <3>1, <3>2, <2>2 DEF RowsInv, SealsMade
  <2> QED
    BY <1>t, <2>2, <2>3, <2>4 DEF RowsInv, RowsOfKeys
<1>4. CASE DiscardFile
  BY <1>4, <1>t DEF DiscardFile, RowsInv, RowsOfKeys, SealsMade, KeyOfCommand
<1>5. CASE KeepFile \/ Connect \/ Yield \/ Refresh \/ Read
  BY <1>5, <1>t, RowsStay DEF KeepFile, Connect, Yield, Refresh, Read, file
<1>6. CASE CarryOne \/ Rule
  <2>1. PICK decision \in Decision : overrides' = Upsert(decision)
    BY <1>6, <1>t DEF CarryOne, Rule, TypeOK
  <2>2. RowsOfKeys' /\ SealsMade'
    BY <1>6, <2>1, UpsertKeepsRows DEF CarryOne, Rule
  <2> QED
    BY <1>6, <1>t, <2>2 DEF CarryOne, Rule, RowsInv, KeyOfCommand
<1>7. CASE Forget
  <2>1. overrides' \subseteq overrides /\ UNCHANGED <<keyCount, wallet, encrypt, key>> /\ pc = "command"
    BY <1>7 DEF Forget
  <2> QED
    BY <1>t, <2>1 DEF RowsInv, RowsOfKeys, SealsMade, KeyOfCommand
<1>8. CASE Sync \/ SyncFails \/ Crash
  BY <1>8, <1>t, RowsStay DEF Sync, SyncFails, Crash, file
<1>9. CASE UNCHANGED vars
  BY <1>9, <1>t DEF vars, file, RowsInv, RowsOfKeys, SealsMade, KeyOfCommand
<1> QED
  BY <1>1, <1>2, <1>3, <1>4, <1>5, <1>6, <1>7, <1>8, <1>9 DEF Next

\* While no key has been lost there is one at most, so the running command's
\* opens every row, whatever was switched or killed meanwhile.
LEMMA OneKeyOpens == RowsInv => KeyOpensAll
<1> SUFFICES ASSUME RowsInv, lost = 0, pc = "sync", encrypt, NEW row \in overrides
             PROVE  Readable(row)
  BY DEF KeyOpensAll
<1>1. key = keyCount /\ keyCount = 1
  BY DEF RowsInv, KeyOfCommand, TypeInv, WalletInv
<1>2. row.seal \in Nat /\ row.seal <= 1
  BY <1>1 DEF RowsInv, SealsMade, TypeInv, TypeOK, Row, Keys, Clear
<1> QED
  BY <1>1, <1>2 DEF Readable, Clear

\* While no key has been lost, a sync with encryption on can read the store,
\* however often encryption was switched and commands died.
THEOREM KeyOpensEveryRow == Spec => []KeyOpensAll
BY RowsInit, RowsStep, OneKeyOpens, PTL DEF Spec

-----------------------------------------------------------------------------
(***************************************************************************)
(* Where decisions are lost                                                *)
(***************************************************************************)
\* People in the clear stand beside decisions in the clear: the row that
\* _discard_plaintext_store looks at (store.py:172-174) speaks for them.
ClearTogether ==
    /\ Clear \in identities => \A row \in overrides : row.seal = Clear
    /\ key # Clear /\ pc \in {"connect", "carry", "command", "sync"} => Clear \notin identities

\* What is not there is empty.
TablesThere ==
    /\ ~(exists /\ tables) => identities = {} /\ overrides = {}
    /\ pc \in {"carry", "command", "sync"} => exists /\ tables

\* The decisions on their way back are of different pairs, and of none that is
\* already there: the carrying replaces no row.
CarriedApart ==
    /\ carried # {} => pc \in {"connect", "carry"}
    /\ \A c, d \in carried : c.pair = d.pair => c = d
    /\ \A row \in overrides, c \in carried : row.pair # c.pair

AllAccounted == \A d \in decided : Recorded(d) \/ d \in carried \/ d \in forfeited

KeptInv == RowsInv /\ ClearTogether /\ TablesThere /\ CarriedApart /\ AllAccounted

\* There is no decision to lose at first.
LEMMA KeptInit == Init => KeptInv
<1> SUFFICES ASSUME Init PROVE KeptInv
  OBVIOUS
<1>1. RowsInv
  BY RowsInit
<1> QED
  BY <1>1 DEF Init, KeptInv, ClearTogether, TablesThere, CarriedApart, AllAccounted

\* What a step keeps that leaves the file and the decisions alone.
LEMMA KeptStays ==
    ASSUME KeptInv, RowsInv', UNCHANGED <<file, carried, decided, forfeited>>,
           pc' \in {"idle", "open", "discard"} \/ (pc' = pc /\ key' = key),
           carried = {}
    PROVE  KeptInv'
BY DEF KeptInv, ClearTogether, TablesThere, CarriedApart, AllAccounted, Recorded, file

\* Every operation accounts for every decision.
LEMMA KeptStep == KeptInv /\ [Next]_vars => KeptInv'
<1> SUFFICES ASSUME KeptInv, [Next]_vars PROVE KeptInv'
  OBVIOUS
<1>r. RowsInv /\ RowsInv'
  BY RowsStep DEF KeptInv
<1>t. TypeOK
  BY <1>r DEF RowsInv, TypeInv
<1> USE DEF ClearTogether, TablesThere, CarriedApart
<1>1. CASE Toggle \/ SourcesChange \/ LoseKey \/ Begin
  BY <1>1, <1>r, KeptStays DEF Toggle, SourcesChange, LoseKey, Begin, KeptInv
<1>2. CASE OpenKeyRing
  <2>1. pc' = "discard" \/ (pc' = "connect" /\ key' = Clear)
    BY <1>2 DEF OpenKeyRing
  <2> QED
    BY <1>2, <1>r, <2>1 DEF OpenKeyRing, file, KeptInv, AllAccounted, Recorded
<1>3. CASE KeepFile
  BY <1>3, <1>r DEF KeepFile, LooksPlain, file, KeptInv, AllAccounted, Recorded
<1>4. CASE DiscardFile
  <2>1. /\ carried' = {Ruling(row) : row \in {r \in overrides : r.seal = Clear}}
        /\ identities # {} => forfeited' = forfeited
        /\ identities = {} => forfeited' = forfeited \cup {Ruling(row) : row \in {r \in overrides : r.seal # Clear}}
        /\ identities' = {} /\ overrides' = {} /\ decided' = decided /\ pc' = "connect"
        /\ identities = {} \/ Clear \in identities
    BY <1>4 DEF DiscardFile, LooksPlain
  <2>2. \A c, d \in carried' : c.pair = d.pair => c = d
    BY <2>1, <1>r DEF RowsInv, RowsOfKeys, Ruling
  <2>3. AllAccounted'
    <3> SUFFICES ASSUME NEW d \in decided PROVE d \in carried' \/ d \in forfeited'
      BY <2>1 DEF AllAccounted
    <3>1. CASE d \in forfeited
      BY <2>1, <3>1
    <3>2. CASE Recorded(d)
      <4>1. PICK row \in overrides : row.pair = d.pair /\ row.verdict = d.verdict
        BY <3>2 DEF Recorded
      <4>2. d = Ruling(row)
        BY <4>1, <1>t DEF TypeOK, Decision, Ruling
      <4>3. row.seal = Clear \/ identities = {}
        BY <2>1 DEF KeptInv
      <4> QED
        BY <2>1, <4>2, <4>3
    <3>3. carried = {}
      BY <1>4 DEF DiscardFile, KeptInv
    <3> QED
      BY <3>1, <3>2, <3>3 DEF KeptInv, AllAccounted
  <2> QED
    BY <1>r, <2>1, <2>2, <2>3 DEF KeptInv
<1>5. CASE Connect
  BY <1>5, <1>r DEF Connect, KeptInv, AllAccounted, Recorded
<1>6. CASE CarryOne
  <2>1. PICK c \in carried : overrides' = Upsert(c) /\ carried' = carried \ {c}
    BY <1>6 DEF CarryOne
  <2> DEFINE new == [pair |-> c.pair, blind |-> key, verdict |-> c.verdict, seal |-> key]
  <2>2. new \in overrides' /\ overrides \subseteq overrides' /\ overrides' \subseteq overrides \cup {new}
    BY <2>1 DEF Upsert, KeptInv
  <2>3. new.pair = c.pair /\ new.verdict = c.verdict /\ new.seal = key
    OBVIOUS
  <2> HIDE DEF new
  <2>4. UNCHANGED <<identities, exists, tables, decided, forfeited, pc, key>> /\ pc = "carry"
    BY <1>6 DEF CarryOne
  <2>5. \A row \in overrides', d \in carried' : row.pair # d.pair
    BY <2>1, <2>2, <2>3 DEF KeptInv
  <2>6. AllAccounted'
    BY <2>1, <2>2, <2>3, <2>4 DEF KeptInv, AllAccounted, Recorded
  <2>7. Clear \in identities => key = Clear
    BY <2>4 DEF KeptInv
  <2>8. Clear \in identities' => \A row \in overrides' : row.seal = Clear
    BY <2>2, <2>3, <2>4, <2>7 DEF KeptInv
  <2> QED
    BY <1>r, <2>1, <2>4, <2>5, <2>6, <2>8 DEF KeptInv
<1>7. CASE Yield \/ Refresh
  BY <1>7, <1>r DEF Yield, Refresh, file, KeptInv, AllAccounted, Recorded
<1>8. CASE Rule
  <2>1. PICK decision \in wish \cap Decision :
           /\ overrides' = Upsert(decision)
           /\ decided' = {d \in decided : d.pair # decision.pair} \cup {decision}
           /\ forfeited' = {d \in forfeited : d.pair # decision.pair}
    BY <1>8 DEF Rule
  <2> DEFINE new == [pair |-> decision.pair, blind |-> key, verdict |-> decision.verdict, seal |-> key]
  <2>2. /\ new \in overrides'
        /\ \A row \in overrides : row.pair # decision.pair => row \in overrides'
        /\ overrides' \subseteq overrides \cup {new}
    BY <2>1 DEF Upsert
  <2>3. new.pair = decision.pair /\ new.verdict = decision.verdict /\ new.seal = key
    OBVIOUS
  <2> HIDE DEF new
  <2>4. UNCHANGED <<identities, exists, tables, key, carried>> /\ pc = "command" /\ carried = {} /\ pc' = "sync"
    BY <1>8 DEF Rule, KeptInv
  <2>5. AllAccounted'
    <3> SUFFICES ASSUME NEW d \in decided' PROVE Recorded(d)' \/ d \in forfeited'
      BY DEF AllAccounted
    <3>1. CASE d = decision
      BY <2>2, <2>3, <3>1 DEF Recorded
    <3>2. CASE d \in decided /\ d.pair # decision.pair
      BY <2>1, <2>2, <2>4, <3>2 DEF KeptInv, AllAccounted, Recorded
    <3> QED
      BY <2>1, <3>1, <3>2
  <2>6. Clear \in identities' => \A row \in overrides' : row.seal = Clear
    BY <2>2, <2>3, <2>4 DEF KeptInv
  <2> QED
    BY <1>r, <2>4, <2>5, <2>6 DEF KeptInv
<1>9. CASE Forget
  <2> DEFINE mine(w) == {row \in overrides : row.pair = w.pair /\ row.blind = key}
  <2>1. PICK w \in wish \ Decision :
           /\ overrides' = overrides \ mine(w)
           /\ decided' = IF mine(w) = {} THEN decided ELSE {d \in decided : d.pair # w.pair}
           /\ forfeited' = IF mine(w) = {} THEN forfeited ELSE {d \in forfeited : d.pair # w.pair}
    BY <1>9 DEF Forget
  <2>2. /\ UNCHANGED <<identities, exists, tables, key, carried>>
        /\ pc = "command" /\ carried = {} /\ pc' \in {"idle", "sync"}
    BY <1>9 DEF Forget, KeptInv
  <2>3. AllAccounted'
    <3>1. CASE mine(w) = {}
      BY <2>1, <2>2, <3>1 DEF KeptInv, AllAccounted, Recorded
    <3>2. CASE mine(w) # {}
      BY <2>1, <2>2, <3>2 DEF KeptInv, AllAccounted, Recorded
    <3> QED
      BY <3>1, <3>2
  <2>4. overrides' \subseteq overrides
    BY <2>1
  <2> QED
    BY <1>r, <2>2, <2>3, <2>4 DEF KeptInv
<1>10. CASE Read \/ SyncFails
  BY <1>10, <1>r, KeptStays DEF Read, SyncFails, KeptInv
<1>11. CASE Sync
  <2>1. /\ Clear \in identities' => key = Clear
        /\ \A row \in overrides : row.seal \in {Clear, key}
        /\ UNCHANGED <<exists, tables, overrides, carried, decided, forfeited>>
        /\ pc = "sync" /\ pc' = "idle"
    BY <1>11 DEF Sync, Readable
  <2> QED
    BY <1>r, <2>1 DEF KeptInv, AllAccounted, Recorded
<1>12. CASE Crash
  BY <1>12, <1>r DEF Crash, file, KeptInv, AllAccounted, Recorded
<1>13. CASE UNCHANGED vars
  BY <1>13, <1>r DEF vars, file, KeptInv, AllAccounted, Recorded
<1> QED
  BY <1>1, <1>2, <1>3, <1>4, <1>5, <1>6, <1>7, <1>8, <1>9, <1>10, <1>11, <1>12, <1>13 DEF Next

\* A decision is in the table unless it was sealed beside an empty identities
\* table or a command died between discarding the file and writing it back:
\* no switching, lost key, failed sync or other crash loses one.
THEOREM DecisionsLostOnlyThere == Spec => []DecisionsKept
<1>1. KeptInv => DecisionsKept
  BY DEF KeptInv, CarriedApart, AllAccounted, DecisionsKept
<1> QED
  BY KeptInit, KeptStep, <1>1, PTL DEF Spec

-----------------------------------------------------------------------------
(***************************************************************************)
(* Nothing legible                                                         *)
(***************************************************************************)
\* A step after which encryption has not been turned off has not done it.
LEMMA NotTurnedOff ==
    ASSUME TypeOK, [Next]_vars, ~turnedOff'
    PROVE  ~turnedOff /\ (encrypt => encrypt')
<1>1. CASE Toggle
  BY <1>1 DEF Toggle, TypeOK
<1>2. CASE ~Toggle
  BY <1>2 DEF Next, SourcesChange, LoseKey, Begin, OpenKeyRing, KeepFile, DiscardFile, Connect,
     CarryOne, Yield, Rule, Forget, Refresh, Read, Sync, SyncFails, Crash, vars
<1> QED
  BY <1>1, <1>2

Sealed == Clear \notin identities /\ \A row \in overrides : row.seal # Clear

\* Before encryption is turned on there is no key and everything is clear.
ClearBefore ==
    ~encrypt =>
        /\ key = Clear /\ identities \subseteq {Clear}
        /\ \A row \in overrides : row.seal = Clear

\* Sealed identities stand beside sealed decisions, and what is not there is
\* empty.
TablesAgree ==
    /\ identities # {} /\ Clear \notin identities => Sealed
    /\ ~(exists /\ tables) => identities = {} /\ overrides = {}
    /\ pc \in {"carry", "command", "sync"} => exists /\ tables

\* A command that is past the discarding has nothing legible before it, and so
\* has one that succeeded.
SealedAfterDiscard ==
    key # Clear =>
        /\ pc \in {"connect", "carry", "command", "sync"} => Sealed
        /\ pc \in {"idle", "open"} /\ ~failed => Sealed

\* A command has a key exactly when encryption is on.
KeyOfSetting == pc \in {"connect", "carry", "command", "sync"} => (encrypt <=> key # Clear)

LegibleInv ==
    TypeInv /\ ClearBefore /\ TablesAgree /\ SealedAfterDiscard /\ KeyOfSetting
    /\ (pc = "discard" => key # Clear)

\* A store that does not exist yet has nothing legible.
LEMMA LegibleInit == Init => LegibleInv
<1> SUFFICES ASSUME Init PROVE LegibleInv
  OBVIOUS
<1>1. TypeInv
  BY TypeInit
<1> QED
  BY <1>1 DEF Init, LegibleInv, ClearBefore, TablesAgree, SealedAfterDiscard,
     KeyOfSetting, Sealed

\* What an upsert keeps: the rows that were there were sealed as the new one.
LEMMA UpsertKeepsLegible ==
    ASSUME LegibleInv, NEW decision, pc \in {"carry", "command"},
           overrides' = Upsert(decision),
           UNCHANGED <<exists, tables, identities, encrypt, key, failed>>,
           pc' \in {"carry", "sync"}, TypeInv'
    PROVE  LegibleInv'
<1>1. key # Clear => Sealed'
  BY UpsertAddsOne DEF LegibleInv, SealedAfterDiscard, Sealed
<1>3. ClearBefore'
  BY UpsertAddsOne DEF LegibleInv, ClearBefore
<1>4. KeyOfSetting' /\ SealedAfterDiscard'
  BY <1>1 DEF LegibleInv, KeyOfSetting, SealedAfterDiscard
<1>5. TablesAgree'
  <2>1. identities # {} /\ Clear \notin identities => key # Clear
    BY DEF LegibleInv, ClearBefore, KeyOfSetting
  <2>2. exists /\ tables
    BY DEF LegibleInv, TablesAgree
  <2> QED
    BY <1>1, <2>1, <2>2 DEF TablesAgree
<1> QED
  BY <1>3, <1>4, <1>5 DEF LegibleInv

\* Every step that does not turn encryption off keeps the invariant.
LEMMA LegibleStep ==
    LegibleInv /\ [Next]_vars /\ (encrypt => encrypt') => LegibleInv'
<1> SUFFICES ASSUME LegibleInv, [Next]_vars, encrypt => encrypt'
             PROVE  LegibleInv'
  OBVIOUS
<1>t. TypeInv /\ TypeInv'
  BY TypeStep DEF LegibleInv
<1> USE DEF LegibleInv, ClearBefore, TablesAgree, SealedAfterDiscard, KeyOfSetting,
        Sealed
<1>1. CASE Toggle
  <2>1. ~encrypt /\ encrypt'
    BY <1>1, <1>t DEF Toggle, TypeInv, TypeOK
  <2> QED
    BY <1>1, <1>t, <2>1 DEF Toggle, file
<1>2. CASE SourcesChange
  BY <1>2, <1>t DEF SourcesChange, file
<1>3. CASE LoseKey
  BY <1>3, <1>t DEF LoseKey, file
<1>4. CASE Begin
  BY <1>4, <1>t DEF Begin, file
<1>5. CASE OpenKeyRing
  <2>1. IF encrypt THEN key' # Clear /\ pc' = "discard" ELSE key' = Clear /\ pc' = "connect"
    BY <1>5, <1>t DEF OpenKeyRing, TypeInv, TypeOK, Clear
  <2> QED
    BY <1>5, <1>t, <2>1 DEF OpenKeyRing, file
<1>6. CASE KeepFile
  <2>1. key # Clear /\ (exists /\ tables => identities # {} /\ Clear \notin identities)
    BY <1>6 DEF KeepFile, LooksPlain
  <2>2. Sealed
    BY <2>1
  <2>3. encrypt
    BY <2>1, <1>t DEF TypeInv, TypeOK
  <2> QED
    BY <1>6, <1>t, <2>1, <2>2, <2>3 DEF KeepFile, file
<1>7. CASE DiscardFile
  <2>1. key # Clear /\ encrypt
    BY <1>7, <1>t DEF DiscardFile, TypeInv, TypeOK
  <2> QED
    BY <1>7, <1>t, <2>1 DEF DiscardFile
<1>8. CASE Connect
  BY <1>8, <1>t DEF Connect
<1>9. CASE CarryOne
  <2>1. PICK decision \in carried : overrides' = Upsert(decision)
    BY <1>9 DEF CarryOne
  <2> QED
    BY <1>9, <1>t, <2>1, UpsertKeepsLegible DEF CarryOne
<1>10. CASE Yield
  BY <1>10, <1>t DEF Yield, file
<1>11. CASE Rule
  <2>1. PICK decision \in wish \cap Decision : overrides' = Upsert(decision)
    BY <1>11 DEF Rule
  <2> QED
    BY <1>11, <1>t, <2>1, UpsertKeepsLegible DEF Rule
<1>12. CASE Forget
  <2>1. overrides' \subseteq overrides /\ pc' \in {"idle", "sync"}
    BY <1>12 DEF Forget
  <2> QED
    BY <1>12, <1>t, <2>1 DEF Forget
<1>13. CASE Refresh
  BY <1>13, <1>t DEF Refresh, file
<1>14. CASE Read
  BY <1>14, <1>t DEF Read, file
<1>15. CASE Sync
  <2>1. identities' \subseteq {key}
    BY <1>15 DEF Sync
  <2> QED
    BY <1>15, <1>t, <2>1 DEF Sync
<1>16. CASE SyncFails
  BY <1>16, <1>t DEF SyncFails, file
<1>17. CASE Crash
  BY <1>17, <1>t DEF Crash, file
<1>18. CASE UNCHANGED vars
  BY <1>18, <1>t DEF vars, file
<1> QED
  BY <1>1, <1>2, <1>3, <1>4, <1>5, <1>6, <1>7, <1>8, <1>9, <1>10, <1>11, <1>12,
     <1>13, <1>14, <1>15, <1>16, <1>17, <1>18 DEF Next

\* As long as the user has not turned encryption off, a command that succeeded
\* with a key left no row in the clear, whatever was opened, killed or lost.
THEOREM StaysSealed == Spec => []NothingLegible
<1>1. LegibleInv => NothingLegible
  BY DEF LegibleInv, SealedAfterDiscard, Sealed, NothingLegible
<1>2. TypeOK /\ (~turnedOff => LegibleInv) /\ [Next]_vars => (~turnedOff => LegibleInv)'
  BY LegibleStep, NotTurnedOff
<1>3. turnedOff => NothingLegible
  BY DEF NothingLegible
<1> QED
  BY LegibleInit, StoreTypeCorrect, <1>1, <1>2, <1>3, PTL DEF Spec

-----------------------------------------------------------------------------
(***************************************************************************)
(* Replaced and forgotten rulings                                          *)
(***************************************************************************)
\* The rulings in the clear or under the wallet's key, and those on their way
\* back, are the user's; one under a lost key need not be.
RulingsStand ==
    /\ \A row \in overrides : row.seal \in {Clear, wallet} => Ruling(row) \in decided
    /\ carried \subseteq decided
    /\ carried # {} => pc \in {"connect", "carry"}

RulingsInv == LegibleInv /\ RowsInv /\ RulingsStand

\* Nothing is ruled at first.
LEMMA RulingsInit == Init => RulingsInv
<1> SUFFICES ASSUME Init PROVE RulingsInv
  OBVIOUS
<1>1. LegibleInv /\ RowsInv
  BY LegibleInit, RowsInit
<1> QED
  BY <1>1 DEF Init, RulingsInv, RulingsStand

\* A command that is ruling finds the rows it can open under its own key.
LEMMA RowsAreOurs ==
    ASSUME RulingsInv, pc \in {"carry", "command", "sync"},
           NEW row \in overrides, row.seal \in {Clear, wallet}
    PROVE  row.blind = key
<1>1. CASE encrypt
  BY <1>1 DEF RulingsInv, RowsInv, RowsOfKeys, KeyOfCommand, LegibleInv, SealedAfterDiscard, Sealed
<1>2. CASE ~encrypt
  BY <1>2 DEF RulingsInv, RowsInv, RowsOfKeys, LegibleInv, ClearBefore
<1> QED
  BY <1>1, <1>2

\* Every step that does not turn encryption off keeps it.
LEMMA RulingsStep ==
    RulingsInv /\ [Next]_vars /\ (encrypt => encrypt') => RulingsInv'
<1> SUFFICES ASSUME RulingsInv, [Next]_vars, encrypt => encrypt'
             PROVE  RulingsInv'
  OBVIOUS
<1>l. LegibleInv' /\ RowsInv'
  BY LegibleStep, RowsStep DEF RulingsInv
<1>t. TypeOK
  BY DEF RulingsInv, RowsInv, TypeInv
<1> SUFFICES RulingsStand'
  BY <1>l DEF RulingsInv
<1> USE DEF RulingsStand
<1>1. CASE Toggle \/ SourcesChange \/ Begin \/ KeepFile \/ Yield \/ Refresh \/ Read
  BY <1>1 DEF Toggle, SourcesChange, Begin, KeepFile, Yield, Refresh, Read, RulingsInv, file
<1>2. CASE LoseKey
  BY <1>2 DEF LoseKey, RulingsInv, file
<1>3. CASE OpenKeyRing
  <2>1. \/ wallet' = wallet
        \/ wallet' = keyCount + 1
    BY <1>3 DEF OpenKeyRing
  <2>2. \A row \in overrides : row.seal # keyCount + 1
    BY <1>t DEF RulingsInv, RowsInv, SealsMade, TypeOK, Row, Keys, Clear
  <2>3. UNCHANGED <<overrides, carried, decided>> /\ carried = {}
    BY <1>3 DEF OpenKeyRing, RulingsInv, file
  <2> QED
    BY <2>1, <2>2, <2>3 DEF RulingsInv
<1>4. CASE DiscardFile
  BY <1>4 DEF DiscardFile, RulingsInv
<1>5. CASE Connect
  BY <1>5 DEF Connect, RulingsInv
<1>6. CASE CarryOne
  <2>1. PICK decision \in carried : overrides' = Upsert(decision) /\ carried' = carried \ {decision}
    BY <1>6 DEF CarryOne
  <2>2. decision \in Decision /\ decision \in decided
    BY <1>t DEF RulingsInv, TypeOK
  <2>3. decision = [pair |-> decision.pair, verdict |-> decision.verdict]
    BY <2>2 DEF Decision
  <2>4. \A row \in overrides' : row \in overrides \/ Ruling(row) = decision
    BY <2>1, <2>3, UpsertAddsOne DEF Ruling
  <2> QED
    BY <1>6, <2>1, <2>2, <2>4 DEF CarryOne, RulingsInv
<1>7. CASE Rule
  <2>1. PICK decision \in wish \cap Decision :
           /\ overrides' = Upsert(decision)
           /\ decided' = {d \in decided : d.pair # decision.pair} \cup {decision}
    BY <1>7 DEF Rule
  <2>2. decision = [pair |-> decision.pair, verdict |-> decision.verdict]
    BY DEF Decision
  <2>3. ASSUME NEW row \in overrides', row.seal \in {Clear, wallet}
        PROVE  Ruling(row) \in decided'
    <3>1. CASE row = [pair |-> decision.pair, blind |-> key, verdict |-> decision.verdict, seal |-> key]
      BY <3>1, <2>1, <2>2 DEF Ruling
    <3>2. CASE row \in overrides /\ ~(row.pair = decision.pair /\ row.blind = key)
      <4>1. row.blind = key /\ Ruling(row) \in decided
        BY <1>7, <2>3, <3>2, RowsAreOurs DEF Rule, RulingsInv
      <4> QED
        BY <2>1, <3>2, <4>1 DEF Ruling
    <3> QED
      BY <2>1, <3>1, <3>2, UpsertAddsOne
  <2>4. wallet' = wallet /\ carried' = {}
    BY <1>7 DEF Rule, RulingsInv
  <2> QED
    BY <2>3, <2>4
<1>8. CASE Forget
  <2> DEFINE mine(w) == {row \in overrides : row.pair = w.pair /\ row.blind = key}
  <2>1. PICK w \in wish \ Decision :
           /\ overrides' = overrides \ mine(w)
           /\ decided' = IF mine(w) = {} THEN decided ELSE {d \in decided : d.pair # w.pair}
    BY <1>8 DEF Forget
  <2>2. ASSUME NEW row \in overrides', row.seal \in {Clear, wallet}
        PROVE  Ruling(row) \in decided'
    <3>1. row \in overrides /\ row \notin mine(w)
      BY <2>1
    <3>2. row.pair # w.pair /\ Ruling(row) \in decided
      BY <1>8, <2>2, <3>1, RowsAreOurs DEF Forget, RulingsInv
    <3> HIDE DEF mine
    <3> QED
      BY <2>1, <3>2 DEF Ruling
  <2>3. wallet' = wallet /\ carried' = {}
    BY <1>8 DEF Forget, RulingsInv
  <2> HIDE DEF mine
  <2> QED
    BY <2>2, <2>3
<1>9. CASE Sync \/ SyncFails
  BY <1>9 DEF Sync, SyncFails, RulingsInv, file
<1>10. CASE Crash
  BY <1>10 DEF Crash, RulingsInv, file
<1>11. CASE UNCHANGED vars
  BY <1>11 DEF vars, file, RulingsInv
<1> QED
  BY <1>1, <1>2, <1>3, <1>4, <1>5, <1>6, <1>7, <1>8, <1>9, <1>10, <1>11 DEF Next

\* As long as the user has not turned encryption off, a sync that can read the
\* store applies no ruling that was replaced or forgotten, even when keys were
\* lost in between and the table has rows of a pair under several.
THEOREM NoStaleRuling == Spec => []OneRulingPerPair
<1>1. RulingsInv => OneRulingPerPair
  BY DEF RulingsInv, RulingsStand, RowsInv, KeyOfCommand, TypeInv, TypeOK, Readable, OneRulingPerPair
<1>2. TypeOK /\ (~turnedOff => RulingsInv) /\ [Next]_vars => (~turnedOff => RulingsInv)'
  BY RulingsStep, NotTurnedOff
<1>3. turnedOff => OneRulingPerPair
  BY DEF OneRulingPerPair
<1> QED
  BY RulingsInit, StoreTypeCorrect, <1>1, <1>2, <1>3, PTL DEF Spec
=============================================================================
