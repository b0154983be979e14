--------------------------- MODULE KeyImportProofs ---------------------------
(***************************************************************************)
(* Proofs about KeyImport, for every number of keys, of overlapping        *)
(* imports and of failing calls.                                           *)
(***************************************************************************)
EXTENDS KeyImport, FiniteSetTheorems, TLAPS

\* An import goes on to a key, or is over: the step of every handler that is
\* done with its key.
LEMMA AdvanceEffect ==
  ASSUME TypeOK, NEW i \in Importer, Advance(i)
  PROVE  /\ pc' \in [Importer -> {"idle", "key", "insert", "check", "record"}]
         /\ next' \in [Importer -> Key]
         /\ pc' = [pc EXCEPT ![i] = pc'[i]]
         /\ pc'[i] \in {"idle", "key"}
         /\ \A j \in Importer \ {i} : next'[j] = next[j]
<1>1. CASE next[i] < KeyCount
  <2>1. next[i] + 1 \in Key
    BY <1>1, KeyImportAssumption DEF TypeOK, Key
  <2> QED BY <1>1, <2>1 DEF Advance, Goto, TypeOK
<1>2. CASE ~(next[i] < KeyCount)
  <2>1. 1 \in Key
    BY KeyImportAssumption DEF Key
  <2> QED BY <1>2, <2>1 DEF Advance, Goto, TypeOK
<1> QED BY <1>1, <1>2

\* The steps of an import, one by one.
LEMMA StepCases ==
  ASSUME Next
  PROVE  \E i \in Importer :
           \/ Begin(i) \/ SkipKey(i) \/ PickKey(i) \/ InsertKey(i) \/ CheckKey(i)
           \/ RecordKey(i)
BY DEF Next, Import

LEMMA TypingStep ==
  ASSUME TypeOK, [Next]_vars
  PROVE  TypeOK'
<1>1. CASE UNCHANGED vars
  BY <1>1 DEF TypeOK, vars
<1>2. CASE Next
  <2>1. PICK i \in Importer :
          \/ Begin(i) \/ SkipKey(i) \/ PickKey(i) \/ InsertKey(i) \/ CheckKey(i)
          \/ RecordKey(i)
    BY <1>2, StepCases
  <2>2. next[i] \in Key
    BY DEF TypeOK
  <2>3. 1 \in Key
    BY KeyImportAssumption DEF Key
  <2>4. Works \/ Fails => failures' \in 0..MaxFailures
    BY KeyImportAssumption DEF TypeOK, Works, Fails
  <2>5. CASE Begin(i)
    BY <2>3, <2>5 DEF Begin, Goto, TypeOK
  <2>6. CASE SkipKey(i)
    BY <2>6, AdvanceEffect DEF SkipKey, TypeOK
  <2>7. CASE PickKey(i)
    BY <2>7 DEF PickKey, Goto, TypeOK
  <2>8. CASE InsertKey(i)
    BY <2>2, <2>4, <2>8, AdvanceEffect DEF InsertKey, Goto, TypeOK
  <2>9. CASE CheckKey(i)
    BY <2>3, <2>4, <2>9, AdvanceEffect DEF CheckKey, Goto, TypeOK
  <2>10. CASE RecordKey(i)
    BY <2>2, <2>10, AdvanceEffect DEF RecordKey, TypeOK
  <2> QED BY <2>1, <2>5, <2>6, <2>7, <2>8, <2>9, <2>10
<1> QED BY <1>1, <1>2

\* Every variable has its type.
THEOREM Typing == Spec => []TypeOK
<1>1. Init => TypeOK
  BY KeyImportAssumption DEF Init, TypeOK, Key
<1> QED BY <1>1, TypingStep, PTL DEF Spec

-----------------------------------------------------------------------------
(* Listed keys are stored                                                  *)

\* Between its check and its entry in the list a key can only be found, and
\* other imports can only add keys.
ListedInv ==
  /\ ListedIsStored
  /\ \A i \in Importer : pc[i] = "record" => next[i] \in keystore

\* The members of a list that has grown by one.
LEMMA AppendedSet ==
  ASSUME NEW S, NEW s \in Seq(S), NEW k
  PROVE  ToSet(Append(s, k)) = ToSet(s) \cup {k}
<1> DEFINE t == Append(s, k)
<1>1. Len(s) \in Nat /\ DOMAIN s = 1..Len(s) /\ DOMAIN t = 1..(Len(s) + 1)
  BY SMT
<1>2. \A j \in 1..Len(s) : t[j] = s[j]
  OBVIOUS
<1>3. t[Len(s) + 1] = k
  OBVIOUS
<1>4. 1..(Len(s) + 1) = (1..Len(s)) \cup {Len(s) + 1}
  BY <1>1
<1> HIDE DEF t
<1>5. {t[j] : j \in 1..(Len(s) + 1)} = {s[j] : j \in 1..Len(s)} \cup {k}
  BY <1>2, <1>3, <1>4
<1> QED BY <1>1, <1>5 DEF t, ToSet

\* No step takes a key out of the keystore.
LEMMA KeystoreGrows ==
  ASSUME [Next]_vars
  PROVE  keystore \subseteq keystore'
BY DEF Next, Import, vars, Begin, SkipKey, PickKey, InsertKey, CheckKey, RecordKey

LEMMA ListedStep ==
  ASSUME TypeOK, ListedInv, [Next]_vars
  PROVE  ListedInv'
<1>1. CASE UNCHANGED vars
  BY <1>1 DEF ListedInv, ListedIsStored, vars
<1>2. CASE Next
  <2>1. PICK i \in Importer :
          \/ Begin(i) \/ SkipKey(i) \/ PickKey(i) \/ InsertKey(i) \/ CheckKey(i)
          \/ RecordKey(i)
    BY <1>2, StepCases
  <2>2. ListedIsStored'
    <3>1. CASE RecordKey(i)
      <4>1. next[i] \in keystore
        BY <3>1 DEF RecordKey, ListedInv
      <4>2. ToSet(importedKeys') = ToSet(importedKeys) \cup {next[i]}
        BY <3>1, AppendedSet DEF RecordKey, TypeOK
      <4> QED BY <4>1, <4>2, KeystoreGrows DEF ListedInv, ListedIsStored
    <3>2. CASE UNCHANGED importedKeys
      BY <3>2, KeystoreGrows DEF ListedInv, ListedIsStored
    <3> QED
      BY <2>1, <3>1, <3>2 DEF Begin, SkipKey, PickKey, InsertKey, CheckKey
  <2>3. ASSUME NEW j \in Importer, pc'[j] = "record"
        PROVE  next'[j] \in keystore'
    <3>1. CASE pc[j] = "record" /\ next'[j] = next[j]
      BY <3>1, KeystoreGrows DEF ListedInv
    <3>2. CASE CheckKey(i) /\ j = i /\ next[i] \in keystore /\ UNCHANGED next
      BY <3>2, KeystoreGrows
    <3> QED
      BY <2>1, <2>3, <3>1, <3>2, AdvanceEffect
      DEF Begin, SkipKey, PickKey, InsertKey, CheckKey, RecordKey, Goto, TypeOK
  <2> QED BY <2>2, <2>3 DEF ListedInv
<1> QED BY <1>1, <1>2

\* polkadot.js:133: whatever imports overlap and whatever calls fail, every key
\* in the list was found in the keystore.
THEOREM ListedIsStoredHolds == Spec => []ListedIsStored
<1>1. Init => ListedInv
  BY DEF Init, ListedInv, ListedIsStored, ToSet
<1> QED BY <1>1, ListedStep, Typing, PTL DEF Spec, ListedInv

\* A list without duplicates that is as long as there are keys has them all.
LEMMA FullListHasAll ==
  ASSUME TypeOK, NoKeyTwice, AllImported
  PROVE  Key \subseteq ToSet(importedKeys)
<1> DEFINE D == 1..Len(importedKeys)
<1>1. importedKeys \in [D -> Key] /\ DOMAIN importedKeys = D /\ Len(importedKeys) \in Nat
  BY DEF TypeOK
<1>2. importedKeys \in Injection(D, Key)
  BY <1>1 DEF NoKeyTwice, Injection
<1>3. IsFiniteSet(Key) /\ Cardinality(Key) = KeyCount
  BY FS_Interval, KeyImportAssumption DEF Key
<1>4. Cardinality(D) = Len(importedKeys)
  <2> DEFINE len == Len(importedKeys)
  <2>1. len \in Nat
    BY <1>1
  <2> HIDE DEF len
  <2>2. Cardinality(1..len) = IF 1 > len THEN 0 ELSE len - 1 + 1
    BY <2>1, FS_Interval
  <2>3. Cardinality(1..len) = len
    BY <2>1, <2>2
  <2> QED BY <2>3 DEF len
<1>5. Len(importedKeys) <= KeyCount
  BY <1>2, <1>3, <1>4, FS_Injection
<1>6. Cardinality(D) = Cardinality(Key)
  BY <1>1, <1>3, <1>4, <1>5, KeyImportAssumption DEF AllImported
<1>7. importedKeys \in Surjection(D, Key)
  BY <1>2, <1>3, <1>6, FS_Injection
<1> QED BY <1>1, <1>7 DEF Surjection, ToSet

\* polkadot.js:307, "Check if all keys were added to keystore": a service that
\* counts as ready has every key, as long as no two imports list the same key
\* (which the code does not prevent: run keys_twice).
THEOREM ReadyUnlessListedTwice == Spec => [](NoKeyTwice => ReadyHasAllKeys)
<1>1. TypeOK /\ ListedIsStored => (NoKeyTwice => ReadyHasAllKeys)
  BY FullListHasAll DEF ListedIsStored, ReadyHasAllKeys
<1> QED BY <1>1, ListedIsStoredHolds, Typing, PTL
=============================================================================
