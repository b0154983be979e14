----------------------------- MODULE KeyImport ------------------------------
(***************************************************************************)
(* Importing the validator keys into the keystore of the service           *)
(* (Polkadot.polkadotKeysImport).  Every start of the service ends with an *)
(* import, and starts overlap, so imports do too.  importedKeys is what    *)
(* isServiceReadyToStart looks at: the service counts as ready once the    *)
(* list has as many entries as there are keys.                             *)
(***************************************************************************)
EXTENDS Naturals, Sequences, SequencesExt

CONSTANTS KeyCount,      \* 6 in the code
          Importer,      \* starts of the service that are importing
          MaxFailures    \* bound on RPC calls to the container that fail

ASSUME KeyImportAssumption == KeyCount \in Nat \ {0} /\ MaxFailures \in Nat

Key == 1..KeyCount       \* in the order in which they are imported

VARIABLES
  importedKeys,
  keystore,              \* the keys the container has
  pc,
  next,                  \* the key each import is at
  failures

vars == <<importedKeys, keystore, pc, next, failures>>

Init ==
  /\ importedKeys = <<>>
  /\ keystore = {}
  /\ pc = [i \in Importer |-> "idle"]
  /\ next = [i \in Importer |-> 1]
  /\ failures = 0

AllImported == Len(importedKeys) >= KeyCount

Goto(i, label) == pc' = [pc EXCEPT ![i] = label]

Works == UNCHANGED failures
Fails == failures < MaxFailures /\ failures' = failures + 1

\* An import begins unless the list is full, and waits 20 s.
Begin(i) ==
  /\ pc[i] = "idle"
  /\ ~AllImported
  /\ Goto(i, "key")
  /\ next' = [next EXCEPT ![i] = 1]
  /\ UNCHANGED <<importedKeys, keystore, failures>>

\* Variant for mutation: one step too many.
AdvancePast(i) ==
  IF next[i] <= KeyCount
  THEN Goto(i, "key") /\ next' = [next EXCEPT ![i] = @ + 1]
  ELSE Goto(i, "idle") /\ next' = [next EXCEPT ![i] = 1]

\* On to the next key; after the last one the import ends.
Advance(i) ==
  IF next[i] < KeyCount
  THEN Goto(i, "key") /\ next' = [next EXCEPT ![i] = @ + 1]
  ELSE Goto(i, "idle") /\ next' = [next EXCEPT ![i] = 1]

SkipKey(i) ==
  /\ pc[i] = "key"
  /\ Contains(importedKeys, next[i])
  /\ Advance(i)
  /\ UNCHANGED <<importedKeys, keystore, failures>>

PickKey(i) ==
  /\ pc[i] = "key"
  /\ ~Contains(importedKeys, next[i])
  /\ Goto(i, "insert")
  /\ UNCHANGED <<importedKeys, keystore, next, failures>>

\* author_insertKey; no answer means on to the next key, an error means that
\* the key is not added but checked all the same.
InsertKey(i) ==
  /\ pc[i] = "insert"
  /\ \/ /\ Works
        /\ keystore' = keystore \cup {next[i]}
        /\ Goto(i, "check")
        /\ UNCHANGED next
     \/ Fails /\ Advance(i) /\ UNCHANGED keystore
     \/ Fails /\ Goto(i, "check") /\ UNCHANGED <<keystore, next>>
  /\ UNCHANGED importedKeys

\* Variant for mutation: the key is recorded whatever the keystore says.
CheckKeyTrusting(i) ==
  /\ pc[i] = "check"
  /\ Works /\ Goto(i, "record")
  /\ UNCHANGED <<importedKeys, keystore, next>>

\* author_hasKey: the key is there, or not, or there is no answer; a failing
\* call throws and ends the whole import.
CheckKey(i) ==
  /\ pc[i] = "check"
  /\ \/ Works /\ next[i] \in keystore /\ Goto(i, "record") /\ UNCHANGED next
     \/ (Fails \/ (Works /\ next[i] \notin keystore)) /\ Advance(i)
     \/ Fails /\ Goto(i, "idle") /\ next' = [next EXCEPT ![i] = 1]
  /\ UNCHANGED <<importedKeys, keystore>>

\* checkSessionKeysOnNode has answered: the key is recorded.
RecordKey(i) ==
  /\ pc[i] = "record"
  /\ importedKeys' = Append(importedKeys, next[i])
  /\ Advance(i)
  /\ UNCHANGED <<keystore, failures>>

Import(i) == SkipKey(i) \/ PickKey(i) \/ InsertKey(i) \/ CheckKey(i) \/ RecordKey(i)

Next == \E i \in Importer : Begin(i) \/ Import(i)

Spec == Init /\ [][Next]_vars

\* Starts of the service follow one another, and the container answers or the
\* call fails.
FairSpec == Spec /\ \A i \in Importer : WF_vars(Begin(i) \/ Import(i))

-----------------------------------------------------------------------------
(* Properties                                                              *)

\* Every variable has its type.
TypeOK ==
  /\ importedKeys \in Seq(Key)
  /\ keystore \subseteq Key
  /\ pc \in [Importer -> {"idle", "key", "insert", "check", "record"}]
  /\ next \in [Importer -> Key]
  /\ failures \in 0..MaxFailures

\* polkadot.js:133: whatever imports overlap, every key in the list was found
\* in the keystore.
ListedIsStored == ToSet(importedKeys) \subseteq keystore

\* polkadot.js:307, "Check if all keys were added to keystore": the service
\* counts as ready only when it has every key.
ReadyHasAllKeys == AllImported => Key \subseteq keystore

NoKeyTwice == IsInjective(importedKeys)

\* However the calls fail and imports overlap, every key ends up in the
\* keystore, as long as no two imports list the same key.
KeysArrive == []NoKeyTwice => <>[](Key \subseteq keystore)
=============================================================================
