-------------------------- MODULE ChainClientProofs --------------------------
(***************************************************************************)
(* Proofs about ChainClient, for every set of senders, every threshold and *)
(* every number of failures.                                               *)
(***************************************************************************)
EXTENDS ChainClient, TLAPS

Labels == {"idle", "moving", "gap", "health", "again", "nonce", "send", "watch"}
States == {"none", "pool", "done", "failed"}

\* A query is answered or not.
LEMMA QueryCounts ==
  ASSUME TypeOK, Answered \/ Unanswered \/ Fails
  PROVE  failures' \in 0..MaxFailures
BY ChainClientAssumption DEF TypeOK, Answered, Unanswered, Fails

\* The steps that ask the chain node something before a transaction is sent
\* change neither transactions nor watches.
LEMMA CheckFrame ==
  ASSUME TypeOK, NEW c \in Sender,
         \/ ChainMovingForward(c) \/ CheckGap(c) \/ CheckHealth(c) \/ CheckHealthAgain(c)
         \/ ReadNonce(c) \/ SubmitThrows(c)
  PROVE  /\ pc[c] # "watch"
         /\ pc' = [pc EXCEPT ![c] = pc'[c]] /\ pc'[c] \in Labels \ {"watch"}
         /\ UNCHANGED <<purpose, tx, lost, connected, inTouch, producing, gap>>
         /\ stale' \in [Sender -> BOOLEAN]
         /\ lastBlock' \in {"best", "older", "none"}
         /\ lastBlockAccumulator' \in 0..LastBlockThreshold
         /\ failures' \in 0..MaxFailures
         /\ checked' \in SUBSET Sender
<1> USE DEF At, Goto, Labels, own, sending, node
<1>1. CASE ChainMovingForward(c)
  <2>1. failures' \in 0..MaxFailures
    BY <1>1, QueryCounts DEF ChainMovingForward
  <2>2. /\ lastBlockAccumulator' \in 0..LastBlockThreshold
        /\ pc' = [pc EXCEPT ![c] = "gap"] \/ pc' = [pc EXCEPT ![c] = "idle"]
    BY <1>1, ChainClientAssumption DEF ChainMovingForward, Stands, Moves, TypeOK
  <2>3. /\ pc[c] = "moving" /\ lastBlock' \in {"best", "none"}
        /\ UNCHANGED <<purpose, sending, node>>
        /\ checked' = checked \cup {c}
    BY <1>1 DEF ChainMovingForward
  <2> QED BY <2>1, <2>2, <2>3 DEF TypeOK
<1>2. CASE CheckGap(c)
  BY <1>2, QueryCounts DEF CheckGap, TypeOK
<1>3. CASE CheckHealth(c)
  BY <1>3, QueryCounts DEF CheckHealth, Pass, TypeOK
<1>4. CASE CheckHealthAgain(c)
  BY <1>4, QueryCounts DEF CheckHealthAgain, Pass, TypeOK
<1>5. CASE ReadNonce(c)
  BY <1>5, QueryCounts DEF ReadNonce, TypeOK
<1>6. CASE SubmitThrows(c)
  BY <1>6, QueryCounts DEF SubmitThrows, TypeOK
<1> QED BY <1>1, <1>2, <1>3, <1>4, <1>5, <1>6

\* The steps of the system, those that only ask taken together.
LEMMA StepCases ==
  ASSUME Next
  PROVE  \/ \E c \in Sender :
              \/ ChainMovingForward(c) \/ CheckGap(c) \/ CheckHealth(c)
              \/ CheckHealthAgain(c) \/ ReadNonce(c) \/ SubmitThrows(c)
         \/ \E c \in Sender :
              \/ Begin(c) \/ Submit(c) \/ Usurp(c) \/ TransactionGone(c) \/ LoseWatch(c)
         \/ QuietBlock \/ IncludingBlock \/ Finalize \/ NodeChanges
BY DEF Next, Call

LEMMA TypingStep ==
  ASSUME TypeOK, [Next]_vars
  PROVE  TypeOK'
<1> USE DEF At, Goto, own, sending, node
<1>1. CASE UNCHANGED vars
  BY <1>1 DEF vars, TypeOK
<1>2. ASSUME NEW c \in Sender,
             \/ ChainMovingForward(c) \/ CheckGap(c) \/ CheckHealth(c)
             \/ CheckHealthAgain(c) \/ ReadNonce(c) \/ SubmitThrows(c)
      PROVE  TypeOK'
  <2>1. pc' \in [Sender -> Labels]
    BY <1>2, CheckFrame DEF TypeOK, Labels
  <2> QED BY <1>2, <2>1, CheckFrame DEF TypeOK, Labels
<1>3. ASSUME NEW c \in Sender, Begin(c) PROVE TypeOK'
  BY <1>3 DEF Begin, TypeOK
<1>4. ASSUME NEW c \in Sender, Submit(c) PROVE TypeOK'
  BY <1>4 DEF Submit, Watch, TypeOK
<1>5. ASSUME NEW c \in Sender, Usurp(c) PROVE TypeOK'
  BY <1>5 DEF Usurp, Pending, TypeOK
<1>6. ASSUME NEW c \in Sender, TransactionGone(c) PROVE TypeOK'
  BY <1>6, QueryCounts DEF TransactionGone, TypeOK
<1>7. ASSUME NEW c \in Sender, LoseWatch(c) PROVE TypeOK'
  BY <1>7 DEF LoseWatch, TypeOK
<1>8. BlockComes => gap' \in 0..FinalizedGap /\ lastBlock' \in {"best", "older", "none"}
  BY ChainClientAssumption DEF BlockComes, TypeOK
<1>9. CASE QuietBlock
  BY <1>8, <1>9 DEF QuietBlock, BlockComes, TypeOK
<1>10. CASE IncludingBlock
  BY <1>8, <1>10 DEF IncludingBlock, BlockComes, Pending, TypeOK
<1>11. CASE Finalize
  <2>1. gap' \in 0..FinalizedGap
    BY <1>11, ChainClientAssumption DEF Finalize, TypeOK
  <2> QED BY <1>11, <2>1 DEF Finalize, Included, TypeOK
<1>12. CASE NodeChanges
  BY <1>12 DEF NodeChanges, TypeOK
<1> QED
  BY <1>1, <1>2, <1>3, <1>4, <1>5, <1>6, <1>7, <1>9, <1>10, <1>11, <1>12, StepCases

\* Every variable has its type.
THEOREM Typing == Spec => []TypeOK
<1>1. Init => TypeOK
  BY ChainClientAssumption DEF Init, TypeOK
<1> QED BY <1>1, TypingStep, PTL DEF Spec

-----------------------------------------------------------------------------
(* Watches and transactions                                                *)

\* Whoever waits for its transaction has one that is not settled, and whoever
\* has one waits; a sender whose watch was lost waits for ever.
Watching(c) ==
  IF lost[c] THEN pc[c] = "watch" ELSE pc[c] = "watch" <=> tx[c] # "none"

EachWatches == \A c \in Sender : Watching(c)

LEMMA WatchStep ==
  ASSUME TypeOK, EachWatches, [Next]_vars
  PROVE  EachWatches'
<1> USE DEF At, Goto, own, sending, node, Labels
<1>1. CASE UNCHANGED vars
  BY <1>1 DEF vars, EachWatches, Watching
<1>2. ASSUME NEW c \in Sender,
             \/ ChainMovingForward(c) \/ CheckGap(c) \/ CheckHealth(c)
             \/ CheckHealthAgain(c) \/ ReadNonce(c) \/ SubmitThrows(c)
      PROVE  EachWatches'
  <2>1. /\ pc[c] # "watch" /\ pc' = [pc EXCEPT ![c] = pc'[c]] /\ pc'[c] # "watch"
        /\ UNCHANGED <<tx, lost>>
    BY <1>2, CheckFrame
  <2> QED BY <2>1 DEF EachWatches, Watching, TypeOK
<1>3. ASSUME NEW c \in Sender, Begin(c) PROVE EachWatches'
  BY <1>3 DEF Begin, EachWatches, Watching, TypeOK
<1>4. ASSUME NEW c \in Sender, Submit(c) PROVE EachWatches'
  BY <1>4 DEF Submit, Watch, EachWatches, Watching, TypeOK
<1>5. ASSUME NEW c \in Sender, Usurp(c) PROVE EachWatches'
  <2>1. PICK d \in Pending :
          /\ pc[c] = "send"
          /\ tx' = [tx EXCEPT ![c] = "pool", ![d] = "none"]
          /\ pc' = [pc EXCEPT ![c] = "watch", ![d] = IF lost[d] THEN @ ELSE "idle"]
    BY <1>5 DEF Usurp
  <2>2. d \in Sender /\ d # c
    BY <2>1 DEF Pending, EachWatches, Watching
  <2>3. UNCHANGED lost
    BY <1>5 DEF Usurp
  <2> QED BY <2>1, <2>2, <2>3 DEF EachWatches, Watching, Pending, TypeOK
<1>6. ASSUME NEW c \in Sender, TransactionGone(c) PROVE EachWatches'
  BY <1>6 DEF TransactionGone, EachWatches, Watching, TypeOK
<1>7. ASSUME NEW c \in Sender, LoseWatch(c) PROVE EachWatches'
  BY <1>7 DEF LoseWatch, EachWatches, Watching, TypeOK
<1>8. CASE QuietBlock
  BY <1>8 DEF QuietBlock, BlockComes, EachWatches, Watching
<1>9. CASE IncludingBlock
  BY <1>9 DEF IncludingBlock, BlockComes, Pending, EachWatches, Watching, TypeOK
<1>10. CASE Finalize
  BY <1>10 DEF Finalize, Included, EachWatches, Watching, TypeOK
<1>11. CASE NodeChanges
  BY <1>11 DEF NodeChanges, EachWatches, Watching
<1> QED
  BY <1>1, <1>2, <1>3, <1>4, <1>5, <1>6, <1>7, <1>8, <1>9, <1>10, <1>11, StepCases

\* chain.js:116 and 166: a call waits for its transaction exactly as long as it
\* has one, unless nothing will be heard of it: no sender is left waiting for a
\* transaction that has been replaced, dropped or finalized, and none goes on
\* while its own is in the pool.
THEOREM WatchesAreOfTransactions == Spec => []EachWatches
<1>1. Init => EachWatches
  BY DEF Init, EachWatches, Watching
<1> QED BY <1>1, WatchStep, Typing, PTL DEF Spec
=============================================================================
