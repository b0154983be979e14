---------------------------- MODULE ChainClient -----------------------------
(***************************************************************************)
(* The chain client of one orchestrator.  The heartbeat loop and the cycle *)
(* share it, and interleave at its awaits: canSendTransactions counts, in  *)
(* two shared fields, the checks that found no new block; a transaction is *)
(* signed with the account's nonce, which does not count the transactions  *)
(* in the pool; and it is watched until it settles, if it ever does.       *)
(*                                                                         *)
(* Block numbers are told apart only by what the code compares: the best   *)
(* block with the last one seen, and with the last finalized one.          *)
(***************************************************************************)
EXTENDS Naturals

CONSTANTS Sender,               \* "heartbeat" and whoever else sends
          LastBlockThreshold,
          FinalizedGap,
          FinalityLag,          \* what finality leaves between it and the best
                                \* block (2 with GRANDPA's default voting rules)
          MaxFailures           \* bound on queries that fail while connected,
                                \* and on transactions dropped by the pool

ASSUME ChainClientAssumption ==
  /\ "heartbeat" \in Sender
  /\ LastBlockThreshold \in Nat \ {0}
  /\ FinalizedGap \in Nat \ {0}
  /\ FinalityLag \in Nat
  /\ MaxFailures \in Nat

VARIABLES
  lastBlock,            \* lastBlockNumber: "best", "older", or "none" for 0
  lastBlockAccumulator, \* the threshold standing for that or more
  pc,
  purpose,              \* to "check" only, or to "send"
  tx,                   \* where the transaction of each sender is
  stale,                \* the nonce read has been used by another transaction
  lost,                 \* nothing will be heard of the transaction any more
  failures,
  checked,              \* history: who has looked for a new block since the last
  (* the chain node *)
  connected,
  inTouch,              \* it has peers and is not syncing
  producing,            \* blocks are being produced
  gap                   \* best - finalized, FinalizedGap standing for that or more

own == <<lastBlock, lastBlockAccumulator>>
sending == <<tx, stale, lost>>
node == <<connected, inTouch, producing, gap>>
vars == <<own, pc, purpose, sending, failures, checked, node>>

Init ==
  /\ lastBlock \in {"best", "none"}
  /\ lastBlockAccumulator = 0
  /\ pc = [c \in Sender |-> "idle"]
  /\ purpose = [c \in Sender |-> "send"]
  /\ tx = [c \in Sender |-> "none"]
  /\ stale = [c \in Sender |-> FALSE]
  /\ lost = [c \in Sender |-> FALSE]
  /\ failures = 0
  /\ checked = {}
  /\ connected \in BOOLEAN
  /\ inTouch \in BOOLEAN
  /\ producing \in BOOLEAN
  /\ gap \in 0..FinalizedGap

At(c, label) == pc[c] = label
Goto(c, label) == pc' = [pc EXCEPT ![c] = label]

\* The getters turn an error into the answer 0.
Fails == failures < MaxFailures /\ failures' = failures + 1
Answered == connected /\ UNCHANGED failures
Unanswered == Fails \/ (~connected /\ UNCHANGED failures)

-----------------------------------------------------------------------------
(* canSendTransactions                                                     *)

Begin(c) ==
  /\ At(c, "idle")
  /\ connected
  /\ \E use \in {"check", "send"} :
       /\ c = "heartbeat" => use = "send"
       /\ purpose' = [purpose EXCEPT ![c] = use]
  /\ Goto(c, "moving")
  /\ UNCHANGED <<own, checked, sending, failures, node>>

\* Variant for mutation: a new block does not start the count again.
MovesOn == UNCHANGED lastBlockAccumulator

Moves == lastBlockAccumulator' = 0

\* Variants for mutation: a refusal starts the count again, or comes a check
\* late.
StandsAfresh(c) ==
  IF lastBlockAccumulator + 1 >= LastBlockThreshold
  THEN lastBlockAccumulator' = 0 /\ Goto(c, "idle")
  ELSE lastBlockAccumulator' = lastBlockAccumulator + 1 /\ Goto(c, "gap")

StandsOnceMore(c) ==
  IF lastBlockAccumulator > LastBlockThreshold
  THEN Goto(c, "idle") /\ UNCHANGED lastBlockAccumulator
  ELSE lastBlockAccumulator' = lastBlockAccumulator + 1 /\ Goto(c, "gap")

\* One more check has found the same block: are there enough of them?
Stands(c) ==
  IF lastBlockAccumulator + 1 >= LastBlockThreshold
  THEN lastBlockAccumulator' = LastBlockThreshold /\ Goto(c, "idle")
  ELSE lastBlockAccumulator' = lastBlockAccumulator + 1 /\ Goto(c, "gap")

\* chainMovingForward, with the best block or, if there is no answer, with 0.
ChainMovingForward(c) ==
  /\ At(c, "moving")
  /\ \E current \in {"best", "none"} :
       /\ IF current = "best" THEN Answered ELSE Unanswered
       /\ lastBlock' = current
       /\ IF lastBlock = current THEN Stands(c) ELSE Moves /\ Goto(c, "gap")
  /\ checked' = checked \cup {c}
  /\ UNCHANGED <<purpose, sending, node>>

\* Both numbers are asked for; without the best one the gap looks small, without
\* the finalized one it is the whole chain.
CheckGap(c) ==
  /\ At(c, "gap")
  /\ \/ Answered /\ gap < FinalizedGap /\ Goto(c, "health")
     \/ Answered /\ gap = FinalizedGap /\ Goto(c, "idle")
     \/ Unanswered /\ (Goto(c, "health") \/ Goto(c, "idle"))
  /\ UNCHANGED <<own, checked, purpose, sending, node>>

Pass(c) == Goto(c, IF purpose[c] = "send" THEN "nonce" ELSE "idle")

\* Peers and sync state; an unanswered question counts as no peers, or as not
\* syncing.
CheckHealth(c) ==
  /\ At(c, "health")
  /\ \/ Answered /\ inTouch /\ Pass(c)
     \/ Answered /\ ~inTouch /\ Goto(c, "again")
     \/ Unanswered /\ (Pass(c) \/ Goto(c, "again"))
  /\ UNCHANGED <<own, checked, purpose, sending, node>>

\* The second and last time, 5 s later.
CheckHealthAgain(c) ==
  /\ At(c, "again")
  /\ \/ Answered /\ inTouch /\ Pass(c)
     \/ Answered /\ ~inTouch /\ Goto(c, "idle")
     \/ Unanswered /\ (Pass(c) \/ Goto(c, "idle"))
  /\ UNCHANGED <<own, checked, purpose, sending, node>>

-----------------------------------------------------------------------------
(* addHeartbeat, setLeader and giveUpLeadership (which nothing calls): they *)
(* differ in the extrinsic only                                            *)

\* The nonce is the account's in the best block; this query may throw.
ReadNonce(c) ==
  /\ At(c, "nonce")
  /\ \/ Answered /\ Goto(c, "send") /\ stale' = [stale EXCEPT ![c] = FALSE]
     \/ Unanswered /\ Goto(c, "idle") /\ UNCHANGED stale
  /\ UNCHANGED <<own, checked, purpose, tx, lost, node>>

Pending == {d \in Sender : tx[d] = "pool"}

Watch(c) == Goto(c, "watch") /\ tx' = [tx EXCEPT ![c] = "pool"]

Submit(c) ==
  /\ At(c, "send")
  /\ Answered
  /\ ~stale[c]
  /\ Pending = {}
  /\ Watch(c)
  /\ UNCHANGED <<own, checked, purpose, stale, lost, failures, node>>

\* The other sender's transaction with that nonce leaves the pool; its watch
\* hears isUsurped and settles.
Usurp(c) ==
  \E d \in Pending :
    /\ At(c, "send")
    /\ Answered
    /\ ~stale[c]
    /\ tx' = [tx EXCEPT ![c] = "pool", ![d] = "none"]
    /\ pc' = [pc EXCEPT ![c] = "watch", ![d] = IF lost[d] THEN @ ELSE "idle"]
    /\ UNCHANGED <<own, checked, purpose, stale, lost, failures, node>>

\* The node refuses the transaction, or cannot be reached: the method throws.
SubmitThrows(c) ==
  /\ At(c, "send")
  /\ \/ Answered /\ (stale[c] \/ Pending # {})
     \/ Unanswered
  /\ Goto(c, "idle")
  /\ UNCHANGED <<own, checked, purpose, sending, node>>

\* isDropped or isInvalid.
TransactionGone(c) ==
  /\ tx[c] = "pool"
  /\ ~lost[c]
  /\ Fails
  /\ tx' = [tx EXCEPT ![c] = "none"]
  /\ Goto(c, "idle")
  /\ UNCHANGED <<own, checked, purpose, stale, lost, node>>

\* No status that settles will be heard: isFinalityTimeout is not one, and a
\* connection that broke takes its watches along.
LoseWatch(c) ==
  /\ At(c, "watch")
  /\ ~lost[c]
  /\ lost' = [lost EXCEPT ![c] = TRUE]
  /\ UNCHANGED <<own, checked, pc, purpose, tx, stale, failures, node>>

-----------------------------------------------------------------------------
(* The chain node                                                          *)

\* A block is another one than the last one seen, and not finalized.
BlockComes ==
  /\ producing
  /\ lastBlock' = IF lastBlock = "best" THEN "older" ELSE lastBlock
  /\ gap' = IF gap = FinalizedGap THEN gap ELSE gap + 1
  /\ checked' = {}
  /\ UNCHANGED <<lastBlockAccumulator, purpose, pc, lost, failures, connected, inTouch, producing>>

QuietBlock == BlockComes /\ UNCHANGED <<tx, stale>>

\* It includes a transaction, which may fail unless it is a heartbeat; the nonce
\* it had is used up.
IncludingBlock ==
  /\ BlockComes
  /\ \E c \in Pending, outcome \in {"done", "failed"} :
       /\ c = "heartbeat" => outcome = "done"
       /\ tx' = [tx EXCEPT ![c] = outcome]
  /\ stale' = [c \in Sender |-> At(c, "send")]

Included == {c \in Sender : tx[c] \in {"done", "failed"}}

\* Variant for mutation: only an event of success settles the watch.
FinalizeSuccessOnly ==
  /\ gap > FinalityLag
  /\ \E g \in FinalityLag..gap, final \in SUBSET Included :
       /\ gap' = g
       /\ tx' = [c \in Sender |-> IF c \in final THEN "none" ELSE tx[c]]
       /\ pc' = [c \in Sender |->
                   IF c \in final /\ ~lost[c] /\ tx[c] = "done" THEN "idle" ELSE pc[c]]
  /\ UNCHANGED <<own, checked, purpose, stale, lost, failures, connected, inTouch, producing>>

\* Finality gets no nearer to the best block than FinalityLag.  The watches of
\* the transactions finalized settle, whatever became of those.
Finalize ==
  /\ gap > FinalityLag
  /\ \E g \in FinalityLag..gap, final \in SUBSET Included :
       /\ gap' = g
       /\ tx' = [c \in Sender |-> IF c \in final THEN "none" ELSE tx[c]]
       /\ pc' = [c \in Sender |-> IF c \in final /\ ~lost[c] THEN "idle" ELSE pc[c]]
  /\ UNCHANGED <<own, checked, purpose, stale, lost, failures, connected, inTouch, producing>>

\* Connection, peers and block production come and go.
NodeChanges ==
  /\ \/ connected' = ~connected /\ UNCHANGED <<inTouch, producing>>
     \/ inTouch' = ~inTouch /\ UNCHANGED <<connected, producing>>
     \/ producing' = ~producing /\ UNCHANGED <<connected, inTouch>>
  /\ UNCHANGED <<own, checked, pc, purpose, sending, failures, gap>>

-----------------------------------------------------------------------------
Call(c) ==
  \/ ChainMovingForward(c) \/ CheckGap(c) \/ CheckHealth(c) \/ CheckHealthAgain(c)
  \/ ReadNonce(c) \/ Submit(c) \/ Usurp(c) \/ SubmitThrows(c)

Next ==
  \/ \E c \in Sender : Begin(c) \/ Call(c) \/ TransactionGone(c) \/ LoseWatch(c)
  \/ QuietBlock \/ IncludingBlock \/ Finalize \/ NodeChanges

Spec == Init /\ [][Next]_vars

\* The heartbeat loop calls again and again, every query ends, and a chain that
\* produces blocks includes what is in its pool.
FairSpec ==
  /\ Spec
  /\ \A c \in Sender : WF_vars(Call(c))
  /\ WF_vars(Begin("heartbeat"))
  /\ WF_vars(QuietBlock)
  /\ WF_vars(IncludingBlock)

-----------------------------------------------------------------------------
(* Properties                                                              *)

\* Every variable has its type.
TypeOK ==
  /\ lastBlock \in {"best", "older", "none"}
  /\ lastBlockAccumulator \in 0..LastBlockThreshold
  /\ pc \in [Sender -> {"idle", "moving", "gap", "health", "again", "nonce", "send", "watch"}]
  /\ purpose \in [Sender -> {"check", "send"}]
  /\ tx \in [Sender -> {"none", "pool", "done", "failed"}]
  /\ stale \in [Sender -> BOOLEAN]
  /\ lost \in [Sender -> BOOLEAN]
  /\ failures \in 0..MaxFailures
  /\ checked \in SUBSET Sender
  /\ connected \in BOOLEAN /\ inTouch \in BOOLEAN /\ producing \in BOOLEAN
  /\ gap \in 0..FinalizedGap

NobodySends == \A c \in Sender : pc[c] \notin {"nonce", "send"}

\* README.md:71: when the chain stalls, does not finalize, or the node is cut off
\* from its peers, for good, the orchestrator ends up sending nothing, however
\* its two loops share the count.  A connection that breaks and comes back for
\* ever is left out: the answer 0 looks like a new block.
SickChainSilences ==
  \/ <>[](connected /\ ~producing)
  \/ <>[](connected /\ gap = FinalizedGap)
  \/ <>[](connected /\ ~inTouch)
  \/ <>[]~connected
  => <>[]NobodySends

\* Every transaction that is included is finalized some time.
IncludedGetFinal == \A c \in Sender : []<>(c \notin Included)

\* chain.js:116 and 166: if blocks come and are finalized, every watch that is
\* not lost settles, and its caller goes on.
WatchesSettle ==
  <>[]producing /\ IncludedGetFinal
    => \A c \in Sender : []<>(~At(c, "watch") \/ lost[c])

\* Blocks come more often than either loop looks for one (6 s against 10 s).
BlocksOutpaceChecks ==
  <>[][\A c \in Sender : ChainMovingForward(c) => c \notin checked]_vars

\* app.js:37, "Add heartbeats every 10 seconds": whatever happened before, once
\* the chain and the node are well again and nobody uses the nonces heartbeats
\* need, heartbeats get into blocks for ever.  That both loops count in the same
\* fields does not keep them silent, and neither does a watch that the cycle has
\* lost; only one the heartbeat loop lost is left out, which it waits for.
HeartbeatsResume ==
  /\ <>[](/\ connected /\ inTouch /\ producing
          /\ gap < FinalizedGap
          /\ \A c \in Sender \ {"heartbeat"} : ~At(c, "send"))
  /\ BlocksOutpaceChecks
  /\ IncludedGetFinal
  /\ []~lost["heartbeat"]
  => []<>(tx["heartbeat"] = "done")
=============================================================================
