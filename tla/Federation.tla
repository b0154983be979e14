----------------------------- MODULE Federation -----------------------------
(***************************************************************************)
(* A federation: orchestrators that share leadership through the chain.    *)
(*                                                                         *)
(* Each operator runs one orchestration cycle after the other              *)
(* (orchestrator.js:161-321).  The code between two awaits is one action;  *)
(* between two actions blocks are produced, imported by the node's own     *)
(* chain node, and their events handled by the listener (chain.js:50-73).  *)
(* What an orchestrator reads is the state at its own chain node's best    *)
(* block, which may lag behind the tip.  The set_leader register is the    *)
(* one of LeaderRegister, which the pallet implements.                     *)
(*                                                                         *)
(* Abstracted: chain access and service readiness checks may go either way *)
(* at any time, heartbeats are included or not (a heartbeat transaction    *)
(* may be delayed past its sender's crash), and a block carries at most    *)
(* one leadership transaction.  A node's chain node imports blocks in      *)
(* order and never reorganises.  Queries of a cycle and those that fill    *)
(* the heartbeats map at boot, one wallet after the other, may fail        *)
(* (chain.js answers 0 or false then).  Claims made over HTTP are left to  *)
(* Orchestrator; nodes of other groups are known by what they put on chain *)
(* alone, and may take their leadership in any way.                        *)
(***************************************************************************)
EXTENDS Integers, Sequences

CONSTANTS Operator,      \* nodes that run the service
          Sentinel,      \* 'noservice' nodes, which only send heartbeats, and
                         \* the nodes of groups without an Operator
          Group,
          GroupOf,       \* node -> its group (config.nodeGroupId)
          Place,         \* node -> its place in config.nodesWallets
          NoLeader,
          Unreadable,    \* what getLeader returns when the query fails
          AliveTime,     \* config.aliveTime, in blocks
          Threshold,     \* noLivenessThreshold
          WaitCovers,    \* the 10 s wait outlasts the propagation of a block
          QueriesFail,   \* a cycle's queries to its chain node may fail
          BootQueriesFail, \* so may those that fill the heartbeats map
          Steady,        \* bound: nodes whose heartbeat is in every block
          MaxHeight,     \* bound on the number of blocks
          MaxLag,        \* bound on the blocks a chain node is behind
          MaxFailures    \* bound on crashes and lost transaction watches

Node == Operator \cup Sentinel

ASSUME FederationAssumption ==
  /\ GroupOf \in [Node -> Group]
  /\ Place \in [Node -> Nat]
  /\ NoLeader \notin Node
  /\ Unreadable \notin Node \cup {NoLeader}
  /\ AliveTime \in Nat
  /\ Threshold \in Nat
  /\ WaitCovers \in BOOLEAN
  /\ QueriesFail \in BOOLEAN
  /\ BootQueriesFail \in BOOLEAN
  /\ Steady \subseteq Node
  /\ MaxHeight \in Nat
  /\ MaxLag \in Nat
  /\ MaxFailures \in Nat

VARIABLES
  (* the chain *)
  height,     \* height of the tip
  leader,     \* the leadership registers at the tip
  pool,       \* pooled set_leader transactions
  (* the chain node of each operator *)
  view,       \* leaders and heartbeats as of its best block
  backlog,    \* the blocks it has not imported yet, oldest first
  (* the orchestrator process of each operator *)
  stage,      \* "down", "booting" or "running"
  unfilled,   \* the wallets whose heartbeat bootstrap has not read yet
  missed,     \* history: the wallets whose last heartbeat it did not get
  pc,         \* where its orchestration cycle is
  cur,        \* the cycle's currentLeader
  heard,      \* the cycle's leaderHeartbeat
  watch,      \* what the watched transaction has come to
  quiet,      \* noLivenessFromLeader
  known,      \* the heartbeats map: node -> block of its last heartbeat
  mode,       \* service.mode
  failures    \* crashes and lost watches so far

chainVars == <<height, leader, pool>>
nodeVars == <<view, backlog>>
cycleVars == <<pc, cur, heard, watch>>
bootVars == <<stage, unfilled, missed>>
procVars == <<bootVars, quiet, known, mode>>
vars == <<chainVars, nodeVars, cycleVars, procVars, failures>>

Register == INSTANCE LeaderRegister WITH Account <- Node

\* Number of the best block of n's chain node.
Best(n) == height - Len(backlog[n])

\* The leader n reads: Leaders(group) at its best block.
LeaderSeen(n) == view[n].leader[GroupOf[n]]

Running(n) == stage[n] = "running"

-----------------------------------------------------------------------------
(* The chain                                                               *)

Init ==
  /\ height = 0
  /\ Register!Init
  /\ pool = {}
  /\ view = [n \in Operator |-> [leader |-> leader, beat |-> [m \in Node |-> 0]]]
  /\ backlog = [n \in Operator |-> <<>>]
  /\ stage = [n \in Operator |-> "running"]
  /\ unfilled = [n \in Operator |-> {}]
  /\ missed = [n \in Operator |-> {}]
  /\ pc = [n \in Operator |-> "idle"]
  /\ cur = [n \in Operator |-> NoLeader]
  /\ heard = [n \in Operator |-> 0]
  /\ watch = [n \in Operator |-> "none"]
  /\ quiet = [n \in Operator |-> 0]
  /\ known = [n \in Operator |-> [m \in Node |-> 0]]
  /\ mode = [n \in Operator |-> "passive"]
  /\ failures = 0

\* A block: the nodes whose heartbeats it includes, the sender of its
\* set_leader transaction (or NoLeader) and whether the call succeeded.
Block(beats, sender, taken) == [beats |-> beats, sender |-> sender, taken |-> taken]

Publish(b) ==
  /\ Steady \subseteq b.beats
  /\ height < MaxHeight
  /\ \A n \in Operator : Len(backlog[n]) < MaxLag
  /\ height' = height + 1
  /\ backlog' = [n \in Operator |-> Append(backlog[n], b)]

ProduceQuietBlock(beats) ==
  /\ Publish(Block(beats, NoLeader, FALSE))
  /\ UNCHANGED <<leader, pool, view, cycleVars, procVars, failures>>

\* A pooled set_leader is dispatched: it takes the register or is refused.
ProduceLeaderBlock(beats, tx) ==
  LET g == GroupOf[tx.sender]
      ok == Register!MayTake(leader[g], tx.sender, tx.reported)
  IN  /\ IF ok THEN Register!Take(tx.sender, tx.reported, g) ELSE UNCHANGED leader
      /\ pool' = pool \ {tx}
      /\ Publish(Block(beats, tx.sender, ok))
      /\ UNCHANGED <<view, cycleVars, procVars, failures>>

\* A node of a group without an Operator takes that group's leadership, alive
\* or not (forceActive asks for no heartbeat), in a block with only the
\* heartbeats no block is without, to bound the choices.
ProduceForeignBlock(s) ==
  /\ \A n \in Operator : GroupOf[n] # GroupOf[s]
  /\ leader[GroupOf[s]] # s
  /\ leader' = [leader EXCEPT ![GroupOf[s]] = s]
  /\ Publish(Block(Steady, s, TRUE))
  /\ UNCHANGED <<pool, view, cycleVars, procVars, failures>>

-----------------------------------------------------------------------------
(* Importing a block and handling its events                               *)

\* The state of n's chain node after it imports block b.
ViewAfter(n, b) ==
  LET v == view[n]
  IN  [leader |-> IF b.taken
                  THEN [v.leader EXCEPT ![GroupOf[b.sender]] = b.sender]
                  ELSE v.leader,
       beat |-> [m \in Node |-> IF m \in b.beats THEN Best(n) + 1 ELSE v.beat[m]]]

\* Variant for mutation: the sender is compared the wrong way round.
LostToSelf(n, b) == b.taken /\ b.sender = n /\ GroupOf[b.sender] = GroupOf[n]

\* Variant for mutation: the groups are not compared.
LostToAnyone(n, b) == b.taken /\ b.sender # n

\* The NewLeader handler: another node of the group took leadership.
LostTo(n, b) == b.taken /\ b.sender # n /\ GroupOf[b.sender] = GroupOf[n]

\* Variant for mutation: a block with a set_leader is looked at for that alone.
BeatsUnlessLed(n, b) ==
  [m \in Node |-> IF m \in b.beats /\ b.sender = NoLeader THEN Best(n) + 1 ELSE known[n][m]]

\* The NewHeartbeat handler: the heartbeats map after block b.
BeatsHeard(n, b) ==
  [m \in Node |-> IF m \in b.beats THEN Best(n) + 1 ELSE known[n][m]]

\* The wallets n missed the last heartbeat of, after block b: before listenEvents
\* nobody handles the heartbeat of a wallet that is read already.
MissedAfter(n, b) ==
  CASE stage[n] = "booting" -> missed[n] \cup (b.beats \ unfilled[n])
    [] Running(n)           -> missed[n] \ b.beats
    [] OTHER                -> missed[n]

Import(n) ==
  /\ backlog[n] # <<>>
  /\ LET b == Head(backlog[n])
     IN  /\ view' = [view EXCEPT ![n] = ViewAfter(n, b)]
         /\ known' = [known EXCEPT ![n] =
                        IF Running(n) THEN BeatsHeard(n, b) ELSE @]
         /\ mode' = [mode EXCEPT ![n] =
                       IF Running(n) /\ LostTo(n, b) THEN "passive" ELSE @]
         /\ watch' = [watch EXCEPT ![n] =
                        IF pc[n] = "watching" /\ b.sender = n
                        THEN IF b.taken THEN "taken" ELSE "refused"
                        ELSE @]
         /\ missed' = [missed EXCEPT ![n] = MissedAfter(n, b)]
  /\ backlog' = [backlog EXCEPT ![n] = Tail(@)]
  /\ UNCHANGED <<chainVars, stage, unfilled, pc, cur, heard, quiet, failures>>
-----------------------------------------------------------------------------
(* The orchestration cycle                                                 *)

\* What getBestNumber may return: 0 stands for a failed query.
BestRead(n) == IF QueriesFail THEN {0, Best(n)} ELSE {Best(n)}

\* Heartbeats of any group count: the node itself and one other are alive.
AnyOneAlive(n, best) ==
  LET alive(m) == known[n][m] # 0 /\ best - known[n][m] < AliveTime
  IN  alive(n) /\ \E m \in Node \ {n} : alive(m)

At(n, label) == Running(n) /\ pc[n] = label

Goto(n, label) == pc' = [pc EXCEPT ![n] = label]

\* The cycle is over; its local variables are gone.
EndCycle(n) ==
  /\ Goto(n, "idle")
  /\ cur' = [cur EXCEPT ![n] = NoLeader]
  /\ heard' = [heard EXCEPT ![n] = 0]
  /\ watch' = [watch EXCEPT ![n] = "none"]

\* serviceStart sets service.mode before it awaits anything.
StartService(n, m) == mode' = [mode EXCEPT ![n] = m]

EnforcePassive(n) == EndCycle(n) /\ StartService(n, "passive")

\* The checks before leadership: one of them fails ...
ChecksFail(n) ==
  /\ At(n, "idle")
  /\ EnforcePassive(n)
  /\ UNCHANGED <<chainVars, nodeVars, bootVars, quiet, known, failures>>

\* ... or all of them pass.
ChecksPass(n) ==
  /\ At(n, "idle")
  /\ \E best \in BestRead(n) : AnyOneAlive(n, best)
  /\ Goto(n, "leader")
  /\ UNCHANGED <<chainVars, nodeVars, procVars, cur, heard, watch, failures>>

\* getLeader; a failed query gives a value no node has for key.
ReadLeader(n) ==
  /\ At(n, "leader")
  /\ \/ cur' = [cur EXCEPT ![n] = LeaderSeen(n)]
     \/ QueriesFail /\ cur' = [cur EXCEPT ![n] = Unreadable]
  /\ Goto(n, "leaded")
  /\ UNCHANGED <<chainVars, nodeVars, procVars, heard, watch, failures>>

\* isLeadedGroup is false, as it is when its query fails: become leader, reporting the node itself.
GroupNotLeaded(n) ==
  /\ At(n, "leaded")
  /\ LeaderSeen(n) = NoLeader \/ QueriesFail
  /\ cur' = [cur EXCEPT ![n] = n]
  /\ Goto(n, "submit")
  /\ UNCHANGED <<chainVars, nodeVars, procVars, heard, watch, failures>>

GroupLeaded(n) == At(n, "leaded") /\ LeaderSeen(n) # NoLeader

LeaderIsSelf(n) ==
  /\ GroupLeaded(n)
  /\ cur[n] = n
  /\ Goto(n, "recheck")
  /\ UNCHANGED <<chainVars, nodeVars, procVars, cur, heard, watch, failures>>

\* otherLeaderAction without liveness data: count the checks, then challenge.
NoLiveness(n) == cur[n] \in Node => known[n][cur[n]] = 0

\* Variant for mutation: the threshold is passed by one.
CountQuietLeaderOnceMore(n) ==
  /\ GroupLeaded(n)
  /\ cur[n] # n
  /\ NoLiveness(n)
  /\ quiet[n] <= Threshold
  /\ quiet' = [quiet EXCEPT ![n] = @ + 1]
  /\ EnforcePassive(n)
  /\ UNCHANGED <<chainVars, nodeVars, bootVars, known, failures>>

CountQuietLeader(n) ==
  /\ GroupLeaded(n)
  /\ cur[n] # n
  /\ NoLiveness(n)
  /\ quiet[n] < Threshold
  /\ quiet' = [quiet EXCEPT ![n] = @ + 1]
  /\ EnforcePassive(n)
  /\ UNCHANGED <<chainVars, nodeVars, bootVars, known, failures>>

ChallengeQuietLeader(n) ==
  /\ GroupLeaded(n)
  /\ cur[n] # n
  /\ NoLiveness(n)
  /\ quiet[n] >= Threshold
  /\ quiet' = [quiet EXCEPT ![n] = 0]
  /\ Goto(n, "submit")
  /\ UNCHANGED <<chainVars, nodeVars, cur, heard, watch, bootVars,
                 known, mode, failures>>

\* The leader's heartbeat is looked up; the best block is still to be read.
LookUpHeartbeat(n) ==
  /\ GroupLeaded(n)
  /\ cur[n] # n
  /\ ~NoLiveness(n)
  /\ heard' = [heard EXCEPT ![n] = known[n][cur[n]]]
  /\ Goto(n, "judge")
  /\ UNCHANGED <<chainVars, nodeVars, procVars, cur, watch, failures>>

\* Variant for mutation: the boundary is the one of the alive check.
LeaderIsNotAlive(n, best) == ~(best - heard[n] < AliveTime)

LeaderIsDown(n, best) == best - heard[n] > AliveTime

JudgeDown(n) ==
  /\ At(n, "judge")
  /\ \E best \in BestRead(n) : LeaderIsDown(n, best)
  /\ Goto(n, "submit")
  /\ UNCHANGED <<chainVars, nodeVars, procVars, cur, heard, watch, failures>>

JudgeAlive(n) ==
  /\ At(n, "judge")
  /\ \E best \in BestRead(n) : ~LeaderIsDown(n, best)
  /\ EnforcePassive(n)
  /\ UNCHANGED <<chainVars, nodeVars, bootVars, quiet, known, failures>>

-----------------------------------------------------------------------------
(* becomeLeader: setLeader, the wait, and what may go wrong on the way     *)

\* The pool takes one transaction per nonce: none of n's may be waiting.
SubmitSetLeader(n) ==
  /\ At(n, "submit")
  /\ cur[n] # Unreadable
  /\ \A tx \in pool : tx.sender # n
  /\ pool' = pool \cup {[sender |-> n, reported |-> cur[n]]}
  /\ Goto(n, "watching")
  /\ UNCHANGED <<height, leader, nodeVars, procVars, cur, heard, watch, failures>>

\* canSendTransactions is false: setLeader returns false.
CannotSubmit(n) ==
  /\ At(n, "submit")
  /\ EnforcePassive(n)
  /\ UNCHANGED <<chainVars, nodeVars, bootVars, quiet, known, failures>>

\* Creating or sending the transaction throws: app.js catches it and the cycle
\* ends with the service as it is.
SubmitThrows(n) ==
  /\ At(n, "submit")
  /\ EndCycle(n)
  /\ UNCHANGED <<chainVars, nodeVars, procVars, failures>>

\* The block with the transaction is finalized: setLeader gives its outcome.
LeadershipTaken(n) ==
  /\ At(n, "watching")
  /\ watch[n] = "taken"
  /\ Goto(n, "settling")
  /\ UNCHANGED <<chainVars, nodeVars, procVars, cur, heard, watch, failures>>

LeadershipRefused(n) ==
  /\ At(n, "watching")
  /\ watch[n] = "refused"
  /\ EnforcePassive(n)
  /\ UNCHANGED <<chainVars, nodeVars, bootVars, quiet, known, failures>>

\* The transaction is dropped, invalid or usurped, and gone for good.
TransactionGone(n) ==
  /\ At(n, "watching")
  /\ \E tx \in pool : tx.sender = n /\ pool' = pool \ {tx}
  /\ EnforcePassive(n)
  /\ UNCHANGED <<height, leader, nodeVars, bootVars, quiet, known, failures>>

\* The watch fails while the transaction lives on: the node's own pool dropped
\* it, or the connection to the chain node was lost.
WatchLost(n) ==
  /\ At(n, "watching")
  /\ failures < MaxFailures
  /\ failures' = failures + 1
  /\ EndCycle(n)
  /\ UNCHANGED mode \/ StartService(n, "passive")
  /\ UNCHANGED <<chainVars, nodeVars, bootVars, quiet, known>>

\* m has imported every block in which n took leadership.
HeardOf(m, n) ==
  \A i \in 1..Len(backlog[m]) : ~(backlog[m][i].sender = n /\ backlog[m][i].taken)

Peers(n) == {m \in Operator \ {n} : GroupOf[m] = GroupOf[n] /\ Running(m)}

\* Variant for mutation: the wait is skipped.
EndWaitAtOnce(n) ==
  /\ At(n, "settling")
  /\ Goto(n, "recheck")
  /\ UNCHANGED <<chainVars, nodeVars, procVars, cur, heard, watch, failures>>

\* The 10 s wait ends: by then every peer has the block, if WaitCovers.
EndWait(n) ==
  /\ At(n, "settling")
  /\ WaitCovers => \A m \in Peers(n) : HeardOf(m, n)
  /\ Goto(n, "recheck")
  /\ UNCHANGED <<chainVars, nodeVars, procVars, cur, heard, watch, failures>>

\* Variant for mutation: the leader is not read again.
RecheckSkipped(n) ==
  /\ At(n, "recheck")
  /\ EndCycle(n)
  /\ StartService(n, "active")
  /\ UNCHANGED <<chainVars, nodeVars, bootVars, quiet, known, failures>>

\* The last look at the leader: active if it is the node itself, and otherwise
\* the service is left as it is.
Recheck(n) ==
  /\ At(n, "recheck")
  /\ EndCycle(n)
  /\ \/ LeaderSeen(n) = n /\ StartService(n, "active")
     \/ (LeaderSeen(n) # n \/ QueriesFail) /\ UNCHANGED mode
  /\ UNCHANGED <<chainVars, nodeVars, bootVars, quiet, known, failures>>

-----------------------------------------------------------------------------
(* Crash and restart of an orchestrator process                            *)

\* The service container outlives the process: mode stays.
Crash(n) ==
  /\ stage[n] # "down"
  /\ failures < MaxFailures
  /\ failures' = failures + 1
  /\ stage' = [stage EXCEPT ![n] = "down"]
  /\ EndCycle(n)
  /\ quiet' = [quiet EXCEPT ![n] = 0]
  /\ known' = [known EXCEPT ![n] = [m \in Node |-> 0]]
  /\ unfilled' = [unfilled EXCEPT ![n] = {}]
  /\ missed' = [missed EXCEPT ![n] = {}]
  /\ UNCHANGED <<chainVars, nodeVars, mode>>

\* bootstrapOrchestrator: old containers are removed and the service starts in
\* passive mode; the heartbeats map is still to be filled.
Restart(n) ==
  /\ stage[n] = "down"
  /\ stage' = [stage EXCEPT ![n] = "booting"]
  /\ StartService(n, "passive")
  /\ unfilled' = [unfilled EXCEPT ![n] = Node]
  /\ UNCHANGED <<chainVars, nodeVars, cycleVars, missed, quiet, known, failures>>

\* fillHeartbeatsFromChain reads one wallet after the other, each at the best
\* block of its time; a query that fails gives the 0 of a node that never sent
\* a heartbeat.
FillHeartbeat(n, m) ==
  /\ m \in unfilled[n]
  /\ \A w \in unfilled[n] : Place[m] <= Place[w]
  /\ unfilled' = [unfilled EXCEPT ![n] = @ \ {m}]
  /\ \/ known' = [known EXCEPT ![n][m] = view[n].beat[m]] /\ UNCHANGED missed
     \/ /\ BootQueriesFail
        /\ known' = [known EXCEPT ![n][m] = 0]
        /\ missed' = [missed EXCEPT ![n] = @ \cup {m}]
  /\ UNCHANGED <<chainVars, nodeVars, cycleVars, stage, quiet, mode, failures>>

\* The map is filled: listenEvents subscribes and the cycles start.
Listen(n) ==
  /\ stage[n] = "booting"
  /\ unfilled[n] = {}
  /\ stage' = [stage EXCEPT ![n] = "running"]
  /\ UNCHANGED <<chainVars, nodeVars, cycleVars, unfilled, missed, quiet, known,
                 mode, failures>>

-----------------------------------------------------------------------------
Cycle(n) ==
  \/ ChecksFail(n) \/ ChecksPass(n) \/ ReadLeader(n)
  \/ GroupNotLeaded(n) \/ LeaderIsSelf(n)
  \/ CountQuietLeader(n) \/ ChallengeQuietLeader(n)
  \/ LookUpHeartbeat(n) \/ JudgeDown(n) \/ JudgeAlive(n)
  \/ SubmitSetLeader(n) \/ CannotSubmit(n) \/ SubmitThrows(n)
  \/ LeadershipTaken(n) \/ LeadershipRefused(n)
  \/ TransactionGone(n) \/ WatchLost(n)
  \/ EndWait(n) \/ Recheck(n)

\* The process of an orchestrator ends or comes up again.
Process(n) ==
  Crash(n) \/ Restart(n) \/ (\E m \in Node : FillHeartbeat(n, m)) \/ Listen(n)

Next ==
  \/ \E beats \in SUBSET Node :
       \/ ProduceQuietBlock(beats)
       \/ \E tx \in pool : ProduceLeaderBlock(beats, tx)
  \/ \E s \in Sentinel : ProduceForeignBlock(s)
  \/ \E n \in Operator : Import(n) \/ Cycle(n) \/ Process(n)

Spec == Init /\ [][Next]_vars

\* Every chain node keeps importing the blocks there are and every listener
\* keeps getting their events; nothing is assumed of the cycles.
FairSpec == Spec /\ \A n \in Operator : WF_vars(Import(n))
-----------------------------------------------------------------------------
(* Properties                                                              *)

Labels == {"idle", "leader", "leaded", "judge", "submit", "watching", "settling", "recheck"}
Leaders == [Group -> Node \cup {NoLeader}]
Blocks == [beats : SUBSET Node, sender : Node \cup {NoLeader}, taken : BOOLEAN]

\* Every variable has its type.
TypeOK ==
  /\ height \in 0..MaxHeight
  /\ leader \in Leaders
  /\ pool \subseteq [sender : Operator, reported : Node \cup {NoLeader}]
  /\ view \in [Operator -> [leader : Leaders, beat : [Node -> 0..MaxHeight]]]
  /\ backlog \in [Operator -> Seq(Blocks)]
  /\ stage \in [Operator -> {"down", "booting", "running"}]
  /\ unfilled \in [Operator -> SUBSET Node]
  /\ missed \in [Operator -> SUBSET Node]
  /\ pc \in [Operator -> Labels]
  /\ cur \in [Operator -> Node \cup {NoLeader, Unreadable}]
  /\ heard \in [Operator -> 0..MaxHeight]
  /\ watch \in [Operator -> {"none", "taken", "refused"}]
  /\ quiet \in [Operator -> 0..Threshold]
  /\ known \in [Operator -> [Node -> 0..MaxHeight]]
  /\ mode \in [Operator -> {"passive", "active"}]
  /\ failures \in 0..MaxFailures

\* What an orchestrator believes about the others' liveness is what its chain
\* node stores, although it never reads it after boot and lives on events.  The
\* heartbeats map never runs ahead of the storage, and lags it only for a wallet
\* whose query failed at boot or that beat between its query and the
\* subscription, and for that one until the next heartbeat.
HeartbeatsFollowChain ==
  \A n \in Operator, m \in Node :
    Running(n) =>
      \/ known[n][m] = view[n].beat[m]
      \/ m \in missed[n] /\ known[n][m] < view[n].beat[m]

\* A node whose chain node names another leader is not in active mode: the
\* listener stands it down in the very step in which it could know, and no
\* cycle begun before brings it back.
ActiveIsLeaderSeen ==
  \A n \in Operator : Running(n) /\ mode[n] = "active" => LeaderSeen(n) = n

\* A cycle claims the leadership from another node on good grounds only, although
\* it reads the heartbeat before and the best block after an await, and either
\* may be 0 for a query that failed: the leader's heartbeat it went by was on
\* chain and is older than aliveTime, or it knew of none, and then there is none
\* on chain but one it missed at boot.
ChallengedWasSilent ==
  [][\A n \in Operator :
       pc[n] # "submit" /\ pc'[n] = "submit" /\ cur'[n] \in Node \ {n} =>
         IF heard'[n] # 0
         THEN heard'[n] <= view[n].beat[cur'[n]] /\ Best(n) - heard'[n] > AliveTime
         ELSE view[n].beat[cur'[n]] = 0 \/ cur'[n] \in missed[n]]_vars

\* README.md:102: one validator in active mode per group.
AtMostOneActive ==
  \A n, m \in Operator :
    /\ Running(n) /\ mode[n] = "active"
    /\ Running(m) /\ mode[m] = "active"
    /\ GroupOf[n] = GroupOf[m]
    => n = m

\* orchestrator.js:235, "Waiting 10 seconds to be sure that every node received
\* leader update": a node turns active only when every running peer has
\* imported the blocks in which it took leadership.
PeersHeardBeforeActive ==
  [][\A n \in Operator :
       mode[n] # "active" /\ mode'[n] = "active" => \A m \in Peers(n) : HeardOf(m, n)]_vars

\* The groups of a federation share the chain, and every listener sees the
\* events of all of them: a block stands an active node down only if the node's
\* own chain node names another leader of its own group with it.
StandsDownForCause ==
  [][\A n \in Operator :
       /\ Len(backlog'[n]) < Len(backlog[n])
       /\ mode[n] = "active" /\ mode'[n] = "passive"
       => LeaderSeen(n) = n /\ LeaderSeen(n)' # n]_vars

\* A node that is active when it loses the leadership on chain stands down, or
\* leads again: the event reaches it even if its cycle is stuck for ever.
DemotedStandsDown ==
  \A n \in Operator :
    (Running(n) /\ mode[n] = "active" /\ leader[GroupOf[n]] # n)
      ~> (~Running(n) \/ mode[n] # "active" \/ leader[GroupOf[n]] = n)
=============================================================================
