-------------------------- MODULE FederationProofs --------------------------
(***************************************************************************)
(* Theorems about the federation, for any operators, groups and bounds.    *)
(***************************************************************************)
EXTENDS Federation, TLAPS, SequenceTheorems

-----------------------------------------------------------------------------
(* What the steps do to the blocks on their way                            *)

\* No chain node has more blocks to import than there are.
BacklogInChain == \A n \in Operator : Len(backlog[n]) <= height

Typed == TypeOK /\ BacklogInChain

\* A block that is produced goes to the end of every backlog, and what a chain
\* node has imported stays what it was.
LEMMA PublishEffect ==
  ASSUME Typed, NEW b \in Blocks, Publish(b)
  PROVE  /\ height' = height + 1
         /\ height' \in 0..MaxHeight
         /\ backlog' \in [Operator -> Seq(Blocks)]
         /\ BacklogInChain'
         /\ Steady \subseteq b.beats
         /\ \A n \in Operator :
              /\ Best(n)' = Best(n)
              /\ Len(backlog[n]) \in Nat
              /\ Len(backlog[n])' = Len(backlog[n]) + 1
              /\ \A i \in 1..Len(backlog[n]) : backlog'[n][i] = backlog[n][i]
              /\ backlog'[n][Len(backlog[n]) + 1] = b
<1>1. backlog \in [Operator -> Seq(Blocks)] /\ height \in 0..MaxHeight /\ MaxHeight \in Nat
  BY FederationAssumption DEF Typed, TypeOK
<1>2. backlog' = [n \in Operator |-> Append(backlog[n], b)]
      /\ height' = height + 1 /\ height < MaxHeight /\ Steady \subseteq b.beats
  BY DEF Publish
<1>3. ASSUME NEW n \in Operator
      PROVE  /\ Best(n)' = Best(n)
             /\ Len(backlog[n]) \in Nat
             /\ Len(backlog[n])' = Len(backlog[n]) + 1
             /\ \A i \in 1..Len(backlog[n]) : backlog'[n][i] = backlog[n][i]
             /\ backlog'[n][Len(backlog[n]) + 1] = b
             /\ backlog'[n] \in Seq(Blocks)
  <2>1. backlog[n] \in Seq(Blocks) /\ backlog'[n] = Append(backlog[n], b)
    BY <1>1, <1>2
  <2> QED
    BY <1>1, <1>2, <2>1 DEF Best
<1>4. BacklogInChain'
  BY <1>1, <1>2, <1>3 DEF BacklogInChain, Typed
<1> QED
  BY <1>1, <1>2, <1>3, <1>4

\* A chain node that imports takes the oldest block of its backlog, and its best
\* block is one higher; the other chain nodes' backlogs stay.
LEMMA ImportEffect ==
  ASSUME Typed, NEW n \in Operator, Import(n)
  PROVE  /\ backlog[n][1] \in Blocks
         /\ backlog[n][1] = Head(backlog[n])
         /\ Len(backlog[n]) \in Nat \ {0}
         /\ Len(backlog[n])' = Len(backlog[n]) - 1
         /\ \A i \in 1..Len(backlog[n])' : backlog'[n][i] = backlog[n][i + 1]
         /\ Best(n)' = Best(n) + 1
         /\ Best(n) \in 0..(MaxHeight - 1)
         /\ \A m \in Operator \ {n} : backlog'[m] = backlog[m] /\ Best(m)' = Best(m)
         /\ backlog' \in [Operator -> Seq(Blocks)]
         /\ BacklogInChain'
<1>1. /\ backlog \in [Operator -> Seq(Blocks)] /\ height \in 0..MaxHeight
      /\ MaxHeight \in Nat
      /\ backlog[n] # <<>> /\ height' = height
      /\ backlog' = [backlog EXCEPT ![n] = Tail(@)]
      /\ \A m \in Operator : Len(backlog[m]) <= height
  BY FederationAssumption DEF Typed, TypeOK, Import, chainVars, BacklogInChain
<1>2. /\ backlog[n] \in Seq(Blocks) /\ backlog'[n] = Tail(backlog[n])
      /\ \A m \in Operator \ {n} : backlog'[m] = backlog[m]
  BY <1>1
<1>3. /\ Len(backlog[n]) \in Nat \ {0}
      /\ Len(backlog'[n]) = Len(backlog[n]) - 1
      /\ backlog'[n] \in Seq(Blocks)
      /\ \A i \in 1..Len(backlog'[n]) : backlog'[n][i] = backlog[n][i + 1]
  BY <1>1, <1>2, HeadTailProperties, EmptySeq
<1>4. backlog[n][1] \in Blocks /\ backlog[n][1] = Head(backlog[n])
  BY <1>2, <1>3, ElementOfSeq
<1>5. backlog' \in [Operator -> Seq(Blocks)]
  BY <1>1, <1>2, <1>3
<1>6. /\ Best(n)' = Best(n) + 1
      /\ Best(n) \in 0..(MaxHeight - 1)
      /\ \A m \in Operator \ {n} : Best(m)' = Best(m)
  BY <1>1, <1>2, <1>3 DEF Best
<1>7. BacklogInChain'
  BY <1>1, <1>2, <1>3 DEF BacklogInChain
<1> QED
  BY <1>2, <1>3, <1>4, <1>5, <1>6, <1>7

\* The number of a best block.
LEMMA BestTyped ==
  ASSUME Typed, NEW n \in Operator
  PROVE  Best(n) \in 0..MaxHeight /\ Len(backlog[n]) \in Nat
<1>1. backlog[n] \in Seq(Blocks) /\ height \in 0..MaxHeight /\ Len(backlog[n]) <= height
  BY DEF Typed, TypeOK, BacklogInChain
<1> QED
  BY <1>1, FederationAssumption DEF Best
-----------------------------------------------------------------------------
(* Types                                                                   *)

\* An orchestrator's cycle touches the pool, its own variables and nothing else.
LEMMA CycleFrame ==
  ASSUME NEW n \in Operator, Cycle(n)
  PROVE  Running(n)
         /\ UNCHANGED <<height, leader, view, backlog, bootVars, known>>
BY DEF Cycle, At, ChecksFail, ChecksPass, ReadLeader, GroupNotLeaded, GroupLeaded, LeaderIsSelf,
       CountQuietLeader, ChallengeQuietLeader, LookUpHeartbeat, JudgeDown, JudgeAlive,
       SubmitSetLeader, CannotSubmit, SubmitThrows, LeadershipTaken, LeadershipRefused,
       TransactionGone, WatchLost, EndWait, Recheck, chainVars, nodeVars, procVars, bootVars

\* What the end of a cycle leaves behind is well typed.
LEMMA EndCycleTyped ==
  ASSUME TypeOK, NEW n \in Operator, EndCycle(n)
  PROVE  /\ pc' \in [Operator -> Labels]
         /\ cur' \in [Operator -> Node \cup {NoLeader, Unreadable}]
         /\ heard' \in [Operator -> 0..MaxHeight]
         /\ watch' \in [Operator -> {"none", "taken", "refused"}]
<1>1. 0 \in 0..MaxHeight
  BY FederationAssumption
<1> QED
  BY <1>1 DEF TypeOK, EndCycle, Goto, Labels

LEMMA EnforcePassiveTyped ==
  ASSUME TypeOK, NEW n \in Operator, EnforcePassive(n)
  PROVE  /\ pc' \in [Operator -> Labels]
         /\ cur' \in [Operator -> Node \cup {NoLeader, Unreadable}]
         /\ heard' \in [Operator -> 0..MaxHeight]
         /\ watch' \in [Operator -> {"none", "taken", "refused"}]
         /\ mode' \in [Operator -> {"passive", "active"}]
<1>1. mode' \in [Operator -> {"passive", "active"}]
  BY DEF TypeOK, EnforcePassive, StartService
<1> QED
  BY <1>1, EndCycleTyped DEF EnforcePassive

\* The leader a chain node shows is a node, if there is one.
LEMMA LeaderSeenTyped ==
  ASSUME TypeOK, NEW n \in Operator
  PROVE  GroupOf[n] \in Group /\ LeaderSeen(n) \in Node \cup {NoLeader}
BY FederationAssumption DEF TypeOK, LeaderSeen, Leaders, Node

LEMMA CycleTyped ==
  ASSUME Typed, NEW n \in Operator, Cycle(n)
  PROVE  Typed'
<1> USE DEF bootVars
<1>1. TypeOK
  BY DEF Typed
<1>2. UNCHANGED <<height, leader, view, backlog, bootVars, known>>
  BY CycleFrame
<1>3. SUFFICES TypeOK'
  BY <1>2 DEF Typed, BacklogInChain
<1>4. n \in Node /\ LeaderSeen(n) \in Node \cup {NoLeader}
  BY <1>1, LeaderSeenTyped DEF Node
<1>5. CASE ChecksFail(n)
  BY <1>1, <1>5, EnforcePassiveTyped DEF ChecksFail, TypeOK, chainVars, nodeVars
<1>6. CASE ChecksPass(n)
  BY <1>1, <1>6 DEF ChecksPass, TypeOK, chainVars, nodeVars, procVars, bootVars, Goto, Labels
<1>7. CASE ReadLeader(n)
  <2>1. cur' \in [Operator -> Node \cup {NoLeader, Unreadable}]
    BY <1>1, <1>4, <1>7 DEF ReadLeader, TypeOK
  <2> QED
    BY <1>1, <1>7, <2>1 DEF ReadLeader, TypeOK, chainVars, nodeVars, procVars, bootVars, Goto, Labels
<1>8. CASE GroupNotLeaded(n)
  BY <1>1, <1>4, <1>8 DEF GroupNotLeaded, TypeOK, chainVars, nodeVars, procVars, bootVars, Goto, Labels
<1>9. CASE LeaderIsSelf(n)
  BY <1>1, <1>9 DEF LeaderIsSelf, TypeOK, chainVars, nodeVars, procVars, bootVars, Goto, Labels
<1>10. CASE CountQuietLeader(n)
  <2>1. quiet' \in [Operator -> 0..Threshold]
    BY <1>1, <1>10, FederationAssumption DEF CountQuietLeader, TypeOK
  <2> QED
    BY <1>1, <1>10, <2>1, EnforcePassiveTyped
    DEF CountQuietLeader, TypeOK, chainVars, nodeVars
<1>11. CASE ChallengeQuietLeader(n)
  <2>1. quiet' \in [Operator -> 0..Threshold]
    BY <1>1, <1>11, FederationAssumption DEF ChallengeQuietLeader, TypeOK
  <2> QED
    BY <1>1, <1>11, <2>1 DEF ChallengeQuietLeader, TypeOK, chainVars, nodeVars, Goto, Labels
<1>12. CASE LookUpHeartbeat(n)
  <2>1. cur[n] \in Node /\ heard' = [heard EXCEPT ![n] = known[n][cur[n]]]
    BY <1>12 DEF LookUpHeartbeat, NoLiveness
  <2>2. heard' \in [Operator -> 0..MaxHeight]
    BY <1>1, <2>1 DEF TypeOK
  <2> QED
    BY <1>1, <1>12, <2>2 DEF LookUpHeartbeat, TypeOK, chainVars, nodeVars, procVars, bootVars, Goto, Labels
<1>13. CASE JudgeDown(n)
  BY <1>1, <1>13 DEF JudgeDown, TypeOK, chainVars, nodeVars, procVars, bootVars, Goto, Labels
<1>14. CASE JudgeAlive(n)
  BY <1>1, <1>14, EnforcePassiveTyped DEF JudgeAlive, TypeOK, chainVars, nodeVars
<1>15. CASE SubmitSetLeader(n)
  <2>1. cur[n] \in Node \cup {NoLeader}
    BY <1>1, <1>15 DEF SubmitSetLeader, TypeOK
  <2>2. pool' \subseteq [sender : Operator, reported : Node \cup {NoLeader}]
    BY <1>1, <1>15, <2>1 DEF SubmitSetLeader, TypeOK
  <2> QED
    BY <1>1, <1>15, <2>2 DEF SubmitSetLeader, TypeOK, nodeVars, procVars, bootVars, Goto, Labels
<1>16. CASE CannotSubmit(n)
  BY <1>1, <1>16, EnforcePassiveTyped DEF CannotSubmit, TypeOK, chainVars, nodeVars
<1>17. CASE SubmitThrows(n)
  BY <1>1, <1>17, EndCycleTyped DEF SubmitThrows, TypeOK, chainVars, nodeVars, procVars, bootVars
<1>18. CASE LeadershipTaken(n)
  BY <1>1, <1>18 DEF LeadershipTaken, TypeOK, chainVars, nodeVars, procVars, bootVars, Goto, Labels
<1>19. CASE LeadershipRefused(n)
  BY <1>1, <1>19, EnforcePassiveTyped DEF LeadershipRefused, TypeOK, chainVars, nodeVars
<1>20. CASE TransactionGone(n)
  BY <1>1, <1>20, EnforcePassiveTyped DEF TransactionGone, TypeOK, nodeVars
<1>21. CASE WatchLost(n)
  <2>1. mode' \in [Operator -> {"passive", "active"}]
    BY <1>1, <1>21 DEF WatchLost, StartService, TypeOK
  <2>2. failures' \in 0..MaxFailures
    BY <1>1, <1>21, FederationAssumption DEF WatchLost, TypeOK
  <2> QED
    BY <1>1, <1>21, <2>1, <2>2, EndCycleTyped DEF WatchLost, TypeOK, chainVars, nodeVars
<1>22. CASE EndWait(n)
  BY <1>1, <1>22 DEF EndWait, TypeOK, chainVars, nodeVars, procVars, bootVars, Goto, Labels
<1>23. CASE Recheck(n)
  <2>1. mode' \in [Operator -> {"passive", "active"}]
    BY <1>1, <1>23 DEF Recheck, StartService, TypeOK
  <2> QED
    BY <1>1, <1>23, <2>1, EndCycleTyped DEF Recheck, TypeOK, chainVars, nodeVars
<1> QED
  BY <1>5, <1>6, <1>7, <1>8, <1>9, <1>10, <1>11, <1>12, <1>13, <1>14, <1>15, <1>16,
     <1>17, <1>18, <1>19, <1>20, <1>21, <1>22, <1>23 DEF Cycle

\* What the three ways to produce block b have in common.
Produces(b) ==
  /\ Publish(b)
  /\ UNCHANGED <<view, cycleVars, procVars, failures>>
  /\ leader' = IF b.taken THEN [leader EXCEPT ![GroupOf[b.sender]] = b.sender] ELSE leader
  /\ \/ b.sender = NoLeader /\ ~b.taken /\ UNCHANGED pool
     \/ \E tx \in pool :
          /\ b.sender = tx.sender
          /\ b.taken <=> Register!MayTake(leader[GroupOf[tx.sender]], tx.sender, tx.reported)
          /\ pool' = pool \ {tx}
     \/ /\ b.sender \in Sentinel \ Operator
        /\ b.taken
        /\ \A n \in Operator : GroupOf[n] # GroupOf[b.sender]
        /\ UNCHANGED pool

\* Every step produces a block or is one of a node.
LEMMA StepCases ==
  ASSUME TypeOK, Next
  PROVE  \/ \E b \in Blocks : Produces(b)
         \/ \E n \in Operator : Import(n) \/ Cycle(n) \/ Process(n)
<1>1. ASSUME NEW beats \in SUBSET Node, ProduceQuietBlock(beats)
      PROVE  \E b \in Blocks : Produces(b)
  <2> DEFINE b == Block(beats, NoLeader, FALSE)
  <2>1. b \in Blocks /\ b.sender = NoLeader /\ b.taken = FALSE
    BY DEF Block, Blocks
  <2>2. Produces(b)
    BY <1>1, <2>1 DEF ProduceQuietBlock, Produces
  <2> QED
    BY <2>1, <2>2
<1>2. ASSUME NEW beats \in SUBSET Node, NEW tx \in pool, ProduceLeaderBlock(beats, tx)
      PROVE  \E b \in Blocks : Produces(b)
  <2> DEFINE ok == Register!MayTake(leader[GroupOf[tx.sender]], tx.sender, tx.reported)
             b == Block(beats, tx.sender, ok)
  <2>1. tx.sender \in Node /\ ok \in BOOLEAN
    BY DEF TypeOK, Node, Register!MayTake
  <2>2. /\ b \in Blocks /\ b.sender = tx.sender /\ b.taken = ok
    <3> HIDE DEF ok
    <3> QED
      BY <2>1 DEF Block, Blocks
  <2>3. leader' = IF b.taken THEN [leader EXCEPT ![GroupOf[b.sender]] = b.sender] ELSE leader
    BY <1>2, <2>2 DEF ProduceLeaderBlock, Register!Take
  <2>4. pool' = pool \ {tx} /\ Publish(b) /\ UNCHANGED <<view, cycleVars, procVars, failures>>
    BY <1>2 DEF ProduceLeaderBlock
  <2>5. Produces(b)
    BY <2>2, <2>3, <2>4 DEF Produces
  <2> QED
    BY <2>2, <2>5
<1>3. ASSUME NEW s \in Sentinel, ProduceForeignBlock(s)
      PROVE  \E b \in Blocks : Produces(b)
  <2> DEFINE b == Block(Steady, s, TRUE)
  <2>1. /\ b \in Blocks /\ b.sender = s /\ b.taken = TRUE
    BY FederationAssumption DEF Block, Blocks, Node
  <2>2. s \notin Operator
    BY <1>3 DEF ProduceForeignBlock
  <2>3. Produces(b)
    BY <1>3, <2>1, <2>2 DEF ProduceForeignBlock, Produces
  <2> QED
    BY <2>1, <2>3
<1> QED
  BY <1>1, <1>2, <1>3 DEF Next

\* The types are inductive.
LEMMA TypeInit == Init => Typed
<1> SUFFICES ASSUME Init PROVE Typed
  OBVIOUS
<1>1. 0 \in 0..MaxHeight /\ 0 \in 0..MaxFailures /\ 0 \in 0..Threshold
  BY FederationAssumption
<1>2. leader \in Leaders
  BY DEF Init, Register!Init, Leaders
<1>3. <<>> \in Seq(Blocks) /\ Len(<<>>) = 0
  BY EmptySeq
<1>4. view \in [Operator -> [leader : Leaders, beat : [Node -> 0..MaxHeight]]]
  BY <1>1, <1>2 DEF Init
<1>5. backlog \in [Operator -> Seq(Blocks)] /\ BacklogInChain
  BY <1>3 DEF Init, BacklogInChain
<1> QED
  BY <1>1, <1>2, <1>4, <1>5 DEF Init, Typed, TypeOK, Labels

\* What a chain node's storage becomes when it imports is well typed.
LEMMA ImportTyped ==
  ASSUME Typed, NEW n \in Operator, Import(n)
  PROVE  Typed'
<1> DEFINE b == Head(backlog[n])
<1>1. TypeOK /\ b \in Blocks /\ Best(n) + 1 \in 0..MaxHeight
  BY ImportEffect, FederationAssumption DEF Typed
<1>2. b.beats \in SUBSET Node /\ b.taken \in BOOLEAN /\ (b.taken => b.sender \in Node \cup {NoLeader})
  BY <1>1 DEF Blocks
<1>3. view[n].leader \in Leaders /\ view[n].beat \in [Node -> 0..MaxHeight]
      /\ known[n] \in [Node -> 0..MaxHeight]
  BY <1>1 DEF TypeOK
<1> HIDE DEF b
<1>4. ViewAfter(n, b) \in [leader : Leaders, beat : [Node -> 0..MaxHeight]]
  BY <1>1, <1>2, <1>3 DEF ViewAfter, Leaders
<1>5. BeatsHeard(n, b) \in [Node -> 0..MaxHeight]
  BY <1>1, <1>3 DEF BeatsHeard
<1>6. view' \in [Operator -> [leader : Leaders, beat : [Node -> 0..MaxHeight]]]
  BY <1>1, <1>4 DEF Import, TypeOK, b
<1>7. known' \in [Operator -> [Node -> 0..MaxHeight]]
  BY <1>1, <1>5 DEF Import, TypeOK, b
<1>8. mode' \in [Operator -> {"passive", "active"}]
  BY <1>1 DEF Import, TypeOK
<1>9. watch' \in [Operator -> {"none", "taken", "refused"}]
  BY <1>1 DEF Import, TypeOK
<1>10. missed' \in [Operator -> SUBSET Node]
  BY <1>1, <1>2 DEF Import, MissedAfter, TypeOK, b
<1> QED
  BY <1>1, <1>6, <1>7, <1>8, <1>9, <1>10, ImportEffect DEF Import, Typed, TypeOK, chainVars

LEMMA TypeStep == Typed /\ [Next]_vars => Typed'
<1> SUFFICES ASSUME Typed, [Next]_vars PROVE Typed'
  OBVIOUS
<1>1. TypeOK
  BY DEF Typed
<1>2. CASE UNCHANGED vars
  BY <1>2 DEF vars, chainVars, nodeVars, cycleVars, procVars, bootVars, Typed, TypeOK, BacklogInChain
<1>3. ASSUME NEW b \in Blocks, Produces(b)
      PROVE  Typed'
  <2>1. /\ height' \in 0..MaxHeight /\ backlog' \in [Operator -> Seq(Blocks)]
        /\ BacklogInChain'
    BY <1>3, PublishEffect DEF Produces
  <2>2. leader' \in Leaders
    BY <1>1, <1>3 DEF Produces, TypeOK, Leaders, Blocks
  <2>3. pool' \subseteq pool
    BY <1>3 DEF Produces
  <2> QED
    BY <1>1, <1>3, <2>1, <2>2, <2>3 DEF Produces, Typed, TypeOK, cycleVars, procVars, bootVars
<1>4. ASSUME NEW n \in Operator, Crash(n)
      PROVE  Typed'
  <2>1. 0 \in 0..MaxHeight /\ 0 \in 0..Threshold
    BY FederationAssumption
  <2>2. failures' \in 0..MaxFailures
    BY <1>1, <1>4, FederationAssumption DEF Crash, TypeOK
  <2>3. known' \in [Operator -> [Node -> 0..MaxHeight]] /\ quiet' \in [Operator -> 0..Threshold]
    BY <1>1, <1>4, <2>1 DEF Crash, TypeOK
  <2>4. stage' \in [Operator -> {"down", "booting", "running"}]
        /\ unfilled' \in [Operator -> SUBSET Node] /\ missed' \in [Operator -> SUBSET Node]
    BY <1>1, <1>4 DEF Crash, TypeOK
  <2> QED
    BY <1>1, <1>4, <2>2, <2>3, <2>4, EndCycleTyped
    DEF Crash, Typed, TypeOK, BacklogInChain, chainVars, nodeVars
<1>5. ASSUME NEW n \in Operator, Restart(n)
      PROVE  Typed'
  <2>1. mode' \in [Operator -> {"passive", "active"}]
        /\ stage' \in [Operator -> {"down", "booting", "running"}]
        /\ unfilled' \in [Operator -> SUBSET Node]
    BY <1>1, <1>5 DEF Restart, TypeOK, StartService
  <2> QED
    BY <1>1, <1>5, <2>1
    DEF Restart, Typed, TypeOK, BacklogInChain, chainVars, nodeVars, cycleVars
<1>6. ASSUME NEW n \in Operator, NEW m \in Node, FillHeartbeat(n, m)
      PROVE  Typed'
  <2>1. 0 \in 0..MaxHeight /\ view[n].beat[m] \in 0..MaxHeight
    BY <1>1, FederationAssumption DEF TypeOK
  <2>2. /\ known \in [Operator -> [Node -> 0..MaxHeight]]
        /\ missed \in [Operator -> SUBSET Node] /\ unfilled \in [Operator -> SUBSET Node]
    BY <1>1 DEF TypeOK
  <2>3. PICK block \in 0..MaxHeight : known' = [known EXCEPT ![n][m] = block]
    BY <1>6, <2>1 DEF FillHeartbeat
  <2>4. known' \in [Operator -> [Node -> 0..MaxHeight]]
    BY <2>2, <2>3
  <2>5. /\ missed' = missed \/ missed' = [missed EXCEPT ![n] = @ \cup {m}]
        /\ unfilled' = [unfilled EXCEPT ![n] = @ \ {m}]
    BY <1>6 DEF FillHeartbeat
  <2>6. missed' \in [Operator -> SUBSET Node] /\ unfilled' \in [Operator -> SUBSET Node]
    BY <2>2, <2>5
  <2> QED
    BY <1>1, <1>6, <2>4, <2>6
    DEF FillHeartbeat, Typed, TypeOK, BacklogInChain, chainVars, nodeVars, cycleVars
<1>7. ASSUME NEW n \in Operator, Listen(n)
      PROVE  Typed'
  BY <1>1, <1>7 DEF Listen, Typed, TypeOK, BacklogInChain, chainVars, nodeVars, cycleVars
<1> QED
  BY <1>1, <1>2, <1>3, <1>4, <1>5, <1>6, <1>7, StepCases, ImportTyped, CycleTyped DEF Process

LEMMA TypedAlways == Spec => []Typed
<1> QED
  BY TypeInit, TypeStep, PTL DEF Spec

\* Type correctness of a federation of any size: every number an orchestrator
\* remembers is one of a block there is, and the failed read of the leader
\* never gets into a transaction.
THEOREM Typing == Spec => []TypeOK
<1>1. Typed => TypeOK
  BY DEF Typed
<1> QED
  BY <1>1, TypedAlways, PTL
-----------------------------------------------------------------------------
(* An active node is the leader it sees                                    *)

\* A service that boots is passive: only then is the leader it saw before the
\* crash, while it missed events, of no importance.
BootsPassive == \A n \in Operator : stage[n] = "booting" => mode[n] = "passive"

ActiveInv == ActiveIsLeaderSeen /\ BootsPassive

\* A cycle turns its service active in its last look at the leader alone.
LEMMA CycleMode ==
  ASSUME TypeOK, NEW n \in Operator, Cycle(n)
  PROVE  /\ \A m \in Operator \ {n} : mode'[m] = mode[m]
         /\ \/ mode'[n] = mode[n]
            \/ mode'[n] = "passive"
            \/ At(n, "recheck") /\ LeaderSeen(n) = n /\ mode'[n] = "active" /\ EndCycle(n)
<1> USE DEF TypeOK, EnforcePassive, StartService
<1>1. CASE ChecksFail(n) \/ CountQuietLeader(n) \/ JudgeAlive(n) \/ CannotSubmit(n)
           \/ LeadershipRefused(n) \/ TransactionGone(n)
  BY <1>1 DEF ChecksFail, CountQuietLeader, JudgeAlive, CannotSubmit, LeadershipRefused,
              TransactionGone
<1>2. CASE \/ ChecksPass(n) \/ ReadLeader(n) \/ GroupNotLeaded(n) \/ LeaderIsSelf(n)
           \/ ChallengeQuietLeader(n) \/ LookUpHeartbeat(n) \/ JudgeDown(n)
           \/ SubmitSetLeader(n) \/ SubmitThrows(n) \/ LeadershipTaken(n) \/ EndWait(n)
  <2>1. mode' = mode
    BY <1>2 DEF procVars, bootVars, ChecksPass, ReadLeader, GroupNotLeaded, LeaderIsSelf,
                ChallengeQuietLeader, LookUpHeartbeat, JudgeDown, SubmitSetLeader,
                SubmitThrows, LeadershipTaken, EndWait
  <2> QED
    BY <2>1
<1>3. CASE WatchLost(n)
  BY <1>3 DEF WatchLost
<1>4. CASE Recheck(n)
  BY <1>4 DEF Recheck
<1> QED
  BY <1>1, <1>2, <1>3, <1>4 DEF Cycle

\* A listener handles the event of a leader it is not with its own chain node
\* naming that leader.
LEMMA ImportLeader ==
  ASSUME Typed, NEW n \in Operator, Import(n)
  PROVE  /\ \A m \in Operator \ {n} : view'[m] = view[m] /\ mode'[m] = mode[m]
         /\ mode'[n] = IF Running(n) /\ LostTo(n, backlog[n][1]) THEN "passive" ELSE mode[n]
         /\ \A g \in Group :
              view'[n].leader[g] = IF backlog[n][1].taken /\ GroupOf[backlog[n][1].sender] = g
                                   THEN backlog[n][1].sender ELSE view[n].leader[g]
         /\ \A m \in Node :
              view'[n].beat[m] = IF m \in backlog[n][1].beats THEN Best(n) + 1 ELSE view[n].beat[m]
<1> DEFINE b == backlog[n][1]
<1>1. b = Head(backlog[n])
  BY ImportEffect
<1>2. view' = [view EXCEPT ![n] = ViewAfter(n, b)]
      /\ mode' = [mode EXCEPT ![n] = IF Running(n) /\ LostTo(n, b) THEN "passive" ELSE @]
  BY <1>1 DEF Import
<1>3. view \in [Operator -> [leader : Leaders, beat : [Node -> 0..MaxHeight]]]
      /\ mode \in [Operator -> {"passive", "active"}]
  BY DEF Typed, TypeOK
<1>4. view[n].leader \in [Group -> Node \cup {NoLeader}]
  BY <1>3 DEF Leaders
<1> HIDE DEF b
<1>5. view'[n].leader = IF b.taken THEN [view[n].leader EXCEPT ![GroupOf[b.sender]] = b.sender]
                                   ELSE view[n].leader
  BY <1>2, <1>3 DEF ViewAfter
<1>6. \A m \in Node : view'[n].beat[m] = IF m \in b.beats THEN Best(n) + 1 ELSE view[n].beat[m]
  BY <1>2, <1>3 DEF ViewAfter
<1>7. \A g \in Group :
        view'[n].leader[g] = IF b.taken /\ GroupOf[b.sender] = g THEN b.sender
                                                                 ELSE view[n].leader[g]
  BY <1>4, <1>5
<1>8. /\ \A m \in Operator \ {n} : view'[m] = view[m] /\ mode'[m] = mode[m]
      /\ mode'[n] = IF Running(n) /\ LostTo(n, b) THEN "passive" ELSE mode[n]
  BY <1>2, <1>3
<1> QED
  BY <1>6, <1>7, <1>8 DEF b

LEMMA ActiveInit == Init => ActiveInv
BY DEF Init, ActiveInv, ActiveIsLeaderSeen, BootsPassive

LEMMA ActiveStep == Typed /\ ActiveInv /\ [Next]_vars => ActiveInv'
<1> SUFFICES ASSUME Typed, ActiveInv, [Next]_vars PROVE ActiveInv'
  OBVIOUS
<1> USE DEF ActiveInv, ActiveIsLeaderSeen, BootsPassive, Running, LeaderSeen
<1>1. TypeOK
  BY DEF Typed
<1>2. CASE UNCHANGED vars
  BY <1>2 DEF vars, nodeVars, procVars, bootVars
<1>3. ASSUME NEW b \in Blocks, Produces(b)
      PROVE  ActiveInv'
  BY <1>3 DEF Produces, procVars, bootVars
<1>4. ASSUME NEW n \in Operator, Import(n)
      PROVE  ActiveInv'
  <2>1. stage' = stage
    BY <1>4 DEF Import
  <2>2. \A m \in Operator \ {n} : view'[m] = view[m] /\ mode'[m] = mode[m]
    BY <1>4, ImportLeader
  <2>3. CASE Running(n) /\ LostTo(n, backlog[n][1])
    BY <1>4, <2>1, <2>2, <2>3, ImportLeader
  <2>4. CASE ~(Running(n) /\ LostTo(n, backlog[n][1]))
    <3>1. mode'[n] = mode[n]
      BY <1>4, <2>4, ImportLeader
    <3>2. ASSUME Running(n), mode[n] = "active"
          PROVE  view'[n].leader[GroupOf[n]] = n
      <4>1. GroupOf[n] \in Group /\ view[n].leader[GroupOf[n]] = n
        BY <1>1, <3>2, LeaderSeenTyped
      <4> QED
        BY <1>4, <2>4, <3>2, <4>1, ImportLeader DEF LostTo
    <3> QED
      BY <2>1, <2>2, <3>1, <3>2
  <2> QED
    BY <2>3, <2>4
<1>5. ASSUME NEW n \in Operator, Cycle(n)
      PROVE  ActiveInv'
  <2>1. Running(n) /\ stage' = stage /\ view' = view
    BY <1>5, CycleFrame DEF bootVars
  <2>2. /\ \A m \in Operator \ {n} : mode'[m] = mode[m]
        /\ mode'[n] = "active" => mode[n] = "active" \/ LeaderSeen(n) = n
    BY <1>1, <1>5, CycleMode
  <2> QED
    BY <2>1, <2>2
<1>6. ASSUME NEW n \in Operator, Process(n)
      PROVE  ActiveInv'
  <2>1. view' = view /\ mode \in [Operator -> {"passive", "active"}]
        /\ stage \in [Operator -> {"down", "booting", "running"}]
    BY <1>1, <1>6 DEF Process, Crash, Restart, FillHeartbeat, Listen, nodeVars, TypeOK
  <2>2. \/ mode' = mode /\ stage' = [stage EXCEPT ![n] = "down"]
        \/ mode' = [mode EXCEPT ![n] = "passive"] /\ stage' = [stage EXCEPT ![n] = "booting"]
        \/ mode' = mode /\ stage' = stage
        \/ mode' = mode /\ stage[n] = "booting" /\ stage' = [stage EXCEPT ![n] = "running"]
    BY <1>6 DEF Process, Crash, Restart, FillHeartbeat, Listen, StartService
  <2> QED
    BY <2>1, <2>2
<1> QED
  BY <1>1, <1>2, <1>3, <1>4, <1>5, <1>6, StepCases

LEMMA ActiveAlways == Spec => []ActiveInv
<1> QED
  BY TypedAlways, ActiveInit, ActiveStep, PTL DEF Spec

\* For any federation and any failures: a running service is active only while
\* its own chain node names it as the leader.
THEOREM ActiveIsLeaderSeenHolds == Spec => []ActiveIsLeaderSeen
<1>1. ActiveInv => ActiveIsLeaderSeen
  BY DEF ActiveInv
<1> QED
  BY <1>1, ActiveAlways, PTL

\* A block stands a node down only if it names another leader of its group.
LEMMA StandsDownStep ==
  Typed /\ ActiveInv /\ [Next]_vars =>
    \A n \in Operator :
      /\ Len(backlog'[n]) < Len(backlog[n])
      /\ mode[n] = "active" /\ mode'[n] = "passive"
      => LeaderSeen(n) = n /\ LeaderSeen(n)' # n
<1> SUFFICES ASSUME Typed, ActiveInv, [Next]_vars, NEW n \in Operator,
                    Len(backlog'[n]) < Len(backlog[n]),
                    mode[n] = "active", mode'[n] = "passive"
             PROVE  LeaderSeen(n) = n /\ LeaderSeen(n)' # n
  OBVIOUS
<1>1. TypeOK /\ Len(backlog[n]) \in Nat
  BY BestTyped DEF Typed
<1>2. ASSUME backlog'[n] = backlog[n] PROVE FALSE
  BY <1>1, <1>2
<1>3. ASSUME NEW b \in Blocks, Produces(b) PROVE FALSE
  BY <1>1, <1>3, PublishEffect DEF Produces
<1>4. Import(n)
  <2>1. ASSUME NEW m \in Operator, Import(m), m # n PROVE FALSE
    BY <1>2, <2>1, ImportEffect
  <2>2. ASSUME NEW m \in Operator, Cycle(m) PROVE FALSE
    BY <1>2, <2>2, CycleFrame
  <2>3. ASSUME NEW m \in Operator, Process(m) PROVE FALSE
    BY <1>2, <2>3 DEF Process, Crash, Restart, FillHeartbeat, Listen, nodeVars
  <2>4. ASSUME UNCHANGED vars PROVE FALSE
    BY <1>2, <2>4 DEF vars, nodeVars
  <2> QED
    BY <1>1, <1>3, <2>1, <2>2, <2>3, <2>4, StepCases
<1>5. Running(n) /\ LostTo(n, backlog[n][1])
  BY <1>4, ImportLeader
<1>6. LeaderSeen(n) = n
  BY <1>5 DEF ActiveInv, ActiveIsLeaderSeen
<1>7. GroupOf[n] \in Group
  BY <1>1, LeaderSeenTyped
<1>8. view'[n].leader[GroupOf[n]] = backlog[n][1].sender /\ backlog[n][1].sender # n
  BY <1>4, <1>5, <1>7, ImportLeader DEF LostTo
<1> QED
  BY <1>6, <1>8 DEF LeaderSeen

\* The listener of an active node never stands it down for the events of other
\* groups, for its own or for those of an earlier leader.
THEOREM StandsDownForCauseHolds == Spec => StandsDownForCause
<1> QED
  BY TypedAlways, ActiveAlways, StandsDownStep, PTL DEF Spec, StandsDownForCause
-----------------------------------------------------------------------------
(* The heartbeats map and the chain                                        *)

\* No chain node stores a heartbeat of a block it has not got.
BeatsImported == \A n \in Operator, m \in Node : view[n].beat[m] <= Best(n)

\* What n knows of m is what is stored, but for what it missed.
Tracks(n, m) ==
  known[n][m] = view[n].beat[m] \/ (m \in missed[n] /\ known[n][m] < view[n].beat[m])

\* HeartbeatsFollowChain between a wallet's query and the subscription.
FillFollowsChain ==
  \A n \in Operator, m \in Node :
    stage[n] = "booting" /\ m \notin unfilled[n] => Tracks(n, m)

HeartbeatsInv == BeatsImported /\ FillFollowsChain /\ HeartbeatsFollowChain

\* A running listener takes down the heartbeats its chain node stores with the
\* block, under the same number; before the subscription it takes down none.
LEMMA ImportKnown ==
  ASSUME Typed, NEW n \in Operator, Import(n)
  PROVE  /\ \A m \in Operator \ {n} : known'[m] = known[m]
         /\ \A m \in Node :
              known'[n][m] = IF Running(n) /\ m \in backlog[n][1].beats THEN Best(n) + 1
                                                                       ELSE known[n][m]
<1> DEFINE b == backlog[n][1]
<1>1. b = Head(backlog[n])
  BY ImportEffect
<1>2. known' = [known EXCEPT ![n] = IF Running(n) THEN BeatsHeard(n, b) ELSE @]
  BY <1>1 DEF Import
<1>3. known \in [Operator -> [Node -> 0..MaxHeight]]
  BY DEF Typed, TypeOK
<1> HIDE DEF b
<1>4. CASE Running(n)
  BY <1>2, <1>3, <1>4 DEF BeatsHeard, b
<1>5. CASE ~Running(n)
  BY <1>2, <1>3, <1>5
<1> QED
  BY <1>4, <1>5

LEMMA HeartbeatsInit == Init => HeartbeatsInv
<1> SUFFICES ASSUME Init PROVE HeartbeatsInv
  OBVIOUS
<1>1. ASSUME NEW n \in Operator PROVE Best(n) = 0
  <2>1. <<>> \in Seq(Blocks) /\ Len(<<>>) = 0
    BY EmptySeq
  <2>2. Len(backlog[n]) = 0 /\ height = 0
    BY <2>1 DEF Init
  <2> QED
    BY <2>2 DEF Best
<1>2. \A n \in Operator, m \in Node :
        stage[n] = "running" /\ view[n].beat[m] = 0 /\ known[n][m] = 0
  BY DEF Init
<1> QED
  BY <1>1, <1>2 DEF HeartbeatsInv, BeatsImported, FillFollowsChain, HeartbeatsFollowChain

LEMMA HeartbeatsStep == Typed /\ HeartbeatsInv /\ [Next]_vars => HeartbeatsInv'
<1> SUFFICES ASSUME Typed, HeartbeatsInv, [Next]_vars PROVE HeartbeatsInv'
  OBVIOUS
<1> USE DEF HeartbeatsInv, Running
<1>1. TypeOK
  BY DEF Typed
<1>2. \A n \in Operator :
        /\ Best(n) \in Nat
        /\ \A m \in Node : view[n].beat[m] \in Nat /\ known[n][m] \in Nat
  BY <1>1, BestTyped, FederationAssumption DEF TypeOK
<1>3. ASSUME UNCHANGED <<view, bootVars, known>>,
             \A n \in Operator : Best(n)' = Best(n)
      PROVE  HeartbeatsInv'
  BY <1>3 DEF BeatsImported, FillFollowsChain, HeartbeatsFollowChain, Tracks, bootVars
<1>4. CASE UNCHANGED vars
  BY <1>3, <1>4 DEF vars, chainVars, nodeVars, procVars, bootVars, Best
<1>5. ASSUME NEW b \in Blocks, Produces(b)
      PROVE  HeartbeatsInv'
  BY <1>3, <1>5, PublishEffect DEF Produces, procVars
<1>6. ASSUME NEW n \in Operator, Import(n)
      PROVE  HeartbeatsInv'
  <2> DEFINE b == backlog[n][1]
  <2>1. /\ UNCHANGED <<stage, unfilled>>
        /\ \A m \in Operator \ {n} : /\ Best(m)' = Best(m) /\ view'[m] = view[m]
                                     /\ known'[m] = known[m] /\ missed'[m] = missed[m]
        /\ Best(n)' = Best(n) + 1
        /\ missed'[n] = MissedAfter(n, b)
    <3>1. missed' = [missed EXCEPT ![n] = MissedAfter(n, b)] /\ UNCHANGED <<stage, unfilled>>
      BY <1>6, ImportEffect DEF Import
    <3>2. missed'[n] = MissedAfter(n, b) /\ \A m \in Operator \ {n} : missed'[m] = missed[m]
      BY <1>1, <3>1 DEF TypeOK
    <3> QED
      BY <1>6, <3>1, <3>2, ImportEffect, ImportLeader, ImportKnown
  <2> HIDE DEF b
  <2>2. \A m \in Node :
          \/ m \in b.beats /\ view'[n].beat[m] = Best(n) + 1
             /\ known'[n][m] = IF Running(n) THEN Best(n) + 1 ELSE known[n][m]
          \/ m \notin b.beats /\ view'[n].beat[m] = view[n].beat[m] /\ known'[n][m] = known[n][m]
    BY <1>6, ImportLeader, ImportKnown DEF b
  <2>3. BeatsImported'
    BY <1>2, <2>1, <2>2 DEF BeatsImported
  <2>4. FillFollowsChain'
    <3>1. ASSUME NEW k \in Operator \ {n}, NEW m \in Node, stage'[k] = "booting", m \notin unfilled'[k]
          PROVE  Tracks(k, m)'
      BY <2>1, <3>1 DEF FillFollowsChain, Tracks
    <3>2. ASSUME NEW m \in Node, stage'[n] = "booting", m \notin unfilled'[n]
          PROVE  Tracks(n, m)'
      <4>1. Tracks(n, m) /\ missed'[n] = missed[n] \cup (b.beats \ unfilled[n])
        BY <2>1, <3>2 DEF FillFollowsChain, MissedAfter
      <4> QED
        BY <1>2, <2>1, <2>2, <3>2, <4>1 DEF Tracks, BeatsImported
    <3> QED
      BY <3>1, <3>2 DEF FillFollowsChain
  <2>5. HeartbeatsFollowChain'
    <3>1. ASSUME NEW m \in Node, Running(n)
          PROVE  Tracks(n, m)'
      <4>1. Tracks(n, m) /\ missed'[n] = missed[n] \ b.beats
        BY <2>1, <3>1 DEF HeartbeatsFollowChain, Tracks, MissedAfter
      <4> QED
        BY <1>2, <2>2, <3>1, <4>1 DEF Tracks
    <3> QED
      BY <2>1, <3>1 DEF HeartbeatsFollowChain, Tracks
  <2> QED
    BY <2>3, <2>4, <2>5
<1>7. ASSUME NEW n \in Operator, Cycle(n)
      PROVE  HeartbeatsInv'
  BY <1>3, <1>7, CycleFrame DEF Best
<1>8. ASSUME NEW n \in Operator, Process(n)
      PROVE  HeartbeatsInv'
  <2>1. /\ view' = view
        /\ \A m \in Operator : Best(m)' = Best(m)
        /\ \A m \in Operator \ {n} : /\ stage'[m] = stage[m] /\ known'[m] = known[m]
                                     /\ unfilled'[m] = unfilled[m] /\ missed'[m] = missed[m]
    BY <1>1, <1>8 DEF Process, Crash, Restart, FillHeartbeat, Listen, chainVars, nodeVars, Best, TypeOK
  <2>2. BeatsImported'
    BY <2>1 DEF BeatsImported
  <2>3. ASSUME \A m \in Node : stage'[n] = "booting" /\ m \notin unfilled'[n] => Tracks(n, m)',
               stage'[n] = "running" => \A m \in Node : Tracks(n, m)'
        PROVE  HeartbeatsInv'
    BY <2>1, <2>2, <2>3 DEF FillFollowsChain, HeartbeatsFollowChain, Tracks
  <2>4. CASE Crash(n)
    BY <1>1, <2>3, <2>4 DEF Crash, TypeOK
  <2>5. CASE Restart(n)
    BY <1>1, <2>3, <2>5 DEF Restart, TypeOK
  <2>6. ASSUME NEW w \in Node, FillHeartbeat(n, w)
        PROVE  HeartbeatsInv'
    <3>1. /\ stage' = stage
          /\ unfilled'[n] = unfilled[n] \ {w}
          /\ \A m \in Node \ {w} : known'[n][m] = known[n][m]
          /\ missed[n] \subseteq missed'[n]
          /\ \/ known'[n][w] = view[n].beat[w]
             \/ known'[n][w] = 0 /\ w \in missed'[n]
      BY <1>1, <2>6 DEF FillHeartbeat, TypeOK
    <3>2. Tracks(n, w)'
      BY <1>2, <2>1, <3>1 DEF Tracks
    <3>3. \A m \in Node \ {w} : Tracks(n, m) => Tracks(n, m)'
      BY <2>1, <3>1 DEF Tracks
    <3> QED
      BY <2>3, <3>1, <3>2, <3>3 DEF FillFollowsChain, HeartbeatsFollowChain, Tracks
  <2>7. CASE Listen(n)
    <3>1. /\ stage[n] = "booting" /\ unfilled[n] = {} /\ stage'[n] = "running"
          /\ UNCHANGED <<known, missed>>
      BY <1>1, <2>7 DEF Listen, TypeOK
    <3> QED
      BY <2>1, <2>3, <3>1 DEF FillFollowsChain, Tracks
  <2> QED
    BY <1>8, <2>4, <2>5, <2>6, <2>7 DEF Process
<1> QED
  BY <1>1, <1>4, <1>5, <1>6, <1>7, <1>8, StepCases

LEMMA HeartbeatsAlways == Spec => []HeartbeatsInv
<1> QED
  BY TypedAlways, HeartbeatsInit, HeartbeatsStep, PTL DEF Spec

\* For any number of nodes, crashes and restarts: the heartbeats map a running
\* orchestrator lives on is what its chain node stores, but for the wallets it
\* missed at boot, and for those until their next heartbeat.
THEOREM HeartbeatsFollowChainHolds == Spec => []HeartbeatsFollowChain
<1>1. HeartbeatsInv => HeartbeatsFollowChain
  BY DEF HeartbeatsInv
<1> QED
  BY <1>1, HeartbeatsAlways, PTL
-----------------------------------------------------------------------------
(* A leader is challenged for its silence                                  *)

\* What a cycle remembers of the leader's heartbeat until it claims.
SilenceInv ==
  \A n \in Operator :
    /\ pc[n] \in {"idle", "leader", "leaded"} => heard[n] = 0
    /\ pc[n] = "judge" =>
         cur[n] \in Node /\ heard[n] # 0 /\ heard[n] <= view[n].beat[cur[n]]

LEMMA SilenceInit == Init => SilenceInv
BY DEF Init, SilenceInv

LEMMA SilenceCycle ==
  ASSUME Typed, HeartbeatsInv, SilenceInv, NEW n \in Operator, Cycle(n)
  PROVE  SilenceInv'
<1>1. TypeOK /\ Running(n) /\ view' = view
  BY CycleFrame DEF Typed
<1>2. CASE pc'[n] = "idle" /\ heard'[n] = 0
           /\ \A m \in Operator \ {n} : pc'[m] = pc[m] /\ heard'[m] = heard[m] /\ cur'[m] = cur[m]
  BY <1>1, <1>2 DEF SilenceInv
<1>3. CASE ChecksFail(n) \/ CountQuietLeader(n) \/ JudgeAlive(n) \/ CannotSubmit(n)
           \/ SubmitThrows(n) \/ LeadershipRefused(n) \/ TransactionGone(n) \/ WatchLost(n)
           \/ Recheck(n)
  <2>1. EndCycle(n)
    BY <1>3 DEF ChecksFail, CountQuietLeader, JudgeAlive, CannotSubmit, SubmitThrows,
                LeadershipRefused, TransactionGone, WatchLost, Recheck, EnforcePassive
  <2> QED
    BY <1>1, <1>2, <2>1 DEF EndCycle, Goto, TypeOK
<1>4. CASE LookUpHeartbeat(n)
  <2>1. /\ cur[n] \in Node /\ known[n][cur[n]] # 0 /\ cur' = cur
        /\ heard' = [heard EXCEPT ![n] = known[n][cur[n]]]
        /\ pc' = [pc EXCEPT ![n] = "judge"]
    BY <1>4 DEF LookUpHeartbeat, NoLiveness, Goto
  <2>2. known[n][cur[n]] <= view[n].beat[cur[n]]
    <3>1. known[n][cur[n]] \in Nat /\ view[n].beat[cur[n]] \in Nat
      BY <1>1, <2>1, FederationAssumption DEF TypeOK
    <3> QED
      BY <1>1, <2>1, <3>1 DEF HeartbeatsInv, HeartbeatsFollowChain
  <2> QED
    BY <1>1, <2>1, <2>2 DEF SilenceInv, TypeOK
<1>5. CASE \/ ChecksPass(n) \/ ReadLeader(n) \/ GroupNotLeaded(n) \/ LeaderIsSelf(n)
           \/ ChallengeQuietLeader(n) \/ JudgeDown(n)
           \/ SubmitSetLeader(n) \/ LeadershipTaken(n) \/ EndWait(n)
  <2>1. /\ heard' = heard
        /\ \A m \in Operator \ {n} : pc'[m] = pc[m] /\ cur'[m] = cur[m]
        /\ \/ pc[n] \in {"idle", "leader"} /\ pc'[n] \in {"leader", "leaded"}
           \/ pc'[n] \in {"submit", "watching", "settling", "recheck"}
    BY <1>1, <1>5
    DEF TypeOK, At, Goto, GroupLeaded, procVars, bootVars, ChecksPass, ReadLeader, GroupNotLeaded,
        LeaderIsSelf, ChallengeQuietLeader, JudgeDown, SubmitSetLeader, LeadershipTaken, EndWait
  <2> QED
    BY <1>1, <2>1 DEF SilenceInv
<1> QED
  BY <1>3, <1>4, <1>5 DEF Cycle

LEMMA SilenceStep == Typed /\ HeartbeatsInv /\ SilenceInv /\ [Next]_vars => SilenceInv'
<1> SUFFICES ASSUME Typed, HeartbeatsInv, SilenceInv, [Next]_vars PROVE SilenceInv'
  OBVIOUS
<1>1. TypeOK
  BY DEF Typed
<1>2. CASE UNCHANGED <<view, pc, cur, heard>>
  BY <1>2 DEF SilenceInv
<1>3. CASE UNCHANGED vars
  BY <1>2, <1>3 DEF vars, nodeVars, cycleVars
<1>4. ASSUME NEW b \in Blocks, Produces(b) PROVE SilenceInv'
  BY <1>2, <1>4 DEF Produces, cycleVars
<1>5. ASSUME NEW n \in Operator, Import(n) PROVE SilenceInv'
  <2>1. UNCHANGED <<pc, cur, heard>>
    BY <1>5 DEF Import
  <2>2. \A k \in Operator, m \in Node : view[k].beat[m] \in Nat
    BY <1>1, FederationAssumption DEF TypeOK
  <2>3. Best(n) \in Nat /\ \A m \in Node : view[n].beat[m] <= Best(n)
    BY BestTyped, FederationAssumption DEF HeartbeatsInv, BeatsImported
  <2>4. \A k \in Operator, m \in Node :
          view'[k].beat[m] \in Nat /\ view[k].beat[m] <= view'[k].beat[m]
    BY <1>5, <2>2, <2>3, ImportLeader
  <2>5. \A k \in Operator : heard[k] \in Nat
    BY <1>1, FederationAssumption DEF TypeOK
  <2> QED
    BY <2>1, <2>2, <2>4, <2>5 DEF SilenceInv
<1>6. ASSUME NEW n \in Operator, Process(n) PROVE SilenceInv'
  <2>1. /\ view' = view
        /\ \/ UNCHANGED <<pc, cur, heard>>
           \/ EndCycle(n)
    BY <1>6 DEF Process, Crash, Restart, FillHeartbeat, Listen, nodeVars, cycleVars
  <2> QED
    BY <1>1, <2>1 DEF SilenceInv, EndCycle, Goto, TypeOK
<1> QED
  BY <1>1, <1>3, <1>4, <1>5, <1>6, SilenceCycle, StepCases

LEMMA SilenceAlways == Spec => []SilenceInv
<1> QED
  BY TypedAlways, HeartbeatsAlways, SilenceInit, SilenceStep, PTL DEF Spec

\* A cycle leaves the other orchestrators' cycles alone.
LEMMA CyclePc ==
  ASSUME TypeOK, NEW n \in Operator, Cycle(n)
  PROVE  \A m \in Operator \ {n} : pc'[m] = pc[m]
<1> USE DEF TypeOK, EnforcePassive, EndCycle, Goto, At
<1>1. CASE \/ ChecksFail(n) \/ CountQuietLeader(n) \/ JudgeAlive(n) \/ CannotSubmit(n)
           \/ SubmitThrows(n) \/ LeadershipRefused(n) \/ TransactionGone(n) \/ WatchLost(n)
           \/ Recheck(n)
  BY <1>1 DEF ChecksFail, CountQuietLeader, JudgeAlive, CannotSubmit, SubmitThrows,
              LeadershipRefused, TransactionGone, WatchLost, Recheck
<1>2. CASE ChecksPass(n)
  BY <1>2 DEF ChecksPass
<1>3. CASE \/ ReadLeader(n) \/ GroupNotLeaded(n) \/ LeaderIsSelf(n) \/ ChallengeQuietLeader(n)
           \/ LookUpHeartbeat(n) \/ JudgeDown(n)
  BY <1>3 DEF ReadLeader, GroupNotLeaded, GroupLeaded, LeaderIsSelf, ChallengeQuietLeader,
              LookUpHeartbeat, JudgeDown
<1>4. CASE SubmitSetLeader(n) \/ LeadershipTaken(n) \/ EndWait(n)
  BY <1>4 DEF SubmitSetLeader, LeadershipTaken, EndWait
<1> QED
  BY <1>1, <1>2, <1>3, <1>4 DEF Cycle

\* A cycle adds to the pool a transaction of its own node alone, with the
\* leader it has read, and takes from it none but those of its node.
LEMMA CyclePool ==
  ASSUME TypeOK, NEW n \in Operator, Cycle(n)
  PROVE  \/ pool' = pool
         \/ \E tx \in pool : tx.sender = n /\ pool' = pool \ {tx}
         \/ SubmitSetLeader(n)
<1>1. CASE SubmitSetLeader(n) \/ TransactionGone(n)
  BY <1>1 DEF TransactionGone
<1>2. CASE ~(SubmitSetLeader(n) \/ TransactionGone(n))
  BY <1>2 DEF Cycle, ChecksFail, ChecksPass, ReadLeader, GroupNotLeaded, GroupLeaded,
              LeaderIsSelf, CountQuietLeader, ChallengeQuietLeader, LookUpHeartbeat,
              JudgeDown, JudgeAlive, CannotSubmit, SubmitThrows, LeadershipTaken,
              LeadershipRefused, WatchLost, EndWait, Recheck, chainVars
<1> QED
  BY <1>1, <1>2

\* A cycle goes on to claim from another node for one of two reasons.
LEMMA ChallengeStep ==
  Typed /\ HeartbeatsInv /\ SilenceInv /\ [Next]_vars =>
    \A n \in Operator :
      pc[n] # "submit" /\ pc'[n] = "submit" /\ cur'[n] \in Node \ {n} =>
        IF heard'[n] # 0
        THEN heard'[n] <= view[n].beat[cur'[n]] /\ Best(n) - heard'[n] > AliveTime
        ELSE view[n].beat[cur'[n]] = 0 \/ cur'[n] \in missed[n]
<1> SUFFICES ASSUME Typed, HeartbeatsInv, SilenceInv, [Next]_vars, NEW n \in Operator,
                    pc[n] # "submit", pc'[n] = "submit", cur'[n] \in Node \ {n}
             PROVE  IF heard'[n] # 0
                    THEN heard'[n] <= view[n].beat[cur'[n]] /\ Best(n) - heard'[n] > AliveTime
                    ELSE view[n].beat[cur'[n]] = 0 \/ cur'[n] \in missed[n]
  OBVIOUS
<1>1. TypeOK
  BY DEF Typed
<1>2. ChallengeQuietLeader(n) \/ JudgeDown(n)
  <2>1. ASSUME NEW b \in Blocks, Produces(b) PROVE FALSE
    BY <2>1 DEF Produces, cycleVars
  <2>2. ASSUME NEW m \in Operator, Import(m) PROVE FALSE
    BY <2>2 DEF Import
  <2>3. ASSUME NEW m \in Operator, Process(m) PROVE FALSE
    BY <1>1, <2>3 DEF Process, Crash, Restart, FillHeartbeat, Listen, cycleVars, EndCycle, Goto, TypeOK
  <2>4. ASSUME NEW m \in Operator \ {n}, Cycle(m) PROVE FALSE
    BY <1>1, <2>4, CyclePc
  <2>5. ~(UNCHANGED vars)
    BY DEF vars, cycleVars
  <2>6. Cycle(n)
    BY <1>1, <2>1, <2>2, <2>3, <2>4, <2>5, StepCases
  <2>7. ASSUME ChecksFail(n) \/ CountQuietLeader(n) \/ JudgeAlive(n) \/ CannotSubmit(n)
               \/ SubmitThrows(n) \/ LeadershipRefused(n) \/ TransactionGone(n) \/ WatchLost(n)
               \/ Recheck(n)
        PROVE  FALSE
    BY <1>1, <2>7
    DEF ChecksFail, CountQuietLeader, JudgeAlive, CannotSubmit, SubmitThrows, LeadershipRefused,
        TransactionGone, WatchLost, Recheck, EnforcePassive, EndCycle, Goto, TypeOK
  <2>8. ASSUME ChecksPass(n) \/ ReadLeader(n) \/ LeaderIsSelf(n) \/ LookUpHeartbeat(n)
               \/ SubmitSetLeader(n) \/ LeadershipTaken(n) \/ EndWait(n)
        PROVE  FALSE
    BY <1>1, <2>8
    DEF ChecksPass, ReadLeader, LeaderIsSelf, LookUpHeartbeat, SubmitSetLeader, LeadershipTaken,
        EndWait, Goto, TypeOK
  <2>9. ASSUME GroupNotLeaded(n) PROVE FALSE
    BY <1>1, <2>9 DEF GroupNotLeaded, TypeOK
  <2> QED
    BY <2>6, <2>7, <2>8, <2>9 DEF Cycle
<1>3. UNCHANGED <<cur, heard>> /\ Running(n) /\ cur[n] \in Node
  BY <1>2 DEF ChallengeQuietLeader, JudgeDown, GroupLeaded, At
<1>4. CASE ChallengeQuietLeader(n)
  <2>1. pc[n] = "leaded" /\ known[n][cur[n]] = 0
    BY <1>3, <1>4 DEF ChallengeQuietLeader, GroupLeaded, At, NoLiveness
  <2>2. heard[n] = 0
    BY <2>1 DEF SilenceInv
  <2> QED
    BY <1>3, <2>1, <2>2 DEF HeartbeatsInv, HeartbeatsFollowChain
<1>5. CASE JudgeDown(n)
  <2>1. PICK best \in BestRead(n) : best - heard[n] > AliveTime
    BY <1>5 DEF JudgeDown, LeaderIsDown
  <2>2. heard[n] \in Nat /\ AliveTime \in Nat
    BY <1>1, FederationAssumption DEF TypeOK
  <2>3. best = Best(n)
    BY <2>1, <2>2 DEF BestRead
  <2>4. heard[n] # 0 /\ heard[n] <= view[n].beat[cur[n]]
    BY <1>5 DEF JudgeDown, At, SilenceInv
  <2> QED
    BY <1>3, <2>1, <2>3, <2>4
<1> QED
  BY <1>2, <1>4, <1>5

\* For any federation and any failures: a node is not challenged but for its
\* silence, as the challenger's own chain node shows it, whatever queries fail
\* and whatever is imported between the reads of the heartbeat and of the best
\* block.
THEOREM ChallengedWasSilentHolds == Spec => ChallengedWasSilent
<1> QED
  BY TypedAlways, HeartbeatsAlways, SilenceAlways, ChallengeStep, PTL DEF Spec, ChallengedWasSilent
=============================================================================
