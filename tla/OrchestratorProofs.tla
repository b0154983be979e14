------------------------- MODULE OrchestratorProofs -------------------------
(* Type correctness of the orchestrator, and that the service is active     *)
(* only on the leader, for any rivals, thresholds and service modes.        *)
EXTENDS Orchestrator, TLAPS

\* Every initial state has the types.
LEMMA TypeInit == Init => TypeOK
<1> SUFFICES ASSUME Init PROVE TypeOK
  OBVIOUS
<1>1. flags \in BOOLEAN \X BOOLEAN \X BOOLEAN
  BY DEF Init, flags
<1>2. noReadyCount \in 0..NoReadyThreshold /\ noLivenessFromLeader \in 0..NoLivenessThreshold
  BY OrchestratorAssumption DEF Init
<1>3. /\ pc \in [Activity -> {"idle", "checks", "ready", "leader", "submit", "settling",
                              "recheck", "waiting"}]
      /\ cur \in [Activity -> Rival \cup {Self, NoLeader}]
  BY DEF Init
<1>4. serviceMode \in ServiceMode /\ mode \in {"passive", "active", "noservice"}
  BY DEF Init
<1>5. beating \in BOOLEAN /\ ready \in BOOLEAN
  BY DEF Init
<1>6. /\ ownAge \in 0..AliveTime
      /\ liveness \in [Rival -> {"unheard", "alive", "silent"}]
      /\ leader \in Rival \cup {Self, NoLeader}
  BY DEF Init
<1> QED
  BY <1>1, <1>2, <1>3, <1>4, <1>5, <1>6 DEF TypeOK

\* A step of the cycle before leadership keeps the types.
LEMMA ChecksTyped ==
  ASSUME TypeOK, StartCycle \/ Checks
  PROVE  TypeOK'
<1> USE OrchestratorAssumption
<1> USE DEF TypeOK, flags, counters, env, Activity
<1>1. CASE StartCycle
  BY <1>1 DEF StartCycle, Goto, StartService
<1>2. CASE ChainUnavailable
  BY <1>2 DEF ChainUnavailable, Fail, Forcing, Return, StartService
<1>3. CASE NobodyAlive
  BY <1>3 DEF NobodyAlive, Fail, Forcing, Return, StartService
<1>4. CASE SomebodyAlive
  BY <1>4 DEF SomebodyAlive, Goto
<1>5. CASE ServiceReady
  <2>1. flags' \in BOOLEAN \X BOOLEAN \X BOOLEAN
    BY <1>5 DEF ServiceReady
  <2>2. /\ pc' \in [Activity -> {"idle", "checks", "ready", "leader", "submit", "settling",
                                 "recheck", "waiting"}]
        /\ cur' \in [Activity -> Rival \cup {Self, NoLeader}]
        /\ mode' \in {"passive", "active", "noservice"}
    BY <1>5 DEF ServiceReady, Cleared, Goto, Fail, Return, StartService
  <2>3. noReadyCount' = 0
    BY <1>5 DEF ServiceReady
  <2>4. UNCHANGED <<serviceMode, noLivenessFromLeader, env>>
    BY <1>5 DEF ServiceReady
  <2> QED
    BY <2>1, <2>2, <2>3, <2>4
<1>6. CASE WaitForService
  BY <1>6 DEF WaitForService, Cleared, Goto, Fail, Return, StartService
<1>7. CASE GiveUpOnService
  BY <1>7 DEF GiveUpOnService, Fail, Return, StartService
<1>8. CASE ServiceNotReady
  BY <1>8 DEF ServiceNotReady, Fail, Return, StartService
<1> QED
  BY <1>1, <1>2, <1>3, <1>4, <1>5, <1>6, <1>7, <1>8 DEF Checks

\* A step towards leadership keeps the types.
LEMMA LeadershipTyped ==
  ASSUME TypeOK, NEW p \in Activity, Leadership(p) \/ Outcome(p)
  PROVE  TypeOK'
<1> USE OrchestratorAssumption
<1> USE DEF TypeOK, flags, counters, env, Activity
<1>1. CASE LeaderIsSelf(p)
  BY <1>1 DEF LeaderIsSelf, Goto, Return, StartService
<1>2. CASE GroupNotLeaded(p)
  BY <1>2 DEF GroupNotLeaded, BecomeLeader
<1>3. CASE ForceTakeOver(p)
  BY <1>3 DEF ForceTakeOver, BecomeLeader
<1>4. CASE CountUnheardLeader
  BY <1>4 DEF CountUnheardLeader, Fail, Return, StartService
<1>5. CASE ChallengeUnheardLeader
  BY <1>5 DEF ChallengeUnheardLeader, OtherLeader, BecomeLeader
<1>6. CASE ChallengeSilentLeader
  BY <1>6 DEF ChallengeSilentLeader, OtherLeader, BecomeLeader
<1>7. CASE YieldToLeader
  BY <1>7 DEF YieldToLeader, Fail, Return, StartService
<1>8. CASE EndWait(p)
  BY <1>8 DEF EndWait, Goto
<1>9. CASE Recheck(p)
  BY <1>9 DEF Recheck, Return, StartService
<1>10. CASE LeadershipTaken(p)
  BY <1>10 DEF LeadershipTaken, Goto
<1>11. CASE LeadershipRefused(p)
  BY <1>11 DEF LeadershipRefused, Fail, Return, StartService
<1>12. CASE SubmitThrows(p)
  BY <1>12 DEF SubmitThrows, Return
<1> QED
  BY <1>1, <1>2, <1>3, <1>4, <1>5, <1>6, <1>7, <1>8, <1>9, <1>10, <1>11, <1>12
  DEF Leadership, Outcome

\* An HTTP request and a step of the environment keep the types.
LEMMA OutsideTyped ==
  ASSUME TypeOK, Api \/ Environment
  PROVE  TypeOK'
<1> USE OrchestratorAssumption
<1> USE DEF TypeOK, flags, counters, env, Activity
<1>1. CASE SwitchHeartbeats
  BY <1>1 DEF SwitchHeartbeats
<1>2. CASE EnableOrchestration
  BY <1>2 DEF EnableOrchestration
<1>3. CASE DisableOrchestration
  BY <1>3 DEF DisableOrchestration, Goto
<1>4. CASE OrchestrationDisabled
  BY <1>4 DEF OrchestrationDisabled, Return, StartService
<1>5. CASE RequestPassive
  BY <1>5 DEF RequestPassive, StartService
<1>6. CASE RequestActive
  BY <1>6 DEF RequestActive, Goto
<1>7. CASE SendHeartbeat
  BY <1>7 DEF SendHeartbeat
<1>8. CASE HeartbeatSettles
  <2>1. ownAge' \in 0..AliveTime
    BY <1>8 DEF HeartbeatSettles
  <2>2. beating' = FALSE
    BY <1>8 DEF HeartbeatSettles
  <2> QED
    BY <1>8, <2>1, <2>2 DEF HeartbeatSettles
<1>9. CASE NewBlock
  BY <1>9 DEF NewBlock
<1>10. CASE ServiceChanges
  BY <1>10 DEF ServiceChanges
<1>11. CASE \E r \in Rival : RivalBeats(r)
  BY <1>11 DEF RivalBeats
<1>12. CASE \E r \in Rival : RivalFallsSilent(r)
  BY <1>12 DEF RivalFallsSilent
<1>13. CASE \E r \in Rival : RivalLeads(r)
  BY <1>13 DEF RivalLeads, StartService
<1> QED
  BY <1>1, <1>2, <1>3, <1>4, <1>5, <1>6, <1>7, <1>8, <1>9, <1>10, <1>11, <1>12, <1>13
  DEF Api, Environment

\* Every variable keeps its type, and neither counter passes its threshold.
THEOREM Typing == Spec => []TypeOK
<1>1. TypeOK /\ [Next]_vars => TypeOK'
  <2> SUFFICES ASSUME TypeOK, [Next]_vars PROVE TypeOK'
    OBVIOUS
  <2>1. CASE UNCHANGED vars
    BY <2>1 DEF TypeOK, vars, flags, counters, env
  <2>2. CASE StartCycle \/ Checks
    BY <2>2, ChecksTyped
  <2>3. CASE Api \/ Environment
    BY <2>3, OutsideTyped
  <2>4. CASE \E p \in Activity : Leadership(p) \/ Outcome(p)
    BY <2>4, LeadershipTyped
  <2> QED
    BY <2>1, <2>2, <2>3, <2>4 DEF Next
<1> QED
  BY TypeInit, <1>1, PTL DEF Spec

-----------------------------------------------------------------------------
\* A node without a service has none to stand down when a rival takes over, so
\* the invariant needs that it never had an active one.
IInv ==
  /\ ActiveIsLeader
  /\ serviceMode = "noservice" => mode # "active"

\* The steps that can disturb ActiveIsLeader: those that start the service as
\* active have just seen the node lead, and the one that takes the leadership
\* away from it stands the service down.
LEMMA ActiveStep ==
  ASSUME IInv, Next
  PROVE  IInv'
<1> USE DEF IInv, ActiveIsLeader, counters, env
<1>1. CASE StartCycle
  BY <1>1 DEF StartCycle, StartService
<1>2. CASE Checks
  BY <1>2 DEF Checks, ChainUnavailable, NobodyAlive, SomebodyAlive, ServiceReady,
     WaitForService, GiveUpOnService, ServiceNotReady, Cleared, Fail, Goto, StartService
<1>3. CASE Api
  BY <1>3 DEF Api, SwitchHeartbeats, EnableOrchestration, DisableOrchestration,
     OrchestrationDisabled, RequestPassive, RequestActive, StartService
<1>4. CASE Environment
  BY <1>4 DEF Environment, SendHeartbeat, HeartbeatSettles, NewBlock, ServiceChanges,
     RivalBeats, RivalFallsSilent, RivalLeads, StartService
<1>5. ASSUME NEW p \in Activity, Leadership(p) \/ Outcome(p)
      PROVE  IInv'
  <2>1. CASE LeaderIsSelf(p)
    BY <2>1 DEF LeaderIsSelf, StartService
  <2>2. CASE Recheck(p)
    BY <2>2 DEF Recheck, StartService
  <2>3. CASE GroupNotLeaded(p) \/ ForceTakeOver(p) \/ EndWait(p)
    BY <2>3 DEF GroupNotLeaded, ForceTakeOver, EndWait, BecomeLeader
  <2>4. CASE CountUnheardLeader \/ ChallengeUnheardLeader \/ ChallengeSilentLeader
                \/ YieldToLeader
    BY <2>4 DEF CountUnheardLeader, ChallengeUnheardLeader, ChallengeSilentLeader,
       YieldToLeader, BecomeLeader, Fail, StartService
  <2>5. CASE Outcome(p)
    BY <2>5 DEF Outcome, LeadershipTaken, LeadershipRefused, SubmitThrows, Fail, StartService
  <2> QED
    BY <1>5, <2>1, <2>2, <2>3, <2>4, <2>5 DEF Leadership
<1> QED
  BY <1>1, <1>2, <1>3, <1>4, <1>5 DEF Next

\* Whatever the cycle, the forced modes, HTTP requests and the listener do to
\* each other, the service is active only while the node leads.
THEOREM ActiveIsLeaderHolds == Spec => []ActiveIsLeader
<1>1. Init => IInv
  BY DEF Init, IInv, ActiveIsLeader
<1>2. IInv /\ UNCHANGED vars => IInv'
  BY DEF IInv, ActiveIsLeader, vars, env
<1>3. IInv /\ Next => IInv'
  BY ActiveStep
<1>4. IInv => ActiveIsLeader
  BY DEF IInv
<1> QED
  BY <1>1, <1>2, <1>3, <1>4, PTL DEF Spec
=============================================================================
