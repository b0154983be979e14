---------------------------- MODULE Orchestrator ----------------------------
(***************************************************************************)
(* One orchestrator process: what its switches, counters and forced modes  *)
(* do to the service, while the orchestration cycle, the heartbeat loop,   *)
(* the event listener and HTTP requests interleave at their awaits.        *)
(*                                                                         *)
(* Federation has the protocol between nodes; here the rest of the         *)
(* federation is an environment.  Chain lag is left out (the listener      *)
(* handles a rival's take-over in the step that makes it), and so are      *)
(* crashes and failing reads.  HTTP requests come one at a time.           *)
(***************************************************************************)
EXTENDS Naturals

CONSTANTS Rival,                \* the other nodes of the group
          Self, NoLeader,
          AliveTime,            \* config.aliveTime, in blocks
          NoLivenessThreshold,
          NoReadyThreshold,
          ServiceMode,          \* config.serviceMode: the values considered, and
                                \* "noservice" for a node of that role
          Requests,             \* the kinds of HTTP requests considered
          ChainFails            \* canSendTransactions may be false

ASSUME OrchestratorAssumption ==
  /\ Self \notin Rival
  /\ NoLeader \notin Rival \cup {Self}
  /\ AliveTime \in Nat \ {0}
  /\ NoLivenessThreshold \in Nat
  /\ NoReadyThreshold \in Nat
  /\ ServiceMode \subseteq {"orchestrator", "passive", "active", "noservice"}
  /\ Requests \subseteq {"heartbeats", "orchestration", "passive", "active"}
  /\ ChainFails \in BOOLEAN

VARIABLES
  serviceMode,
  orchestrationEnabled,
  heartbeatSendEnabled,         \* switched by the readiness management
  heartbeatSendEnabledAdmin,    \* switched by HTTP requests
  noReadyCount,
  noLivenessFromLeader,
  mode,                         \* service.mode, "noservice" without a service
  pc, cur,                      \* place and local leader of each activity
  (* environment *)
  beating,                      \* a heartbeat transaction is on its way
  ownAge,                       \* blocks since the node's last heartbeat,
                                \* AliveTime standing for that or more
  liveness,                     \* rival -> what its heartbeats tell the node
  ready,                        \* what serviceReady would answer
  leader                        \* the leader of the group

flags == <<orchestrationEnabled, heartbeatSendEnabled, heartbeatSendEnabledAdmin>>
counters == <<noReadyCount, noLivenessFromLeader>>
env == <<beating, ownAge, liveness, ready, leader>>
vars == <<serviceMode, flags, counters, mode, pc, cur, env>>

Activity == {"loop", "api"}     \* the orchestration cycle, an HTTP request

Init ==
  /\ serviceMode \in ServiceMode
  /\ orchestrationEnabled \in BOOLEAN
  /\ heartbeatSendEnabled = TRUE
  /\ heartbeatSendEnabledAdmin \in BOOLEAN
  /\ noReadyCount = 0
  /\ noLivenessFromLeader = 0
  /\ mode = IF serviceMode = "noservice" THEN "noservice" ELSE "passive"
  /\ pc = [p \in Activity |-> "idle"]
  /\ cur = [p \in Activity |-> NoLeader]
  /\ beating = FALSE
  /\ ownAge \in 0..AliveTime
  /\ liveness \in [Rival -> {"unheard", "alive", "silent"}]
  /\ ready \in BOOLEAN
  /\ leader \in Rival \cup {NoLeader}

At(p, label) == pc[p] = label

\* serviceStart sets service.mode before it awaits anything.
StartService(m) == mode' = IF serviceMode = "noservice" THEN mode ELSE m

Goto(p, label) == pc' = [pc EXCEPT ![p] = label] /\ UNCHANGED cur

Return(p) ==
  /\ pc' = [pc EXCEPT ![p] = "idle"]
  /\ cur' = [cur EXCEPT ![p] = NoLeader]

\* forceActive runs for HTTP requests and for serviceMode "active".
Forcing(p) == p = "api" \/ serviceMode = "active"

\* The activity fails: a cycle enforces passive mode, forceActive gives up.
Fail(p) ==
  /\ Return(p)
  /\ IF Forcing(p) THEN UNCHANGED mode ELSE StartService("passive")

-----------------------------------------------------------------------------
(* The orchestration cycle up to leadership                                *)

StartCycle ==
  /\ At("loop", "idle")
  /\ orchestrationEnabled
  /\ \/ serviceMode = "orchestrator" /\ Goto("loop", "checks") /\ UNCHANGED mode
     \/ serviceMode = "active" /\ Goto("loop", "leader") /\ UNCHANGED mode
     \/ serviceMode = "passive" /\ StartService("passive") /\ UNCHANGED <<pc, cur>>
  /\ UNCHANGED <<serviceMode, flags, counters, env>>

AnyOneAlive == ownAge < AliveTime /\ \E r \in Rival : liveness[r] = "alive"

ChainUnavailable ==
  /\ At("loop", "checks")
  /\ ChainFails
  /\ Fail("loop")
  /\ UNCHANGED <<serviceMode, flags, counters, env>>

NobodyAlive ==
  /\ At("loop", "checks")
  /\ ~AnyOneAlive
  /\ Fail("loop")
  /\ UNCHANGED <<serviceMode, flags, counters, env>>

SomebodyAlive ==
  /\ At("loop", "checks")
  /\ AnyOneAlive
  /\ Goto("loop", "ready")
  /\ UNCHANGED <<serviceMode, flags, counters, mode, env>>

\* Variant for mutation: the administrator's switch is not looked at.
HeartbeatsOnIgnoringAdmin == heartbeatSendEnabled'

\* serviceReadinessManagement returned true: the heartbeat switches come next.
HeartbeatsOn == heartbeatSendEnabled' /\ heartbeatSendEnabledAdmin

Cleared ==
  IF HeartbeatsOn THEN Goto("loop", "leader") /\ UNCHANGED mode ELSE Fail("loop")

ServiceReady ==
  /\ At("loop", "ready")
  /\ ready
  /\ heartbeatSendEnabled' = TRUE
  /\ noReadyCount' = 0
  /\ Cleared
  /\ UNCHANGED <<serviceMode, orchestrationEnabled, heartbeatSendEnabledAdmin,
                 noLivenessFromLeader, env>>

\* Variants for mutation: the count is not kept, or goes on past the threshold.
WaitForServiceUncounted ==
  /\ At("loop", "ready")
  /\ ~ready /\ mode = "active"
  /\ noReadyCount < NoReadyThreshold
  /\ UNCHANGED flags
  /\ Cleared
  /\ UNCHANGED <<serviceMode, counters, env>>

WaitForServiceOnceMore ==
  /\ At("loop", "ready")
  /\ ~ready /\ mode = "active"
  /\ noReadyCount <= NoReadyThreshold
  /\ noReadyCount' = noReadyCount + 1
  /\ UNCHANGED flags
  /\ Cleared
  /\ UNCHANGED <<serviceMode, noLivenessFromLeader, env>>

\* An active service that is not ready is given NoReadyThreshold cycles ...
WaitForService ==
  /\ At("loop", "ready")
  /\ ~ready /\ mode = "active"
  /\ noReadyCount < NoReadyThreshold
  /\ noReadyCount' = noReadyCount + 1
  /\ UNCHANGED flags
  /\ Cleared
  /\ UNCHANGED <<serviceMode, noLivenessFromLeader, env>>

\* ... and then the node falls silent for others to replace it.
GiveUpOnService ==
  /\ At("loop", "ready")
  /\ ~ready /\ mode = "active"
  /\ noReadyCount >= NoReadyThreshold
  /\ heartbeatSendEnabled' = FALSE
  /\ Fail("loop")
  /\ UNCHANGED <<serviceMode, orchestrationEnabled, heartbeatSendEnabledAdmin,
                 counters, env>>

ServiceNotReady ==
  /\ At("loop", "ready")
  /\ ~ready /\ mode # "active"
  /\ noReadyCount' = 0
  /\ Fail("loop")
  /\ UNCHANGED <<serviceMode, flags, noLivenessFromLeader, env>>

-----------------------------------------------------------------------------
(* Leadership: leadershipManagement, or forceActive                        *)

LeaderIsSelf(p) ==
  /\ At(p, "leader")
  /\ leader = Self
  /\ \/ Forcing(p) /\ StartService("active") /\ Return(p)
     \/ ~Forcing(p) /\ Goto(p, "recheck") /\ UNCHANGED mode
  /\ UNCHANGED <<serviceMode, flags, counters, env>>

BecomeLeader(p, reported) ==
  /\ pc' = [pc EXCEPT ![p] = "submit"]
  /\ cur' = [cur EXCEPT ![p] = reported]
  /\ UNCHANGED mode

GroupNotLeaded(p) ==
  /\ At(p, "leader")
  /\ leader = NoLeader
  /\ BecomeLeader(p, Self)
  /\ UNCHANGED <<serviceMode, flags, counters, env>>

ForceTakeOver(p) ==
  /\ At(p, "leader")
  /\ leader \in Rival
  /\ Forcing(p)
  /\ BecomeLeader(p, leader)
  /\ UNCHANGED <<serviceMode, flags, counters, env>>

OtherLeader == At("loop", "leader") /\ leader \in Rival /\ ~Forcing("loop")

CountUnheardLeader ==
  /\ OtherLeader
  /\ liveness[leader] = "unheard"
  /\ noLivenessFromLeader < NoLivenessThreshold
  /\ noLivenessFromLeader' = noLivenessFromLeader + 1
  /\ Fail("loop")
  /\ UNCHANGED <<serviceMode, flags, noReadyCount, env>>

ChallengeUnheardLeader ==
  /\ OtherLeader
  /\ liveness[leader] = "unheard"
  /\ noLivenessFromLeader >= NoLivenessThreshold
  /\ noLivenessFromLeader' = 0
  /\ BecomeLeader("loop", leader)
  /\ UNCHANGED <<serviceMode, flags, noReadyCount, env>>

\* Variant for mutation: the node reports itself instead of the leader.
ChallengeReportingSelf ==
  /\ OtherLeader
  /\ liveness[leader] = "silent"
  /\ BecomeLeader("loop", Self)
  /\ UNCHANGED <<serviceMode, flags, counters, env>>

ChallengeSilentLeader ==
  /\ OtherLeader
  /\ liveness[leader] = "silent"
  /\ BecomeLeader("loop", leader)
  /\ UNCHANGED <<serviceMode, flags, counters, env>>

YieldToLeader ==
  /\ OtherLeader
  /\ liveness[leader] = "alive"
  /\ Fail("loop")
  /\ UNCHANGED <<serviceMode, flags, counters, env>>

\* set_leader succeeds on chain, and its block is finalized.
LeadershipTaken(p) ==
  /\ At(p, "submit")
  /\ leader = NoLeader \/ (cur[p] # Self /\ cur[p] = leader)
  /\ leader' = Self
  /\ Goto(p, "settling")
  /\ UNCHANGED <<serviceMode, flags, counters, mode, beating, ownAge, liveness, ready>>

\* It is refused, dropped or never sent ...
LeadershipRefused(p) ==
  /\ At(p, "submit")
  /\ Fail(p)
  /\ UNCHANGED <<serviceMode, flags, counters, env>>

\* ... or sending it throws, past the end of the cycle or request.
SubmitThrows(p) ==
  /\ At(p, "submit")
  /\ Return(p)
  /\ UNCHANGED <<serviceMode, flags, counters, mode, env>>

EndWait(p) ==
  /\ At(p, "settling")
  /\ Goto(p, "recheck")
  /\ UNCHANGED <<serviceMode, flags, counters, mode, env>>

\* Variant for mutation: forceActive relies on having taken the leadership.
RecheckCycleOnly(p) ==
  /\ At(p, "recheck")
  /\ Return(p)
  /\ IF leader = Self \/ Forcing(p) THEN StartService("active") ELSE UNCHANGED mode
  /\ UNCHANGED <<serviceMode, flags, counters, env>>

Recheck(p) ==
  /\ At(p, "recheck")
  /\ Return(p)
  /\ IF leader = Self THEN StartService("active") ELSE UNCHANGED mode
  /\ UNCHANGED <<serviceMode, flags, counters, env>>

-----------------------------------------------------------------------------
(* HTTP requests                                                           *)

SwitchHeartbeats ==
  /\ "heartbeats" \in Requests
  /\ At("api", "idle")
  /\ heartbeatSendEnabledAdmin' = ~heartbeatSendEnabledAdmin
  /\ UNCHANGED <<serviceMode, orchestrationEnabled, heartbeatSendEnabled, counters,
                 mode, pc, cur, env>>

EnableOrchestration ==
  /\ "orchestration" \in Requests
  /\ At("api", "idle")
  /\ ~orchestrationEnabled
  /\ orchestrationEnabled' = TRUE
  /\ UNCHANGED <<serviceMode, heartbeatSendEnabled, heartbeatSendEnabledAdmin, counters,
                 mode, pc, cur, env>>

DisableOrchestration ==
  /\ "orchestration" \in Requests
  /\ At("api", "idle")
  /\ orchestrationEnabled
  /\ orchestrationEnabled' = FALSE
  /\ Goto("api", "waiting")
  /\ UNCHANGED <<serviceMode, heartbeatSendEnabled, heartbeatSendEnabledAdmin, counters,
                 mode, env>>

\* The 5 s wait of disableOrchestration ends and passive mode is forced.
OrchestrationDisabled ==
  /\ At("api", "waiting")
  /\ Return("api")
  /\ StartService("passive")
  /\ UNCHANGED <<serviceMode, flags, counters, env>>

RequestPassive ==
  /\ "passive" \in Requests
  /\ At("api", "idle")
  /\ StartService("passive")
  /\ UNCHANGED <<serviceMode, flags, counters, pc, cur, env>>

RequestActive ==
  /\ "active" \in Requests
  /\ At("api", "idle")
  /\ serviceMode # "noservice"
  /\ Goto("api", "leader")
  /\ UNCHANGED <<serviceMode, flags, counters, mode, env>>
-----------------------------------------------------------------------------
(* Heartbeat loop, listener and environment                                *)

SendHeartbeat ==
  /\ ~beating
  /\ heartbeatSendEnabled /\ heartbeatSendEnabledAdmin
  /\ beating' = TRUE
  /\ UNCHANGED <<serviceMode, flags, counters, mode, pc, cur, ownAge, liveness, ready, leader>>

\* The NewHeartbeat event of the node's own heartbeat, unless it was dropped.
HeartbeatSettles ==
  /\ beating
  /\ beating' = FALSE
  /\ ownAge' = 0 \/ (ChainFails /\ UNCHANGED ownAge)
  /\ UNCHANGED <<serviceMode, flags, counters, mode, pc, cur, liveness, ready, leader>>

NewBlock ==
  /\ ownAge < AliveTime
  /\ ownAge' = ownAge + 1
  /\ UNCHANGED <<serviceMode, flags, counters, mode, pc, cur, beating, liveness, ready, leader>>

RivalBeats(r) ==
  /\ liveness' = [liveness EXCEPT ![r] = "alive"]
  /\ UNCHANGED <<serviceMode, flags, counters, mode, pc, cur, beating, ownAge, ready, leader>>

RivalFallsSilent(r) ==
  /\ liveness[r] = "alive"
  /\ liveness' = [liveness EXCEPT ![r] = "silent"]
  /\ UNCHANGED <<serviceMode, flags, counters, mode, pc, cur, beating, ownAge, ready, leader>>

\* A rival takes the leadership; the listener starts the service as passive.
RivalLeads(r) ==
  /\ leader # r
  /\ leader' = r
  /\ StartService("passive")
  /\ UNCHANGED <<serviceMode, flags, counters, pc, cur, beating, ownAge, liveness, ready>>

\* The service gets ready or stops being so, on its own account.
ServiceChanges ==
  /\ ready' = ~ready
  /\ UNCHANGED <<serviceMode, flags, counters, mode, pc, cur, beating, ownAge, liveness, leader>>

-----------------------------------------------------------------------------
Checks ==
  \/ ChainUnavailable \/ NobodyAlive \/ SomebodyAlive
  \/ ServiceReady \/ WaitForService \/ GiveUpOnService \/ ServiceNotReady

Leadership(p) ==
  \/ LeaderIsSelf(p) \/ GroupNotLeaded(p) \/ ForceTakeOver(p)
  \/ p = "loop" /\ (CountUnheardLeader \/ ChallengeUnheardLeader
                      \/ ChallengeSilentLeader \/ YieldToLeader)
  \/ EndWait(p) \/ Recheck(p)

\* set_leader's outcome: nothing bounds the time it takes.
Outcome(p) == LeadershipTaken(p) \/ LeadershipRefused(p) \/ SubmitThrows(p)

Api ==
  \/ SwitchHeartbeats \/ EnableOrchestration \/ DisableOrchestration
  \/ OrchestrationDisabled \/ RequestPassive \/ RequestActive

Environment ==
  \/ SendHeartbeat \/ HeartbeatSettles \/ NewBlock \/ ServiceChanges
  \/ \E r \in Rival : RivalBeats(r) \/ RivalFallsSilent(r) \/ RivalLeads(r)

Next ==
  \/ StartCycle \/ Checks \/ Api \/ Environment
  \/ \E p \in Activity : Leadership(p) \/ Outcome(p)

Spec == Init /\ [][Next]_vars

\* setIntervalAsync starts cycle after cycle and heartbeat after heartbeat, and
\* Node.js resumes every await whose answer came; answers to set_leader may
\* take for ever.
FairSpec ==
  /\ Spec
  /\ WF_vars(StartCycle \/ Checks \/ Leadership("loop"))
  /\ WF_vars(SendHeartbeat)
  /\ WF_vars(HeartbeatSettles)

-----------------------------------------------------------------------------
(* Properties                                                              *)

\* Every variable has its type, the two counters within their thresholds.
TypeOK ==
  /\ serviceMode \in ServiceMode
  /\ flags \in BOOLEAN \X BOOLEAN \X BOOLEAN
  /\ noReadyCount \in 0..NoReadyThreshold
  /\ noLivenessFromLeader \in 0..NoLivenessThreshold
  /\ mode \in {"passive", "active", "noservice"}
  /\ pc \in [Activity -> {"idle", "checks", "ready", "leader", "submit", "settling",
                          "recheck", "waiting"}]
  /\ cur \in [Activity -> Rival \cup {Self, NoLeader}]
  /\ beating \in BOOLEAN
  /\ ownAge \in 0..AliveTime
  /\ liveness \in [Rival -> {"unheard", "alive", "silent"}]
  /\ ready \in BOOLEAN
  /\ leader \in Rival \cup {Self, NoLeader}

\* The service is active only on the leader, whichever of the cycle, a forced
\* mode or an HTTP request started it, and whatever the others were doing.
ActiveIsLeader == mode = "active" => leader = Self

\* The cycle is left alone: no request forces active mode or is disabling it.
CycleDecides ==
  serviceMode = "orchestrator" /\ orchestrationEnabled /\ pc["api"] = "idle"

\* No cycle waits for the outcome of set_leader for ever: one that does so while
\* a request forces active mode leaves nobody to stand the service down.
OutcomesCome == []<>~At("loop", "submit")

\* orchestrator.js:338: a leader whose service stays unready gives way: it ends
\* up passive for good, so that the others can take over.
NotReadyGivesWay ==
  <>[](CycleDecides /\ ~ready) /\ OutcomesCome => <>[](mode = "passive")

\* orchestrator.js:201: once the administrator has switched heartbeats off, the
\* node ends up passive for good.
HeartbeatsOffMeansPassive ==
  <>[](CycleDecides /\ ~heartbeatSendEnabledAdmin) /\ OutcomesCome
    => <>[](mode = "passive")

\* orchestrator.js:349, "If service is ready and heartbeat send is disabled we
\* can activate heartbeats send": with the service ready for good and another
\* node alive, heartbeats come back.
HeartbeatsRecover ==
  <>[](/\ orchestrationEnabled
       /\ ready
       /\ \E r \in Rival : liveness[r] = "alive")
    => []<>heartbeatSendEnabled

\* set_leader is only refused for a leader that has changed meanwhile.
RefusedIfOutdated ==
  <>[][LeadershipRefused("loop") \/ SubmitThrows("loop") => leader # cur["loop"]]_vars

\* orchestrator.js:271, "checking if the current leader is alive": a leader that
\* has fallen silent, or was never heard of, is replaced or comes back, as long
\* as this node is fit to replace it: another node is alive, the service is
\* ready, and set_leader goes through.
SilentLeaderReplaced ==
  /\ <>[](/\ CycleDecides /\ AnyOneAlive
          /\ ready /\ heartbeatSendEnabledAdmin)
  /\ <>[][~ChainUnavailable]_vars
  /\ OutcomesCome /\ RefusedIfOutdated
  => \A r \in Rival : []<>(leader # r \/ liveness[r] = "alive")
=============================================================================
