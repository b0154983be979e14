------------------------ MODULE ArchipelPalletProofs ------------------------
(***************************************************************************)
(* Theorems about the pallet, for any sets of accounts and groups and any  *)
(* bounds.                                                                 *)
(***************************************************************************)
EXTENDS ArchipelPallet, TLAPS

\* The storage maps keep their type.
LEMMA InsertTyped ==
  ASSUME NEW K, NEW V, NEW map, map \in PartialMap(K, V),
         NEW key \in K, NEW value \in V
  PROVE  Insert(map, key, value) \in PartialMap(K, V)
<1>1. PICK D \in SUBSET K : map \in [D -> V]
  BY DEF PartialMap
<1>2. Insert(map, key, value) \in [D \cup {key} -> V]
  BY <1>1 DEF Insert
<1>3. D \cup {key} \in SUBSET K
  OBVIOUS
<1> QED
  BY <1>2, <1>3 DEF PartialMap

LEMMA RemoveTyped ==
  ASSUME NEW K, NEW V, NEW map, map \in PartialMap(K, V), NEW key
  PROVE  Remove(map, key) \in PartialMap(K, V)
<1>1. PICK D \in SUBSET K : map \in [D -> V]
  BY DEF PartialMap
<1>2. Remove(map, key) \in [D \ {key} -> V]
  BY <1>1 DEF Remove
<1>3. D \ {key} \in SUBSET K
  OBVIOUS
<1> QED
  BY <1>2, <1>3 DEF PartialMap

-----------------------------------------------------------------------------
(* Types                                                                   *)

\* The event sequence stays well typed when an extrinsic deposits its event.
LEMMA DepositTyped ==
  ASSUME TypeOK, NEW event \in LeadershipEvents \cup HeartbeatEvents,
         DepositEvent(event)
  PROVE  events' \in Seq(LeadershipEvents \cup HeartbeatEvents)
BY DEF TypeOK, DepositEvent

\* add_account keeps the registry well typed: the index it writes to exists
\* even when the count is saturated.
LEMMA AddAccountTyped ==
  ASSUME TypeOK, NEW account \in Account, AddAccount(account)
  PROVE  /\ accounts' \in [U32 -> Account \cup {DefaultAccount}]
         /\ accountsCount' \in U32
         /\ accountsIndex' \in PartialMap(Account, U32)
<1>1. CASE account \in DOMAIN accountsIndex
  BY <1>1 DEF AddAccount, TypeOK, registry
<1>2. CASE account \notin DOMAIN accountsIndex
  <2>1. accountsIndex' \in PartialMap(Account, U32)
    <3>1. accountsIndex \in PartialMap(Account, U32) /\ accountsCount \in U32
      BY DEF TypeOK
    <3>2. Insert(accountsIndex, account, accountsCount) \in PartialMap(Account, U32)
      BY <3>1, InsertTyped
    <3> QED
      BY <1>2, <3>2 DEF AddAccount
  <2>2. accountsCount' \in U32
    BY <1>2, BoundsAssumption DEF AddAccount, TypeOK, SaturatingInc, U32
  <2> QED
    BY <1>2, <2>1, <2>2 DEF AddAccount, TypeOK
<1> QED
  BY <1>1, <1>2

\* The types of TypeOK are inductive.
LEMMA TypeInit == Init => TypeOK
<1> SUFFICES ASSUME Init PROVE TypeOK
  OBVIOUS
<1>1. leaders \in [{} -> Account] /\ accountsIndex \in [{} -> U32]
  BY DEF Init
<1>2. leaders \in PartialMap(Group, Account) /\ accountsIndex \in PartialMap(Account, U32)
  BY <1>1 DEF PartialMap
<1> QED
  BY <1>2, DefaultsAssumption, BoundsAssumption
  DEF Init, TypeOK, U32

LEMMA TypeStep == TypeOK /\ [Next]_vars => TypeOK'
<1> SUFFICES ASSUME TypeOK, [Next]_vars PROVE TypeOK'
  OBVIOUS
<1>1. CASE UNCHANGED vars
  BY <1>1 DEF vars, leadership, registry, liveness, TypeOK
<1>2. ASSUME NEW sender \in Account, NEW group \in Group,
             NEW oldLeader \in Account \cup {DefaultAccount},
             SetLeader(sender, oldLeader, group)
      PROVE  TypeOK'
  <2>1. leaders' \in PartialMap(Group, Account)
    BY <1>2, InsertTyped DEF SetLeader, TypeOK
  <2>2. events' \in Seq(LeadershipEvents \cup HeartbeatEvents)
    <3>1. NewLeader(sender, group) \in LeadershipEvents
      BY DEF NewLeader, LeadershipEvents
    <3> QED
      BY <1>2, <3>1, DepositTyped DEF SetLeader
  <2> QED
    BY <1>2, <2>1, <2>2
    DEF SetLeader, TypeOK, registry, liveness
<1>3. ASSUME NEW sender \in Account, NEW group \in Group,
             GiveUpLeadership(sender, group)
      PROVE  TypeOK'
  <2>1. leaders' \in PartialMap(Group, Account)
    BY <1>3, RemoveTyped DEF GiveUpLeadership, TypeOK
  <2>2. events' \in Seq(LeadershipEvents \cup HeartbeatEvents)
    <3>1. GiveUpLeader(sender, group) \in LeadershipEvents
      BY DEF GiveUpLeader, LeadershipEvents
    <3> QED
      BY <1>3, <3>1, DepositTyped DEF GiveUpLeadership
  <2> QED
    BY <1>3, <2>1, <2>2
    DEF GiveUpLeadership, TypeOK, registry, liveness
<1>4. ASSUME NEW sender \in Account, NEW group \in Group, NEW status \in NodeStatus,
             AddHeartbeat(sender, group, status)
      PROVE  TypeOK'
  <2>1. events' \in Seq(LeadershipEvents \cup HeartbeatEvents)
    <3>1. NewHeartbeat(sender, group, status, block) \in HeartbeatEvents
      BY DEF NewHeartbeat, HeartbeatEvents, TypeOK
    <3> QED
      BY <1>4, <3>1, DepositTyped DEF AddHeartbeat
  <2>2. heartbeats' \in [Account -> 0..MaxBlock]
    BY <1>4, BoundsAssumption DEF AddHeartbeat, TypeOK
  <2> QED
    BY <1>4, <2>1, <2>2, AddAccountTyped
    DEF AddHeartbeat, TypeOK, leadership
<1>5. CASE NewBlock
  BY <1>5, BoundsAssumption
  DEF NewBlock, TypeOK, leadership, registry, liveness
<1> QED
  BY <1>1, <1>2, <1>3, <1>4, <1>5 DEF Next

\* Type correctness of the pallet: in particular AccountsCount and every
\* index stay within a u32, whatever the number of accounts.
THEOREM Typing == Spec => []TypeOK
<1> QED
  BY TypeInit, TypeStep, PTL DEF Spec
-----------------------------------------------------------------------------
(* Leadership                                                              *)

LEMMA LeadedStep == TypeOK /\ LeadedIffLeader /\ [Next]_vars => LeadedIffLeader'
<1> SUFFICES ASSUME TypeOK, LeadedIffLeader, [Next]_vars PROVE LeadedIffLeader'
  OBVIOUS
<1>1. CASE UNCHANGED leadership
  BY <1>1 DEF leadership, LeadedIffLeader
<1>2. ASSUME NEW sender \in Account, NEW group \in Group,
             NEW oldLeader \in Account \cup {DefaultAccount},
             SetLeader(sender, oldLeader, group)
      PROVE  LeadedIffLeader'
  <2>1. DOMAIN leaders' = DOMAIN leaders \cup {group}
    BY <1>2 DEF SetLeader, Insert
  <2>2. /\ leadedGroup \in [Group -> BOOLEAN]
        /\ leadedGroup' = [leadedGroup EXCEPT ![group] = TRUE]
    BY <1>2 DEF SetLeader, TypeOK
  <2>3. ASSUME NEW g \in Group
        PROVE  leadedGroup'[g] <=> g \in DOMAIN leaders'
    <3>1. CASE g = group
      BY <2>1, <2>2, <3>1
    <3>2. CASE g # group
      BY <2>1, <2>2, <3>2 DEF LeadedIffLeader
    <3> QED
      BY <3>1, <3>2
  <2> QED
    BY <2>3 DEF LeadedIffLeader
<1>3. ASSUME NEW sender \in Account, NEW group \in Group,
             GiveUpLeadership(sender, group)
      PROVE  LeadedIffLeader'
  <2>1. DOMAIN leaders' = DOMAIN leaders \ {group}
    BY <1>3 DEF GiveUpLeadership, Remove
  <2>2. /\ leadedGroup \in [Group -> BOOLEAN]
        /\ leadedGroup' = [leadedGroup EXCEPT ![group] = FALSE]
    BY <1>3 DEF GiveUpLeadership, TypeOK
  <2>3. ASSUME NEW g \in Group
        PROVE  leadedGroup'[g] <=> g \in DOMAIN leaders'
    <3>1. CASE g = group
      BY <2>1, <2>2, <3>1
    <3>2. CASE g # group
      BY <2>1, <2>2, <3>2 DEF LeadedIffLeader
    <3> QED
      BY <3>1, <3>2
  <2> QED
    BY <2>3 DEF LeadedIffLeader
<1>4. NewBlock \/ UNCHANGED vars => UNCHANGED leadership
  BY DEF NewBlock, vars, leadership
<1>5. ASSUME NEW sender \in Account, NEW group \in Group, NEW status \in NodeStatus,
             AddHeartbeat(sender, group, status)
      PROVE  UNCHANGED leadership
  BY <1>5 DEF AddHeartbeat, leadership
<1> QED
  BY <1>1, <1>2, <1>3, <1>4, <1>5 DEF Next

\* The flag and the leader entry of a group never disagree, so the two
\* separate reads of leadershipManagement can only disagree through a step of
\* the chain between them.
THEOREM LeadedIffLeaderHolds == Spec => []LeadedIffLeader
<1>1. Init => LeadedIffLeader
  BY DEF Init, LeadedIffLeader
<1> QED
  BY <1>1, TypeInit, TypeStep, LeadedStep, PTL DEF Spec

-----------------------------------------------------------------------------
(* The account registry                                                    *)

LEMMA RegistryStep ==
  TypeOK /\ RegistryIsBijection /\ [Next]_vars => RegistryIsBijection'
<1> SUFFICES ASSUME TypeOK, RegistryIsBijection, [Next]_vars
             PROVE  RegistryIsBijection'
  OBVIOUS
<1>1. CASE UNCHANGED registry
  BY <1>1 DEF registry, RegistryIsBijection
<1>2. ASSUME NEW account \in Account, account \notin DOMAIN accountsIndex,
             AddAccount(account)
      PROVE  RegistryIsBijection'
  <2>1. /\ accountsIndex \in PartialMap(Account, U32)
        /\ accounts \in [U32 -> Account \cup {DefaultAccount}]
        /\ accountsCount \in U32
    BY DEF TypeOK
  <2>2. /\ accountsIndex' = Insert(accountsIndex, account, accountsCount)
        /\ accounts' = [accounts EXCEPT ![accountsCount] = account]
        /\ accountsCount' = SaturatingInc(accountsCount)
    BY <1>2 DEF AddAccount
  <2>3. /\ DOMAIN accountsIndex' = DOMAIN accountsIndex \cup {account}
        /\ accountsIndex'[account] = accountsCount
        /\ \A a \in DOMAIN accountsIndex : accountsIndex'[a] = accountsIndex[a]
    BY <1>2, <2>2 DEF Insert
  <2>4. \A a \in DOMAIN accountsIndex : accountsIndex[a] \in U32
    BY <2>1 DEF PartialMap
  <2>5. CASE accountsCount = MaxU32
    BY <2>1, <2>2, <2>3, <2>4, <2>5, BoundsAssumption
    DEF RegistryIsBijection, SaturatingInc, U32
  <2>6. CASE accountsCount # MaxU32
    <3>1. accountsCount' = accountsCount + 1
      BY <2>2, <2>6 DEF SaturatingInc
    <3>2. \A a \in DOMAIN accountsIndex' : accountsIndex'[a] < accountsCount'
      BY <2>1, <2>3, <2>4, <2>6, <3>1, BoundsAssumption DEF RegistryIsBijection, U32
    <3>3. \A a \in DOMAIN accountsIndex' : accounts'[accountsIndex'[a]] = a
      BY <2>1, <2>2, <2>3, <2>4, <2>6, BoundsAssumption DEF RegistryIsBijection, U32
    <3>4. ASSUME NEW i \in 0..(accountsCount' - 1)
          PROVE  /\ accounts'[i] \in DOMAIN accountsIndex'
                 /\ accountsIndex'[accounts'[i]] = i
      BY <1>2, <2>1, <2>2, <2>3, <2>6, <3>1, BoundsAssumption
      DEF RegistryIsBijection, U32
    <3> QED
      BY <3>2, <3>3, <3>4 DEF RegistryIsBijection
  <2> QED
    BY <2>5, <2>6
<1>3. ASSUME NEW sender \in Account, NEW group \in Group, NEW status \in NodeStatus,
             AddHeartbeat(sender, group, status)
      PROVE  RegistryIsBijection'
  <2>1. AddAccount(sender)
    BY <1>3 DEF AddHeartbeat
  <2>2. sender \in DOMAIN accountsIndex => UNCHANGED registry
    BY <2>1 DEF AddAccount
  <2> QED
    BY <1>1, <1>2, <2>1, <2>2
<1>4. ASSUME NEW sender \in Account, NEW group \in Group,
             NEW oldLeader \in Account \cup {DefaultAccount},
             SetLeader(sender, oldLeader, group) \/ GiveUpLeadership(sender, group)
      PROVE  UNCHANGED registry
  BY <1>4 DEF SetLeader, GiveUpLeadership, registry
<1>5. NewBlock \/ UNCHANGED vars => UNCHANGED registry
  BY DEF NewBlock, vars, registry
<1> QED
  BY <1>1, <1>3, <1>4, <1>5 DEF Next

\* However many accounts register, Accounts and AccountsIndex stay inverse to
\* each other below the index where the count saturates.
THEOREM RegistryIsBijectionHolds == Spec => []RegistryIsBijection
<1>1. Init => RegistryIsBijection
  BY DEF Init, RegistryIsBijection
<1> QED
  BY <1>1, TypeInit, TypeStep, RegistryStep, PTL DEF Spec
-----------------------------------------------------------------------------
(* Heartbeats                                                              *)

LEMMA ZeroStep == TypeOK /\ ZeroMeansNeverSeen /\ [Next]_vars => ZeroMeansNeverSeen'
<1> SUFFICES ASSUME TypeOK, ZeroMeansNeverSeen, [Next]_vars
             PROVE  ZeroMeansNeverSeen'
  OBVIOUS
<1>1. CASE UNCHANGED <<heartbeats, accountsIndex>>
  BY <1>1 DEF ZeroMeansNeverSeen
<1>2. ASSUME NEW sender \in Account, NEW group \in Group, NEW status \in NodeStatus,
             AddHeartbeat(sender, group, status)
      PROVE  ZeroMeansNeverSeen'
  <2>1. DOMAIN accountsIndex' = DOMAIN accountsIndex \cup {sender}
    BY <1>2 DEF AddHeartbeat, AddAccount, Insert, registry
  <2>2. /\ heartbeats \in [Account -> 0..MaxBlock]
        /\ heartbeats' = [heartbeats EXCEPT ![sender] = block]
        /\ block \in 1..MaxBlock
    BY <1>2 DEF AddHeartbeat, TypeOK
  <2> QED
    BY <2>1, <2>2, BoundsAssumption DEF ZeroMeansNeverSeen
<1>3. ASSUME NEW sender \in Account, NEW group \in Group,
             NEW oldLeader \in Account \cup {DefaultAccount},
             SetLeader(sender, oldLeader, group) \/ GiveUpLeadership(sender, group)
      PROVE  UNCHANGED <<heartbeats, accountsIndex>>
  BY <1>3 DEF SetLeader, GiveUpLeadership, registry, liveness
<1>4. NewBlock \/ UNCHANGED vars => UNCHANGED <<heartbeats, accountsIndex>>
  BY DEF NewBlock, vars, registry, liveness
<1> QED
  BY <1>1, <1>2, <1>3, <1>4 DEF Next

\* Block 0 is a safe encoding of "never seen" for the orchestrators: no
\* registered node has it and every other account does.
THEOREM ZeroMeansNeverSeenHolds == Spec => []ZeroMeansNeverSeen
<1>1. Init => ZeroMeansNeverSeen
  BY DEF Init, ZeroMeansNeverSeen
<1> QED
  BY <1>1, TypeInit, TypeStep, ZeroStep, PTL DEF Spec

\* What a deposit does to the block's events: one more, the others in place.
LEMMA DepositAppends ==
  ASSUME TypeOK, NEW event, DepositEvent(event)
  PROVE  /\ Len(events) \in Nat
         /\ Len(events') = Len(events) + 1
         /\ events'[Len(events) + 1] = event
         /\ \A i \in 1..Len(events) : events'[i] = events[i]
<1>1. /\ events \in Seq(LeadershipEvents \cup HeartbeatEvents)
      /\ events' = Append(events, event)
  BY DEF TypeOK, DepositEvent
<1> QED
  BY <1>1

LEMMA HeartbeatEventsStep ==
  TypeOK /\ EventsTellHeartbeats /\ [Next]_vars => EventsTellHeartbeats'
<1> SUFFICES ASSUME TypeOK, EventsTellHeartbeats, [Next]_vars
             PROVE  EventsTellHeartbeats'
  OBVIOUS
<1> block \in 1..MaxBlock /\ heartbeats \in [Account -> 0..MaxBlock]
  BY DEF TypeOK
<1>1. CASE UNCHANGED vars
  BY <1>1 DEF vars, liveness, EventsTellHeartbeats, IsHeartbeatOf
<1>2. ASSUME NEW event, DepositEvent(event), event.kind # "NewHeartbeat",
             UNCHANGED <<liveness, block>>
      PROVE  EventsTellHeartbeats'
  <2>1. ASSUME NEW a \in Account
        PROVE  (\E i \in 1..Len(events') : IsHeartbeatOf(events'[i], a))
                 <=> \E i \in 1..Len(events) : IsHeartbeatOf(events[i], a)
    BY <1>2, DepositAppends DEF IsHeartbeatOf
  <2>2. \A e, a : IsHeartbeatOf(e, a)' <=> IsHeartbeatOf(e, a)
    BY <1>2 DEF IsHeartbeatOf
  <2> QED
    BY <1>2, <2>1, <2>2 DEF EventsTellHeartbeats, liveness
<1>3. ASSUME NEW sender \in Account, NEW group \in Group, NEW status \in NodeStatus,
             AddHeartbeat(sender, group, status)
      PROVE  EventsTellHeartbeats'
  <2>1. /\ DepositEvent(NewHeartbeat(sender, group, status, block))
        /\ block' = block
        /\ heartbeats' = [heartbeats EXCEPT ![sender] = block]
    BY <1>3 DEF AddHeartbeat
  <2>2. IsHeartbeatOf(NewHeartbeat(sender, group, status, block), sender)
    BY DEF IsHeartbeatOf, NewHeartbeat
  <2>3. ASSUME NEW a \in Account, a # sender
        PROVE  ~IsHeartbeatOf(NewHeartbeat(sender, group, status, block), a)
    BY <2>3 DEF IsHeartbeatOf, NewHeartbeat
  <2>4. \A e, a : IsHeartbeatOf(e, a)' <=> IsHeartbeatOf(e, a)
    BY <2>1 DEF IsHeartbeatOf
  <2>5. ASSUME NEW a \in Account
        PROVE  /\ heartbeats'[a] <= block
               /\ heartbeats'[a] = block <=>
                    \E i \in 1..Len(events') : IsHeartbeatOf(events'[i], a)
    <3>1. CASE a = sender
      BY <2>1, <2>2, <3>1, DepositAppends
    <3>2. CASE a # sender
      <4>1. (\E i \in 1..Len(events') : IsHeartbeatOf(events'[i], a))
              <=> \E i \in 1..Len(events) : IsHeartbeatOf(events[i], a)
        BY <2>1, <2>3, <3>2, DepositAppends
      <4> QED
        BY <2>1, <3>2, <4>1 DEF EventsTellHeartbeats
    <3> QED
      BY <3>1, <3>2
  <2> QED
    BY <2>1, <2>4, <2>5 DEF EventsTellHeartbeats
<1>4. CASE NewBlock
  <2>1. block' = block + 1 /\ Len(events') = 0 /\ heartbeats' = heartbeats
    BY <1>4 DEF NewBlock, liveness
  <2>2. \A a \in Account : heartbeats[a] <= block
    BY DEF EventsTellHeartbeats
  <2> QED
    BY <2>1, <2>2 DEF EventsTellHeartbeats
<1>5. ASSUME NEW sender \in Account, NEW group \in Group,
             NEW oldLeader \in Account \cup {DefaultAccount},
             SetLeader(sender, oldLeader, group)
      PROVE  EventsTellHeartbeats'
  BY <1>2, <1>5 DEF SetLeader, NewLeader
<1>6. ASSUME NEW sender \in Account, NEW group \in Group,
             GiveUpLeadership(sender, group)
      PROVE  EventsTellHeartbeats'
  BY <1>2, <1>6 DEF GiveUpLeadership, GiveUpLeader
<1> QED
  BY <1>1, <1>3, <1>4, <1>5, <1>6 DEF Next

\* A listener that copies NewHeartbeat events holds the heartbeats the chain
\* stores.
THEOREM EventsTellHeartbeatsHolds == Spec => []EventsTellHeartbeats
<1>1. Init => EventsTellHeartbeats
  <2> SUFFICES ASSUME Init PROVE EventsTellHeartbeats
    OBVIOUS
  <2>1. events = <<>> /\ block = 1
    BY DEF Init
  <2>2. \A a \in Account : heartbeats[a] = 0
    BY DEF Init
  <2>3. ASSUME NEW a \in Account
        PROVE  heartbeats[a] <= block /\ heartbeats[a] # block
    <3>1. heartbeats[a] = 0
      BY <2>2
    <3> QED
      BY <2>1, <3>1
  <2>4. 1..Len(events) = {}
    BY <2>1
  <2> QED
    BY <2>3, <2>4 DEF EventsTellHeartbeats
<1> QED
  BY <1>1, TypeInit, TypeStep, HeartbeatEventsStep, PTL DEF Spec

\* Heartbeats and registrations are never lost or turned back.
THEOREM LivenessIsMonotoneHolds == Spec => LivenessIsMonotone
<1> DEFINE Monotone ==
      /\ \A a \in Account : heartbeats'[a] >= heartbeats[a]
      /\ \A a \in DOMAIN accountsIndex :
           a \in DOMAIN accountsIndex' /\ accountsIndex'[a] = accountsIndex[a]
<1>1. TypeOK /\ EventsTellHeartbeats /\ [Next]_vars => [Monotone]_vars
  <2> SUFFICES ASSUME TypeOK, EventsTellHeartbeats, Next PROVE Monotone
    OBVIOUS
  <2> block \in 1..MaxBlock /\ heartbeats \in [Account -> 0..MaxBlock]
    BY DEF TypeOK
  <2>1. UNCHANGED <<heartbeats, accountsIndex>> => Monotone
    BY BoundsAssumption
  <2>2. ASSUME NEW sender \in Account, NEW group \in Group, NEW status \in NodeStatus,
               AddHeartbeat(sender, group, status)
        PROVE  Monotone
    <3>1. heartbeats' = [heartbeats EXCEPT ![sender] = block]
      BY <2>2 DEF AddHeartbeat
    <3>2. \A a \in DOMAIN accountsIndex :
            a \in DOMAIN accountsIndex' /\ accountsIndex'[a] = accountsIndex[a]
      BY <2>2 DEF AddHeartbeat, AddAccount, Insert, registry
    <3>3. \A a \in Account : heartbeats'[a] >= heartbeats[a]
      BY <3>1, BoundsAssumption DEF EventsTellHeartbeats
    <3> QED
      BY <3>2, <3>3
  <2>3. ASSUME NEW sender \in Account, NEW group \in Group,
               NEW oldLeader \in Account \cup {DefaultAccount},
               SetLeader(sender, oldLeader, group) \/ GiveUpLeadership(sender, group)
        PROVE  UNCHANGED <<heartbeats, accountsIndex>>
    BY <2>3 DEF SetLeader, GiveUpLeadership, registry, liveness
  <2>4. NewBlock => UNCHANGED <<heartbeats, accountsIndex>>
    BY DEF NewBlock, registry, liveness
  <2> QED
    BY <2>1, <2>2, <2>3, <2>4 DEF Next
<1> QED
  BY <1>1, Typing, EventsTellHeartbeatsHolds, PTL DEF Spec, LivenessIsMonotone, Monotone
-----------------------------------------------------------------------------
(* Leadership events                                                       *)

\* An event about something else leaves a group as told as it was.
LEMMA OtherEvent ==
  ASSUME TypeOK, NEW event, DepositEvent(event), NEW g \in Group,
         ~IsLeadershipEvent(event, g),
         LeaderIn(leaders', g) = LeaderIn(leaders, g),
         UNCHANGED parentLeaders, EventsTellLeaderOf(g)
  PROVE  EventsTellLeaderOf(g)'
<1> /\ Len(events) \in Nat
    /\ Len(events') = Len(events) + 1
    /\ events'[Len(events) + 1] = event
    /\ \A i \in 1..Len(events) : events'[i] = events[i]
  BY DepositAppends
<1>1. ASSUME \A i \in 1..Len(events) : ~IsLeadershipEvent(events[i], g),
             LeaderIn(leaders, g) = LeaderIn(parentLeaders, g)
      PROVE  EventsTellLeaderOf(g)'
  <2>1. \A i \in 1..Len(events') : ~IsLeadershipEvent(events'[i], g)
    BY <1>1
  <2> QED
    BY <1>1, <2>1 DEF EventsTellLeaderOf
<1>2. ASSUME NEW i \in 1..Len(events), IsLastWord(i, g),
             LeaderIn(leaders, g) = LeaderAfter(events[i])
      PROVE  EventsTellLeaderOf(g)'
  <2>1. IsLeadershipEvent(events'[i], g)
    BY <1>2 DEF IsLastWord
  <2>2. \A j \in (i + 1)..Len(events') : ~IsLeadershipEvent(events'[j], g)
    BY <1>2 DEF IsLastWord
  <2>3. i \in 1..Len(events') /\ LeaderIn(leaders', g) = LeaderAfter(events'[i])
    BY <1>2
  <2> QED
    BY <2>1, <2>2, <2>3 DEF EventsTellLeaderOf, IsLastWord
<1> QED
  BY <1>1, <1>2 DEF EventsTellLeaderOf

\* The event of a group's own handover is its new last word.
LEMMA OwnEvent ==
  ASSUME TypeOK, NEW event, DepositEvent(event), NEW g \in Group,
         IsLeadershipEvent(event, g), LeaderIn(leaders', g) = LeaderAfter(event)
  PROVE  EventsTellLeaderOf(g)'
<1> /\ Len(events) \in Nat
    /\ Len(events') = Len(events) + 1
    /\ events'[Len(events) + 1] = event
  BY DepositAppends
<1> DEFINE n == Len(events) + 1
<1>1. n \in 1..Len(events') /\ events'[n] = event
  OBVIOUS
<1>2. \A j \in (n + 1)..Len(events') : FALSE
  OBVIOUS
<1> QED
  BY <1>1, <1>2 DEF EventsTellLeaderOf, IsLastWord

LEMMA LeadershipEventsStep ==
  TypeOK /\ EventsTellLeader /\ [Next]_vars => EventsTellLeader'
<1> SUFFICES ASSUME TypeOK, EventsTellLeader, [Next]_vars, NEW g \in Group
             PROVE  EventsTellLeaderOf(g)'
  BY DEF EventsTellLeader
<1> EventsTellLeaderOf(g)
  BY DEF EventsTellLeader
<1>1. CASE UNCHANGED vars
  BY <1>1 DEF vars, leadership, EventsTellLeaderOf, IsLastWord
<1>2. ASSUME NEW sender \in Account, NEW group \in Group,
             NEW oldLeader \in Account \cup {DefaultAccount},
             SetLeader(sender, oldLeader, group)
      PROVE  EventsTellLeaderOf(g)'
  <2> DEFINE event == NewLeader(sender, group)
  <2>1. /\ DepositEvent(event)
        /\ parentLeaders' = parentLeaders
        /\ leaders' = Insert(leaders, group, sender)
    BY <1>2 DEF SetLeader
  <2>2. IsLeadershipEvent(event, g) <=> g = group
    BY DEF IsLeadershipEvent, NewLeader
  <2>3. CASE g = group
    <3>1. LeaderIn(leaders', g) = LeaderAfter(event)
      BY <2>1, <2>3 DEF LeaderIn, Insert, LeaderAfter, NewLeader
    <3> HIDE DEF event
    <3> QED
      BY <2>1, <2>2, <2>3, <3>1, OwnEvent
  <2>4. CASE g # group
    <3>1. LeaderIn(leaders', g) = LeaderIn(leaders, g)
      BY <2>1, <2>4 DEF LeaderIn, Insert
    <3> HIDE DEF event
    <3> QED
      BY <2>1, <2>2, <2>4, <3>1, OtherEvent
  <2> QED
    BY <2>3, <2>4
<1>3. ASSUME NEW sender \in Account, NEW group \in Group,
             GiveUpLeadership(sender, group)
      PROVE  EventsTellLeaderOf(g)'
  <2> DEFINE event == GiveUpLeader(sender, group)
  <2>1. /\ DepositEvent(event)
        /\ parentLeaders' = parentLeaders
        /\ leaders' = Remove(leaders, group)
    BY <1>3 DEF GiveUpLeadership
  <2>2. IsLeadershipEvent(event, g) <=> g = group
    BY DEF IsLeadershipEvent, GiveUpLeader
  <2>3. CASE g = group
    <3>1. LeaderIn(leaders', g) = LeaderAfter(event)
      BY <2>1, <2>3 DEF LeaderIn, Remove, LeaderAfter, GiveUpLeader
    <3> HIDE DEF event
    <3> QED
      BY <2>1, <2>2, <2>3, <3>1, OwnEvent
  <2>4. CASE g # group
    <3>1. LeaderIn(leaders', g) = LeaderIn(leaders, g)
      BY <2>1, <2>4 DEF LeaderIn, Remove
    <3> HIDE DEF event
    <3> QED
      BY <2>1, <2>2, <2>4, <3>1, OtherEvent
  <2> QED
    BY <2>3, <2>4
<1>4. ASSUME NEW sender \in Account, NEW group \in Group, NEW status \in NodeStatus,
             AddHeartbeat(sender, group, status)
      PROVE  EventsTellLeaderOf(g)'
  <2>1. ~IsLeadershipEvent(NewHeartbeat(sender, group, status, block), g)
    BY DEF IsLeadershipEvent, NewHeartbeat
  <2> QED
    BY <1>4, <2>1, OtherEvent DEF AddHeartbeat, leadership
<1>5. CASE NewBlock
  <2>1. leaders' = leaders /\ parentLeaders' = leaders /\ events' = <<>>
    BY <1>5 DEF NewBlock, leadership
  <2>2. 1..Len(events') = {}
    BY <2>1
  <2> QED
    BY <2>1, <2>2 DEF EventsTellLeaderOf
<1> QED
  BY <1>1, <1>2, <1>3, <1>4, <1>5 DEF Next

\* An event listener that starts from a correct leader stays correct.
THEOREM EventsTellLeaderHolds == Spec => []EventsTellLeader
<1>1. Init => EventsTellLeader
  <2> SUFFICES ASSUME Init, NEW g \in Group PROVE EventsTellLeaderOf(g)
    BY DEF EventsTellLeader
  <2>1. events = <<>> /\ parentLeaders = leaders
    BY DEF Init
  <2>2. 1..Len(events) = {}
    BY <2>1
  <2> QED
    BY <2>1, <2>2 DEF EventsTellLeaderOf
<1> QED
  BY <1>1, TypeInit, TypeStep, LeadershipEventsStep, PTL DEF Spec

-----------------------------------------------------------------------------
(* The pallet implements the abstract register                             *)

held == [g \in Group |-> IF leadedGroup[g] THEN LeaderIn(leaders, g) ELSE DefaultAccount]

\* A call of the pallet is the register's operation with the same arguments.
LEMMA CallStep == TypeOK /\ LeadedIffLeader => CallIsOperation
<1> SUFFICES ASSUME TypeOK, LeadedIffLeader, NEW sender \in Account, NEW group \in Group
             PROVE  /\ \A oldLeader \in Account \cup {DefaultAccount} :
                         SetLeader(sender, oldLeader, group)
                           => Register!Take(sender, oldLeader, group)
                    /\ GiveUpLeadership(sender, group) => Register!Release(sender, group)
  BY DEF CallIsOperation
<1> leadedGroup \in [Group -> BOOLEAN]
  BY DEF TypeOK
<1>1. ASSUME NEW oldLeader \in Account \cup {DefaultAccount},
             SetLeader(sender, oldLeader, group)
      PROVE  Register!Take(sender, oldLeader, group)
  <2>1. Register!MayTake(held[group], sender, oldLeader)
    BY <1>1 DEF SetLeader, MaySetLeader, LeadedIffLeader, LeaderIn, Register!MayTake, held
  <2>2. held' = [held EXCEPT ![group] = sender]
    BY <1>1 DEF SetLeader, Insert, LeadedIffLeader, LeaderIn, held
  <2> QED
    BY <2>1, <2>2 DEF Register!Take, held
<1>2. ASSUME GiveUpLeadership(sender, group)
      PROVE  Register!Release(sender, group)
  <2>1. held[group] = sender
    BY <1>2 DEF GiveUpLeadership, held
  <2>2. held' = [held EXCEPT ![group] = DefaultAccount]
    BY <1>2 DEF GiveUpLeadership, Remove, LeadedIffLeader, LeaderIn, held
  <2> QED
    BY <2>1, <2>2 DEF Register!Release, held
<1> QED
  BY <1>1, <1>2

\* Every step of the pallet takes a register, releases one, or leaves them all
\* alone.
LEMMA RegisterStep == TypeOK /\ LeadedIffLeader /\ [Next]_vars => [Register!Next]_held
<1> SUFFICES ASSUME TypeOK, LeadedIffLeader, [Next]_vars, ~UNCHANGED leadership
             PROVE  Register!Next
  BY DEF held, leadership
<1>1. CallIsOperation
  BY CallStep
<1>2. ASSUME NEW sender \in Account, NEW group \in Group,
             NEW oldLeader \in Account \cup {DefaultAccount},
             SetLeader(sender, oldLeader, group)
      PROVE  Register!Next
  BY <1>1, <1>2 DEF CallIsOperation, Register!Next
<1>3. ASSUME NEW sender \in Account, NEW group \in Group,
             GiveUpLeadership(sender, group)
      PROVE  Register!Next
  BY <1>1, <1>3 DEF CallIsOperation, Register!Next
<1>4. ASSUME NEW sender \in Account, NEW group \in Group, NEW status \in NodeStatus,
             AddHeartbeat(sender, group, status)
      PROVE  UNCHANGED leadership
  BY <1>4 DEF AddHeartbeat
<1>5. NewBlock \/ UNCHANGED vars => UNCHANGED leadership
  BY DEF NewBlock, vars
<1> QED
  BY <1>2, <1>3, <1>4, <1>5 DEF Next

\* Leaders and LeadedGroup, read together, are one compare-and-set register
\* per group: every step of the pallet takes one register under its rule,
\* releases one, or leaves them all alone, and a call is the register's
\* operation with the same arguments.
THEOREM Implementation == Spec => ImplementsRegister
<1>1. Init => Register!Init
  BY DEF Init, Register!Init
<1>2. TypeOK /\ LeadedIffLeader /\ [Next]_vars => [Register!Next]_held
  BY RegisterStep
<1>3. TypeOK /\ LeadedIffLeader => [CallIsOperation]_vars
  BY CallStep
<1> QED
  BY <1>1, <1>2, <1>3, Typing, LeadedIffLeaderHolds, PTL
  DEF Spec, ImplementsRegister, Register!Spec, held
=============================================================================
