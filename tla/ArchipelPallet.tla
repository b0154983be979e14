--------------------------- MODULE ArchipelPallet ---------------------------
(***************************************************************************)
(* The Archipel pallet (chain/pallets/archipel/src/lib.rs): the shared     *)
(* state of a federation.  One action per dispatchable; a dispatch whose   *)
(* ensure! fails changes nothing and is not a step.  An extrinsic runs     *)
(* atomically, blocks run extrinsics one after the other, and NewBlock     *)
(* seals a block and opens the next one.                                   *)
(*                                                                         *)
(* A ValueQuery map whose keys are never tested is a total function with   *)
(* the default value; the two maps tested by contains_key (Leaders and     *)
(* AccountsIndex) are partial functions whose DOMAIN is their key set.     *)
(***************************************************************************)
EXTENDS Integers, Sequences

CONSTANTS Account,        \* accounts that can sign
          Group,          \* group ids
          NodeStatus,     \* statuses a heartbeat may carry
          DefaultAccount, \* AccountId::default(), which nobody can sign for
          DefaultGroup,   \* u32::default()
          DefaultStatus,  \* u32::default()
          MaxU32,         \* where AccountsCount saturates
          MaxBlock,       \* bound on the block number (a u32 as well)
          MaxExtrinsics   \* bound on the extrinsics of one block (its weight)

ASSUME DefaultsAssumption ==
  /\ DefaultAccount \notin Account
  /\ DefaultGroup \in Group
  /\ DefaultStatus \in NodeStatus

ASSUME BoundsAssumption ==
  /\ MaxU32 \in Nat
  /\ MaxBlock \in Nat \ {0}
  /\ MaxExtrinsics \in Nat

VARIABLES
  heartbeats,     \* account -> block of its last heartbeat, 0 if none
  nodesStatus,    \* account -> status in its last heartbeat
  groups,         \* account -> group in its last heartbeat
  leaders,        \* group -> leader account, for the groups that have one
  leadedGroup,    \* group -> whether the group has a leader
  accounts,       \* index -> account registered under it
  accountsCount,  \* number of registered accounts (an absent count is 0)
  accountsIndex,  \* account -> its index, for the registered accounts
  events,         \* events deposited in the current block, in order
  block,          \* number of the block being executed
  parentLeaders   \* leaders as of the parent block: what clients have read

leadership == <<leaders, leadedGroup>>
registry == <<accounts, accountsCount, accountsIndex>>
liveness == <<heartbeats, nodesStatus, groups>>
vars == <<leadership, registry, liveness, events, block, parentLeaders>>

-----------------------------------------------------------------------------
(* Storage maps                                                            *)

\* The maps from some of the keys to values.
PartialMap(Keys, Values) == UNION {[K -> Values] : K \in SUBSET Keys}

U32 == 0..MaxU32

\* StorageMap::insert
Insert(map, key, value) ==
  [k \in DOMAIN map \cup {key} |-> IF k = key THEN value ELSE map[k]]

\* StorageMap::remove
Remove(map, key) == [k \in DOMAIN map \ {key} |-> map[k]]

\* The leader a leaders map gives for a group: the getter's ValueQuery default
\* where there is no entry.
LeaderIn(map, group) == IF group \in DOMAIN map THEN map[group] ELSE DefaultAccount

NewLeader(who, group) == [kind |-> "NewLeader", who |-> who, group |-> group]
GiveUpLeader(who, group) == [kind |-> "GiveUpLeader", who |-> who, group |-> group]
NewHeartbeat(who, group, status, at) ==
  [kind |-> "NewHeartbeat", who |-> who, group |-> group, status |-> status, at |-> at]

\* Variant for mutation: a later event replaces an earlier one.
DepositEventOverwriting(event) ==
  /\ Len(events) < MaxExtrinsics
  /\ events' = <<event>>

\* A block has room for one more extrinsic; each deposits exactly one event.
DepositEvent(event) ==
  /\ Len(events) < MaxExtrinsics
  /\ events' = Append(events, event)

-----------------------------------------------------------------------------
(* Dispatchables                                                           *)

Init ==
  /\ heartbeats = [a \in Account |-> 0]
  /\ nodesStatus = [a \in Account |-> DefaultStatus]
  /\ groups = [a \in Account |-> DefaultGroup]
  /\ leaders = [g \in {} |-> DefaultAccount]
  /\ leadedGroup = [g \in Group |-> FALSE]
  /\ accounts = [i \in U32 |-> DefaultAccount]
  /\ accountsCount = 0
  /\ accountsIndex = [a \in {} |-> 0]
  /\ events = <<>>
  /\ block = 1
  /\ parentLeaders = leaders

\* Variants for mutation: unchecked and wrapping increments.
UncheckedInc(n) == n + 1
WrappingInc(n) == (n + 1) % (MaxU32 + 1)

\* u32::saturating_add(1)
SaturatingInc(n) == IF n = MaxU32 THEN MaxU32 ELSE n + 1

\* Variant for mutation: the report is not compared with the leader.
MaySetLeaderUnchecked(sender, oldLeader, group) ==
  group \in DOMAIN leaders => sender # oldLeader

\* The two ensure! of set_leader, which guard a group that has a leader.
MaySetLeader(sender, oldLeader, group) ==
  group \in DOMAIN leaders =>
    /\ sender # oldLeader
    /\ oldLeader = leaders[group]

\* Variant for mutation: the event names the replaced leader.
SetLeaderMisreported(sender, oldLeader, group) ==
  /\ MaySetLeader(sender, oldLeader, group)
  /\ leaders' = Insert(leaders, group, sender)
  /\ leadedGroup' = [leadedGroup EXCEPT ![group] = TRUE]
  /\ DepositEvent(NewLeader(oldLeader, group))
  /\ UNCHANGED <<registry, liveness, block, parentLeaders>>

SetLeader(sender, oldLeader, group) ==
  /\ MaySetLeader(sender, oldLeader, group)
  /\ leaders' = Insert(leaders, group, sender)
  /\ leadedGroup' = [leadedGroup EXCEPT ![group] = TRUE]
  /\ DepositEvent(NewLeader(sender, group))
  /\ UNCHANGED <<registry, liveness, block, parentLeaders>>

\* Variant for mutation: the flag is not reset.
GiveUpLeadershipKeepingFlag(sender, group) ==
  /\ leadedGroup[group]
  /\ LeaderIn(leaders, group) = sender
  /\ leaders' = Remove(leaders, group)
  /\ DepositEvent(GiveUpLeader(sender, group))
  /\ UNCHANGED <<leadedGroup, registry, liveness, block, parentLeaders>>

GiveUpLeadership(sender, group) ==
  /\ leadedGroup[group]
  /\ LeaderIn(leaders, group) = sender
  /\ leadedGroup' = [leadedGroup EXCEPT ![group] = FALSE]
  /\ leaders' = Remove(leaders, group)
  /\ DepositEvent(GiveUpLeader(sender, group))
  /\ UNCHANGED <<registry, liveness, block, parentLeaders>>

\* Variant for mutation: every heartbeat registers the account again.
AddAccountAlways(account) ==
  /\ accounts' = [accounts EXCEPT ![accountsCount] = account]
  /\ accountsCount' = SaturatingInc(accountsCount)
  /\ accountsIndex' = Insert(accountsIndex, account, accountsCount)

\* add_account: an account gets the current count as its index, once.
AddAccount(account) ==
  IF account \in DOMAIN accountsIndex
  THEN UNCHANGED registry
  ELSE /\ accounts' = [accounts EXCEPT ![accountsCount] = account]
       /\ accountsCount' = SaturatingInc(accountsCount)
       /\ accountsIndex' = Insert(accountsIndex, account, accountsCount)

\* Variant for mutation: the heartbeat is stamped with the parent block.
AddHeartbeatAtParent(sender, group, status) ==
  /\ AddAccount(sender)
  /\ groups' = [groups EXCEPT ![sender] = group]
  /\ heartbeats' = [heartbeats EXCEPT ![sender] = block - 1]
  /\ nodesStatus' = [nodesStatus EXCEPT ![sender] = status]
  /\ DepositEvent(NewHeartbeat(sender, group, status, block))
  /\ UNCHANGED <<leadership, block, parentLeaders>>

AddHeartbeat(sender, group, status) ==
  /\ AddAccount(sender)
  /\ groups' = [groups EXCEPT ![sender] = group]
  /\ heartbeats' = [heartbeats EXCEPT ![sender] = block]
  /\ nodesStatus' = [nodesStatus EXCEPT ![sender] = status]
  /\ DepositEvent(NewHeartbeat(sender, group, status, block))
  /\ UNCHANGED <<leadership, block, parentLeaders>>

\* The block is sealed; frame_system clears the events and bumps the number.
NewBlock ==
  /\ block < MaxBlock
  /\ block' = block + 1
  /\ events' = <<>>
  /\ parentLeaders' = leaders
  /\ UNCHANGED <<leadership, registry, liveness>>

Next ==
  \/ \E sender \in Account, group \in Group :
       \/ \E oldLeader \in Account \cup {DefaultAccount} :
            SetLeader(sender, oldLeader, group)
       \/ GiveUpLeadership(sender, group)
       \/ \E status \in NodeStatus : AddHeartbeat(sender, group, status)
  \/ NewBlock

Spec == Init /\ [][Next]_vars
-----------------------------------------------------------------------------
(* Properties                                                              *)

LeadershipEvents ==
  [kind : {"NewLeader", "GiveUpLeader"}, who : Account, group : Group]
HeartbeatEvents ==
  [kind : {"NewHeartbeat"}, who : Account, group : Group,
   status : NodeStatus, at : 1..MaxBlock]

\* Every storage item, event and block number has its type.
TypeOK ==
  /\ heartbeats \in [Account -> 0..MaxBlock]
  /\ nodesStatus \in [Account -> NodeStatus]
  /\ groups \in [Account -> Group]
  /\ leaders \in PartialMap(Group, Account)
  /\ leadedGroup \in [Group -> BOOLEAN]
  /\ accounts \in [U32 -> Account \cup {DefaultAccount}]
  /\ accountsCount \in U32
  /\ accountsIndex \in PartialMap(Account, U32)
  /\ events \in Seq(LeadershipEvents \cup HeartbeatEvents)
  /\ block \in 1..MaxBlock
  /\ parentLeaders \in PartialMap(Group, Account)

\* The flag clients read with isLeadedGroup and the entry they read with
\* getLeader are two storage items written by two dispatchables: a group is
\* flagged as leaded exactly when it has a leader entry.
LeadedIffLeader == \A g \in Group : leadedGroup[g] <=> g \in DOMAIN leaders

\* Two registered accounts share an index only at the point of saturation,
\* and below it Accounts and AccountsIndex are inverse to each other: nobody
\* who walks Accounts by index up to AccountsCount misses or mistakes a node.
RegistryIsBijection ==
  /\ \A a \in DOMAIN accountsIndex :
       accountsIndex[a] < accountsCount \/ accountsCount = MaxU32
  /\ \A a \in DOMAIN accountsIndex :
       accountsIndex[a] < MaxU32 => accounts[accountsIndex[a]] = a
  /\ \A i \in 0..(accountsCount - 1) :
       /\ accounts[i] \in DOMAIN accountsIndex
       /\ accountsIndex[accounts[i]] = i

\* The orchestrators take a heartbeat at block 0 for "never seen"
\* (heartbeats.js:41, orchestrator.js:284): the chain records block 0 for an
\* account exactly as long as the account has not registered.
ZeroMeansNeverSeen ==
  \A a \in Account : heartbeats[a] = 0 <=> a \notin DOMAIN accountsIndex

IsLeadershipEvent(event, group) ==
  /\ event.kind \in {"NewLeader", "GiveUpLeader"}
  /\ event.group = group

LeaderAfter(event) == IF event.kind = "NewLeader" THEN event.who ELSE DefaultAccount

\* The i-th event is the block's last word on the leadership of the group.
IsLastWord(i, group) ==
  /\ IsLeadershipEvent(events[i], group)
  /\ \A j \in (i + 1)..Len(events) : ~IsLeadershipEvent(events[j], group)

\* Applied in order to the leader at the parent block, the block's events give
\* the group's leader.
EventsTellLeaderOf(group) ==
  \/ /\ \A i \in 1..Len(events) : ~IsLeadershipEvent(events[i], group)
     /\ LeaderIn(leaders, group) = LeaderIn(parentLeaders, group)
  \/ \E i \in 1..Len(events) :
       /\ IsLastWord(i, group)
       /\ LeaderIn(leaders, group) = LeaderAfter(events[i])

\* A client that knows the leader at the parent block and applies the block's
\* leadership events in order knows the leader after the block: no handover is
\* silent and no event lies, however many there are in one block.
EventsTellLeader == \A g \in Group : EventsTellLeaderOf(g)

IsHeartbeatOf(event, account) ==
  /\ event.kind = "NewHeartbeat"
  /\ event.who = account
  /\ event.at = block

\* The heartbeats a listener copies from NewHeartbeat events are the stored
\* ones: an account with a heartbeat event in this block has this block as its
\* heartbeat, a stored heartbeat of this block has its event, and none comes
\* from a later block.
EventsTellHeartbeats ==
  \A a \in Account :
    /\ heartbeats[a] <= block
    /\ heartbeats[a] = block <=>
         \E i \in 1..Len(events) : IsHeartbeatOf(events[i], a)

\* A heartbeat is never overwritten by an older one, and a registered account
\* keeps its index for good.
LivenessIsMonotone ==
  [][/\ \A a \in Account : heartbeats'[a] >= heartbeats[a]
     /\ \A a \in DOMAIN accountsIndex :
          a \in DOMAIN accountsIndex' /\ accountsIndex'[a] = accountsIndex[a]]_vars

\* The abstract register: a group flagged as leaded is held by its leader.
Register == INSTANCE LeaderRegister
  WITH NoLeader <- DefaultAccount,
       leader <- [g \in Group |->
                    IF leadedGroup[g] THEN LeaderIn(leaders, g) ELSE DefaultAccount]

\* A call of the pallet is the register's operation with the same arguments.
\* Register!Next alone would not tell a report that is compared from one that is
\* ignored: some report always fits.
CallIsOperation ==
  \A sender \in Account, group \in Group :
    /\ \A oldLeader \in Account \cup {DefaultAccount} :
         SetLeader(sender, oldLeader, group) => Register!Take(sender, oldLeader, group)
    /\ GiveUpLeadership(sender, group) => Register!Release(sender, group)

\* Seen through LeadedGroup and Leaders together, the way the orchestrators
\* read them, the pallet is one compare-and-set register per group.
ImplementsRegister == Register!Spec /\ [][CallIsOperation]_vars
=============================================================================
