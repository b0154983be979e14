# HABS (Archipel): a TLA+ model

HABS keeps a highly available blockchain validator: several nodes run the same
service, one of each group in *active* mode (a validator) and the others in
*passive* mode (a sync node).  Two active nodes at once means slashing, none
means lost rewards.  The nodes agree on a leader through a chain of their own.
This directory holds TLA+ modules of that system, the TLC configurations that
check them, and proofs checked by TLAPS.  Paths below are relative to `src/`;
`orchestrator.js`, `chain.js` and so on are in `orchestrator/src/`,
`polkadot.js` is `orchestrator/src/services/polkadot/polkadot.js`, and `lib.rs`
is `chain/pallets/archipel/src/lib.rs`.

## The system

| Component | State | Operations | Talks to |
| --- | --- | --- | --- |
| Archipel pallet (`lib.rs`) | leader and leaded flag per group, heartbeat, group and status per account, account registry, events of a block | `set_leader`, `give_up_leadership`, `add_heartbeat` | orchestrators, through extrinsics, storage queries and events |
| Chain client (`chain.js`) | last block seen and stall accumulator; pending transaction watches | `canSendTransactions`, `addHeartbeat`, `setLeader`, `giveUpLeadership`, queries, `listenEvents` | the node's own chain node over a web socket; calls back into the heartbeats map and the service |
| Heartbeats map (`heartbeats.js`) | node -> last heartbeat known | `addHeartbeat`, `anyOneAlive` | written by the listener, read by the cycle |
| Orchestrator (`orchestrator.js`, `app.js`) | switches, `noReadyCount`, `noLivenessFromLeader` | bootstrap, one cycle every 10 s, `forceActive` | chain client, heartbeats map, service |
| HTTP interface (`api.js`, `routes/`) | none of its own | switch heartbeats or orchestration, start or stop the service, information | orchestrator |
| Service (`service.js`, `polkadot.js`, `docker.js`) | `service.mode`, two containers, `cleaningUp`, `importedKeys` | start in a mode, clean up, import keys, readiness | Docker, RPC of the container; called by cycle, listener, HTTP, exit signals |
| Chain node and runtime (`chain/node`, `chain/runtime`) | Substrate template | block production, finality | other chain nodes |
| Configuration generator (`cli/`) | `archipel.json`, `config.zip` | `init`, `generate` | the administrator, who edits one and carries the other to the machines |
| Deployment (`deployer/archipel/`) | `/config` of each machine | unpack and check at every start, start again after a crash | chain node, orchestrator (`config.js`, `polkadot/config.js` read `config.json`) |
| Web interface (`ui/`) | none of the federation | polls `/info`, sends HTTP requests | orchestrators |

What is hard: each orchestrator is a single Node.js process in which a cycle, a
heartbeat loop, an event listener and HTTP requests interleave at every `await`;
what it knows of the chain is what its own chain node has imported; processes
crash and come back while the service container and the pooled transactions live
on; queries, Docker calls and RPC calls fail and are answered with `0` or
`false`; transactions may settle late or never; and three fixed waits (5 s, 10 s,
20 s) stand for synchronisation.  What makes the components correct:

* pallet: the storage items tell one story, the events of a block tell the same,
  leadership changes hands by compare-and-set only;
* federation: at most one active node per group; a demoted node stands down; a
  live leader is left alone; each node's picture of the others follows the chain;
* orchestrator: active only on the leader, whoever asks; a leader that cannot
  serve gives way, and comes back when it can; counters count what they say;
* service: what runs is what the mode says, one container at a time, none after
  an exit; a boot gets through whatever was left behind, and all containers use
  one database volume; ready means having every key;
* configuration: a machine runs as `archipel.json` says of its `NODE_ID`, with
  files of one archive, although nothing compares the lists it is made of.

`PROJECT.json` lists the hazards line by line with the properties that cover them.

## Modules

| Module | Models |
| --- | --- |
| `LeaderRegister` | abstract specification: a register per group, taken by compare-and-set |
| `ArchipelPallet`, `MCArchipelPallet` | `lib.rs` |
| `Federation`, `MCFederation` | cycle, listener and heartbeats map of several nodes on one chain, with crashes |
| `ChainClient` | the checks and the transactions of `chain.js`, as its callers share them |
| `Orchestrator` | switches, counters, forced modes and HTTP requests of one node |
| `ServiceContainers` | start and clean-up of the service, one Docker call a step |
| `KeyImport` | import of the validator keys |
| `Configuration` | from `archipel.json` to a running machine: generator, start scripts, reading of the configuration |
| `ArchipelPalletProofs`, `FederationProofs`, `FederationExclusionProofs`, `ChainClientProofs`, `OrchestratorProofs`, `ServiceContainersProofs`, `KeyImportProofs`, `ConfigurationProofs` | theorems about the module each is named after (`FederationExclusionProofs`: the part of `Federation`'s that needs its assumption on the wait) |

`LeaderRegister` is what the chain promises: `ArchipelPallet` implements it
(`ImplementsRegister`: its steps are register steps, and each call is the
register's operation with the same arguments), and `Federation` instantiates it
as its chain.  A definition whose comment says *variant for mutation* is a
plausible bug of the definition below it, used to see that a property notices it.

**ArchipelPallet.** One action per dispatchable, and `NewBlock`.  Storage maps
are partial functions; the two groups of items that must agree (`Leaders` and
`LeadedGroup`, `Accounts` and `AccountsIndex`) are kept apart as in the code.
`events` are those of the current block, `parentLeaders` the leaders at its
parent.  The u32 counter saturates at `MaxU32`.

**Federation.** A block is the set of heartbeats it includes and at most one
leadership transaction.  Each operator has the state at its chain node's best
block (`view`), the blocks still to be imported (`backlog`), its process's
variables, and the place of its cycle: `idle` (next: the checks), `leader` and
`leaded` (before `getLeader` and `isLeadedGroup`), `judge` (between the lookup
of the leader's heartbeat and the answer of `getBestNumber`), `submit`,
`watching` (for finalization), `settling` (the 10 s wait), `recheck`.  `Import`
is a block reaching the chain node together with the listener's handling of its
events and the fate of a watched transaction.  `Crash` keeps `mode`, since the
container goes on; `Restart` begins the bootstrap, `FillHeartbeat` reads the
heartbeat of one wallet after the other, in the order of `config.nodesWallets`
(`Place`; with no order given, in any), each at the best block of its time, and
each query may fail and be answered 0 (`BootQueriesFail`); `Listen` is the
subscription.  Blocks may be imported between any two of them, and nobody handles
their events: the history variable `missed` remembers the wallets whose last
heartbeat the process has not got for that.  Nodes of other groups are known by what
they put on chain: heartbeats, and the leadership changes of `ProduceForeignBlock`,
which need no heartbeat.  `forceActive` over HTTP is not here but in `Orchestrator`;
what that means for the exclusion of active nodes is said under *Assumptions*.

**ChainClient.** Each caller is at one await of `canSendTransactions` or of a
method that sends (`addHeartbeat`, `setLeader` and `giveUpLeadership` have the same
control).  Block numbers are replaced by the comparisons made with them:
`lastBlock` says how `lastBlockNumber` compares with the best block ("none" is the
answer 0 of a failed query), `gap` is the distance of the finalized block, cut off
at its limit; finality gets no nearer to the best block than `FinalityLag`, since
`chain/node/src/service.rs`, line 276, takes the default voting rules of GRANDPA.
Without a bound on the height, the chain can stall and recover any
number of times.  The history variable `checked` (who has looked for a new block
since the last one came) is for the premise of `HeartbeatsResume`.  A nonce is `stale` once it was used; the pool refuses a second
transaction with a pending nonce, or usurps the first.  Peers and sync state,
asked for together, are one answer, and so are the two block numbers of the gap.

**Orchestrator.** The same cycle seen from one node, without chain lag, and with
the parts `Federation` abstracts: readiness management, both counters, the two
heartbeat switches, the orchestration switch with its 5 s wait, forced modes,
and `forceActive` run by the cycle or by an HTTP request.  `Fail` is what each
caller does when it does not get to lead.  A node of role `noservice` is one more
service mode: its cycle and forced modes return at once, and starts do nothing.
The rest of the federation is an environment that may take the leadership, beat
or fall silent at any time.

**ServiceContainers.** Every start is at one place between two Docker calls, with
the answers it has had (`found`); a failing call is one that answers false and
changes nothing.  A process boots (`boot` is its call: the clean-up, then a passive
start that must itself start the container, or bootstrap throws), runs, exits on a
signal or crashes anywhere, and is started again; containers outlive it, its
service object does not.  The first start prepares the service and settles on the
database volume.  Clean-up is bootstrap's, the HTTP stop's or an exit signal's.
`overlapped` is the one variable the code does not have: it remembers whether a
call of this process began while another was under way, for the properties of
calls that take turns.  A start acts on
a container by its name where the code uses the identifier it has just got, which
differs only if the container was replaced between the two calls.

**KeyImport.** The list `importedKeys`, the container's keystore, and imports
with their RPC calls as steps.

**Configuration.** `draft` is `archipel.json` as far as the tool and its readers
look at it: the number of addresses, the lists of roles, groups and services, the
number of service nodes, and how many field sets there are.  Archives and `/config`
map file names to the generation that made the file: `zip` run over an archive
that exists keeps the entries the new directory lacks (`Update`), and `unzip -u`
replaces what is older (`Newer`).  Each start of the chain node or the orchestrator
unpacks first; the chain node's script ends at any error, the orchestrator's goes
on.  The roles of the template are those of `init.js` for five nodes instead of
thirteen.

## Runs

All runs that must pass finish without error; those marked *violated* check one
property that a comment, message or document claims and the code does not keep.

| Run | Checks | Bounds |
| --- | --- | --- |
| `pallet` | `TypeOK`, `LeadedIffLeader`, `RegistryIsBijection`, `ZeroMeansNeverSeen`, `EventsTellLeader`, `EventsTellHeartbeats`, `LivenessIsMonotone`, `ImplementsRegister` | 3 accounts, 2 groups, 3 blocks of 2 extrinsics, counter up to 1 |
| `federation_calm` | `AtMostOneActive`, `ChallengedWasSilent`, `PeersHeardBeforeActive`, `StandsDownForCause` | no crash, failing queries, a second group, lag 2, 4 blocks |
| `federation_faulty` | `TypeOK`, `HeartbeatsFollowChain`, `ActiveIsLeaderSeen`, `DemotedStandsDown` (liveness) | one crash or lost watch, boot queries one by one that may fail, lag 1, 4 blocks |
| `federation_skipped_wait` | `AtMostOneActive`: *violated* | one lost watch |
| `chain_client` | `TypeOK`, `SickChainSilences`, `WatchesSettle`, `HeartbeatsResume` (the last three liveness) | two senders, threshold 2, gap 3, finality 1 behind, one failure, no bound on blocks |
| `orchestrator` | `TypeOK`, `ActiveIsLeader`, `NotReadyGivesWay`, `HeartbeatsOffMeansPassive`, `SilentLeaderReplaced` (the last three liveness) | two rivals, all modes and requests, thresholds 1 and 2 |
| `orchestrator_silenced` | `HeartbeatsRecover` (liveness): *violated* | one rival, no request, no failure |
| `services` | `TypeOK`, `CleanUpIsLocked`, `OneContainerInTurn`, `PassiveInTurn`, `ExitInTurn`, `OneVolume`, `BootComesUp`, `ValidatorStops`, `SyncComesBack` (the last two liveness) | two starts, a stop and a signal at once, two failures, one restart |
| `service_stands_down_late` | `PassiveMeansNoValidator`: *violated* | two starts at once |
| `keys` | `TypeOK`, `ListedIsStored`, `KeysArrive` (liveness) | four keys, two imports, two failing calls |
| `keys_twice` | `ReadyHasAllKeys`: *violated* | six keys, two imports |
| `configuration` | `FilesOfOneGeneration`, `AlignedRunsAsDrawn`, `ChainComesUp` | five nodes, two edits, two generations, two passwords, any number of installs and starts |

**Why these bounds.** Three accounts are a leader, a challenger and a bystander;
two extrinsics a block are the least with which events of a block depend on one
another; the counter saturates at the second account.  A takeover takes four
blocks with `AliveTime` 1: heartbeats, first leader, a block past which it is
down, second leader.  Two operators need a third live node to take over from each
other (`anyOneAlive` asks for the node itself and one other), which is the
sentinel; it runs no service and is alive in every block (`Steady`, which in
`federation_faulty` includes one operator, down or not, to keep the run small: a heartbeat
may be delayed past its sender's crash).  A lag of 2
lets two blocks be unknown to one operator and known to the other.  Two rivals in
`orchestrator` are one that leads and is silent and one that is alive, without which
a cycle gets nowhere.  Thresholds of
0 to 2 (5 and 30 in the code) let counters be below, at and, if wrong, beyond
their limit.  The same holds of two calls at a time on the service.  Two failures
let a removal fail after the query for the volume did (`OneVolume` would break only
with a third, and says so); one restart lets every state of the containers meet a boot.  `NODE_ID`s 3
to 5 are the last service node of the template, a node without a service, and one
that a shorter list leaves out; two edits put two lists out of step or into step
again, and two generations are an archive and what is written over it.

**Assumptions of the federation runs.** Chain nodes import blocks in order and
do not reorganise; events arrive once per import while the process listens; an
answer to a query is handled in order with the events around it.
`HeartbeatsFollowChain` says what a boot may cost: the map lacks the last heartbeat
of a wallet whose query failed, or that beat after its query and before the
subscription, until that node's next one.  `federation_calm` and `federation_faulty` divide
the faults between them because together they are out of TLC's reach.
`AtMostOneActive` and `PeersHeardBeforeActive` hold when the
10 s wait outlasts block propagation (`WaitCovers`) and no watch is lost; both are
necessary, as `federation_skipped_wait` shows for the second.  They are not
sufficient for the whole program: the two properties are about nodes that nobody
forces.  While `forceActive` of an HTTP request is in its 10 s wait, a cycle of the
same node finds the node to be leader (`orchestrator.js`, line 266) and makes it active
without a wait of its own, no fault needed; `Orchestrator` has that interleaving, but
one node only.  A crashed node
whose container goes on is not counted as active, since it cannot know.

**Fairness.** `Federation.FairSpec`: chain nodes keep importing; nothing is
assumed of cycles, so a hung watch does not matter.  `ChainClient.FairSpec`: queries end, the heartbeat loop goes on, and a chain that
produces blocks includes what is in its pool; that blocks are finalized is a
premise of the properties that need it: that every transaction included is
finalized some time (`IncludedGetFinal`), which a producing chain does although its
finality always lags.  `HeartbeatsResume` also takes it that blocks come more often
than one loop looks for them (`BlocksOutpaceChecks`: 6 s against 10 s; otherwise a
chain that moves slowly is taken for stalled), that the cycle does not go on using
the nonce a heartbeat needs for ever, and that the heartbeat loop has not lost a watch;
lost watches of the cycle are allowed.  `Orchestrator.FairSpec`: the
two loops keep running (`setIntervalAsync` starts one round after the other), and
an await whose answer does not depend on finalization returns; the outcome of
`set_leader` is not assumed ever to come.  The liveness properties do say what they
need: no forced mode or request from some point on (`CycleDecides`),
and no cycle stuck in `set_leader` for ever (`OutcomesCome`), since TLC shows that
a forced start beside a stuck cycle leaves nobody to stand the service down.
`SilentLeaderReplaced` moreover takes a node that is fit to lead: the service ready,
another node alive, the chain available in the end, and `set_leader` refused only for a
leader that is outdated (`RefusedIfOutdated`).  The rivals are free to take the
leadership from one another all the while.
`ServiceContainers.FairSpec`: Docker answers and the cycle keeps starting the
service.  `ValidatorStops` assumes that the two containers do not both run for
ever: they share a database volume, on which the service takes a lock; without
that, two containers that run stay so, as each mode's start finds its own.
`KeyImport.FairSpec`: imports follow each other, as starts of the service do.

**Deadlock** is not checked where the system stops: after an exit
(`ServiceContainers`), when all keys are imported (`KeyImport`), and when the
administrator's bounds are used up (`Configuration`).

## Findings

Four claims of comments, messages or documents that the code does not keep are in
`PROJECT.json`, each with its run.  In short: a leader may go active without the
10 s wait after losing the watch of its transaction; a node that silenced itself never
speaks again; overlapping starts leave a validator on a passive node; overlapping
imports make the service ready with a key missing.

The properties of `services` are stated for calls in turn (`InTurn`) because two
more things the model shows, without a run of their own, break them otherwise: a
failed removal is not noticed and the other container is started all the same
(`polkadot.js`, line 406), and a second signal in the middle of a clean-up exits
the process at once (`utils.js`, line 51).  Likewise `OrchestrationDisabled` may
come in any place of a cycle, because its 5 s wait does not cover the 10 s wait
of a cycle (`routes/orchestrator.js`, line 11): that cycle may turn the service
active once more.  No property is about it.  An archive
written over one of a larger federation keeps old entries under the old password,
at which the start of every chain node ends for good (`ChainComesUp` names the case;
without it TLC finds it).  The counters `noReadyCount` and
`noLivenessFromLeader` outlive the active period and the leader they were counted
for; they are modelled so.  In `Federation` a live leader may be challenged with a
heartbeat read before blocks were imported (`orchestrator.js`, line 281):
`ChallengedWasSilent` says that the heartbeat a cycle went by was too old, not that there
was no newer one, and `AtMostOneActive` survives it.  In `ChainClient` a watch that is lost (a broken
connection, a `FinalityTimeout` status, line 166) leaves `addHeartbeat` waiting for
ever, and with it the heartbeat loop, although the chain has recovered:
`HeartbeatsResume` excludes that in its premise.

## Proofs

TLAPS proves the following for all values of the constants (their named
assumptions included), where TLC checks a small instance.

* `ArchipelPalletProofs`: `Typing`, `LeadedIffLeaderHolds`,
  `RegistryIsBijectionHolds`, `ZeroMeansNeverSeenHolds`,
  `EventsTellHeartbeatsHolds`, `EventsTellLeaderHolds`,
  `LivenessIsMonotoneHolds` and `Implementation` (the pallet implements
  `LeaderRegister`).  Each invariant is inductive once types are known, so every
  proof runs from `TypeOK` and one lemma on how a step keeps the invariant, with
  a case for each dispatchable.  `RegistryIsBijection` covers saturation: it
  says where two accounts may share an index.  The two event theorems rest on
  what appending an event does to the last word on a group (`OwnEvent`,
  `OtherEvent`) and to an account's heartbeats (`DepositAppends`).
  `Implementation` takes `CallStep` (a call is the register's operation); it maps `leader[g]` to the storage entry, or to no leader, and
  uses `LeadedIffLeader`, without which `give_up_leadership` could not be shown
  to be a release.
* `OrchestratorProofs`: `Typing` (with the thresholds as bounds of the counters)
  and `ActiveIsLeaderHolds`: the steps that start the service as active have just
  read the leader, and the step that takes the leadership away stands the service
  down, if there is one; hence `IInv`, which adds that a node without a service
  never had an active one.
* `FederationProofs`, for any operators, groups, lag, crashes and lost watches:
  * `Typing`.  It needs `BacklogInChain` (no chain node is behind by more blocks
    than there are), else an imported block could put a node past `MaxHeight`.
  * `ActiveIsLeaderSeenHolds`, with the addition that a booting process is passive,
    and from it `StandsDownForCauseHolds`, an action property: only `Import`
    shortens a backlog, and it stands a node down only on a take-over in its group.
  * `HeartbeatsFollowChainHolds`.  The invariant has to say what the map is *during*
    the boot, when some wallets have been read, others have not, and blocks come in
    between: a wallet that has been read is as the chain node has it, or is in
    `missed`; and no heartbeat is ahead of the node's best block.
  * `ChallengedWasSilentHolds`, an action property, for whatever queries fail.  A
    claim is made on what several awaits earlier was read: the heartbeat, then the best
    block.  `SilenceInv` follows the cycle: while it judges, the heartbeat it has read is
    not 0 and not newer than the chain node's of the leader it has read, and elsewhere
    before a claim it is 0, so that a 0 means that the map has none.  A best block of 0
    never makes a leader look down.  For the leader that was never heard of it
    takes `HeartbeatsFollowChain`: the chain has no heartbeat of it either, or it was
    missed at boot.

  `Federation` takes `LeaderRegister`'s operations for those of its chain, and so
  has no refinement theorem of its own: that `set_leader` is that compare-and-set is
  `Implementation` of `ArchipelPalletProofs`.
* `FederationExclusionProofs`:
  * `AtMostOneActiveHolds`, *assuming* `WaitCovers` and saying
    `failures = 0 => AtMostOneActive`: until the first crash or lost watch, which
    is stronger than a federation without any.  Failing queries are allowed.  Both
    assumptions are needed: the run `federation_skipped_wait` breaks it with one
    lost watch and `WaitCovers` true, and `FederationCalm.cfg` with `WaitCovers =
    FALSE` breaks it without any failure.
    The argument: an active node has been heard by every peer of its group, that is,
    each peer's chain node has imported the block of its take-over (`PeersHeard`);
    two active nodes see themselves as leaders (`ActiveIsLeaderSeen`); their chain
    nodes read one chain (`ChainInv`: the one that is behind sees the leader that the
    other saw that many blocks ago), so the one
    behind, which still sees itself as leader, has the other's block yet to import,
    and that is the block it has imported.  For this,
    `CalmInv` counts a node's claims: at most one transaction or unimported block
    of its own, and only while it waits for it (`OneClaim`).  It also says that the
    transactions of an active node fail (`ActiveNeverTakes`): they report the node
    itself, which only a group without a leader accepts, and a group that has had a
    leader keeps having one (`StaysLed`).
  * `PeersHeardBeforeActiveHolds`, from the same invariant, assuming `WaitCovers`
    and `MaxFailures = 0` (an action property cannot be made to hold "until").
* `KeyImportProofs`: `Typing`; `ListedIsStoredHolds`, with the addition that a key
  about to be recorded has been found; and `ReadyUnlessListedTwice`: as long as no
  key is listed twice (`NoKeyTwice`), a full list means a full keystore, by
  counting (an injective list as long as the set of keys covers it).  So what the
  violated run `keys_twice` shows is the only way to be ready with a key missing.
* `ServiceContainersProofs`, for any number of calls, failures and restarts:
  * `Typing` and `CleanUpIsLockedHolds`.
  * `OneContainerInTurnHolds`, `PassiveInTurnHolds` and `ExitInTurnHolds` by one
    invariant, `TurnInv`: while calls take turns and Docker answers, one call is at
    work, and its place tells what it has done (`Progress`: the other mode's container
    is gone past `recheck`; what a start has found is still so).  It covers the boot
    as well, although the properties begin when it ends: until its
    clean-up has removed the sync container, both containers of an earlier process may run.
  * `OneVolumeHolds`: `VolumeInv` keeps accounts of failing calls.  A process that
    settles on the default volume, or a container mounted on it, has cost one; a
    container that survived the clean-up of a boot another one; a container on
    another volume than the running process three.  `Phases` says that only the boot's
    call is at work in a boot.  TLC checked these on three failures
    and two restarts before the proof.
  * `BootComesUpHolds`: after its clean-up a boot finds no sync container and so
    creates and starts one itself (`BootGoesOn`), which is what it is asked at the end.
* `ChainClientProofs`: `Typing`, and `WatchesAreOfTransactions`: a call is at its
  `watch` exactly while it has a transaction of its own, unless the watch was lost.
  So nobody is left waiting for a transaction that was usurped, dropped or
  finalized, and nobody goes on while his own is pending.
* `ConfigurationProofs`: `FilesOfOneGenerationHolds`, by `Layered`: in every archive
  and directory the files the newest `config.json` asks for are of its generation,
  and no file is newer than it.  This holds of an archive because `zip` replaces what it is
  given, and of `/config` because `unzip -u` replaces what is older, and it is lost
  without either.  `ChainComesUpHolds` is the action property; `AlignedRunsAsDrawnHolds`
  also needs that the generation read exists.  The theorems are about any number of
  generations, machines and supported services, and lists of any length.

The assumptions are the named `ASSUME`s of the modules, which say that names for
different things are different and that bounds are numbers; TLC evaluates them in every
run.  They cover the thresholds and delays of the code, none of which the theorems
fix.

Only model-checked is everything that is liveness, since fairness is beyond the
proof system: `DemotedStandsDown`, `NotReadyGivesWay`, `HeartbeatsOffMeansPassive`,
`SilentLeaderReplaced`, `SickChainSilences`, `WatchesSettle`, `HeartbeatsResume`,
`ValidatorStops`, `SyncComesBack` and `KeysArrive`.  Every invariant and every action
property that a passing run checks has a theorem.

## Not modelled

* Substrate itself: consensus, forks, finality, weights, signatures.
* The web interface: its requests are some of those that `Orchestrator` and
  `ServiceContainers` take at any time, and what it shows is not state of the
  federation.  The information routes change nothing.
* `dockerExecute` (nothing calls it), the volumes and images Docker keeps, the options of containers, `service.bootstrap` (it copies files
  once); a throw there counts as a crash.
* WireGuard, the chain specification, the telephone alarms, and configuration by
  environment variables alone.
* `giveUpLeadership` of `chain.js` as a step of a federation: no cycle calls it (its
  sending is in `ChainClient`, its effect in `ArchipelPallet`).
* What the counters `noReadyCount` and `noLivenessFromLeader` ought to count: nothing
  in the code or its comments says so.

## Plan

What is next:

1. Proofs: what the liveness properties rest on and is safety, such as the
   counters of `Orchestrator` (a silenced node has used up its threshold), and that
   a cycle that began while another node led never ends active.
2. An abstract specification of a group (one active node, handed over) that the
   calm federation implements.
3. Composition of `Orchestrator` and `ServiceContainers`: the mode a node
   reports in its heartbeats against the container it runs.
4. `forceActive` of HTTP requests as a second activity in `Federation`, with what
   exclusion then needs of the waits.
