------------------------- MODULE ServiceContainers --------------------------
(***************************************************************************)
(* The service of one node: a validator container (active mode) or a sync  *)
(* container (passive mode), started by Polkadot.start and removed by      *)
(* Polkadot.cleanUp.  Nothing serialises these methods: the orchestration  *)
(* cycle, the event listener (which does not await), HTTP requests and     *)
(* exit signals run them concurrently, one Docker call at a time.          *)
(*                                                                         *)
(* One step is one call of docker.js.  The process boots (clean-up, then a *)
(* passive start that must start the container), runs, and may crash at    *)
(* any step; supervisord starts it again and the containers are still      *)
(* there.  Exit signals are caught only once it runs: before, they count   *)
(* as crashes.                                                             *)
(***************************************************************************)
EXTENDS Naturals

CONSTANTS Caller,        \* activities that may be inside Service.serviceStart
          Stopper,       \* HTTP requests inside serviceCleanUp
          Signal,        \* exit signals: each cleans up, then exits
          MaxFailures,   \* bound on Docker calls that fail
          MaxRestarts    \* bound on restarts of the process

ASSUME ServiceAssumption ==
  /\ MaxFailures \in Nat /\ MaxRestarts \in Nat
  /\ "boot" \notin Caller \cup Stopper \cup Signal   \* the call of bootstrap

Cleaner == Stopper \cup Signal
Call == Caller \cup Cleaner \cup {"boot"}
Container == {"validator", "sync"}
Volume == {"service", "default"}   \* that of the orchestrator, or one of its own

Up(m) == IF m = "active" THEN "validator" ELSE "sync"
Down(m) == IF m = "active" THEN "sync" ELSE "validator"

VARIABLES
  (* Docker *)
  container,    \* "absent", "stopped" (or only created) or "running"
  mounted,      \* the volume of each container
  (* the process *)
  stage,        \* "booting", "running", "exited" or "down"
  mode,         \* service.mode
  prepared,
  volume,       \* polkadotVolume
  cleaningUp,
  (* the calls under way *)
  pc,           \* where each call is
  target,       \* the mode a start call was given
  found,        \* containerUp and containerDown of its prepareAndStart, until used
  (* bookkeeping *)
  failures,     \* Docker calls that failed so far
  restarts,     \* restarts so far
  overlapped    \* history: a call of this process has begun while another
                \* was under way

dockerVars == <<container, mounted>>
serviceVars == <<mode, prepared, volume, cleaningUp>>
vars == <<dockerVars, stage, serviceVars, pc, target, found, failures, restarts, overlapped>>

Neither == [up |-> FALSE, down |-> FALSE]

\* A new process begins with a clean-up, which nothing can be in the way of.
Booting ==
  [c \in Call |-> IF c = "boot" THEN "removeSync" ELSE "idle"]

Init ==
  /\ container = [x \in Container |-> "absent"]
  /\ mounted = [x \in Container |-> "none"]
  /\ stage = "booting"
  /\ mode = "none"
  /\ prepared = FALSE
  /\ volume = "none"
  /\ cleaningUp = TRUE
  /\ pc = Booting
  /\ target = [c \in Call |-> "none"]
  /\ found = [c \in Call |-> Neither]
  /\ failures = 0
  /\ restarts = 0
  /\ overlapped = FALSE

AtRest == \A c \in Call : pc[c] \in {"idle", "done"}

At(c, label) == stage \in {"booting", "running"} /\ pc[c] = label

MayBegin(c) ==
  /\ stage = "running"
  /\ At(c, "idle")
  /\ overlapped' = (overlapped \/ ~AtRest)

\* docker.js turns a failing call into the answer false.
Works == UNCHANGED failures
Fails == failures < MaxFailures /\ failures' = failures + 1
ImageUnavailable == Fails    \* neither on the host nor to be pulled

Goto(c, label) == pc' = [pc EXCEPT ![c] = label]

\* removeContainer, whose answer nobody looks at.
RemoveContainer(x) ==
  \/ /\ Works
     /\ container' = [container EXCEPT ![x] = "absent"]
     /\ mounted' = [mounted EXCEPT ![x] = "none"]
  \/ Fails /\ UNCHANGED dockerVars

-----------------------------------------------------------------------------
(* Service.serviceStart and Polkadot.start                                 *)

\* Variant for mutation: a mode that is not known gets through.
BeginStartUnchecked(c) ==
  /\ MayBegin(c)
  /\ \E m \in {"active", "passive", "standby"} :
       mode' = m /\ target' = [target EXCEPT ![c] = m]
  /\ Goto(c, IF prepared THEN "check" ELSE "prepare")
  /\ UNCHANGED <<dockerVars, stage, prepared, volume, cleaningUp, found, failures, restarts>>

BeginStart(c) ==
  /\ MayBegin(c)
  /\ \E m \in {"active", "passive"} : mode' = m /\ target' = [target EXCEPT ![c] = m]
  /\ Goto(c, IF prepared THEN "check" ELSE "prepare")
  /\ UNCHANGED <<dockerVars, stage, prepared, volume, cleaningUp, found, failures, restarts>>

\* Variant for mutation: the service is prepared again for every start.
PrepareEveryTime(c) ==
  /\ At(c, "prepare")
  /\ \/ Works /\ volume' = "service"
     \/ Fails /\ volume' = "default"
  /\ Goto(c, "check")
  /\ UNCHANGED <<dockerVars, stage, mode, prepared, cleaningUp, target, found, restarts, overlapped>>

\* The service's volume is the one of the orchestrator's own container, or one
\* of its own if Docker cannot tell.
Prepare(c) ==
  /\ At(c, "prepare")
  /\ \/ Works /\ volume' = "service"
     \/ Fails /\ volume' = "default"
  /\ prepared' = TRUE
  /\ Goto(c, "check")
  /\ UNCHANGED <<dockerVars, stage, mode, cleaningUp, target, found, restarts, overlapped>>

\* Variant for mutation: it is enough that either container runs.
CheckRunningAny(c) ==
  /\ At(c, "check")
  /\ \/ Works /\ \E x \in Container : container[x] = "running" /\ Goto(c, "import")
     \/ Works /\ (\A x \in Container : container[x] # "running") /\ Goto(c, "findUp")
  /\ UNCHANGED <<dockerVars, stage, serviceVars, target, found, restarts, overlapped>>

\* Nothing is done if the container to start is running.  If not, its volume is
\* created, unless it exists or that fails.
CheckRunning(c) ==
  LET running == container[Up(target[c])] = "running"
  IN  /\ At(c, "check")
      /\ \/ Works /\ running /\ Goto(c, "import")
         \/ (Fails \/ (Works /\ ~running)) /\ Goto(c, "findUp")
      /\ UNCHANGED <<dockerVars, stage, serviceVars, target, found, restarts, overlapped>>

FindUp(c) ==
  /\ At(c, "findUp")
  /\ \/ Works /\ found' = [found EXCEPT ![c].up = container[Up(target[c])] # "absent"]
     \/ Fails /\ found' = [found EXCEPT ![c].up = FALSE]
  /\ Goto(c, "findDown")
  /\ UNCHANGED <<dockerVars, stage, serviceVars, target, restarts, overlapped>>

FindDown(c) ==
  /\ At(c, "findDown")
  /\ \/ Works /\ found' = [found EXCEPT ![c].down = container[Down(target[c])] # "absent"]
     \/ Fails /\ found' = [found EXCEPT ![c].down = FALSE]
  /\ Goto(c, "removeDown")
  /\ UNCHANGED <<dockerVars, stage, serviceVars, target, restarts, overlapped>>

\* Variant for mutation: the other container is only removed if the one to
\* start is already there.
RemoveDownLate(c) ==
  /\ At(c, "removeDown")
  /\ IF found[c].down /\ found[c].up
     THEN RemoveContainer(Down(target[c]))
     ELSE Works /\ UNCHANGED dockerVars
  /\ Goto(c, IF found[c].up THEN "recheck" ELSE "find")
  /\ found' = [found EXCEPT ![c] = Neither]
  /\ UNCHANGED <<stage, serviceVars, target, restarts, overlapped>>

\* The other container is removed before anything is started.
RemoveDown(c) ==
  /\ At(c, "removeDown")
  /\ IF found[c].down
     THEN RemoveContainer(Down(target[c]))
     ELSE Works /\ UNCHANGED dockerVars
  /\ Goto(c, IF found[c].up THEN "recheck" ELSE "find")
  /\ found' = [found EXCEPT ![c] = Neither]
  /\ UNCHANGED <<stage, serviceVars, target, restarts, overlapped>>

\* Variant for mutation: it is enough that the container exists.
CheckAgainExists(c) ==
  /\ At(c, "recheck")
  /\ Works
  /\ Goto(c, IF container[Up(target[c])] # "absent" THEN "import" ELSE "removeUp")
  /\ UNCHANGED <<dockerVars, stage, serviceVars, target, found, restarts, overlapped>>

\* The container to start exists: is it running by now?
CheckAgain(c) ==
  LET running == container[Up(target[c])] = "running"
  IN  /\ At(c, "recheck")
      /\ \/ Works /\ running /\ Goto(c, "import")
         \/ (Fails \/ (Works /\ ~running)) /\ Goto(c, "removeUp")
      /\ UNCHANGED <<dockerVars, stage, serviceVars, target, found, restarts, overlapped>>

RemoveUp(c) ==
  /\ At(c, "removeUp")
  /\ RemoveContainer(Up(target[c]))
  /\ Goto(c, "find")
  /\ UNCHANGED <<stage, serviceVars, target, found, restarts, overlapped>>

\* startContainer looks for the container and the image once more.
Find(c) ==
  LET state == container[Up(target[c])]
  IN  /\ At(c, "find")
      /\ \/ (Fails \/ (Works /\ state = "absent")) /\ Goto(c, "create")
         \/ Works /\ state = "stopped" /\ Goto(c, "start")
         \/ Works /\ state = "running" /\ Goto(c, "import")
         \/ ImageUnavailable /\ Goto(c, "import")
      /\ UNCHANGED <<dockerVars, stage, serviceVars, target, found, restarts, overlapped>>

\* A container of that name must not exist.
Create(c) ==
  LET up == Up(target[c])
  IN  /\ At(c, "create")
      /\ \/ /\ Works /\ container[up] = "absent"
            /\ container' = [container EXCEPT ![up] = "stopped"]
            /\ mounted' = [mounted EXCEPT ![up] = volume]
            /\ Goto(c, "start")
         \/ /\ Fails \/ (Works /\ container[up] # "absent")
            /\ UNCHANGED dockerVars
            /\ Goto(c, "import")
      /\ UNCHANGED <<stage, serviceVars, target, found, restarts, overlapped>>

Start(c) ==
  LET up == Up(target[c])
  IN  /\ At(c, "start")
      /\ \/ /\ Works /\ container[up] = "stopped"
            /\ container' = [container EXCEPT ![up] = "running"]
            /\ Goto(c, "started")
         \/ /\ Fails \/ (Works /\ container[up] # "stopped")
            /\ UNCHANGED container
            /\ Goto(c, "import")
      /\ UNCHANGED <<mounted, stage, serviceVars, target, found, restarts, overlapped>>

\* polkadotKeysImport has run; the call returns.  Bootstrap ends, and throws
\* unless its call has started the container.
Return(c) ==
  /\ \E label \in {"started", "import"} :
       /\ At(c, label)
       /\ stage' = IF c # "boot" THEN stage ELSE IF label = "started" THEN "running" ELSE "down"
  /\ Goto(c, "idle")
  /\ target' = [target EXCEPT ![c] = "none"]
  /\ UNCHANGED <<dockerVars, serviceVars, found, failures, restarts, overlapped>>

-----------------------------------------------------------------------------
(* Polkadot.cleanUp                                                        *)

\* Bootstrap goes on, a signal's handler exits the process, and a request is
\* answered once the clean-up has returned.
EndCleanUp(c) ==
  CASE c = "boot" -> Goto(c, "boot") /\ UNCHANGED stage
    [] c \in Signal -> Goto(c, "done") /\ stage' = "exited"
    [] OTHER -> Goto(c, "idle") /\ UNCHANGED stage

BeginCleanUp(c) ==
  /\ MayBegin(c)
  /\ ~cleaningUp
  /\ cleaningUp' = TRUE
  /\ Goto(c, "removeSync")
  /\ UNCHANGED <<dockerVars, stage, mode, prepared, volume, target, found, failures, restarts>>

SkipCleanUp(c) ==
  /\ MayBegin(c)
  /\ cleaningUp
  /\ EndCleanUp(c)
  /\ UNCHANGED <<dockerVars, serviceVars, target, found, failures, restarts>>

\* Variant for mutation: the sync container is left.
RemoveNothing(c) ==
  /\ At(c, "removeSync")
  /\ Works
  /\ Goto(c, "removeValidator")
  /\ UNCHANGED <<dockerVars, stage, serviceVars, target, found, restarts, overlapped>>

RemoveSync(c) ==
  /\ At(c, "removeSync")
  /\ RemoveContainer("sync")
  /\ Goto(c, "removeValidator")
  /\ UNCHANGED <<stage, serviceVars, target, found, restarts, overlapped>>

\* Variants for mutation: the flag stays set, or the sync container is
\* removed once more instead of the validator.
RemoveValidatorKeepingFlag(c) ==
  /\ At(c, "removeValidator")
  /\ RemoveContainer("validator")
  /\ EndCleanUp(c)
  /\ UNCHANGED <<serviceVars, target, found, restarts, overlapped>>

RemoveSyncAgain(c) ==
  /\ At(c, "removeValidator")
  /\ RemoveContainer("sync")
  /\ cleaningUp' = FALSE
  /\ EndCleanUp(c)
  /\ UNCHANGED <<mode, prepared, volume, target, found, restarts, overlapped>>

RemoveValidator(c) ==
  /\ At(c, "removeValidator")
  /\ RemoveContainer("validator")
  /\ cleaningUp' = FALSE
  /\ EndCleanUp(c)
  /\ UNCHANGED <<mode, prepared, volume, target, found, restarts, overlapped>>

-----------------------------------------------------------------------------
(* The process                                                             *)

\* Bootstrap starts the service in passive mode.
BootPassive ==
  /\ At("boot", "boot")
  /\ mode' = "passive"
  /\ target' = [target EXCEPT !["boot"] = "passive"]
  /\ Goto("boot", "prepare")
  /\ UNCHANGED <<dockerVars, stage, prepared, volume, cleaningUp, found, failures, restarts,
                 overlapped>>

\* Whatever calls were under way are gone, and so is the service object.
Crash ==
  /\ stage \in {"booting", "running"}
  /\ restarts < MaxRestarts
  /\ stage' = "down"
  /\ pc' = [c \in Call |-> "idle"]
  /\ target' = [c \in Call |-> "none"]
  /\ found' = [c \in Call |-> Neither]
  /\ UNCHANGED <<dockerVars, serviceVars, failures, restarts, overlapped>>

\* supervisord starts the orchestrator again.
Restart ==
  /\ stage \in {"exited", "down"}
  /\ restarts < MaxRestarts
  /\ restarts' = restarts + 1
  /\ stage' = "booting"
  /\ mode' = "none"
  /\ prepared' = FALSE
  /\ volume' = "none"
  /\ cleaningUp' = TRUE
  /\ pc' = Booting
  /\ target' = [c \in Call |-> "none"]
  /\ found' = [c \in Call |-> Neither]
  /\ overlapped' = FALSE
  /\ UNCHANGED <<dockerVars, failures>>

\* A container stops on its own account.
ContainerStops(x) ==
  /\ container[x] = "running"
  /\ container' = [container EXCEPT ![x] = "stopped"]
  /\ UNCHANGED <<mounted, stage, serviceVars, pc, target, found, failures, restarts, overlapped>>

-----------------------------------------------------------------------------
StartStep(c) ==
  \/ Prepare(c) \/ CheckRunning(c) \/ FindUp(c) \/ FindDown(c) \/ RemoveDown(c)
  \/ CheckAgain(c) \/ RemoveUp(c) \/ Find(c) \/ Create(c) \/ Start(c) \/ Return(c)

CleanUpStep(c) == RemoveSync(c) \/ RemoveValidator(c)

Next ==
  \/ \E c \in Caller : BeginStart(c) \/ StartStep(c)
  \/ \E c \in Cleaner : BeginCleanUp(c) \/ SkipCleanUp(c) \/ CleanUpStep(c)
  \/ CleanUpStep("boot") \/ BootPassive \/ StartStep("boot")
  \/ Crash \/ Restart
  \/ \E x \in Container : ContainerStops(x)

Spec == Init /\ [][Next]_vars

\* Docker answers every call, and the orchestration cycle starts the service
\* again and again.
FairSpec ==
  /\ Spec
  /\ \A c \in Caller : WF_vars(StartStep(c))
  /\ WF_vars(BeginStart("loop"))

-----------------------------------------------------------------------------
(* Properties                                                              *)

Labels == {"idle", "done", "check", "findUp", "findDown", "removeDown", "recheck",
           "removeUp", "find", "create", "start", "started", "import",
           "removeSync", "removeValidator", "boot", "prepare"}
Modes == {"none", "active", "passive"}

\* Every variable has its type.
TypeOK ==
  /\ container \in [Container -> {"absent", "stopped", "running"}]
  /\ mounted \in [Container -> Volume \cup {"none"}]
  /\ stage \in {"booting", "running", "exited", "down"}
  /\ mode \in Modes
  /\ prepared \in BOOLEAN
  /\ volume \in Volume \cup {"none"}
  /\ cleaningUp \in BOOLEAN
  /\ pc \in [Call -> Labels]
  /\ target \in [Call -> Modes]
  /\ found \in [Call -> [up : BOOLEAN, down : BOOLEAN]]
  /\ failures \in 0..MaxFailures
  /\ restarts \in 0..MaxRestarts
  /\ overlapped \in BOOLEAN

\* The cleaningUp flag is a lock: one clean-up runs at a time whatever else
\* goes on, and the flag does not outlive it.
CleanUpIsLocked ==
  LET inside == {c \in Call : pc[c] \in {"removeSync", "removeValidator"}}
  IN  /\ \A c, d \in inside : c = d
      /\ stage \in {"booting", "running"} => (cleaningUp <=> inside # {})

\* polkadot.js:403, "We must remove down container if it exist": the validator
\* and the sync container never run together.
OneContainerRuns == \E x \in Container : container[x] # "running"

\* orchestrator.js:216 and chain.js:62 stand the node down by starting the
\* service in passive mode: when no start is under way and service.mode is
\* passive, no validator runs.
PassiveMeansNoValidator ==
  stage = "running" /\ AtRest /\ mode = "passive" => container["validator"] # "running"

\* utils.js:50, "Waiting for cleanup to be finished": the process does not exit
\* with a container left running.
ExitLeavesNothing == stage = "exited" => \A x \in Container : container[x] # "running"

\* The calls of this process have taken turns, and Docker has answered.
InTurn == stage \in {"running", "exited"} /\ ~overlapped /\ failures = 0

\* Calls that take turns keep the two containers apart, ...
OneContainerInTurn == InTurn => OneContainerRuns

\* ... leave no validator in passive mode, ...
PassiveInTurn == InTurn => PassiveMeansNoValidator

\* ... and nothing after an exit, wherever containers stop by themselves and
\* whatever an earlier process has left behind.
ExitInTurn == InTurn => ExitLeavesNothing

\* polkadot.js:379, "give this volume to polkadot container": both containers
\* keep their chain database on the one volume the process chose at its start,
\* so that a change of mode finds the blocks the other mode has synced.  Two
\* failing Docker calls do not break this, nor do a crash and a restart: the
\* containers of a process that chose another volume are not started again.  It
\* would take a third: one for the other volume, two to keep a container on it.
OneVolume ==
  stage = "running" /\ failures <= 2 =>
    \A x \in Container : container[x] # "absent" => mounted[x] = volume

\* orchestrator.js:65 throws unless bootstrap's own passive start started the
\* container: whatever a crash has left behind, and in whatever state, a boot
\* all of whose Docker calls work gets that far.
BootComesUp ==
  [][Return("boot") /\ failures = 0 => stage' = "running"]_vars

\* A node that stays passive ends up without a validator, however the starts
\* that were under way have undone each other's work, provided that the two
\* containers do not both run: they share a database volume, which the service
\* locks.
ValidatorStops ==
  <>[](mode = "passive" /\ stage = "running" /\ OneContainerRuns)
    => <>[](container["validator"] # "running")

\* And once only the orchestration cycle starts the service, its sync container
\* runs time and again, although it may stop at any moment.
SyncComesBack ==
  <>[](mode = "passive" /\ stage = "running" /\ \A c \in Call \ {"loop"} : pc[c] = "idle")
    => []<>(container["sync"] = "running")
=============================================================================
