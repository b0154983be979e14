----------------------- MODULE ServiceContainersProofs -----------------------
(***************************************************************************)
(* Proofs about ServiceContainers, for every number of calls that start    *)
(* and clean up the service, of exit signals, of restarts and of failing   *)
(* Docker calls.                                                           *)
(***************************************************************************)
EXTENDS ServiceContainers, TLAPS

\* Where a start call, or bootstrap's, may be.
StartLabels ==
  {"prepare", "check", "findUp", "findDown", "removeDown", "recheck", "removeUp",
   "find", "create", "start", "started", "import"}

CleanUpLabels == {"removeSync", "removeValidator"}

LEMMA ContainerNames ==
  /\ "sync" \in Container /\ "validator" \in Container
  /\ \A m : Up(m) \in Container /\ Down(m) \in Container /\ Up(m) # Down(m)
  /\ Up("passive") = "sync" /\ Down("passive") = "validator"
BY DEF Container, Up, Down

LEMMA BootIsNotStarted == "boot" \in Call /\ "boot" \notin Caller /\ "boot" \notin Cleaner
BY ServiceAssumption DEF Call, Cleaner

\* A Docker call works or fails.
LEMMA Counting ==
  ASSUME TypeOK, Works \/ Fails
  PROVE  /\ failures' \in 0..MaxFailures
         /\ failures <= failures'
         /\ failures' = 0 => Works
BY ServiceAssumption DEF TypeOK, Works, Fails

\* What the step of a start call leaves alone.
LEMMA StartFrame ==
  ASSUME TypeOK, NEW c \in Call, StartStep(c)
  PROVE  /\ pc[c] \in StartLabels
         /\ pc' = [pc EXCEPT ![c] = pc'[c]]
         /\ pc'[c] \in StartLabels \cup {"idle"}
         /\ Works \/ Fails
         /\ stage \in {"booting", "running"}
         /\ stage' = stage \/ (c = "boot" /\ stage' \in {"running", "down"})
         /\ UNCHANGED <<mode, cleaningUp, restarts, overlapped>>
<1>1. CASE Prepare(c)
  BY <1>1 DEF Prepare, At, Goto, TypeOK, StartLabels
<1>2. CASE CheckRunning(c)
  BY <1>2 DEF CheckRunning, At, Goto, TypeOK, StartLabels, serviceVars
<1>3. CASE FindUp(c)
  BY <1>3 DEF FindUp, At, Goto, TypeOK, StartLabels, serviceVars
<1>4. CASE FindDown(c)
  BY <1>4 DEF FindDown, At, Goto, TypeOK, StartLabels, serviceVars
<1>5. CASE RemoveDown(c)
  BY <1>5 DEF RemoveDown, RemoveContainer, At, Goto, TypeOK, StartLabels, serviceVars
<1>6. CASE CheckAgain(c)
  BY <1>6 DEF CheckAgain, At, Goto, TypeOK, StartLabels, serviceVars
<1>7. CASE RemoveUp(c)
  BY <1>7 DEF RemoveUp, RemoveContainer, At, Goto, TypeOK, StartLabels, serviceVars
<1>8. CASE Find(c)
  BY <1>8 DEF Find, ImageUnavailable, At, Goto, TypeOK, StartLabels, serviceVars
<1>9. CASE Create(c)
  BY <1>9 DEF Create, At, Goto, TypeOK, StartLabels, serviceVars
<1>10. CASE Start(c)
  BY <1>10 DEF Start, At, Goto, TypeOK, StartLabels, serviceVars
<1>11. CASE Return(c)
  BY <1>11 DEF Return, At, Goto, TypeOK, StartLabels, serviceVars, Works
<1> QED
  BY <1>1, <1>2, <1>3, <1>4, <1>5, <1>6, <1>7, <1>8, <1>9, <1>10, <1>11 DEF StartStep

\* Where a clean-up call is after its last step.
LEMMA CleanUpEnds ==
  ASSUME TypeOK, NEW c \in Cleaner \cup {"boot"}, EndCleanUp(c)
  PROVE  /\ pc' = [pc EXCEPT ![c] = pc'[c]]
         /\ IF c = "boot" THEN pc'[c] = "boot" ELSE pc'[c] \in {"idle", "done"}
         /\ stage' = stage \/ (c \in Signal /\ stage' = "exited")
<1> USE DEF Call
<1>1. CASE c = "boot"
  BY <1>1, BootIsNotStarted DEF EndCleanUp, Goto, TypeOK, Cleaner
<1>2. CASE c # "boot" /\ c \in Signal
  BY <1>2 DEF EndCleanUp, Goto, TypeOK
<1>3. CASE c # "boot" /\ c \notin Signal
  BY <1>3 DEF EndCleanUp, Goto, TypeOK
<1> QED BY <1>1, <1>2, <1>3

LEMMA CleanUpFrame ==
  ASSUME TypeOK, NEW c \in Cleaner \cup {"boot"}, CleanUpStep(c)
  PROVE  /\ pc[c] \in CleanUpLabels
         /\ pc' = [pc EXCEPT ![c] = pc'[c]]
         /\ IF pc[c] = "removeSync" THEN pc'[c] = "removeValidator"
            ELSE IF c = "boot" THEN pc'[c] = "boot" ELSE pc'[c] \in {"idle", "done"}
         /\ Works \/ Fails
         /\ stage \in {"booting", "running"}
         /\ \/ stage' = stage
            \/ pc[c] = "removeValidator" /\ c \in Signal /\ stage' = "exited"
         /\ cleaningUp' = IF pc[c] = "removeSync" THEN cleaningUp ELSE FALSE
         /\ UNCHANGED <<mode, prepared, volume, target, found, restarts, overlapped>>
<1> USE DEF Call
<1>1. CASE RemoveSync(c)
  BY <1>1 DEF RemoveSync, RemoveContainer, At, Goto, TypeOK, CleanUpLabels, serviceVars
<1>2. CASE RemoveValidator(c)
  BY <1>2, CleanUpEnds DEF RemoveValidator, RemoveContainer, At, TypeOK, CleanUpLabels
<1> QED BY <1>1, <1>2 DEF CleanUpStep

LEMMA FreshTyped ==
  /\ Booting \in [Call -> Labels]
  /\ [c \in Call |-> Neither] \in [Call -> [up : BOOLEAN, down : BOOLEAN]]
  /\ [c \in Call |-> "none"] \in [Call -> Modes]
<1>1. Booting \in [Call -> Labels]
  BY DEF Booting, Labels
<1>2. Neither \in [up : BOOLEAN, down : BOOLEAN]
  BY DEF Neither
<1> QED BY <1>1, <1>2 DEF Modes

\* An answer of Docker is noted as a truth value.
LEMMA AnswerTyped ==
  ASSUME TypeOK, NEW c \in Call, NEW answer \in BOOLEAN
  PROVE  /\ [found EXCEPT ![c].up = answer] \in [Call -> [up : BOOLEAN, down : BOOLEAN]]
         /\ [found EXCEPT ![c].down = answer] \in [Call -> [up : BOOLEAN, down : BOOLEAN]]
BY DEF TypeOK

LEMMA RemovalTyped ==
  ASSUME TypeOK, NEW x \in Container, RemoveContainer(x)
  PROVE  /\ container' \in [Container -> {"absent", "stopped", "running"}]
         /\ mounted' \in [Container -> Volume \cup {"none"}]
BY DEF RemoveContainer, TypeOK, dockerVars

-----------------------------------------------------------------------------
(* Types                                                                   *)

LEMMA StartTyped ==
  ASSUME TypeOK, NEW c \in Call, StartStep(c)
  PROVE  TypeOK'
<1>1. /\ pc' \in [Call -> Labels]
      /\ stage' \in {"booting", "running", "exited", "down"}
      /\ UNCHANGED <<mode, cleaningUp, restarts, overlapped>>
      /\ failures' \in 0..MaxFailures
  BY StartFrame, Counting DEF TypeOK, Labels, StartLabels
<1>2. CASE Prepare(c)
  BY <1>1, <1>2 DEF Prepare, TypeOK, dockerVars, Volume
<1>3. CASE CheckRunning(c)
  BY <1>1, <1>3 DEF CheckRunning, TypeOK, dockerVars, serviceVars
<1>4. CASE FindUp(c)
  <2>1. found' \in [Call -> [up : BOOLEAN, down : BOOLEAN]]
    <3>1. (container[Up(target[c])] # "absent") \in BOOLEAN
      OBVIOUS
    <3>2. CASE found' = [found EXCEPT ![c].up = container[Up(target[c])] # "absent"]
      BY <3>1, <3>2, AnswerTyped
    <3>3. CASE found' = [found EXCEPT ![c].up = FALSE]
      BY <3>3, AnswerTyped
    <3> QED BY <1>4, <3>2, <3>3 DEF FindUp
  <2> QED BY <1>1, <1>4, <2>1 DEF FindUp, TypeOK, dockerVars, serviceVars
<1>5. CASE FindDown(c)
  <2>1. found' \in [Call -> [up : BOOLEAN, down : BOOLEAN]]
    <3>1. (container[Down(target[c])] # "absent") \in BOOLEAN
      OBVIOUS
    <3>2. CASE found' = [found EXCEPT ![c].down = container[Down(target[c])] # "absent"]
      BY <3>1, <3>2, AnswerTyped
    <3>3. CASE found' = [found EXCEPT ![c].down = FALSE]
      BY <3>3, AnswerTyped
    <3> QED BY <1>5, <3>2, <3>3 DEF FindDown
  <2> QED BY <1>1, <1>5, <2>1 DEF FindDown, TypeOK, dockerVars, serviceVars
<1>6. CASE RemoveDown(c)
  <2>1. /\ container' \in [Container -> {"absent", "stopped", "running"}]
        /\ mounted' \in [Container -> Volume \cup {"none"}]
    BY <1>6, RemovalTyped, ContainerNames DEF RemoveDown, TypeOK, dockerVars
  <2> QED BY <1>1, <1>6, <2>1 DEF RemoveDown, TypeOK, serviceVars, Neither
<1>7. CASE CheckAgain(c)
  BY <1>1, <1>7 DEF CheckAgain, TypeOK, dockerVars, serviceVars
<1>8. CASE RemoveUp(c)
  <2>1. /\ container' \in [Container -> {"absent", "stopped", "running"}]
        /\ mounted' \in [Container -> Volume \cup {"none"}]
    BY <1>8, RemovalTyped, ContainerNames DEF RemoveUp
  <2> QED BY <1>1, <1>8, <2>1 DEF RemoveUp, TypeOK, serviceVars
<1>9. CASE Find(c)
  BY <1>1, <1>9 DEF Find, TypeOK, dockerVars, serviceVars
<1>10. CASE Create(c)
  BY <1>1, <1>10, ContainerNames DEF Create, TypeOK, dockerVars, serviceVars
<1>11. CASE Start(c)
  BY <1>1, <1>11, ContainerNames DEF Start, TypeOK, serviceVars
<1>12. CASE Return(c)
  BY <1>1, <1>12 DEF Return, TypeOK, dockerVars, serviceVars, Modes
<1> QED
  BY <1>2, <1>3, <1>4, <1>5, <1>6, <1>7, <1>8, <1>9, <1>10, <1>11, <1>12 DEF StartStep

LEMMA CleanUpTyped ==
  ASSUME TypeOK, NEW c \in Cleaner \cup {"boot"}, CleanUpStep(c)
  PROVE  TypeOK'
<1>1. c \in Call
  BY DEF Call
<1>2. pc' = [pc EXCEPT ![c] = pc'[c]] /\ pc'[c] \in Labels
  BY CleanUpFrame DEF Labels
<1>3. pc' \in [Call -> Labels]
  BY <1>1, <1>2 DEF TypeOK
<1>4. stage' \in {"booting", "running", "exited", "down"}
  BY CleanUpFrame DEF TypeOK
<1>5. failures' \in 0..MaxFailures
  BY CleanUpFrame, Counting
<1>6. cleaningUp' \in BOOLEAN
  BY CleanUpFrame DEF TypeOK
<1>7. UNCHANGED <<mode, prepared, volume, target, found, restarts, overlapped>>
  BY CleanUpFrame
<1>8. /\ container' \in [Container -> {"absent", "stopped", "running"}]
      /\ mounted' \in [Container -> Volume \cup {"none"}]
  BY RemovalTyped, ContainerNames DEF CleanUpStep, RemoveSync, RemoveValidator
<1> QED BY <1>3, <1>4, <1>5, <1>6, <1>7, <1>8 DEF TypeOK

\* The steps that a call of the service is not under way in.
LEMMA OtherTyped ==
  ASSUME TypeOK,
         \/ \E c \in Caller : BeginStart(c)
         \/ \E c \in Cleaner : BeginCleanUp(c) \/ SkipCleanUp(c)
         \/ BootPassive \/ Crash \/ Restart
         \/ \E x \in Container : ContainerStops(x)
  PROVE  TypeOK'
<1> USE DEF Call, Modes, Labels
<1>1. ASSUME NEW c \in Caller, BeginStart(c) PROVE TypeOK'
  BY <1>1 DEF BeginStart, MayBegin, Goto, TypeOK, dockerVars
<1>2. ASSUME NEW c \in Cleaner, BeginCleanUp(c) PROVE TypeOK'
  BY <1>2 DEF BeginCleanUp, MayBegin, Goto, TypeOK, dockerVars
<1>3. ASSUME NEW c \in Cleaner, SkipCleanUp(c) PROVE TypeOK'
  BY <1>3, CleanUpEnds DEF SkipCleanUp, MayBegin, TypeOK, dockerVars, serviceVars
<1>4. CASE BootPassive
  BY <1>4, BootIsNotStarted DEF BootPassive, Goto, TypeOK, dockerVars
<1>5. CASE Crash
  BY <1>5 DEF Crash, TypeOK, dockerVars, serviceVars, Neither
<1>6. CASE Restart
  <2>1. restarts' \in 0..MaxRestarts /\ overlapped' = FALSE
    BY <1>6, ServiceAssumption DEF Restart, TypeOK
  <2> QED BY <1>6, <2>1, FreshTyped DEF Restart, TypeOK, dockerVars
<1>7. ASSUME NEW x \in Container, ContainerStops(x) PROVE TypeOK'
  BY <1>7 DEF ContainerStops, TypeOK, serviceVars
<1> QED BY <1>1, <1>2, <1>3, <1>4, <1>5, <1>6, <1>7

\* The steps of the system by kind.
LEMMA StepCases ==
  ASSUME Next
  PROVE  \/ \E c \in Caller \cup {"boot"} : StartStep(c)
         \/ \E c \in Cleaner \cup {"boot"} : CleanUpStep(c)
         \/ \E c \in Caller : BeginStart(c)
         \/ \E c \in Cleaner : BeginCleanUp(c) \/ SkipCleanUp(c)
         \/ BootPassive \/ Crash \/ Restart
         \/ \E x \in Container : ContainerStops(x)
BY DEF Next

LEMMA TypingStep ==
  ASSUME TypeOK, [Next]_vars
  PROVE  TypeOK'
<1>1. CASE UNCHANGED vars
  BY <1>1 DEF TypeOK, vars, dockerVars, serviceVars
<1>2. CASE Next
  BY <1>2, StepCases, StartTyped, CleanUpTyped, OtherTyped DEF Call
<1> QED BY <1>1, <1>2

\* Every variable has its type.
THEOREM Typing == Spec => []TypeOK
<1>1. Init => TypeOK
  <2>1. 0 \in 0..MaxFailures /\ 0 \in 0..MaxRestarts
    BY ServiceAssumption
  <2> QED BY <2>1, FreshTyped DEF Init, TypeOK, Modes
<1> QED BY <1>1, TypingStep, PTL DEF Spec

-----------------------------------------------------------------------------
(* The lock of the clean-up                                                *)

Inside(c) == pc[c] \in CleanUpLabels

\* CleanUpIsLocked in terms of single calls; it is inductive as it stands.
Locked ==
  /\ \A c, d \in Call : Inside(c) /\ Inside(d) => c = d
  /\ stage \in {"booting", "running"} => (cleaningUp = TRUE <=> \E c \in Call : Inside(c))

LEMMA LockedIsLocked ==
  ASSUME TypeOK, Locked
  PROVE  CleanUpIsLocked
<1> DEFINE inside == {c \in Call : pc[c] \in CleanUpLabels}
<1>1. \A c, d \in inside : c = d
  BY DEF Locked, Inside
<1>2. inside # {} <=> \E c \in Call : Inside(c)
  BY DEF Inside
<1>3. cleaningUp <=> cleaningUp = TRUE
  BY DEF TypeOK
<1>4. stage \in {"booting", "running"} => (cleaningUp <=> inside # {})
  BY <1>2, <1>3 DEF Locked
<1> QED BY <1>1, <1>4 DEF CleanUpIsLocked, CleanUpLabels

\* A step by which nobody enters or leaves a clean-up keeps the lock.
LEMMA LockFrame ==
  ASSUME Locked,
         \A c \in Call : Inside(c)' <=> Inside(c),
         UNCHANGED cleaningUp,
         stage' \in {"booting", "running"} => stage \in {"booting", "running"}
  PROVE  Locked'
BY DEF Locked

LEMMA LockStep ==
  ASSUME TypeOK, Locked, [Next]_vars
  PROVE  Locked'
<1> USE DEF CleanUpLabels
<1>1. CASE UNCHANGED vars
  BY <1>1, LockFrame DEF vars, serviceVars, Inside
<1>2. ASSUME NEW c \in Caller \cup {"boot"}, StartStep(c) PROVE Locked'
  BY <1>2, StartFrame, LockFrame DEF Inside, Call, StartLabels, TypeOK
<1>3. ASSUME NEW c \in Cleaner \cup {"boot"}, CleanUpStep(c) PROVE Locked'
  <2>1. c \in Call /\ Inside(c) /\ \A d \in Call \ {c} : ~Inside(d)
    BY <1>3, CleanUpFrame DEF Call, Inside, Locked
  <2>2. \A d \in Call \ {c} : ~Inside(d)'
    BY <1>3, <2>1, CleanUpFrame DEF Inside, TypeOK
  <2>3. cleaningUp = TRUE
    BY <1>3, <2>1, CleanUpFrame DEF Locked
  <2>4. CASE pc[c] = "removeSync"
    <3>1. Inside(c)'
      BY <1>3, <2>4, CleanUpFrame DEF Inside
    <3>2. cleaningUp' = TRUE
      BY <1>3, <2>3, <2>4, CleanUpFrame
    <3> QED BY <2>1, <2>2, <3>1, <3>2 DEF Locked
  <2>5. CASE pc[c] = "removeValidator"
    <3>1. ~Inside(c)'
      BY <1>3, <2>5, CleanUpFrame DEF Inside
    <3>2. cleaningUp' = FALSE
      BY <1>3, <2>5, CleanUpFrame
    <3> QED BY <2>1, <2>2, <3>1, <3>2 DEF Locked
  <2> QED BY <1>3, <2>4, <2>5, CleanUpFrame
<1>4. ASSUME NEW c \in Caller, BeginStart(c) PROVE Locked'
  BY <1>4, LockFrame DEF BeginStart, MayBegin, At, Goto, Inside, Call, TypeOK
<1>5. ASSUME NEW c \in Cleaner, BeginCleanUp(c) PROVE Locked'
  <2>1. c \in Call /\ cleaningUp # TRUE /\ cleaningUp' = TRUE /\ stage = "running"
    BY <1>5 DEF BeginCleanUp, MayBegin, Call
  <2>2. \A d \in Call : ~Inside(d)
    BY <2>1 DEF Locked
  <2>3. Inside(c)' /\ \A d \in Call \ {c} : ~Inside(d)'
    BY <1>5, <2>1, <2>2 DEF BeginCleanUp, Goto, Inside, TypeOK
  <2> QED BY <2>1, <2>3 DEF Locked
<1>6. ASSUME NEW c \in Cleaner, SkipCleanUp(c) PROVE Locked'
  <2>1. /\ pc[c] = "idle" /\ pc' = [pc EXCEPT ![c] = pc'[c]] /\ pc'[c] \notin CleanUpLabels
        /\ stage = "running" /\ UNCHANGED cleaningUp
    BY <1>6, CleanUpEnds DEF SkipCleanUp, MayBegin, At, serviceVars
  <2> QED BY <2>1, LockFrame DEF Inside, Call, TypeOK
<1>7. CASE BootPassive
  BY <1>7, LockFrame, BootIsNotStarted DEF BootPassive, At, Goto, Inside, TypeOK
<1>8. CASE Crash
  BY <1>8 DEF Crash, Locked, Inside
<1>9. CASE Restart
  BY <1>9, BootIsNotStarted DEF Restart, Booting, Locked, Inside
<1>10. ASSUME NEW x \in Container, ContainerStops(x) PROVE Locked'
  BY <1>10, LockFrame DEF ContainerStops, serviceVars, Inside
<1> QED
  BY <1>1, <1>2, <1>3, <1>4, <1>5, <1>6, <1>7, <1>8, <1>9, <1>10, StepCases

LEMMA LockAlways == Spec => []Locked
<1>1. Init => Locked
  BY BootIsNotStarted DEF Init, Booting, Locked, Inside, CleanUpLabels
<1> QED BY <1>1, LockStep, Typing, PTL DEF Spec

\* The flag cleaningUp is a lock that no crash leaves behind: one clean-up runs
\* at a time, and the flag is set exactly while one runs (polkadot.js cleanUp).
THEOREM CleanUpIsLockedHolds == Spec => []CleanUpIsLocked
BY LockAlways, Typing, LockedIsLocked, PTL

-----------------------------------------------------------------------------
(* Calls that take turns                                                   *)

Busy(c) == pc[c] \notin {"idle", "done"}

\* Where a start call is once it has seen to the other container.
DownGoneLabels == {"recheck", "removeUp", "find", "create", "start", "started", "import"}

\* What the call under way has achieved, while no other is in its way.
Progress(c) ==
  /\ pc[c] \in StartLabels => mode = target[c] /\ target[c] \in {"active", "passive"}
  /\ pc[c] = "removeDown" => container[Down(target[c])] = "absent" \/ found[c].down = TRUE
  /\ pc[c] \in DownGoneLabels => container[Down(target[c])] # "running"
  /\ pc[c] = "removeValidator" => container["sync"] # "running"

InTurnOrBooting == stage # "down" /\ overlapped = FALSE /\ failures = 0

\* The calls that take turns from the clean-up of the boot on, which may find
\* both containers running: nothing is known of what an earlier process left.
TurnInv ==
  InTurnOrBooting =>
    /\ \A c, d \in Call : Busy(c) /\ Busy(d) => c = d
    /\ stage = "booting" => Busy("boot")
    /\ \A c \in Call : Progress(c)
    /\ (stage = "booting" /\ pc["boot"] = "removeSync") \/ OneContainerRuns
    /\ PassiveMeansNoValidator
    /\ ExitLeavesNothing

\* The invariant after a step of the only call under way.
LEMMA TurnKept ==
  ASSUME NEW c \in Call,
         \A d \in Call \ {c} : ~Busy(d)',
         (stage = "booting" => Busy("boot"))',
         Progress(c)',
         ((stage = "booting" /\ pc["boot"] = "removeSync") \/ OneContainerRuns)',
         PassiveMeansNoValidator',
         ExitLeavesNothing'
  PROVE  TurnInv'
<1>1. \A d \in Call \ {c} : Progress(d)'
  BY DEF Busy, Progress, StartLabels, DownGoneLabels
<1> QED BY <1>1 DEF TurnInv

LEMMA OneRunsAfterRemoval ==
  ASSUME TypeOK, NEW x \in Container, RemoveContainer(x)
  PROVE  /\ OneContainerRuns => OneContainerRuns'
         /\ Works => container' = [container EXCEPT ![x] = "absent"]
         /\ \A y \in Container : container'[y] \in {container[y], "absent"}
<1>1. \A y \in Container : container'[y] \in {container[y], "absent"}
  BY DEF RemoveContainer, dockerVars, TypeOK
<1>2. Works => container' = [container EXCEPT ![x] = "absent"]
  BY DEF RemoveContainer, Works, Fails, TypeOK
<1> QED BY <1>1, <1>2 DEF OneContainerRuns

LEMMA StartTurn ==
  ASSUME TypeOK, TurnInv, NEW c \in Caller \cup {"boot"}, StartStep(c)
  PROVE  TurnInv'
<1> SUFFICES ASSUME InTurnOrBooting'
             PROVE  TurnInv'
  BY DEF TurnInv
<1> USE DEF StartLabels, DownGoneLabels
<1>0. c \in Call
  BY DEF Call
<1>1. InTurnOrBooting /\ Works /\ stage \in {"booting", "running"}
  <2>1. overlapped = FALSE /\ stage \in {"booting", "running"}
    BY <1>0, StartFrame DEF InTurnOrBooting
  <2>2. failures = 0 /\ Works
    BY <1>0, StartFrame, Counting DEF InTurnOrBooting, Works, Fails, TypeOK
  <2> QED BY <2>1, <2>2 DEF InTurnOrBooting
<1>2. Busy(c) /\ pc[c] \in StartLabels /\ \A d \in Call \ {c} : ~Busy(d)
  BY <1>0, <1>1, StartFrame DEF TurnInv, Busy
<1>3. \A d \in Call \ {c} : ~Busy(d)'
  BY <1>0, <1>2, StartFrame DEF Busy, TypeOK
<1>4. /\ mode = target[c] /\ target[c] \in {"active", "passive"} /\ mode' = mode
      /\ OneContainerRuns
      /\ pc'["boot"] # "removeSync"
  <2>1. pc["boot"] # "removeSync" /\ pc'["boot"] # "removeSync"
    BY <1>0, <1>2, <1>3, BootIsNotStarted, StartFrame DEF Busy, TypeOK
  <2> QED BY <1>0, <1>1, <1>2, <2>1, StartFrame DEF TurnInv, Progress
<1>5. Progress(c)
  BY <1>0, <1>1 DEF TurnInv
<1>6. ASSUME Busy(c)', UNCHANGED stage, Progress(c)', OneContainerRuns'
      PROVE  TurnInv'
  <2>1. ~AtRest'
    BY <1>0, <1>6 DEF AtRest, Busy
  <2>2. PassiveMeansNoValidator' /\ ExitLeavesNothing'
    BY <1>1, <1>6, <2>1 DEF PassiveMeansNoValidator, ExitLeavesNothing
  <2>3. stage' = "booting" => Busy("boot")'
    <3>1. stage = "booting" => c = "boot"
      BY <1>1, <1>2, BootIsNotStarted DEF TurnInv
    <3> QED BY <1>6, <3>1
  <2> QED BY <1>0, <1>3, <1>6, <2>2, <2>3, TurnKept
<1>7. CASE Prepare(c)
  BY <1>0, <1>4, <1>6, <1>7
  DEF Prepare, At, Goto, dockerVars, Busy, Progress, OneContainerRuns, TypeOK
<1>8. CASE CheckRunning(c)
  <2>1. CASE pc'[c] = "import"
    <3>1. container[Up(target[c])] = "running"
      BY <1>0, <1>1, <1>8, <2>1 DEF CheckRunning, Goto, Works, Fails, TypeOK
    <3>2. container[Down(target[c])] # "running"
      BY <1>4, <3>1 DEF OneContainerRuns, Container, Up, Down
    <3> QED
      BY <1>0, <1>4, <1>6, <1>8, <2>1, <3>2
      DEF CheckRunning, At, Goto, dockerVars, serviceVars, Busy, Progress, OneContainerRuns,
          TypeOK
  <2>2. CASE pc'[c] = "findUp"
    BY <1>0, <1>4, <1>6, <1>8, <2>2
    DEF CheckRunning, At, Goto, dockerVars, serviceVars, Busy, Progress, OneContainerRuns, TypeOK
  <2> QED BY <1>0, <1>8, <2>1, <2>2 DEF CheckRunning, Goto, TypeOK
<1>9. CASE FindUp(c)
  <2>1. UNCHANGED <<dockerVars, stage, serviceVars, target>> /\ pc' = [pc EXCEPT ![c] = "findDown"]
    BY <1>9 DEF FindUp, Goto
  <2> QED
    BY <1>0, <1>4, <1>6, <2>1
    DEF dockerVars, serviceVars, Busy, Progress, OneContainerRuns, TypeOK
<1>10. CASE FindDown(c)
  <2>1. /\ UNCHANGED <<dockerVars, stage, serviceVars, target>>
        /\ pc' = [pc EXCEPT ![c] = "removeDown"]
    BY <1>10 DEF FindDown, Goto
  <2>2. found'[c].down = (container[Down(target[c])] # "absent")
    BY <1>0, <1>1, <1>10 DEF FindDown, Works, Fails, TypeOK
  <2>3. container[Down(target[c])] = "absent" \/ found'[c].down = TRUE
    BY <2>2
  <2> QED
    BY <1>0, <1>4, <1>6, <2>1, <2>3
    DEF dockerVars, serviceVars, Busy, Progress, OneContainerRuns, TypeOK
<1>11. CASE RemoveDown(c)
  <2>1. /\ UNCHANGED <<stage, serviceVars, target>>
        /\ pc' = [pc EXCEPT ![c] = pc'[c]] /\ pc'[c] \in {"recheck", "find"}
    BY <1>0, <1>11 DEF RemoveDown, Goto, TypeOK
  <2>2. container'[Down(target[c])] = "absent"
    <3>1. CASE found[c].down = TRUE
      <4>1. RemoveContainer(Down(target[c]))
        BY <1>11, <3>1 DEF RemoveDown
      <4> QED BY <1>1, <4>1, ContainerNames, OneRunsAfterRemoval DEF TypeOK
    <3>2. CASE found[c].down # TRUE
      <4>1. container[Down(target[c])] = "absent"
        BY <1>5, <1>11, <3>2 DEF RemoveDown, At, Progress
      <4>2. found[c] \in [up : BOOLEAN, down : BOOLEAN]
        BY <1>0 DEF TypeOK
      <4>3. ~found[c].down
        BY <3>2, <4>2
      <4> QED BY <1>11, <4>1, <4>3 DEF RemoveDown, dockerVars
    <3> QED BY <3>1, <3>2
  <2>3. OneContainerRuns'
    BY <2>2, ContainerNames DEF OneContainerRuns
  <2> QED BY <1>0, <1>4, <1>6, <2>1, <2>2, <2>3 DEF serviceVars, Busy, Progress, TypeOK
<1>12. CASE CheckAgain(c)
  <2>1. /\ UNCHANGED <<dockerVars, stage, serviceVars, target>>
        /\ pc' = [pc EXCEPT ![c] = pc'[c]] /\ pc'[c] \in {"import", "removeUp"}
        /\ pc[c] = "recheck"
    BY <1>0, <1>12 DEF CheckAgain, At, Goto, TypeOK
  <2> QED
    BY <1>0, <1>4, <1>5, <1>6, <2>1
    DEF dockerVars, serviceVars, Busy, Progress, OneContainerRuns, TypeOK
<1>13. CASE RemoveUp(c)
  <2>1. /\ UNCHANGED <<stage, serviceVars, target>>
        /\ pc' = [pc EXCEPT ![c] = "find"] /\ pc[c] = "removeUp"
        /\ RemoveContainer(Up(target[c]))
    BY <1>13 DEF RemoveUp, At, Goto
  <2>2. container'[Down(target[c])] # "running" /\ OneContainerRuns'
    BY <1>4, <1>5, <2>1, ContainerNames, OneRunsAfterRemoval DEF Progress
  <2> QED BY <1>0, <1>4, <1>6, <2>1, <2>2 DEF serviceVars, Busy, Progress, TypeOK
<1>14. CASE Find(c)
  <2>1. /\ UNCHANGED <<dockerVars, stage, serviceVars, target>>
        /\ pc' = [pc EXCEPT ![c] = pc'[c]] /\ pc'[c] \in {"create", "start", "import"}
        /\ pc[c] = "find"
    BY <1>0, <1>14 DEF Find, At, Goto, TypeOK
  <2> QED
    BY <1>0, <1>4, <1>5, <1>6, <2>1
    DEF dockerVars, serviceVars, Busy, Progress, OneContainerRuns, TypeOK
<1>15. CASE Create(c)
  <2>1. /\ UNCHANGED <<stage, serviceVars, target>>
        /\ pc' = [pc EXCEPT ![c] = pc'[c]] /\ pc'[c] \in {"start", "import"}
        /\ pc[c] = "create"
        /\ \A y \in Container : container'[y] \in {container[y], "stopped"}
    BY <1>0, <1>15 DEF Create, At, Goto, dockerVars, TypeOK
  <2>2. container'[Down(target[c])] # "running" /\ OneContainerRuns'
    BY <1>4, <1>5, <2>1, ContainerNames DEF Progress, OneContainerRuns
  <2> QED BY <1>0, <1>4, <1>6, <2>1, <2>2 DEF serviceVars, Busy, Progress, TypeOK
<1>16. CASE Start(c)
  <2>1. /\ UNCHANGED <<stage, serviceVars, target>>
        /\ pc' = [pc EXCEPT ![c] = pc'[c]] /\ pc'[c] \in {"started", "import"}
        /\ pc[c] = "start"
        /\ \A y \in Container \ {Up(target[c])} : container'[y] = container[y]
    BY <1>0, <1>16 DEF Start, At, Goto, TypeOK
  <2>2. container'[Down(target[c])] # "running" /\ OneContainerRuns'
    BY <1>5, <2>1, ContainerNames DEF Progress, OneContainerRuns
  <2> QED BY <1>0, <1>4, <1>6, <2>1, <2>2 DEF serviceVars, Busy, Progress, TypeOK
<1>17. CASE Return(c)
  <2>1. /\ pc[c] \in {"started", "import"} /\ pc' = [pc EXCEPT ![c] = "idle"]
        /\ UNCHANGED <<dockerVars, serviceVars>>
        /\ IF c = "boot" THEN stage' \in {"running", "down"} ELSE stage' = stage
    BY <1>17 DEF Return, At, Goto
  <2>2. container'[Down(target[c])] # "running" /\ OneContainerRuns'
    BY <1>4, <1>5, <2>1 DEF Progress, dockerVars, OneContainerRuns
  <2>3. stage' = "running"
    <3>1. c # "boot" => stage = "running"
      BY <1>1, <1>2, BootIsNotStarted DEF TurnInv
    <3> QED BY <2>1, <3>1 DEF InTurnOrBooting
  <2>4. PassiveMeansNoValidator' /\ ExitLeavesNothing'
    BY <1>4, <2>2, <2>3 DEF PassiveMeansNoValidator, ExitLeavesNothing, Down
  <2>5. Progress(c)'
    BY <1>0, <2>1 DEF Progress, TypeOK
  <2> QED BY <1>0, <1>3, <2>2, <2>3, <2>4, <2>5, TurnKept
<1> QED
  BY <1>7, <1>8, <1>9, <1>10, <1>11, <1>12, <1>13, <1>14, <1>15, <1>16, <1>17 DEF StartStep

LEMMA CleanUpTurn ==
  ASSUME TypeOK, TurnInv, NEW c \in Cleaner \cup {"boot"}, CleanUpStep(c)
  PROVE  TurnInv'
<1> SUFFICES ASSUME InTurnOrBooting'
             PROVE  TurnInv'
  BY DEF TurnInv
<1> USE DEF StartLabels, DownGoneLabels, CleanUpLabels
<1>0. c \in Call
  BY DEF Call
<1>1. InTurnOrBooting /\ Works /\ stage \in {"booting", "running"}
  <2>1. overlapped = FALSE /\ stage \in {"booting", "running"}
    BY CleanUpFrame DEF InTurnOrBooting
  <2>2. failures = 0 /\ Works
    BY CleanUpFrame, Counting DEF InTurnOrBooting, Works, Fails, TypeOK
  <2> QED BY <2>1, <2>2 DEF InTurnOrBooting
<1>2. Busy(c) /\ \A d \in Call \ {c} : ~Busy(d)
  BY <1>0, <1>1, CleanUpFrame DEF TurnInv, Busy
<1>3. \A d \in Call \ {c} : ~Busy(d)'
  <2>1. pc' = [pc EXCEPT ![c] = pc'[c]]
    BY CleanUpFrame
  <2> QED BY <1>2, <2>1 DEF Busy, TypeOK
<1>4. stage = "booting" => c = "boot"
  BY <1>1, <1>2, BootIsNotStarted DEF TurnInv
<1>5. CASE RemoveSync(c)
  <2>1. /\ container' = [container EXCEPT !["sync"] = "absent"]
        /\ pc' = [pc EXCEPT ![c] = "removeValidator"] /\ UNCHANGED stage
    BY <1>1, <1>5, ContainerNames, OneRunsAfterRemoval DEF RemoveSync, Goto
  <2>2. Busy(c)' /\ ~AtRest'
    BY <1>0, <2>1 DEF Busy, AtRest, TypeOK
  <2>3. PassiveMeansNoValidator' /\ ExitLeavesNothing'
    BY <1>1, <2>1, <2>2 DEF PassiveMeansNoValidator, ExitLeavesNothing
  <2>4. Progress(c)' /\ OneContainerRuns'
    BY <1>0, <2>1, ContainerNames DEF Progress, OneContainerRuns, TypeOK
  <2> QED BY <1>0, <1>3, <1>4, <2>1, <2>2, <2>3, <2>4, TurnKept
<1>6. CASE RemoveValidator(c)
  <2>1. /\ container' = [container EXCEPT !["validator"] = "absent"]
        /\ pc[c] = "removeValidator"
    BY <1>1, <1>6, ContainerNames, OneRunsAfterRemoval DEF RemoveValidator, At
  <2>2. /\ pc' = [pc EXCEPT ![c] = pc'[c]]
        /\ pc'[c] \in {"boot", "idle", "done"}
        /\ c = "boot" => pc'[c] = "boot"
        /\ stage' \in {stage, "exited"}
        /\ c = "boot" => stage' = stage
    BY <2>1, CleanUpFrame, BootIsNotStarted DEF Cleaner
  <2>3. \A x \in Container : container'[x] # "running"
    <3>1. container["sync"] # "running"
      BY <1>0, <1>1, <2>1 DEF TurnInv, Progress
    <3> QED BY <2>1, <3>1 DEF TypeOK, Container
  <2>4. PassiveMeansNoValidator' /\ ExitLeavesNothing' /\ OneContainerRuns'
    BY <2>3, ContainerNames DEF PassiveMeansNoValidator, ExitLeavesNothing, OneContainerRuns
  <2>5. Progress(c)'
    BY <1>0, <2>2 DEF Progress, TypeOK
  <2>6. stage' = "booting" => Busy("boot")'
    BY <1>0, <1>4, <2>2 DEF Busy, TypeOK
  <2> QED BY <1>0, <1>3, <2>4, <2>5, <2>6, TurnKept
<1> QED BY <1>5, <1>6 DEF CleanUpStep

\* A call that begins while none is under way.
LEMMA TurnBegins ==
  ASSUME TypeOK, TurnInv, NEW c \in Call, MayBegin(c), UNCHANGED failures, InTurnOrBooting'
  PROVE  /\ InTurnOrBooting /\ AtRest /\ stage = "running" /\ pc[c] = "idle"
         /\ OneContainerRuns /\ PassiveMeansNoValidator
<1>1. overlapped = FALSE /\ AtRest
  BY DEF MayBegin, InTurnOrBooting, TypeOK
<1>2. InTurnOrBooting /\ stage = "running" /\ pc[c] = "idle"
  BY <1>1 DEF MayBegin, At, InTurnOrBooting
<1>3. pc["boot"] # "removeSync"
  BY <1>1, BootIsNotStarted DEF AtRest
<1> QED BY <1>1, <1>2, <1>3 DEF TurnInv

LEMMA OtherTurn ==
  ASSUME TypeOK, TurnInv, Locked,
         \/ \E c \in Caller : BeginStart(c)
         \/ \E c \in Cleaner : BeginCleanUp(c) \/ SkipCleanUp(c)
         \/ BootPassive \/ Crash \/ Restart
         \/ \E x \in Container : ContainerStops(x)
  PROVE  TurnInv'
<1> SUFFICES ASSUME InTurnOrBooting'
             PROVE  TurnInv'
  BY DEF TurnInv
<1> USE DEF StartLabels, DownGoneLabels
<1>1. ASSUME NEW c \in Caller, BeginStart(c) PROVE TurnInv'
  <2>1. c \in Call
    BY DEF Call
  <2>2. /\ AtRest /\ stage = "running" /\ OneContainerRuns
    BY <1>1, <2>1, TurnBegins DEF BeginStart
  <2>3. \A d \in Call \ {c} : ~Busy(d)'
    BY <1>1, <2>2 DEF BeginStart, Goto, AtRest, Busy, TypeOK
  <2>4. pc'[c] \in {"check", "prepare"}
    BY <1>1, <2>1 DEF BeginStart, Goto, TypeOK
  <2>5. mode' = target'[c] /\ target'[c] \in {"active", "passive"} /\ stage' = stage
    BY <1>1, <2>1 DEF BeginStart, TypeOK
  <2>6. Progress(c)'
    BY <2>4, <2>5 DEF Progress
  <2>7. OneContainerRuns'
    BY <1>1, <2>2 DEF BeginStart, dockerVars, OneContainerRuns
  <2>8. ~AtRest'
    BY <2>1, <2>4 DEF AtRest
  <2>9. PassiveMeansNoValidator' /\ ExitLeavesNothing'
    BY <2>2, <2>5, <2>8 DEF PassiveMeansNoValidator, ExitLeavesNothing
  <2> QED BY <2>1, <2>2, <2>3, <2>5, <2>6, <2>7, <2>9, TurnKept
<1>2. ASSUME NEW c \in Cleaner, BeginCleanUp(c) PROVE TurnInv'
  <2>1. c \in Call
    BY DEF Call
  <2>2. AtRest /\ stage = "running" /\ OneContainerRuns
    BY <1>2, <2>1, TurnBegins DEF BeginCleanUp
  <2>3. pc' = [pc EXCEPT ![c] = "removeSync"] /\ UNCHANGED <<dockerVars, stage>>
    BY <1>2 DEF BeginCleanUp, Goto
  <2>4. \A d \in Call \ {c} : ~Busy(d)'
    BY <2>2, <2>3 DEF AtRest, Busy, TypeOK
  <2>5. Progress(c)' /\ ~AtRest'
    BY <2>1, <2>3 DEF Progress, AtRest, TypeOK
  <2>6. OneContainerRuns'
    BY <2>2, <2>3 DEF dockerVars, OneContainerRuns
  <2>7. PassiveMeansNoValidator' /\ ExitLeavesNothing'
    BY <2>2, <2>3, <2>5 DEF PassiveMeansNoValidator, ExitLeavesNothing
  <2> QED BY <2>1, <2>2, <2>3, <2>4, <2>5, <2>6, <2>7, TurnKept
<1>3. ASSUME NEW c \in Cleaner, SkipCleanUp(c) PROVE TurnInv'
  <2>1. c \in Call
    BY DEF Call
  <2>2. AtRest /\ stage = "running" /\ cleaningUp = TRUE
    BY <1>3, <2>1, TurnBegins DEF SkipCleanUp, TypeOK
  <2>3. \A d \in Call : ~Inside(d)
    BY <2>2 DEF AtRest, Inside, CleanUpLabels
  <2> QED BY <2>2, <2>3 DEF Locked
<1>4. CASE BootPassive
  <2> DEFINE b == "boot"
  <2>1. /\ pc[b] = "boot" /\ pc' = [pc EXCEPT ![b] = "prepare"]
        /\ target' = [target EXCEPT ![b] = "passive"] /\ mode' = "passive"
        /\ UNCHANGED <<dockerVars, stage, failures, overlapped>>
        /\ stage \in {"booting", "running"}
    BY <1>4 DEF BootPassive, At, Goto
  <2>2. InTurnOrBooting
    BY <2>1 DEF InTurnOrBooting
  <2>3. Busy(b) /\ \A d \in Call \ {b} : ~Busy(d)
    BY <2>1, <2>2, BootIsNotStarted DEF TurnInv, Busy
  <2>4. \A d \in Call \ {b} : ~Busy(d)'
    BY <2>1, <2>3, BootIsNotStarted DEF Busy, TypeOK
  <2>5. Progress(b)' /\ Busy(b)' /\ ~AtRest'
    BY <2>1, BootIsNotStarted DEF Progress, Busy, AtRest, TypeOK
  <2>6. OneContainerRuns'
    BY <2>1, <2>2 DEF TurnInv, dockerVars, OneContainerRuns
  <2>7. PassiveMeansNoValidator' /\ ExitLeavesNothing'
    BY <2>1, <2>5 DEF PassiveMeansNoValidator, ExitLeavesNothing
  <2> QED BY <2>4, <2>5, <2>6, <2>7, BootIsNotStarted, TurnKept
<1>5. CASE Crash
  BY <1>5 DEF Crash, InTurnOrBooting
<1>6. CASE Restart
  <2>1. pc' = Booting /\ stage' = "booting"
    BY <1>6 DEF Restart
  <2>2. \A d \in Call \ {"boot"} : ~Busy(d)'
    BY <2>1 DEF Booting, Busy
  <2>3. pc'["boot"] = "removeSync"
    BY <2>1, BootIsNotStarted DEF Booting
  <2>4. Progress("boot")' /\ Busy("boot")' /\ ~AtRest'
    BY <2>3, BootIsNotStarted DEF Progress, Busy, AtRest
  <2>5. PassiveMeansNoValidator' /\ ExitLeavesNothing'
    BY <2>1, <2>4 DEF PassiveMeansNoValidator, ExitLeavesNothing
  <2> QED BY <2>1, <2>2, <2>3, <2>4, <2>5, BootIsNotStarted, TurnKept
<1>7. ASSUME NEW x \in Container, ContainerStops(x) PROVE TurnInv'
  <2>1. /\ container[x] = "running" /\ container' = [container EXCEPT ![x] = "stopped"]
        /\ UNCHANGED <<stage, mode, pc, target, found, failures, overlapped>>
    BY <1>7 DEF ContainerStops, serviceVars
  <2>2. InTurnOrBooting
    BY <2>1 DEF InTurnOrBooting
  <2>3. \A y \in Container : container'[y] = container[y] \/ container'[y] = "stopped"
    BY <2>1 DEF TypeOK
  <2>4. \A y \in Container : container[y] = "absent" => container'[y] = "absent"
    BY <2>1 DEF TypeOK
  <2>5. ASSUME NEW c \in Call PROVE Progress(c)'
    BY <2>1, <2>2, <2>3, <2>4, ContainerNames DEF TurnInv, Progress
  <2>6. ((stage = "booting" /\ pc["boot"] = "removeSync") \/ OneContainerRuns)'
    BY <2>1, <2>2, <2>3 DEF TurnInv, OneContainerRuns
  <2>7. PassiveMeansNoValidator' /\ ExitLeavesNothing'
    BY <2>1, <2>2, <2>3, ContainerNames
    DEF TurnInv, PassiveMeansNoValidator, ExitLeavesNothing, AtRest
  <2> QED BY <2>1, <2>2, <2>5, <2>6, <2>7 DEF TurnInv, Busy
<1> QED BY <1>1, <1>2, <1>3, <1>4, <1>5, <1>6, <1>7

LEMMA TurnAlways == Spec => []TurnInv
<1>1. Init => TurnInv
  BY BootIsNotStarted, ContainerNames
  DEF Init, Booting, TurnInv, Busy, Progress, OneContainerRuns, PassiveMeansNoValidator,
      ExitLeavesNothing, StartLabels, DownGoneLabels
<1>2. TypeOK /\ Locked /\ TurnInv /\ [Next]_vars => TurnInv'
  <2>1. ASSUME TurnInv, UNCHANGED vars PROVE TurnInv'
    BY <2>1
    DEF vars, dockerVars, serviceVars, TurnInv, InTurnOrBooting, Busy, Progress,
        OneContainerRuns, PassiveMeansNoValidator, ExitLeavesNothing, AtRest
  <2> QED BY <2>1, StepCases, StartTurn, CleanUpTurn, OtherTurn
<1> QED BY <1>1, <1>2, Typing, LockAlways, PTL DEF Spec

LEMMA TurnsAreInTurn ==
  ASSUME TypeOK, TurnInv, InTurn
  PROVE  OneContainerRuns /\ PassiveMeansNoValidator /\ ExitLeavesNothing
<1>1. InTurnOrBooting
  BY DEF InTurn, InTurnOrBooting, TypeOK
<1>2. stage # "booting"
  BY DEF InTurn
<1> QED BY <1>1, <1>2 DEF TurnInv

\* Calls that take turns, and whose Docker calls work, keep the two containers
\* apart, whatever an earlier process has left behind
\* (polkadot.js:403, "We must remove down container if it exist").
THEOREM OneContainerInTurnHolds == Spec => []OneContainerInTurn
<1>1. TypeOK /\ TurnInv => OneContainerInTurn
  BY TurnsAreInTurn DEF OneContainerInTurn
<1> QED BY <1>1, TurnAlways, Typing, PTL

\* They leave no validator on a node whose mode is passive.
THEOREM PassiveInTurnHolds == Spec => []PassiveInTurn
<1>1. TypeOK /\ TurnInv => PassiveInTurn
  BY TurnsAreInTurn DEF PassiveInTurn
<1> QED BY <1>1, TurnAlways, Typing, PTL

\* And the process exits with no container running
\* (utils.js:50, "Waiting for cleanup to be finished").
THEOREM ExitInTurnHolds == Spec => []ExitInTurn
<1>1. TypeOK /\ TurnInv => ExitInTurn
  BY TurnsAreInTurn DEF ExitInTurn
<1> QED BY <1>1, TurnAlways, Typing, PTL

-----------------------------------------------------------------------------
(* The boot                                                                *)

\* While the process boots only bootstrap's call is under way; once it runs the
\* service is prepared, so that the volume stays the one bootstrap has found.
Phases ==
  /\ stage = "booting" =>
       /\ \A c \in Call \ {"boot"} : pc[c] = "idle"
       /\ pc["boot"] \in CleanUpLabels \cup {"boot"} \cup StartLabels
       /\ pc["boot"] \in StartLabels => target["boot"] = "passive"
       /\ pc["boot"] \in StartLabels \ {"prepare"} => prepared = TRUE
  /\ stage = "running" =>
       /\ pc["boot"] = "idle"
       /\ \A c \in Call : pc[c] # "prepare"
       /\ prepared = TRUE

\* The call whose step it is tells whether the process boots or runs.
LEMMA WhoseTurn ==
  ASSUME TypeOK, Phases, NEW c \in Call, pc[c] \notin {"idle", "done"},
         stage \in {"booting", "running"}
  PROVE  stage = IF c = "boot" THEN "booting" ELSE "running"
BY DEF Phases

LEMMA StartPhases ==
  ASSUME TypeOK, Phases, NEW c \in Call, StartStep(c)
  PROVE  Phases'
<1> USE DEF StartLabels, CleanUpLabels
<1>1. /\ pc[c] \in StartLabels /\ stage \in {"booting", "running"}
      /\ pc' = [pc EXCEPT ![c] = pc'[c]]
  BY StartFrame
<1>2. stage = IF c = "boot" THEN "booting" ELSE "running"
  BY <1>1, WhoseTurn
<1>3. pc[c] \in StartLabels \ {"prepare"} => prepared = TRUE
  BY <1>1, <1>2 DEF Phases
<1>4. CASE Return(c)
  <2>1. /\ pc' = [pc EXCEPT ![c] = "idle"] /\ pc[c] \in StartLabels \ {"prepare"}
        /\ UNCHANGED prepared
        /\ IF c = "boot" THEN stage' \in {"running", "down"} ELSE stage' = stage
        /\ target' = [target EXCEPT ![c] = "none"]
    BY <1>4 DEF Return, At, Goto, serviceVars
  <2> QED BY <1>2, <1>3, <2>1, BootIsNotStarted DEF Phases, TypeOK
<1>5. CASE ~Return(c)
  <2>1. /\ UNCHANGED <<stage, target>>
        /\ pc'[c] \in StartLabels \ {"prepare"}
    BY <1>5
    DEF StartStep, Prepare, CheckRunning, FindUp, FindDown, RemoveDown, CheckAgain, RemoveUp,
        Find, Create, Start, At, Goto, TypeOK
  <2>2. prepared' = TRUE
    <3>1. Prepare(c) \/ (UNCHANGED prepared /\ pc[c] # "prepare")
      BY <1>5
      DEF StartStep, CheckRunning, FindUp, FindDown, RemoveDown, CheckAgain, RemoveUp,
          Find, Create, Start, At, serviceVars
    <3> QED BY <1>1, <1>3, <3>1 DEF Prepare
  <2>3. CASE c = "boot"
    BY <1>1, <1>2, <2>1, <2>2, <2>3, BootIsNotStarted DEF Phases, TypeOK
  <2>4. CASE c # "boot"
    BY <1>1, <1>2, <2>1, <2>2, <2>4, BootIsNotStarted DEF Phases, TypeOK
  <2> QED BY <2>3, <2>4
<1> QED BY <1>4, <1>5

LEMMA PhasesStep ==
  ASSUME TypeOK, Phases, [Next]_vars
  PROVE  Phases'
<1> USE DEF StartLabels, CleanUpLabels
<1>1. CASE UNCHANGED vars
  BY <1>1 DEF vars, serviceVars, Phases
<1>2. ASSUME NEW c \in Caller \cup {"boot"}, StartStep(c) PROVE Phases'
  BY <1>2, StartPhases DEF Call
<1>3. ASSUME NEW c \in Cleaner \cup {"boot"}, CleanUpStep(c) PROVE Phases'
  <2>1. c \in Call
    BY DEF Call
  <2>2. /\ pc[c] \in CleanUpLabels /\ stage \in {"booting", "running"}
        /\ pc' = [pc EXCEPT ![c] = pc'[c]]
        /\ pc'[c] \in {"removeValidator", "boot", "idle", "done"}
        /\ c = "boot" => pc'[c] \in {"removeValidator", "boot"}
        /\ UNCHANGED <<prepared, target>>
    BY <1>3, CleanUpFrame
  <2>3. stage = IF c = "boot" THEN "booting" ELSE "running"
    BY <2>1, <2>2, WhoseTurn
  <2>4. CASE c = "boot"
    <3>1. stage' = stage
      BY <1>3, <2>4, CleanUpFrame, BootIsNotStarted DEF Cleaner
    <3> QED BY <2>2, <2>3, <2>4, <3>1, BootIsNotStarted DEF Phases, TypeOK
  <2>5. CASE c # "boot"
    <3>1. stage' \in {"running", "exited"}
      BY <1>3, <2>3, <2>5, CleanUpFrame
    <3> QED BY <2>1, <2>2, <2>3, <2>5, <3>1, BootIsNotStarted DEF Phases, TypeOK
  <2> QED BY <2>4, <2>5
<1>4. ASSUME NEW c \in Caller, BeginStart(c) PROVE Phases'
  <2>1. /\ c \in Call /\ c # "boot" /\ stage = "running" /\ UNCHANGED <<stage, prepared>>
        /\ pc' = [pc EXCEPT ![c] = IF prepared THEN "check" ELSE "prepare"]
    BY <1>4, BootIsNotStarted DEF BeginStart, MayBegin, Goto, Call
  <2>2. pc' = [pc EXCEPT ![c] = "check"]
    BY <2>1 DEF Phases
  <2> QED BY <2>1, <2>2, BootIsNotStarted DEF Phases, TypeOK
<1>5. ASSUME NEW c \in Cleaner, BeginCleanUp(c) PROVE Phases'
  BY <1>5, BootIsNotStarted DEF BeginCleanUp, MayBegin, Goto, Call, Phases, TypeOK
<1>6. ASSUME NEW c \in Cleaner, SkipCleanUp(c) PROVE Phases'
  <2>1. /\ c \in Call /\ c # "boot" /\ stage = "running" /\ stage' \in {"running", "exited"}
        /\ pc' = [pc EXCEPT ![c] = pc'[c]] /\ pc'[c] \in {"idle", "done"}
        /\ UNCHANGED prepared
    BY <1>6, CleanUpEnds, BootIsNotStarted DEF SkipCleanUp, MayBegin, Call, serviceVars
  <2> QED BY <2>1, BootIsNotStarted DEF Phases, TypeOK
<1>7. CASE BootPassive
  BY <1>7, BootIsNotStarted DEF BootPassive, At, Goto, Phases, TypeOK
<1>8. CASE Crash
  BY <1>8 DEF Crash, Phases
<1>9. CASE Restart
  BY <1>9, BootIsNotStarted DEF Restart, Booting, Phases
<1>10. ASSUME NEW x \in Container, ContainerStops(x) PROVE Phases'
  BY <1>10 DEF ContainerStops, serviceVars, Phases
<1> QED
  BY <1>1, <1>2, <1>3, <1>4, <1>5, <1>6, <1>7, <1>8, <1>9, <1>10, StepCases

LEMMA PhasesAlways == Spec => []Phases
<1>1. Init => Phases
  BY BootIsNotStarted DEF Init, Booting, Phases, CleanUpLabels, StartLabels
<1> QED BY <1>1, PhasesStep, Typing, PTL DEF Spec

-----------------------------------------------------------------------------
(* One volume                                                              *)

Exists(x) == container[x] # "absent"

\* A container on another volume than the one of this process.
Stale(x) == Exists(x) /\ mounted[x] # volume

\* It takes a failing call not to have the service's volume, ...
VolumesCost ==
  /\ volume = "default" => failures >= 1
  /\ \A x \in Container :
       Exists(x) => mounted[x] \in Volume /\ (mounted[x] = "default" => failures >= 1)

\* ... another to keep a container through the clean-up of a boot, ...
Survivor(x) == Exists(x) => failures >= 1 /\ (mounted[x] = "default" => failures >= 2)

\* ... and a third to keep it through the start that follows: labels at which
\* bootstrap's start has seen to the container it starts, and to the other.
UpSeen ==
  \/ pc["boot"] \in {"findDown", "removeDown"} /\ found["boot"].up = FALSE
  \/ pc["boot"] \in {"find", "create", "start", "started"}

DownSeen ==
  \/ pc["boot"] = "removeDown" /\ found["boot"].down = FALSE
  \/ pc["boot"] \in DownGoneLabels \ {"import"}

BootVolumes ==
  /\ pc["boot"] \in {"removeValidator", "boot", "prepare"} => Survivor("sync")
  /\ pc["boot"] \in {"boot", "prepare"} => Survivor("validator")
  /\ pc["boot"] \in StartLabels \ {"prepare"} =>
       volume \in Volume /\ \A x \in Container : Stale(x) => failures >= 2
  /\ UpSeen /\ Stale("sync") => failures >= 3
  /\ DownSeen /\ Stale("validator") => failures >= 3

VolumeInv ==
  /\ VolumesCost
  /\ stage = "booting" => BootVolumes
  /\ stage = "running" =>
       volume \in Volume /\ \A x \in Container : Stale(x) => failures >= 3

\* What a step does to the containers, Create apart: some may go.
Kept ==
  /\ \A x \in Container : Exists(x)' => Exists(x) /\ mounted'[x] = mounted[x]
  /\ UNCHANGED volume
  /\ failures' \in Nat /\ failures <= failures'

LEMMA KeptKeeps ==
  ASSUME TypeOK, Kept
  PROVE  /\ VolumesCost => VolumesCost'
         /\ \A x \in Container : Stale(x)' => Stale(x)
         /\ \A x \in Container : Survivor(x) => Survivor(x)'
<1>1. failures \in Nat
  BY DEF TypeOK
<1> QED BY <1>1 DEF Kept, VolumesCost, Stale, Survivor, Exists

LEMMA RemovalKeeps ==
  ASSUME TypeOK, NEW x \in Container, RemoveContainer(x)
  PROVE  /\ \A y \in Container : Exists(y)' => Exists(y) /\ mounted'[y] = mounted[y]
         /\ Exists(x)' => Fails
BY DEF RemoveContainer, Exists, dockerVars, TypeOK

\* A failing call counts.
LEMMA FailsCounts ==
  ASSUME TypeOK, Works \/ Fails
  PROVE  /\ failures' \in Nat /\ failures \in Nat /\ failures <= failures'
         /\ Fails => failures' = failures + 1
         /\ Works => failures' = failures
BY ServiceAssumption DEF TypeOK, Works, Fails

LEMMA StartKeeps ==
  ASSUME TypeOK, NEW c \in Call, StartStep(c), pc[c] \notin {"prepare", "create"}
  PROVE  Kept
<1>1. failures' \in Nat /\ failures <= failures'
  BY StartFrame, FailsCounts
<1>2. CASE RemoveDown(c) \/ RemoveUp(c)
  <2>1. \A y \in Container : Exists(y)' => Exists(y) /\ mounted'[y] = mounted[y]
    BY <1>2, ContainerNames, RemovalKeeps DEF RemoveDown, RemoveUp, Exists, dockerVars
  <2> QED BY <1>1, <1>2, <2>1 DEF RemoveDown, RemoveUp, serviceVars, Kept
<1>3. CASE Start(c)
  BY <1>1, <1>3, ContainerNames DEF Start, serviceVars, Kept, Exists, TypeOK
<1>4. CASE ~RemoveDown(c) /\ ~RemoveUp(c) /\ ~Start(c)
  <2>1. UNCHANGED <<dockerVars, serviceVars>>
    BY <1>4
    DEF StartStep, Prepare, CheckRunning, FindUp, FindDown, CheckAgain, Find, Create, Return,
        At
  <2> QED BY <1>1, <2>1 DEF dockerVars, serviceVars, Kept, Exists
<1> QED BY <1>2, <1>3, <1>4

\* A created container is on the volume of the process.
LEMMA CreateMounts ==
  ASSUME TypeOK, NEW c \in Call, Create(c), VolumesCost, volume \in Volume
  PROVE  VolumesCost' /\ \A x \in Container : Stale(x)' => Stale(x)
<1>1. UNCHANGED volume /\ failures' \in Nat /\ failures \in Nat /\ failures <= failures'
  BY FailsCounts DEF Create, serviceVars
<1>2. \A x \in Container : Exists(x)' =>
        (Exists(x) /\ mounted'[x] = mounted[x]) \/ mounted'[x] = volume
  BY ContainerNames DEF Create, dockerVars, Exists, TypeOK
<1> QED BY <1>1, <1>2 DEF VolumesCost, Stale, Exists

LEMMA RunningStart ==
  ASSUME TypeOK, Phases, VolumeInv, NEW c \in Call, StartStep(c), stage = "running"
  PROVE  VolumeInv'
<1>1. pc[c] \in StartLabels \ {"prepare"} /\ c # "boot"
  BY StartFrame DEF Phases, StartLabels
<1>2. stage' = "running"
  BY <1>1, StartFrame
<1>3. CASE pc[c] = "create"
  <2>1. Create(c)
    BY <1>3
    DEF StartStep, Prepare, CheckRunning, FindUp, FindDown, RemoveDown, CheckAgain, RemoveUp,
        Find, Start, Return, At
  <2>2. UNCHANGED volume /\ failures' \in Nat /\ failures \in Nat /\ failures <= failures'
    BY <2>1, FailsCounts DEF Create, serviceVars
  <2> QED BY <1>2, <2>1, <2>2, CreateMounts DEF VolumeInv
<1>4. CASE pc[c] # "create"
  <2>1. Kept
    BY <1>1, <1>4, StartKeeps
  <2> QED BY <1>2, <2>1, KeptKeeps DEF VolumeInv, Kept, TypeOK
<1> QED BY <1>3, <1>4

LEMMA BootStart ==
  ASSUME TypeOK, Phases, VolumeInv, StartStep("boot"), stage = "booting"
  PROVE  VolumeInv'
<1> DEFINE b == "boot"
<1> USE BootIsNotStarted, ContainerNames DEF StartLabels, DownGoneLabels
<1>1. pc[b] \in StartLabels /\ target[b] = "passive" /\ BootVolumes /\ VolumesCost
  BY StartFrame DEF Phases, VolumeInv
<1>2. failures' \in Nat /\ failures \in Nat /\ failures <= failures'
  BY StartFrame, FailsCounts
<1>3. CASE Prepare(b)
  <2>1. /\ pc[b] = "prepare" /\ pc' = [pc EXCEPT ![b] = "check"]
        /\ UNCHANGED <<container, mounted, stage>>
        /\ (Works /\ volume' = "service") \/ (Fails /\ volume' = "default")
    BY <1>3 DEF Prepare, At, Goto, dockerVars
  <2>2. \A x \in Container : Survivor(x)
    BY <1>1, <2>1 DEF BootVolumes, Container
  <2>3. volume' \in Volume /\ (volume' = "default" => failures' = failures + 1)
    BY <2>1, FailsCounts DEF Volume
  <2>4. VolumesCost'
    BY <1>1, <1>2, <2>1, <2>3 DEF VolumesCost, Exists
  <2>5. \A x \in Container : Stale(x)' => failures' >= 2
    BY <1>1, <1>2, <2>1, <2>2, <2>3 DEF VolumesCost, Volume, Stale, Survivor, Exists
  <2>6. pc'[b] = "check"
    BY <2>1 DEF TypeOK
  <2> QED BY <2>1, <2>3, <2>4, <2>5, <2>6 DEF VolumeInv, BootVolumes, UpSeen, DownSeen
<1>4. CASE Create(b)
  <2>1. pc[b] = "create" /\ UNCHANGED <<stage, volume>> /\ pc'[b] \in {"start", "import"}
    BY <1>4 DEF Create, At, Goto, serviceVars, TypeOK
  <2>2. VolumesCost' /\ \A x \in Container : Stale(x)' => Stale(x)
    BY <1>1, <1>4, <2>1, CreateMounts DEF BootVolumes
  <2> QED BY <1>1, <1>2, <2>1, <2>2 DEF VolumeInv, BootVolumes, UpSeen, DownSeen
<1>5. CASE ~Prepare(b) /\ ~Create(b)
  <2>1. pc[b] \in StartLabels \ {"prepare", "create"}
    BY <1>5
    DEF StartStep, CheckRunning, FindUp, FindDown, RemoveDown, CheckAgain, RemoveUp, Find,
        Start, Return, At
  <2>2. Kept
    BY <2>1, StartKeeps
  <2>3. VolumesCost' /\ \A x \in Container : Stale(x)' => Stale(x)
    BY <1>1, <2>2, KeptKeeps
  <2>4. volume \in Volume /\ volume' = volume /\ \A x \in Container : Stale(x)' => failures' >= 2
    BY <1>1, <1>2, <2>1, <2>2, <2>3 DEF BootVolumes, Kept
  <2>5. ASSUME UNCHANGED stage, pc'[b] \in StartLabels \ {"prepare"},
               UpSeen' /\ Stale("sync")' => failures' >= 3,
               DownSeen' /\ Stale("validator")' => failures' >= 3
        PROVE  VolumeInv'
    BY <2>3, <2>4, <2>5 DEF VolumeInv, BootVolumes
  <2>6. CASE CheckRunning(b)
    <3>1. pc'[b] \in {"import", "findUp"} /\ UNCHANGED stage
      BY <2>6 DEF CheckRunning, At, Goto, TypeOK
    <3> QED BY <2>5, <3>1 DEF UpSeen, DownSeen
  <2>7. CASE FindUp(b)
    <3>1. pc'[b] = "findDown" /\ UNCHANGED <<dockerVars, stage, volume>>
      BY <2>7 DEF FindUp, At, Goto, serviceVars, TypeOK
    <3>2. ~DownSeen'
      BY <3>1 DEF DownSeen
    <3>3. ASSUME found'[b].up = FALSE, Stale("sync")' PROVE failures' >= 3
      <4>1. Stale("sync") /\ Exists("sync")
        BY <2>3, <3>3 DEF Stale
      <4>2. failures >= 2
        BY <1>1, <2>1, <4>1 DEF BootVolumes
      <4>3. Fails
        <5>1. SUFFICES ASSUME Works, found' = [found EXCEPT ![b].up = container[Up(target[b])] # "absent"]
                       PROVE  FALSE
          BY <2>7 DEF FindUp
        <5>2. found'[b].up = (container["sync"] # "absent")
          BY <1>1, <5>1 DEF TypeOK
        <5> QED BY <3>3, <4>1, <5>2 DEF Exists
      <4> QED BY <1>2, <4>2, <4>3, FailsCounts
    <3>4. UpSeen' => found'[b].up = FALSE
      BY <3>1 DEF UpSeen
    <3> QED BY <2>5, <3>1, <3>2, <3>3, <3>4
  <2>8. CASE FindDown(b)
    <3>1. /\ pc[b] = "findDown" /\ pc'[b] = "removeDown" /\ UNCHANGED <<dockerVars, stage, volume>>
      BY <2>8 DEF FindDown, At, Goto, serviceVars, TypeOK
    <3>2. found'[b].up = found[b].up
      BY <2>8 DEF FindDown, TypeOK
    <3>3. UpSeen' /\ Stale("sync")' => failures' >= 3
      <4>1. UpSeen' => UpSeen
        BY <3>1, <3>2 DEF UpSeen
      <4> QED BY <1>1, <1>2, <2>3, <4>1 DEF BootVolumes
    <3>4. ASSUME found'[b].down = FALSE, Stale("validator")' PROVE failures' >= 3
      <4>1. Stale("validator") /\ Exists("validator")
        BY <2>3, <3>4 DEF Stale
      <4>2. failures >= 2
        BY <1>1, <2>1, <4>1 DEF BootVolumes
      <4>3. Fails
        <5>1. SUFFICES ASSUME Works, found' = [found EXCEPT ![b].down = container[Down(target[b])] # "absent"]
                       PROVE  FALSE
          BY <2>8 DEF FindDown
        <5>2. found'[b].down = (container["validator"] # "absent")
          BY <1>1, <5>1 DEF TypeOK
        <5> QED BY <3>4, <4>1, <5>2 DEF Exists
      <4> QED BY <1>2, <4>2, <4>3, FailsCounts
    <3>5. DownSeen' => found'[b].down = FALSE
      BY <3>1 DEF DownSeen
    <3> QED BY <2>5, <3>1, <3>3, <3>4, <3>5
  <2>9. CASE RemoveDown(b)
    <3>1. /\ pc[b] = "removeDown" /\ UNCHANGED <<stage, volume>>
          /\ pc'[b] = IF found[b].up THEN "recheck" ELSE "find"
      BY <2>9 DEF RemoveDown, At, Goto, serviceVars, TypeOK
    <3>2. found[b].up \in BOOLEAN /\ found[b].down \in BOOLEAN
      BY DEF TypeOK
    <3>3. UpSeen' /\ Stale("sync")' => failures' >= 3
      <4>1. UpSeen' => found[b].up = FALSE
        BY <3>1, <3>2 DEF UpSeen
      <4> QED BY <1>1, <1>2, <2>3, <3>1, <4>1 DEF BootVolumes, UpSeen
    <3>4. ASSUME Stale("validator")' PROVE failures' >= 3
      <4>1. Stale("validator") /\ Exists("validator")'
        BY <2>3, <3>4 DEF Stale, Exists
      <4>2. CASE found[b].down = FALSE
        BY <1>1, <1>2, <3>1, <4>1, <4>2 DEF BootVolumes, DownSeen
      <4>3. CASE found[b].down = TRUE
        <5>1. RemoveContainer("validator")
          BY <1>1, <2>9, <4>3 DEF RemoveDown
        <5>2. failures' = failures + 1
          BY <4>1, <5>1, RemovalKeeps, FailsCounts
        <5>3. failures >= 2
          BY <1>1, <2>1, <4>1 DEF BootVolumes
        <5> QED BY <1>2, <5>2, <5>3
      <4> QED BY <3>2, <4>2, <4>3
    <3>5. pc'[b] \in StartLabels \ {"prepare"}
      BY <3>1
    <3> QED BY <2>5, <3>1, <3>3, <3>4, <3>5
  <2>10. CASE CheckAgain(b)
    <3>1. pc[b] = "recheck" /\ pc'[b] \in {"import", "removeUp"} /\ UNCHANGED stage
      BY <2>10 DEF CheckAgain, At, Goto, TypeOK
    <3>2. ~UpSeen' /\ DownSeen
      BY <3>1 DEF UpSeen, DownSeen
    <3> QED BY <1>1, <1>2, <2>3, <2>5, <3>1, <3>2 DEF BootVolumes
  <2>11. CASE RemoveUp(b)
    <3>1. /\ pc[b] = "removeUp" /\ pc'[b] = "find" /\ UNCHANGED stage
          /\ RemoveContainer("sync")
      BY <1>1, <2>11 DEF RemoveUp, At, Goto, TypeOK
    <3>2. DownSeen
      BY <3>1 DEF DownSeen
    <3>3. ASSUME Stale("sync")' PROVE failures' >= 3
      <4>1. Stale("sync") /\ Exists("sync")'
        BY <2>3, <3>3 DEF Stale, Exists
      <4>2. failures' = failures + 1
        BY <3>1, <4>1, RemovalKeeps, FailsCounts
      <4>3. failures >= 2
        BY <1>1, <2>1, <4>1 DEF BootVolumes
      <4> QED BY <1>2, <4>2, <4>3
    <3> QED BY <1>1, <1>2, <2>3, <2>5, <3>1, <3>2, <3>3 DEF BootVolumes
  <2>12. CASE Find(b)
    <3>1. pc[b] = "find" /\ pc'[b] \in {"create", "start", "import"} /\ UNCHANGED stage
      BY <2>12 DEF Find, At, Goto, TypeOK
    <3>2. UpSeen /\ DownSeen
      BY <3>1 DEF UpSeen, DownSeen
    <3> QED BY <1>1, <1>2, <2>3, <2>5, <3>1, <3>2 DEF BootVolumes
  <2>13. CASE Start(b)
    <3>1. pc[b] = "start" /\ pc'[b] \in {"started", "import"} /\ UNCHANGED stage
      BY <2>13 DEF Start, At, Goto, TypeOK
    <3>2. UpSeen /\ DownSeen
      BY <3>1 DEF UpSeen, DownSeen
    <3> QED BY <1>1, <1>2, <2>3, <2>5, <3>1, <3>2 DEF BootVolumes
  <2>14. CASE Return(b)
    <3>1. \/ pc[b] = "started" /\ stage' = "running"
          \/ stage' = "down"
      BY <2>14 DEF Return, At
    <3>2. CASE stage' = "down"
      BY <2>3, <3>2 DEF VolumeInv
    <3>3. CASE pc[b] = "started" /\ stage' = "running"
      <4>1. UpSeen /\ DownSeen
        BY <3>3 DEF UpSeen, DownSeen
      <4>2. \A x \in Container : Stale(x)' => failures' >= 3
        BY <1>1, <1>2, <2>3, <4>1 DEF BootVolumes, Container
      <4> QED BY <2>3, <2>4, <3>3, <4>2 DEF VolumeInv
    <3> QED BY <3>1, <3>2, <3>3
  <2> QED
    BY <1>5, <2>6, <2>7, <2>8, <2>9, <2>10, <2>11, <2>12, <2>13, <2>14 DEF StartStep
<1> QED BY <1>3, <1>4, <1>5

LEMMA CleanUpVolumes ==
  ASSUME TypeOK, Phases, VolumeInv, NEW c \in Cleaner \cup {"boot"}, CleanUpStep(c)
  PROVE  VolumeInv'
<1> USE BootIsNotStarted, ContainerNames DEF CleanUpLabels, StartLabels, DownGoneLabels
<1>1. c \in Call
  BY DEF Call
<1>2. failures' \in Nat /\ failures \in Nat /\ failures <= failures'
  BY <1>1, CleanUpFrame, FailsCounts
<1>3. UNCHANGED volume
  BY CleanUpFrame
<1>4. \E x \in Container : RemoveContainer(x)
  BY DEF CleanUpStep, RemoveSync, RemoveValidator
<1>5. Kept
  BY <1>2, <1>3, <1>4, RemovalKeeps DEF Kept
<1>6. VolumesCost'
  BY <1>5, KeptKeeps DEF VolumeInv
<1>7. /\ stage = (IF c = "boot" THEN "booting" ELSE "running")
      /\ stage' \in {stage, "exited"}
  BY <1>1, CleanUpFrame, WhoseTurn
<1>8. CASE c = "boot"
  <2>1. CASE RemoveSync(c)
    <3>1. pc'["boot"] = "removeValidator" /\ RemoveContainer("sync")
      BY <1>8, <2>1 DEF RemoveSync, Goto, TypeOK
    <3>2. Survivor("sync")'
      <4>1. Exists("sync")' => /\ failures' = failures + 1
                               /\ mounted'["sync"] = mounted["sync"] /\ Exists("sync")
        BY <1>2, <3>1, RemovalKeeps, FailsCounts
      <4> QED BY <1>2, <4>1 DEF Survivor, Exists, VolumeInv, VolumesCost
    <3> QED BY <1>6, <1>7, <1>8, <3>1, <3>2 DEF VolumeInv, BootVolumes, UpSeen, DownSeen
  <2>2. CASE RemoveValidator(c)
    <3>1. pc["boot"] = "removeValidator" /\ RemoveContainer("validator")
      BY <1>8, <2>2 DEF RemoveValidator, At
    <3>2. pc'["boot"] = "boot"
      BY <1>8, <3>1, CleanUpFrame
    <3>3. Survivor("validator")'
      <4>1. Exists("validator")' => /\ failures' = failures + 1
                                    /\ mounted'["validator"] = mounted["validator"]
                                    /\ Exists("validator")
        BY <1>2, <3>1, RemovalKeeps, FailsCounts
      <4> QED BY <1>2, <4>1 DEF Survivor, Exists, VolumeInv, VolumesCost
    <3>4. Survivor("sync")'
      BY <1>5, <1>7, <1>8, <3>1, KeptKeeps DEF VolumeInv, BootVolumes
    <3> QED
      BY <1>6, <1>7, <1>8, <3>2, <3>3, <3>4 DEF VolumeInv, BootVolumes, UpSeen, DownSeen
  <2> QED BY <2>1, <2>2 DEF CleanUpStep
<1>9. CASE c # "boot"
  BY <1>2, <1>3, <1>5, <1>6, <1>7, <1>9, KeptKeeps DEF VolumeInv
<1> QED BY <1>8, <1>9

LEMMA OtherVolumes ==
  ASSUME TypeOK, Phases, VolumeInv,
         \/ \E c \in Caller : BeginStart(c)
         \/ \E c \in Cleaner : BeginCleanUp(c) \/ SkipCleanUp(c)
         \/ BootPassive \/ Crash \/ Restart
         \/ \E x \in Container : ContainerStops(x)
  PROVE  VolumeInv'
<1> USE BootIsNotStarted DEF StartLabels, DownGoneLabels
<1>1. ASSUME NEW c \in Caller, BeginStart(c) PROVE VolumeInv'
  BY <1>1
  DEF BeginStart, MayBegin, dockerVars, VolumeInv, VolumesCost, Stale, Exists
<1>2. ASSUME NEW c \in Cleaner, BeginCleanUp(c) PROVE VolumeInv'
  BY <1>2
  DEF BeginCleanUp, MayBegin, dockerVars, VolumeInv, VolumesCost, Stale, Exists
<1>3. ASSUME NEW c \in Cleaner, SkipCleanUp(c) PROVE VolumeInv'
  <2>1. stage = "running" /\ stage' \in {"running", "exited"}
    BY <1>3, CleanUpEnds DEF SkipCleanUp, MayBegin
  <2> QED
    BY <1>3, <2>1 DEF SkipCleanUp, dockerVars, serviceVars, VolumeInv, VolumesCost, Stale, Exists
<1>4. CASE BootPassive
  <2>1. /\ pc["boot"] = "boot" /\ stage = "booting" /\ pc'["boot"] = "prepare"
        /\ UNCHANGED <<dockerVars, stage, volume, failures>>
    BY <1>4, WhoseTurn DEF BootPassive, At, Goto, TypeOK
  <2> QED
    BY <2>1
    DEF dockerVars, VolumeInv, VolumesCost, BootVolumes, Survivor, UpSeen, DownSeen, Exists
<1>5. CASE Crash
  BY <1>5 DEF Crash, dockerVars, serviceVars, VolumeInv, VolumesCost, Exists
<1>6. CASE Restart
  <2>1. /\ pc'["boot"] = "removeSync" /\ stage' = "booting" /\ volume' = "none"
        /\ UNCHANGED <<dockerVars, failures>>
    BY <1>6 DEF Restart, Booting
  <2> QED
    BY <2>1 DEF dockerVars, VolumeInv, VolumesCost, BootVolumes, UpSeen, DownSeen, Exists
<1>7. ASSUME NEW x \in Container, ContainerStops(x) PROVE VolumeInv'
  <2>1. /\ \A y \in Container : Exists(y)' <=> Exists(y)
        /\ UNCHANGED <<mounted, stage, volume, pc, found, failures>>
    BY <1>7 DEF ContainerStops, serviceVars, Exists, TypeOK
  <2> QED
    BY <2>1, ContainerNames
    DEF VolumeInv, VolumesCost, BootVolumes, Survivor, Stale, UpSeen, DownSeen
<1> QED BY <1>1, <1>2, <1>3, <1>4, <1>5, <1>6, <1>7

LEMMA VolumesAlways == Spec => []VolumeInv
<1>1. Init => VolumeInv
  BY BootIsNotStarted
  DEF Init, Booting, VolumeInv, VolumesCost, BootVolumes, UpSeen, DownSeen, Exists, StartLabels,
      DownGoneLabels
<1>2. TypeOK /\ Phases /\ VolumeInv /\ [Next]_vars => VolumeInv'
  <2>1. ASSUME VolumeInv, UNCHANGED vars PROVE VolumeInv'
    BY <2>1
    DEF vars, dockerVars, serviceVars, VolumeInv, VolumesCost, BootVolumes, Survivor, Stale,
        UpSeen, DownSeen, Exists
  <2>2. ASSUME TypeOK, Phases, VolumeInv, NEW c \in Caller \cup {"boot"}, StartStep(c)
        PROVE  VolumeInv'
    <3>1. c \in Call /\ stage \in {"booting", "running"} /\ pc[c] \notin {"idle", "done"}
      BY <2>2, StartFrame DEF Call, StartLabels
    <3>2. stage = IF c = "boot" THEN "booting" ELSE "running"
      BY <2>2, <3>1, WhoseTurn
    <3> QED BY <2>2, <3>1, <3>2, RunningStart, BootStart
  <2> QED BY <2>1, <2>2, StepCases, CleanUpVolumes, OtherVolumes
<1> QED BY <1>1, <1>2, Typing, PhasesAlways, PTL DEF Spec

\* polkadot.js:379: whatever calls overlap, and whatever crashes and restarts
\* there are, both containers of a running process are on its volume as long as
\* two Docker calls at most have failed.
THEOREM OneVolumeHolds == Spec => []OneVolume
<1>1. TypeOK /\ VolumeInv => OneVolume
  BY DEF OneVolume, VolumeInv, Stale, Exists, TypeOK
<1> QED BY <1>1, VolumesAlways, Typing, PTL

-----------------------------------------------------------------------------
(* A boot comes up                                                         *)

\* What bootstrap's call has achieved while no Docker call fails: its clean-up
\* has removed the sync container, nobody else creates one, and so its start
\* creates it anew.
BootGoesOn ==
  stage = "booting" /\ failures = 0 =>
    /\ pc["boot"] \notin {"recheck", "removeUp", "import"}
    /\ pc["boot"] \notin {"removeSync", "start", "started"} => ~Exists("sync")
    /\ pc["boot"] = "start" => container["sync"] = "stopped"
    /\ pc["boot"] \in {"findDown", "removeDown"} => found["boot"].up = FALSE

LEMMA BootStartGoesOn ==
  ASSUME TypeOK, Phases, BootGoesOn, StartStep("boot"), stage = "booting"
  PROVE  BootGoesOn'
<1> SUFFICES ASSUME stage' = "booting", failures' = 0
             PROVE  BootGoesOn'
  BY DEF BootGoesOn
<1> DEFINE b == "boot"
<1> USE BootIsNotStarted, ContainerNames DEF StartLabels
<1>1. pc[b] \in StartLabels /\ target[b] = "passive" /\ Works /\ failures = 0 /\ BootGoesOn
  BY StartFrame, Counting, FailsCounts DEF Phases
<1>2. ~Fails
  BY <1>1, FailsCounts
<1>3. CASE Prepare(b)
  BY <1>1, <1>3 DEF Prepare, At, Goto, dockerVars, BootGoesOn, Exists, TypeOK
<1>4. CASE CheckRunning(b)
  BY <1>1, <1>2, <1>4 DEF CheckRunning, At, Goto, dockerVars, BootGoesOn, Exists, TypeOK
<1>5. CASE FindUp(b)
  <2>1. /\ pc[b] = "findUp" /\ pc'[b] = "findDown" /\ UNCHANGED dockerVars
        /\ found'[b].up = (container["sync"] # "absent")
    BY <1>1, <1>2, <1>5 DEF FindUp, At, Goto, TypeOK
  <2>2. container["sync"] = "absent"
    BY <1>1, <2>1 DEF BootGoesOn, Exists
  <2> QED BY <2>1, <2>2 DEF BootGoesOn, Exists, dockerVars
<1>6. CASE FindDown(b)
  <2>1. /\ pc[b] = "findDown" /\ pc'[b] = "removeDown" /\ UNCHANGED dockerVars
        /\ found'[b].up = found[b].up
    BY <1>6 DEF FindDown, At, Goto, TypeOK
  <2> QED BY <1>1, <2>1 DEF BootGoesOn, Exists, dockerVars
<1>7. CASE RemoveDown(b)
  <2>1. pc[b] = "removeDown" /\ found[b].up = FALSE
    BY <1>1, <1>7 DEF RemoveDown, At, BootGoesOn
  <2>2. pc'[b] = "find"
    BY <1>7, <2>1 DEF RemoveDown, Goto, TypeOK
  <2>3. ~Exists("sync")'
    BY <1>1, <1>7, <2>1, RemovalKeeps DEF RemoveDown, BootGoesOn, Exists, dockerVars
  <2> QED BY <2>2, <2>3 DEF BootGoesOn
<1>8. CASE Find(b)
  <2>1. container["sync"] = "absent" /\ ~ImageUnavailable
    BY <1>1, <1>2, <1>8 DEF Find, At, BootGoesOn, Exists, ImageUnavailable
  <2>2. pc'[b] = "create" /\ UNCHANGED dockerVars
    BY <1>1, <1>2, <1>8, <2>1 DEF Find, Goto, TypeOK
  <2> QED BY <2>1, <2>2 DEF BootGoesOn, Exists, dockerVars
<1>9. CASE Create(b)
  <2>1. container["sync"] = "absent"
    BY <1>1, <1>9 DEF Create, At, BootGoesOn, Exists
  <2>2. pc'[b] = "start" /\ container'["sync"] = "stopped"
    BY <1>1, <1>2, <1>9, <2>1 DEF Create, Goto, TypeOK
  <2> QED BY <2>2 DEF BootGoesOn
<1>10. CASE Start(b)
  <2>1. container["sync"] = "stopped"
    BY <1>1, <1>10 DEF Start, At, BootGoesOn
  <2>2. pc'[b] = "started"
    BY <1>1, <1>2, <1>10, <2>1 DEF Start, Goto, TypeOK
  <2> QED BY <2>2 DEF BootGoesOn
<1>11. CASE Return(b)
  BY <1>11 DEF Return
<1>12. CASE CheckAgain(b) \/ RemoveUp(b)
  BY <1>1, <1>12 DEF CheckAgain, RemoveUp, At, BootGoesOn
<1> QED
  BY <1>3, <1>4, <1>5, <1>6, <1>7, <1>8, <1>9, <1>10, <1>11, <1>12 DEF StartStep

LEMMA BootStep ==
  ASSUME TypeOK, Phases, BootGoesOn, [Next]_vars
  PROVE  BootGoesOn'
<1> USE BootIsNotStarted, ContainerNames DEF StartLabels, CleanUpLabels
<1>1. CASE UNCHANGED vars
  BY <1>1 DEF vars, dockerVars, serviceVars, BootGoesOn, Exists
<1>2. ASSUME NEW c \in Caller \cup {"boot"}, StartStep(c) PROVE BootGoesOn'
  <2>1. c \in Call /\ stage \in {"booting", "running"} /\ pc[c] \notin {"idle", "done"}
    BY <1>2, StartFrame DEF Call
  <2>2. stage = IF c = "boot" THEN "booting" ELSE "running"
    BY <2>1, WhoseTurn
  <2>3. CASE c # "boot"
    BY <1>2, <2>1, <2>2, <2>3, StartFrame DEF BootGoesOn
  <2> QED BY <1>2, <2>2, <2>3, BootStartGoesOn
<1>3. ASSUME NEW c \in Cleaner \cup {"boot"}, CleanUpStep(c) PROVE BootGoesOn'
  <2>1. c \in Call /\ stage \in {"booting", "running"} /\ pc[c] \notin {"idle", "done"}
    BY <1>3, CleanUpFrame DEF Call
  <2>2. stage = IF c = "boot" THEN "booting" ELSE "running"
    BY <2>1, WhoseTurn
  <2>3. CASE c # "boot"
    BY <1>3, <2>2, <2>3, CleanUpFrame DEF BootGoesOn
  <2>4. CASE c = "boot"
    <3> SUFFICES ASSUME failures' = 0 PROVE BootGoesOn'
      BY DEF BootGoesOn
    <3>1. Works /\ failures = 0
      BY <1>3, <2>1, CleanUpFrame, Counting, FailsCounts
    <3>2. CASE RemoveSync(c)
      <4>1. pc'["boot"] = "removeValidator"
        BY <2>4, <3>2 DEF RemoveSync, Goto, TypeOK
      <4>2. ~Exists("sync")'
        BY <3>1, <3>2, RemovalKeeps, FailsCounts DEF RemoveSync
      <4> QED BY <4>1, <4>2 DEF BootGoesOn
    <3>3. CASE RemoveValidator(c)
      <4>1. pc["boot"] = "removeValidator" /\ RemoveContainer("validator")
        BY <2>4, <3>3 DEF RemoveValidator, At
      <4>2. pc'["boot"] = "boot"
        BY <1>3, <2>4, <4>1, CleanUpFrame
      <4>3. ~Exists("sync")'
        BY <2>2, <2>4, <3>1, <4>1, RemovalKeeps DEF BootGoesOn
      <4> QED BY <4>2, <4>3 DEF BootGoesOn
    <3> QED BY <1>3, <3>2, <3>3 DEF CleanUpStep
  <2> QED BY <2>3, <2>4
<1>4. ASSUME NEW c \in Caller, BeginStart(c) PROVE BootGoesOn'
  BY <1>4 DEF BeginStart, MayBegin, BootGoesOn
<1>5. ASSUME NEW c \in Cleaner, BeginCleanUp(c) \/ SkipCleanUp(c) PROVE BootGoesOn'
  <2>1. stage' # "booting"
    BY <1>5, CleanUpEnds DEF BeginCleanUp, SkipCleanUp, MayBegin
  <2> QED BY <2>1 DEF BootGoesOn
<1>6. CASE BootPassive
  <2>1. /\ pc["boot"] = "boot" /\ pc'["boot"] = "prepare"
        /\ UNCHANGED <<dockerVars, stage, failures>>
    BY <1>6 DEF BootPassive, At, Goto, TypeOK
  <2> QED BY <2>1 DEF BootGoesOn, Exists, dockerVars
<1>7. CASE Crash
  BY <1>7 DEF Crash, BootGoesOn
<1>8. CASE Restart
  <2>1. pc'["boot"] = "removeSync"
    BY <1>8 DEF Restart, Booting
  <2> QED BY <2>1 DEF BootGoesOn
<1>9. ASSUME NEW x \in Container, ContainerStops(x) PROVE BootGoesOn'
  <2>1. /\ container[x] = "running" /\ container' = [container EXCEPT ![x] = "stopped"]
        /\ UNCHANGED <<stage, pc, found, failures>>
    BY <1>9 DEF ContainerStops
  <2>2. /\ Exists("sync")' <=> Exists("sync")
        /\ container["sync"] = "stopped" => container'["sync"] = "stopped"
    BY <2>1 DEF Exists, TypeOK
  <2> QED BY <2>1, <2>2 DEF BootGoesOn
<1> QED
  BY <1>1, <1>2, <1>3, <1>4, <1>5, <1>6, <1>7, <1>8, <1>9, StepCases

\* orchestrator.js:65: whatever a crash has left behind, a boot all of whose
\* Docker calls work starts the sync container, and the process runs.
THEOREM BootComesUpHolds == Spec => BootComesUp
<1>1. Init => BootGoesOn
  BY BootIsNotStarted DEF Init, Booting, BootGoesOn
<1>2. TypeOK /\ Phases /\ BootGoesOn /\ [Next]_vars
        => [Return("boot") /\ failures = 0 => stage' = "running"]_vars
  <2>1. ASSUME TypeOK, Phases, BootGoesOn, Return("boot"), failures = 0
        PROVE  stage' = "running"
    <3>1. pc["boot"] \in {"started", "import"} /\ stage \in {"booting", "running"}
      BY <2>1 DEF Return, At
    <3>2. stage = "booting"
      BY <2>1, <3>1 DEF Phases
    <3>3. pc["boot"] = "started"
      BY <2>1, <3>1, <3>2 DEF BootGoesOn
    <3> QED BY <2>1, <3>3 DEF Return, At
  <2> QED BY <2>1
<1> QED BY <1>1, <1>2, BootStep, Typing, PhasesAlways, PTL DEF Spec, BootComesUp
=============================================================================
