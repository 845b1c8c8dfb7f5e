----------------------------- MODULE UpDown_proofs -----------------------------
(***************************************************************************)
(* What `plural up` and `plural down` keep when they are run in turn, in   *)
(* any order and with any failures: the registration of a Plural Cloud     *)
(* workspace, the truth of what either reports when it succeeds.           *)
(***************************************************************************)
EXTENDS UpDown, UpDeploy_proofs

-----------------------------------------------------------------------------
(* The inductive invariant                                                 *)

\* `down` is at one of its commands, `up` is not running then, and the
\* command that destroys comes after the one that forgets the registration.
DownInv ==
    /\ downIdx \in 0..Len(Destroy)
    /\ ~DownIdle => Idle /\ result = "none" /\ downResult # "ok"
    /\ downIdx = 3 => "plural_cluster" \notin managed

RegistrationInv == kind = "cloud" => "plural_cluster" \in real \/ cloned

\* A run that is past the stage that waits for the console has a console, if
\* its wait did not time out unanswered.
ReachInv ==
    /\ (kind = "own" /\ pos > 7) \/ (kind = "byok" /\ pos > 4) => ConsoleUp \/ hung
    /\ result = "ok" => Idle /\ FinishedMeansReachable

\* what `down` promises to destroy
Platform(k) == Boot(k) \union {"cluster", "apps"}

\* Without a cluster in the terraform state, what is live of the installation
\* is all in that state: an apply stopped before it got to the cluster.  No
\* note says then that the apps were installed, so the pruning is not near.
ClusterInv ==
    kind # "byok" =>
        /\ "cluster" \in managed \/ real \intersect Platform(kind) \subseteq managed
        /\ Covers(LastNote, "apps") \/ Covers(mem, "apps") =>
             "cluster" \in managed \/ real \intersect Platform(kind) = {}
        /\ pos = (IF kind = "own" THEN 9 ELSE 10) /\ idx > 1 => "cluster" \in managed

BothInv ==
    /\ Inv
    /\ StepInv /\ NotesInv /\ FilesInv /\ ManagedInv
    /\ DownInv /\ RegistrationInv /\ ReachInv /\ ClusterInv
    /\ DownDestroysAll

-----------------------------------------------------------------------------
(* The commands of Destroy                                                 *)

LEMMA DestroyCommands ==
    /\ kind = "cloud" =>
         /\ Len(Destroy) = 3
         /\ Destroy[1] = "init" /\ Destroy[2] = "state rm" /\ Destroy[3] = "destroy"
    /\ kind # "cloud" =>
         /\ Len(Destroy) = 2 /\ Destroy[1] = "init" /\ Destroy[2] = "destroy"
  BY DEF Destroy

LEMMA DownAt ==
    ASSUME DownInv, ~DownIdle
    PROVE  /\ downIdx \in 1..Len(Destroy) /\ Len(Destroy) \in {2, 3}
           /\ downIdx = 1 => DownCommand = "init"
           /\ downIdx = 2 /\ kind = "cloud" => DownCommand = "state rm"
           /\ downIdx = 3 => DownCommand = "destroy" /\ kind = "cloud"
           /\ downIdx = Len(Destroy) <=> DownCommand = "destroy"
           /\ DownCommand = "state rm" => kind = "cloud" /\ downIdx = 2
           /\ kind = "cloud" => Len(Destroy) = 3
  <1> DEFINE n == Len(Destroy)
  <1>1. downIdx \in 0..n /\ downIdx # 0
    BY DEF DownInv, DownIdle
  <1>2. (kind = "cloud" => n = 3) /\ (kind # "cloud" => n = 2)
    BY DestroyCommands
  <1> HIDE DEF n
  <1>3. CASE kind = "cloud"
    <2>1. n = 3 /\ downIdx \in {1, 2, 3} /\ downIdx \in 1..n
      BY <1>1, <1>2, <1>3
    <2>2. /\ downIdx = 1 => DownCommand = "init"
          /\ downIdx = 2 => DownCommand = "state rm"
          /\ downIdx = 3 => DownCommand = "destroy"
      BY <1>3, DestroyCommands, Zenon DEF DownCommand
    <2> QED
      BY <1>3, <2>1, <2>2 DEF n
  <1>4. CASE kind # "cloud"
    <2>1. n = 2 /\ downIdx \in {1, 2} /\ downIdx \in 1..n
      BY <1>1, <1>2, <1>4
    <2>2. /\ downIdx = 1 => DownCommand = "init"
          /\ downIdx = 2 => DownCommand = "destroy"
      BY <1>4, DestroyCommands, Zenon DEF DownCommand
    <2>3. /\ downIdx = 1 => downIdx # n /\ downIdx # 3 /\ downIdx # 2
          /\ downIdx = 2 => downIdx = n /\ downIdx # 3
          /\ n \in {2, 3}
      BY <2>1
    <2>4. DownCommand \in {"init", "destroy"} /\ DownCommand # "state rm"
      BY <2>1, <2>2, Zenon
    <2>5. downIdx = n <=> DownCommand = "destroy"
      BY <2>1, <2>2, <2>3
    <2> QED
      BY <1>4, <2>1, <2>3, <2>4, <2>5, Zenon DEF n
  <1> QED
    BY <1>3, <1>4

\* what a step of `down` leaves alone
LEMMA DownKeeps ==
    ASSUME DownInv, DownNext, cloned \in BOOLEAN, hung \in BOOLEAN
    PROVE  /\ Idle /\ result' = "none"
           /\ UNCHANGED <<kind, pos, idx, fails, mem, disk, ran, files, head, remote>>
           /\ mishaps' = mishaps \/ (mishaps < MaxMishaps /\ mishaps' = mishaps + 1)
           /\ cloned' = cloned /\ hung' = hung
  <1>1. CASE StartDown \/ DownBuildFails
    BY <1>1 DEF StartDown, DownBuildFails, Calm, world
  <1>2. CASE ~StartDown /\ ~DownBuildFails
    <2>1. ~DownIdle
      BY <1>2 DEF DownNext, DownTerraformInit, DownStateRm, DownDestroy, DownRefused,
                  DownFails, DownCrash
    <2>2. Idle /\ result = "none"
      BY <2>1 DEF DownInv
    <2>3. CASE DownTerraformInit \/ DownRefused
      BY <2>2, <2>3 DEF DownTerraformInit, DownRefused, vars, control, world
    <2>4. CASE DownStateRm \/ DownDestroy
      BY <2>2, <2>4 DEF DownStateRm, DownDestroy, control, Calm
    <2>5. CASE DownFails \/ DownCrash
      BY <2>2, <2>5 DEF DownFails, DownCrash, control, world, Mishap
    <2> QED
      BY <1>2, <2>3, <2>4, <2>5 DEF DownNext
  <1> QED
    BY <1>1, <1>2

\* what it does to the resources
LEMMA DownDestroys ==
    ASSUME DownInv, DownNext
    PROVE  \/ UNCHANGED <<managed, real>>
           \/ /\ kind = "cloud" /\ ~DownIdle /\ downIdx = 2
              /\ managed' = managed \ {"plural_cluster"} /\ real' = real
           \/ /\ ~DownIdle /\ downIdx = Len(Destroy)
              /\ \E d \in SUBSET managed : managed' = managed \ d /\ real' = real \ Gone(d)
  <1>1. CASE \/ StartDown \/ DownBuildFails \/ DownTerraformInit \/ DownRefused
             \/ DownCrash
    BY <1>1 DEF StartDown, DownBuildFails, DownTerraformInit, DownRefused, DownCrash,
                vars, world
  <1>2. CASE DownStateRm
    BY <1>2, DownAt DEF DownStateRm
  <1>3. CASE DownDestroy
    <2>1. managed \in SUBSET managed /\ managed \ managed = {}
      OBVIOUS
    <2>2. managed' = managed \ managed /\ real' = real \ Gone(managed)
      BY <1>3, <2>1 DEF DownDestroy
    <2>3. ~DownIdle /\ downIdx = Len(Destroy)
      BY <1>3, DownAt DEF DownDestroy
    <2> QED
      BY <2>1, <2>2, <2>3
  <1>4. CASE DownFails
    <2>1. ~DownIdle
      BY <1>4 DEF DownFails
    <2>2. PICK d \in SUBSET managed :
            /\ d # {} => DownCommand = "destroy"
            /\ managed' = managed \ d
            /\ real' = real \ Gone(d)
      BY <1>4 DEF DownFails
    <2>3. CASE d = {}
      <3>1. Gone(d) = {}
        BY <2>3 DEF Gone
      <3> QED
        BY <2>2, <2>3, <3>1
    <2>4. CASE d # {}
      BY <2>1, <2>2, <2>4, DownAt
    <2> QED
      BY <2>3, <2>4
  <1> QED
    BY <1>1, <1>2, <1>3, <1>4 DEF DownNext

LEMMA DownIsMonotonic ==
    ASSUME DownInv, DownNext
    PROVE  managed' \subseteq managed /\ real' \subseteq real
  BY DownDestroys

-----------------------------------------------------------------------------
(* `down` keeps what holds of `up`                                         *)

LEMMA DownKeepsInv ==
    ASSUME Inv, DownInv, DownNext
    PROVE  Inv'
  <1>1. /\ result' = "none"
        /\ UNCHANGED <<kind, pos, idx, fails, mem, disk, ran, files, head, remote>>
        /\ mishaps' \in 0..MaxMishaps /\ cloned' \in BOOLEAN /\ hung' \in BOOLEAN
    BY DownKeeps, MishapsAssumption DEF Inv, WorldInv
  <1>2. managed' \subseteq managed /\ real' \subseteq real
    BY DownIsMonotonic
  <1>3. ControlInv'
    BY <1>1 DEF Inv, ControlInv, Recorded, Covers, StagesInOrder, Resumable, Idle, Plan
  <1>4. WorldInv'
    BY <1>1, <1>2 DEF Inv, WorldInv, Recorded, Covers, Plan
  <1> QED
    BY <1>3, <1>4 DEF Inv

LEMMA DownKeepsRun ==
    ASSUME Inv, StepInv, NotesInv, FilesInv, ManagedInv, DownInv, DownNext
    PROVE  StepInv' /\ NotesInv' /\ FilesInv' /\ ManagedInv'
  <1>1. /\ UNCHANGED <<kind, pos, idx, mem, disk, files, head, remote, cloned>>
        /\ Idle
    BY DownKeeps DEF Inv, WorldInv
  <1>2. managed' \subseteq managed
    BY DownIsMonotonic
  <1>3. StepInv'
    BY <1>1 DEF StepInv, Running, Stage
  <1>4. NotesInv'
    BY <1>1 DEF NotesInv, LastNote
  <1>5. FilesInv'
    BY <1>1 DEF FilesInv, Installing
  <1>6. ManagedInv'
    BY <1>1, <1>2 DEF ManagedInv
  <1> QED
    BY <1>3, <1>4, <1>5, <1>6

LEMMA DownInvKept ==
    ASSUME Inv, DownInv, BothNext
    PROVE  DownInv'
  <1>1. CASE UpNext
    <2>1. downIdx' = 0 /\ kind' = kind
      BY <1>1, Moves, RunMoves DEF UpNext, DownIdle, Inv
    <2>2. 0 \in 0..Len(Destroy)
      <3> DEFINE n == Len(Destroy)
      <3>1. n = 2 \/ n = 3
        BY DestroyCommands
      <3> HIDE DEF n
      <3>2. 0 \in 0..n
        BY <3>1
      <3> QED
        BY <3>2 DEF n
    <2> QED
      BY <2>1, <2>2 DEF DownInv, DownIdle, Destroy
  <1>2. CASE DownNext
    <2>1. /\ Idle' /\ result' = "none" /\ kind' = kind /\ Destroy' = Destroy
      BY <1>2, DownKeeps DEF Inv, WorldInv, Idle, Destroy
    <2>2. managed' \subseteq managed
      BY <1>2, DownIsMonotonic
    <2> DEFINE n == Len(Destroy)
    <2>3. n \in {2, 3}
      BY DestroyCommands
    <2>4. ~DownIdle => downIdx \in 1..n /\ (downIdx = n <=> DownCommand = "destroy")
      BY DownAt
    <2>5. ~DownIdle => downResult # "ok" /\ (downIdx = 3 => "plural_cluster" \notin managed)
      BY DEF DownInv
    <2>6. Len(Destroy)' = n
      BY <2>1
    <2> HIDE DEF n
    <2>7. CASE downIdx' = 0
      BY <2>1, <2>3, <2>6, <2>7 DEF DownInv, DownIdle
    <2>8. CASE downIdx' = 1 /\ downResult' # "ok"
      BY <2>1, <2>3, <2>6, <2>8 DEF DownInv, DownIdle
    <2>9. CASE ~DownIdle /\ downIdx' = downIdx /\ downResult' = downResult
      BY <2>1, <2>2, <2>3, <2>4, <2>5, <2>6, <2>9 DEF DownInv, DownIdle
    <2>10. CASE /\ ~DownIdle /\ downIdx # n /\ downIdx' = downIdx + 1
                /\ downResult' = downResult
      <3>1. downIdx' \in 1..n /\ (downIdx' = 3 => downIdx = 2)
        BY <2>3, <2>4, <2>10
      <3>2. ASSUME downIdx' = 3 PROVE "plural_cluster" \notin managed'
        <4>1. downIdx = 2 /\ n = 3
          BY <2>3, <3>1, <3>2
        <4>2. kind = "cloud"
          <5>1. kind # "cloud" => n = 2
            BY DestroyCommands DEF n
          <5> QED
            BY <4>1, <5>1
        <4>3. DownCommand = "state rm"
          BY <2>10, <4>1, <4>2, DownAt
        <4>4. DownStateRm
          <5>1. ~StartDown /\ ~DownBuildFails /\ ~DownTerraformInit /\ ~DownDestroy
            BY <2>10, <4>3 DEF StartDown, DownBuildFails, DownTerraformInit, DownDestroy
          <5>2. DownRefused \/ DownFails => downIdx' = downIdx \/ downIdx' = 0
            BY DEF DownRefused, DownFails, DownGivesUp, EndDown
          <5>3. DownCrash => downIdx' = 0
            BY DEF DownCrash, EndDown
          <5> QED
            BY <1>2, <3>2, <4>1, <5>1, <5>2, <5>3 DEF DownNext
        <4> QED
          BY <4>4 DEF DownStateRm
      <3> QED
        BY <2>1, <2>3, <2>5, <2>6, <2>10, <3>1, <3>2 DEF DownInv, DownIdle
    <2> QED
      <3>1. CASE StartDown
        BY <2>8, <3>1 DEF StartDown
      <3>2. CASE DownTerraformInit \/ DownStateRm \/ DownDestroy
        BY <2>7, <2>10, <3>2
           DEF DownTerraformInit, DownStateRm, DownDestroy, DownMovesOn, EndDown, n
      <3>3. CASE DownRefused \/ DownFails \/ DownCrash
        BY <2>7, <2>9, <3>3 DEF DownRefused, DownFails, DownCrash, DownGivesUp, EndDown
      <3>4. CASE DownBuildFails
        BY <2>7, <3>4 DEF DownBuildFails, DownIdle
      <3> QED
        BY <1>2, <3>1, <3>2, <3>3, <3>4 DEF DownNext
  <1> QED
    BY <1>1, <1>2 DEF BothNext

-----------------------------------------------------------------------------
(* The registration of a Plural Cloud workspace                            *)

LEMMA RegistrationInvKept ==
    ASSUME Inv, StepInv, FilesInv, ManagedInv, DownInv, RegistrationInv, BothNext
    PROVE  RegistrationInv'
  <1>1. CASE UpNext
    <2>1. Next /\ kind' = kind
      BY <1>1, Moves DEF UpNext, Inv
    <2>2. cloned => cloned'
      BY <2>1, ClonedStays
    <2>3. real \subseteq real' \/ cloned
      BY <2>1, LiveKept DEF Inv
    <2> QED
      BY <2>1, <2>2, <2>3 DEF RegistrationInv
  <1>2. CASE DownNext
    <2>1. kind' = kind /\ cloned' = cloned
      BY <1>2, DownKeeps DEF Inv, WorldInv
    <2>2. ASSUME kind = "cloud", "plural_cluster" \in real PROVE "plural_cluster" \in real'
      <3>1. CASE real' = real
        BY <2>2, <3>1
      <3>2. CASE /\ ~DownIdle /\ downIdx = Len(Destroy)
                 /\ \E d \in SUBSET managed : managed' = managed \ d /\ real' = real \ Gone(d)
        <4>1. downIdx = 3
          BY <2>2, <3>2, DownAt
        <4>2. "plural_cluster" \notin managed
          BY <4>1 DEF DownInv
        <4> QED
          BY <2>2, <3>2, <4>2 DEF Gone
      <3> QED
        BY <1>2, <3>1, <3>2, DownDestroys
    <2> QED
      BY <2>1, <2>2 DEF RegistrationInv
  <1> QED
    BY <1>1, <1>2 DEF BothNext

-----------------------------------------------------------------------------
(* The console a run waits for                                             *)

\* the stages that wait for the console
LEMMA WaitStages == Stages("own")[7] = "ping" /\ Stages("byok")[4] = "waitForConsole"
  BY DEF Stages

LEMMA WaitedFor ==
    ASSUME Completes, OpName \in {"ping", "waitForConsole"}
    PROVE  (ConsoleUp \/ hung') /\ real' = real
  <1> DEFINE Silent == OpName \in Harmless /\ (~Impossible \/ hung') /\ UNCHANGED world
  <1>1. \/ Generate \/ TemplatePlural \/ AfterSetup \/ Import \/ ApplyMgmt \/ ApplyApps
        \/ Forgets \/ Drops \/ Removes \/ Commits \/ Pushes \/ Silent
    BY Zenon DEF Completes
  <1>2. /\ Generate => OpName = "generate"
        /\ TemplatePlural => OpName = "plural.tf"
        /\ AfterSetup => OpName = "afterSetup"
        /\ Import => OpName = "import"
        /\ ApplyMgmt => OpName = "apply"
        /\ ApplyApps => OpName = "apply"
    BY ActionName DEF IsAt
  <1>3. OpName \in PlainName
    BY DEF PlainName, SimpleStage
  <1> HIDE DEF Silent
  <1>4. Silent
    BY <1>1, <1>2, <1>3, OneThing
  <1>5. (~Impossible \/ hung') /\ UNCHANGED world
    BY <1>4 DEF Silent
  <1>6. ConsoleUp \/ hung'
    BY <1>5 DEF Impossible, OpName
  <1> QED
    BY <1>5, <1>6 DEF world

\* only a run that returns reports success
LEMMA SuccessReturns ==
    ASSUME ControlInv, StepInv, Next, result' = "ok"
    PROVE  Return \/ (result = "ok" /\ ~Idle)
  <1> SUFFICES ASSUME ~Return PROVE result = "ok" /\ ~Idle
    OBVIOUS
  <1>1. ~StartUp /\ ~Clone /\ ~FailRun /\ ~Finishes
    BY StartUpMove, CloneMove, FailRunMove, FinishesMove
  <1>2. result = "ok" /\ Running
    BY <1>1, Moves DEF SkipStage, Inside, Onward, Falters
  <1> QED
    BY <1>2 DEF Running, Idle

\* a run remembers a wait that timed out
LEMMA HungStays ==
    ASSUME Next, hung
    PROVE  StartUp \/ hung'
  BY DEF Next, Work, Disturbance, SkipStage, Return, Generate,
         CheckOrInit, TemplatePlural, AfterSetup, ApplyMgmt, ApplyApps,
         Import, StateRm, StateRmBestEffort, RemoveFiles, GitCommit, GitPush,
         DeclineCommit, Refused, CommandFails, GenerateFails, ApplyMgmtFails,
         StateRmFails, BestEffortFails, CheckTimesOut, SyncFails, Crash,
         StopAfterGenerate, BuildFails, RewriteFails, Clone, Calm, Mishap

LEMMA ReachInvKept ==
    ASSUME Inv, StepInv, FilesInv, ManagedInv, DownInv, ReachInv, BothNext
    PROVE  ReachInv'
  <1> USE DEF Inv
  <1>1. CASE UpNext
    <2>1. Next /\ kind' = kind /\ kind \in AllKinds /\ pos \in Nat
      BY <1>1, Moves, KindType, StagesType DEF UpNext, ControlInv
    <2>2. kind # "cloud" => real \subseteq real'
      BY <2>1, LiveKept
    <2>3. ASSUME (kind = "own" /\ pos' > 7) \/ (kind = "byok" /\ pos' > 4)
          PROVE  ConsoleUp' \/ hung'
      <3>1. CASE (kind = "own" /\ pos > 7) \/ (kind = "byok" /\ pos > 4)
        <4>1. ~StartUp
          BY <2>3, StartUpMove
        <4> QED
          BY <2>1, <2>2, <2>3, <3>1, <4>1, HungStays DEF ReachInv, ConsoleUp
      <3>2. CASE (kind = "own" /\ ~(pos > 7)) \/ (kind = "byok" /\ ~(pos > 4))
        <4>1. pos' # 0 /\ pos' # pos /\ pos' # 1 /\ pos' = pos + 1 /\ Running
          <5>1. pos' # 0 /\ pos' # pos /\ pos' # 1
            <6>1. pos' \in Nat
              BY <2>1, KindType, StagesType, NextControlInv DEF ControlInv
            <6> QED
              BY <2>1, <2>3, <3>2, <6>1
          <5> QED
            BY <2>1, <5>1, Positions
        <4>2. (kind = "own" /\ pos = 7) \/ (kind = "byok" /\ pos = 4)
          BY <2>1, <2>3, <3>2, <4>1
        <4>3. Stage \in {"ping", "waitForConsole"}
          BY <4>2, WaitStages DEF Stage
        <4>4. Completes
          BY <2>1, <4>1, <4>3, Advance, SkippedIsCovered DEF Checkpoint
        <4>5. Stage \in SimpleStage
          BY <4>3 DEF SimpleStage
        <4>6. OpName = Stage
          BY <4>1, <4>5, AtOperation DEF IsAt
        <4> QED
          BY <4>3, <4>4, <4>6, WaitedFor DEF ConsoleUp
      <3> QED
        BY <2>3, <3>1, <3>2
    <2>4. ASSUME result' = "ok" PROVE Idle' /\ FinishedMeansReachable'
      <3>1. Return
        BY <2>1, <2>4, SuccessReturns DEF ReachInv
      <3>2. pos = Len(Stages(kind)) + 1 /\ pos' = 0 /\ real' = real /\ hung' = hung
        BY <3>1, EndRunEnds DEF Return, Ends, Calm, world
      <3>3. /\ kind = "own" => pos = 12
            /\ kind = "byok" => pos = 8
        BY <3>2, PastTheStages
      <3>4. kind # "cloud" => ConsoleUp \/ hung
        BY <2>1, <3>3 DEF ReachInv, AllKinds
      <3> QED
        BY <2>1, <3>2, <3>4 DEF Idle, FinishedMeansReachable, ConsoleUp
    <2> QED
      BY <2>1, <2>3, <2>4 DEF ReachInv
  <1>2. CASE DownNext
    <2>1. pos' = 0 /\ result' = "none"
      BY <1>2, DownKeeps DEF WorldInv, Idle
    <2> QED
      BY <2>1 DEF ReachInv
  <1> QED
    BY <1>1, <1>2 DEF BothNext

-----------------------------------------------------------------------------
(* The management cluster and its terraform state                          *)

\* where the stage of the apps stands in a run
AppsAt == IF kind = "own" THEN 9 ELSE 10

\* every stage is begun at its first operation
LEMMA FreshStage ==
    ASSUME ControlInv, StepInv, Next, pos' # pos
    PROVE  idx' = 1
  <1>1. ~Clone /\ ~Inside /\ ~UNCHANGED <<pos, idx, mem, disk, result, ran>>
    BY CloneMove DEF Inside
  <1>2. StartUp => idx' = 1
    <2>1. StartUp => ~Running
      BY StartUpMove, KindType, StagesType DEF Running
    <2> QED
      BY <2>1, StartUpMove DEF StepInv
  <1> QED
    BY <1>1, <1>2, Moves, FailRunMove, FinishesMove DEF Onward

\* where an apply of terraform/mgmt and the apply of the apps happen
LEMMA AppliesAt ==
    ASSUME ControlInv, StepInv, Running, Entered, kind # "byok"
    PROVE  /\ pos = AppsAt => Stage = "apps"
           /\ IsAt("apply", "apps") => pos = AppsAt /\ (idx = 3)
           /\ IsAt("apply", "mgmt") => Stage \in {"init", "apply:import", "apps"}
  <1>1. kind \in {"own", "cloud"}
    BY KindType DEF AllKinds
  <1>2. /\ pos = AppsAt => Stage = "apps"
        /\ IsAt("apply", "apps") => pos = AppsAt
        /\ IsAt("apply", "mgmt") => Stage \in {"init", "apply:import", "apps"}
    <2>1. CASE kind = "own"
      BY <2>1, OwnOperations DEF AppsAt
    <2>2. CASE kind = "cloud"
      BY <2>2, CloudOperations DEF AppsAt
    <2> QED
      BY <1>1, <2>1, <2>2
  <1>3. ASSUME IsAt("apply", "apps") PROVE idx = 3
    <2>1. Stage = "apps"
      BY <1>2, <1>3
    <2>2. Length = 3 /\ idx \in 1..Length
      BY <2>1, AtOperation
    <2>3. idx \in {1, 2, 3}
      BY <2>2
    <2>4. idx # 1 /\ idx # 2
      BY <1>3, <2>1, AtOperation DEF IsAt
    <2> QED
      BY <2>3, <2>4
  <1> QED
    BY <1>2, <1>3

\* nobody takes the management cluster out of the terraform state
LEMMA ClusterStays ==
    ASSUME ControlInv, StepInv, FilesInv, ManagedInv, Next, kind # "byok",
           "cluster" \in managed
    PROVE  "cluster" \in managed'
  <1> DEFINE cfg == Config(kind, files)
  <1>1. kind \in {"own", "cloud"}
    BY KindType DEF AllKinds
  <1>2. CASE Running /\ IsAt("apply", "mgmt") /\ Applies(cfg)
    <2>1. "cluster" \in cfg
      BY <1>2, AppliedConfig
    <2> HIDE DEF cfg
    <2> QED
      BY <1>2, <2>1 DEF Applies
  <1>3. CASE Completes /\ (StateRm \/ StateRmBestEffort)
    <2>1. kind = "own"
      BY <1>1, <1>3, CloudOperations, ActionName DEF Completes
    <2>2. CASE managed' = managed \ {OwnRequired[idx]} /\ Completes /\ Running /\ pos = 10
      <3>1. idx \in 1..Len(OwnRequired)
        <4>1. Length = Len(OwnRequired)
          BY <2>1, <2>2, OwnOperations
        <4> QED
          BY <2>2, <4>1, StepType
      <3>2. OwnRequired[idx] \in RangeOf(OwnRequired)
        <4>1. DOMAIN OwnRequired = 1..Len(OwnRequired)
          BY RemovedAssumption, LenProperties
        <4> QED
          BY <3>1, <4>1 DEF RangeOf
      <3>3. OwnRequired[idx] # "cluster"
        BY <3>2, PrunedAssumption
      <3> QED
        BY <2>2, <3>3
    <2>3. ~(Running /\ IsAt("apply", "mgmt"))
      BY <1>3, <2>1, ActionName, OwnOperations DEF Completes, IsAt, Forgets, Drops
    <2> QED
      BY <2>1, <2>2, <2>3, OwnManaged
  <1> QED
    BY <1>2, <1>3, TerraformMoves

\* a note that the apps were installed is kept from an earlier one, or made
\* when their apply completes
LEMMA AppsNoted ==
    ASSUME Inv, StepInv, NotesInv, Next, kind # "byok",
           Covers(LastNote', "apps") \/ Covers(mem', "apps")
    PROVE  \/ Covers(LastNote, "apps") \/ Covers(mem, "apps")
           \/ Completes /\ ApplyApps
  <1> USE DEF Inv
  <1>1. CASE Clone
    <2>1. mem' = NoCheckpoint /\ LastNote' = remote.cp
      BY <1>1, CloneMove DEF ControlInv, Resumable, Idle, LastNote
    <2>2. Covers(remote.cp, "apps")
      BY <2>1, NotAStage DEF Covers
    <2> QED
      BY <2>2 DEF NotesInv, Behind, Checkpoint
  <1>5. ASSUME ~Clone, Covers(LastNote', "apps")
        PROVE  Covers(LastNote, "apps") \/ Covers(mem, "apps")
    BY <1>5, LastNoteMoves DEF Checkpoint
  <1>2. CASE ~Clone /\ mem' \in {disk, mem, NoCheckpoint}
    <2>1. Covers(disk, "apps") => Covers(LastNote, "apps")
      BY TornIsNoNote DEF Covers, LastNote
    <2> QED
      BY <1>2, <1>5, <2>1, NotAStage DEF Covers
  <1>3. CASE ~Clone /\ Completes /\ Onward /\ LeaveStage /\ Stage \in Checkpoint
               /\ (idx = Length \/ (Commits /\ Stage = "commit"))
    <2>1. mem' = Stage /\ disk' = disk /\ Running
      BY <1>3 DEF LeaveStage, Onward
    <2>2. kind \in {"own", "cloud"} /\ pos \in Nat
      BY KindType, StagesType DEF AllKinds, ControlInv
    <2>3. \/ Stage \in {"init", "import", "apply:import", "commit"}
          \/ Stage = "apps" /\ pos = AppsAt
          \/ pos > AppsAt
      <3>1. CASE kind = "own"
        <4>1. pos \in {3, 8, 9, 10}
          BY <1>3, <2>1, <3>1, OwnOperations
        <4> QED
          BY <2>1, <3>1, <4>1, OwnOperations DEF AppsAt
      <3>2. CASE kind = "cloud"
        <4>1. pos \in {3, 5, 6, 9, 10, 11}
          BY <1>3, <2>1, <3>2, CloudOperations
        <4> QED
          BY <2>1, <3>2, <4>1, CloudOperations DEF AppsAt
      <3> QED
        BY <2>2, <3>1, <3>2
    <2>4. CASE Stage \in {"init", "import", "apply:import", "commit"}
      <3>1. ~Covers(mem', "apps")
        BY <2>1, <2>4, PrioritiesOf DEF Covers
      <3> QED
        BY <1>3, <1>5, <3>1
    <2>5. CASE Stage = "apps" /\ pos = AppsAt
      <3>1. Length = 3 /\ idx = Length
        BY <1>3, <2>1, <2>5, AtOperation
      <3>2. IsAt("apply", "apps")
        BY <2>1, <2>5, <3>1, AtOperation
      <3> QED
        BY <1>3, <3>2, CompletedAction
    <2>6. CASE pos > AppsAt
      <3>1. AppsAt \in 1..(pos - 1)
        BY <2>2, <2>6 DEF AppsAt
      <3>2. Stages(kind)[AppsAt] = "apps"
        BY <2>2, KnownStages DEF AppsAt
      <3> QED
        BY <3>1, <3>2 DEF NotesInv, Checkpoint
    <2> QED
      BY <2>3, <2>4, <2>5, <2>6
  <1>4. CASE ~Clone /\ Completes /\ Onward /\ LeaveStage /\ Stage \notin Checkpoint
    BY <1>2, <1>4 DEF LeaveStage, Onward
  <1> QED
    BY <1>1, <1>2, <1>3, <1>4, Moves, FailRunMove, FinishesMove, StartUpMove
       DEF Inside, Onward

\* terraform/mgmt is applied only by runs that have not noted the apps
LEMMA AppliesBeforeApps ==
    ASSUME ControlInv, StepInv, Running, Entered, kind # "byok", IsAt("apply", "mgmt")
    PROVE  ~Covers(LastNote, "apps") /\ ~Covers(mem, "apps")
  <1>1. Stage \in {"init", "apply:import", "apps"}
    BY AppliesAt
  <1>2. mem = NoCheckpoint \/ priorities[Stage] > priorities[mem]
    BY <1>1 DEF Entered, RunsCheckpoint, Checkpoint
  <1>3. priorities[mem] \in Nat /\ priorities[Stage] <= 4 /\ priorities[Stage] \in Nat
    BY <1>1, PrioritiesType, PrioritiesOf DEF ControlInv
  <1>4. ~Covers(mem, "apps")
    BY <1>2, <1>3, PrioritiesOf, NotAStage DEF Covers
  <1>5. Behind(LastNote, mem)
    BY NotTorn, DiskBehindMem
  <1> QED
    BY <1>4, <1>5 DEF Behind, Checkpoint

\* what `up` does to the resources while the terraform state has no cluster
LEMMA WithoutCluster ==
    ASSUME Inv, StepInv, NotesInv, FilesInv, ManagedInv, ClusterInv, Next,
           kind # "byok", "cluster" \notin managed
    PROVE  /\ real' \intersect Platform(kind) \subseteq managed'
           /\ Covers(LastNote, "apps") \/ Covers(mem, "apps") =>
                real' \intersect Platform(kind) = {}
  <1> USE DEF Inv
  <1> DEFINE P == Platform(kind)
             noted == Covers(LastNote, "apps") \/ Covers(mem, "apps")
  <1>1. real \intersect P \subseteq managed /\ (noted => real \intersect P = {})
    BY DEF ClusterInv
  <1>2. CASE Running /\ Entered /\ IsAt("apply", "mgmt") /\ Applies(Config(kind, files))
    <2>1. ~noted
      BY <1>2, AppliesBeforeApps
    <2> DEFINE cfg == Config(kind, files)
    <2> HIDE DEF cfg
    <2>2. PICK created \in SUBSET (cfg \ managed), gone \in SUBSET (managed \ cfg) :
            /\ managed' = (managed \ gone) \union created
            /\ real' \subseteq (real \ gone) \union managed'
      BY <1>2 DEF Applies, cfg
    <2> HIDE DEF P, noted
    <2>3. real' \intersect P \subseteq managed'
      BY <1>1, <2>2
    <2> QED
      BY <2>1, <2>3 DEF P, noted
  <1>3. ~(Completes /\ ApplyApps)
    <2>1. ASSUME Completes, ApplyApps PROVE FALSE
      <3>1. pos = AppsAt /\ idx = 3
        BY <2>1, ActionName, AppliesAt DEF Completes
      <3> QED
        BY <3>1 DEF ClusterInv, AppsAt
    <2> QED
      BY <2>1
  <1>4. ASSUME Completes, StateRmBestEffort PROVE FALSE
    <2>1. kind \in {"own", "cloud"}
      BY KindType DEF AllKinds
    <2> QED
      BY <1>4, <2>1, OwnOperations, CloudOperations, ActionName DEF Completes
  <1>5. ASSUME Completes, StateRm PROVE noted
    <2>1. kind = "own" /\ pos = 10
      <3>1. kind \in {"own", "cloud"}
        BY KindType DEF AllKinds
      <3> QED
        BY <1>5, <3>1, OwnOperations, CloudOperations, ActionName DEF Completes
    <2>2. 9 \in 1..(pos - 1) /\ Stages(kind)[9] = "apps"
      BY <2>1, KnownStages
    <2> QED
      BY <2>2 DEF NotesInv, Checkpoint
  <1> HIDE DEF P, noted
  <1>6. CASE real' = real /\ managed \subseteq managed'
    BY <1>1, <1>6 DEF P, noted
  <1>7. CASE real' = real /\ noted
    BY <1>1, <1>7 DEF P, noted
  <1> QED
    BY <1>2, <1>3, <1>4, <1>5, <1>6, <1>7, TerraformMoves

LEMMA UpKeepsCluster ==
    ASSUME Inv, StepInv, NotesInv, FilesInv, ManagedInv, ClusterInv, Next
    PROVE  ClusterInv'
  <1> USE DEF Inv
  <1>1. kind' = kind
    BY Moves
  <1> SUFFICES ASSUME kind # "byok"
               PROVE  /\ "cluster" \in managed' \/ real' \intersect Platform(kind) \subseteq managed'
                      /\ Covers(LastNote', "apps") \/ Covers(mem', "apps") =>
                           "cluster" \in managed' \/ real' \intersect Platform(kind) = {}
                      /\ pos' = AppsAt /\ idx' > 1 => "cluster" \in managed'
    BY <1>1 DEF ClusterInv, AppsAt, Covers
  <1>2. CASE "cluster" \in managed
    BY <1>2, ClusterStays
  <1>3. CASE "cluster" \notin managed
    <2>1. ~(Completes /\ ApplyApps)
      <3>1. ASSUME Completes, ApplyApps PROVE FALSE
        <4>1. pos = AppsAt /\ idx = 3
          BY <3>1, ActionName, AppliesAt DEF Completes
        <4> QED
          BY <1>3, <4>1 DEF ClusterInv, AppsAt
      <3> QED
        BY <3>1
    <2>2. ASSUME Covers(LastNote', "apps") \/ Covers(mem', "apps")
          PROVE  real' \intersect Platform(kind) = {}
      BY <1>3, <2>1, <2>2, AppsNoted, WithoutCluster
    <2>3. ASSUME pos' = AppsAt, idx' > 1 PROVE "cluster" \in managed'
      <3>1. pos' = pos /\ pos # 0
        BY <2>3, FreshStage DEF AppsAt
      <3>2. /\ Running
            /\ (Completes /\ idx' = idx + 1) \/ (Falters /\ idx' = idx)
        BY <3>1, WithinStage
      <3>3. idx \in Nat /\ idx >= 1 /\ ~(idx > 1)
        <4>1. idx \in Nat \ {0}
          BY DEF ControlInv
        <4>2. ~(idx > 1)
          BY <1>3, <2>3, <3>1 DEF ClusterInv, AppsAt
        <4> QED
          BY <4>1, <4>2
      <3>4. Completes /\ idx = 1
        BY <2>3, <3>2, <3>3
      <3>5. IsAt("apply", "mgmt")
        <4>1. Entered
          BY <3>4 DEF Completes
        <4>2. Stage = "apps"
          BY <2>3, <3>1, <3>2, <4>1, AppliesAt
        <4> QED
          BY <3>2, <3>4, <4>2, AtOperation
      <3>6. managed' = Config(kind, files)
        BY <3>4, <3>5, CompletedAction DEF ApplyMgmt
      <3> QED
        BY <3>2, <3>5, <3>6, AppliedConfig
    <2> QED
      BY <1>3, <2>2, <2>3, WithoutCluster
  <1> QED
    BY <1>2, <1>3

LEMMA DownKeepsCluster ==
    ASSUME Inv, ManagedInv, DownInv, ClusterInv, DownNext
    PROVE  ClusterInv'
  <1> USE DEF Inv
  <1>1. UNCHANGED <<kind, pos, idx, mem, disk, head>> /\ pos = 0
    BY DownKeeps DEF WorldInv, Idle
  <1> DEFINE P == Platform(kind)
             noted == Covers(LastNote, "apps") \/ Covers(mem, "apps")
             Holds(m, r) == /\ "cluster" \in m \/ r \intersect P \subseteq m
                            /\ noted => "cluster" \in m \/ r \intersect P = {}
  <1> SUFFICES ASSUME kind # "byok" PROVE Holds(managed', real')
    BY <1>1 DEF ClusterInv, Covers, LastNote
  <1>2. Holds(managed, real)
    BY DEF ClusterInv
  <1>3. P \intersect {"plural_cluster"} = {}
    <2>1. kind \in {"own", "cloud"}
      BY KindType DEF AllKinds
    <2> QED
      BY <2>1, PrunedAssumption DEF Platform, Boot
  <1>4. real \subseteq Resource
    BY DEF WorldInv
  <1> HIDE DEF P, noted
  <1>5. CASE managed' = managed \ {"plural_cluster"} /\ real' = real
    BY <1>2, <1>3, <1>5
  <1>6. ASSUME NEW d \in SUBSET managed, managed' = managed \ d, real' = real \ Gone(d)
        PROVE  Holds(managed', real')
    <2>1. CASE "cluster" \in d
      <3>1. real' \intersect P = {}
        BY <1>3, <1>4, <1>6, <2>1 DEF Gone
      <3> QED
        BY <3>1
    <2>2. CASE "cluster" \notin d
      <3>1. Gone(d) = d
        BY <2>2 DEF Gone
      <3> QED
        BY <1>2, <1>6, <2>2, <3>1
    <2> QED
      BY <2>1, <2>2
  <1> QED
    BY <1>2, <1>5, <1>6, DownDestroys

LEMMA ClusterInvKept ==
    ASSUME Inv, StepInv, NotesInv, FilesInv, ManagedInv, DownInv, ClusterInv, BothNext
    PROVE  ClusterInv'
  BY UpKeepsCluster, DownKeepsCluster DEF BothNext, UpNext

-----------------------------------------------------------------------------
(* What `down` reports                                                     *)

LEMMA DownDestroysAllKept ==
    ASSUME Inv, DownInv, ClusterInv, BothNext
    PROVE  DownDestroysAll'
  <1>1. CASE UpNext
    BY <1>1 DEF UpNext, DownDestroysAll
  <1>2. CASE DownNext
    <2>1. kind' = kind
      BY <1>2, DownKeeps DEF Inv, WorldInv
    <2> SUFFICES ASSUME downResult' = "ok", kind # "byok"
                 PROVE  real' \intersect Platform(kind) = {}
      BY <2>1 DEF DownDestroysAll, Platform
    <2>2. DownDestroy
      <3>1. ~StartDown /\ ~DownBuildFails /\ ~DownCrash
        BY DEF StartDown, DownBuildFails, DownCrash, EndDown
      <3>2. ~DownIdle => downResult # "ok"
        BY DEF DownInv
      <3>3. ~DownRefused /\ ~DownFails
        BY <3>2 DEF DownRefused, DownFails, DownGivesUp, EndDown
      <3>4. ~DownTerraformInit /\ ~DownStateRm
        <4>1. ASSUME DownTerraformInit \/ DownStateRm PROVE FALSE
          <5>1. ~DownIdle /\ DownMovesOn /\ DownCommand # "destroy"
            BY <4>1 DEF DownTerraformInit, DownStateRm
          <5>2. downIdx # Len(Destroy)
            BY <5>1, DownAt
          <5>3. downResult' = downResult
            BY <5>1, <5>2 DEF DownMovesOn
          <5> QED
            BY <3>2, <5>1, <5>3
        <4> QED
          BY <4>1
      <3> QED
        BY <1>2, <3>1, <3>3, <3>4 DEF DownNext
    <2>3. real' = real \ Gone(managed)
      BY <2>2 DEF DownDestroy
    <2>4. CASE "cluster" \in managed
      <3>1. "plural_cluster" \notin Platform(kind)
        <4>1. kind \in {"own", "cloud"}
          BY KindType DEF AllKinds, Inv
        <4> QED
          BY <4>1, PrunedAssumption DEF Platform, Boot
      <3>2. real \subseteq Resource
        BY DEF Inv, WorldInv
      <3> QED
        BY <2>3, <2>4, <3>1, <3>2 DEF Gone
    <2>5. CASE "cluster" \notin managed
      <3>1. real \intersect Platform(kind) \subseteq managed
        BY <2>5 DEF ClusterInv
      <3> QED
        BY <2>3, <3>1 DEF Gone
    <2> QED
      BY <2>4, <2>5
  <1> QED
    BY <1>1, <1>2 DEF BothNext

-----------------------------------------------------------------------------
(* The invariant                                                           *)

LEMMA InitBothInv == DownInit => BothInv
  <1> SUFFICES ASSUME DownInit PROVE BothInv
    OBVIOUS
  <1>1. Init /\ downIdx = 0 /\ downResult = "none"
    BY DEF DownInit
  <1>2. SafeInv
    BY <1>1, InitSafeInv
  <1>3. /\ pos = 0 /\ idx = 1 /\ result = "none"
        /\ mem = NoCheckpoint /\ disk = NoCheckpoint /\ managed = {}
        /\ real = (IF kind = "cloud" THEN {"plural_cluster"} ELSE {})
        /\ kind \in AllKinds
    BY <1>1, KindsAssumption DEF Init
  <1>4. DownInv
    <2>1. 0 \in 0..Len(Destroy)
      <3> DEFINE n == Len(Destroy)
      <3>1. n = 2 \/ n = 3
        BY DestroyCommands
      <3> HIDE DEF n
      <3>2. 0 \in 0..n
        BY <3>1
      <3> QED
        BY <3>2 DEF n
    <2> QED
      BY <1>1, <2>1 DEF DownInv, DownIdle
  <1>5. RegistrationInv /\ ReachInv
    BY <1>3 DEF RegistrationInv, ReachInv
  <1>6. ClusterInv
    <2>1. CASE kind = "own"
      BY <1>3, <2>1 DEF ClusterInv
    <2>2. CASE kind = "cloud"
      <3>1. real \intersect Platform(kind) = {}
        BY <1>3, <2>2 DEF Platform, Boot
      <3> QED
        BY <1>3, <2>2, <3>1 DEF ClusterInv
    <2> QED
      BY <1>3, <2>1, <2>2 DEF ClusterInv, AllKinds
  <1>7. DownDestroysAll
    BY <1>1 DEF DownDestroysAll
  <1> QED
    BY <1>2, <1>4, <1>5, <1>6, <1>7 DEF BothInv, SafeInv

LEMMA BothInvStutters ==
    ASSUME BothInv, UNCHANGED allVars
    PROVE  BothInv'
  <1>1. /\ UNCHANGED <<kind, pos, idx, fails, mem, disk, result, ran>>
        /\ UNCHANGED <<files, managed, real, head, remote, mishaps, cloned, hung>>
        /\ UNCHANGED <<downIdx, downResult>>
    BY DEF allVars, downVars, vars, control, world
  <1>2. Inv'
    BY <1>1 DEF BothInv, Inv, ControlInv, WorldInv, Recorded, Covers, StagesInOrder,
                Resumable, Idle, Plan
  <1>3. StepInv' /\ NotesInv' /\ FilesInv' /\ ManagedInv'
    BY <1>1 DEF BothInv, StepInv, Running, Stage, NotesInv, LastNote, FilesInv,
                Installing, ManagedInv
  <1>4. DownInv' /\ RegistrationInv' /\ ReachInv'
    BY <1>1 DEF BothInv, DownInv, DownIdle, Destroy, Idle, RegistrationInv, ReachInv,
                FinishedMeansReachable, ConsoleUp
  <1>5. ClusterInv' /\ DownDestroysAll'
    BY <1>1 DEF BothInv, ClusterInv, LastNote, Covers, DownDestroysAll
  <1> QED
    BY <1>2, <1>3, <1>4, <1>5 DEF BothInv

\* what holds of `up` alone holds of `up` and `down` in turn
LEMMA BothKeepInv ==
    ASSUME BothInv, BothNext
    PROVE  Inv' /\ StepInv' /\ NotesInv' /\ FilesInv' /\ ManagedInv'
  <1> USE DEF BothInv
  <1>1. CASE UpNext
    <2>1. Next
      BY <1>1 DEF UpNext
    <2>2. Inv'
      BY <2>1, NextControlInv, NextWorldInv DEF Inv
    <2> QED
      BY <2>1, <2>2, StepInvKept, NotesInvKept, FilesInvKept, ManagedInvKept DEF Inv
  <1>2. CASE DownNext
    BY <1>2, DownKeepsInv, DownKeepsRun
  <1> QED
    BY <1>1, <1>2 DEF BothNext

\* The inductive invariant holds in every state `up` and `down` reach.
THEOREM BothInvHolds == BothSpec => []BothInv
  <1>1. DownInit => BothInv
    BY InitBothInv
  <1>2. BothInv /\ [BothNext]_allVars => BothInv'
    <2>1. ASSUME BothInv, BothNext PROVE BothInv'
      BY <2>1, BothKeepInv, DownInvKept, RegistrationInvKept, ReachInvKept, ClusterInvKept,
         DownDestroysAllKept DEF BothInv
    <2> QED
      BY <2>1, BothInvStutters
  <1> QED
    BY <1>1, <1>2, PTL DEF BothSpec

-----------------------------------------------------------------------------
(* The results                                                             *)

\* Destroy takes the registration of a Plural Cloud workspace out of the
\* terraform state before it destroys, and an apply never destroys what is
\* live: however `up` and `down` alternate and wherever they fail, the
\* registration exists for as long as the work stays in one directory.
THEOREM RegistrationSurvives == BothSpec => [](cloned \/ RegistrationKept)
  <1>1. BothInv => cloned \/ RegistrationKept
    BY DEF BothInv, RegistrationInv, RegistrationKept
  <1> QED
    BY <1>1, BothInvHolds, PTL

\* A run of `up` that ends in success has waited for the console, or an
\* earlier run has and nothing was destroyed since: also after a `down`,
\* finished or not, that destroyed it.
THEOREM SuccessMeansReachable == BothSpec => []FinishedMeansReachable
  <1>1. BothInv => FinishedMeansReachable
    BY DEF BothInv, ReachInv, FinishedMeansReachable
  <1> QED
    BY <1>1, BothInvHolds, PTL

\* When Destroy returns nil nothing of the installation is left, whatever run
\* of `up` it followed: what terraform no longer manages, because Prune took
\* it out of the state or because it never was there, went with the cluster.
THEOREM SuccessfulDownDestroysAll == BothSpec => []DownDestroysAll
  <1>1. BothInv => DownDestroysAll
    BY DEF BothInv
  <1> QED
    BY <1>1, BothInvHolds, PTL
=============================================================================
