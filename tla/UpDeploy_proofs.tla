--------------------------- MODULE UpDeploy_proofs ---------------------------
(***************************************************************************)
(* Theorems about UpDeploy, for every list of addresses to prune, every    *)
(* set of faults and any number of them.  First the checkpoints: what they *)
(* say is true, and runs implement the checkpoint protocol.  Then what the *)
(* runs do to the world.                                                   *)
(***************************************************************************)
EXTENDS UpDeploy, SequenceTheorems, TLAPS

-----------------------------------------------------------------------------
(* The stages of every kind of run, and the order of their checkpoints.    *)

LEMMA PrioritiesOf ==
    /\ priorities["init"] = 0
    /\ priorities["import"] = 1
    /\ priorities["apply:import"] = 2
    /\ priorities["commit"] = 3
    /\ priorities["apps"] = 4
    /\ priorities["prune:cloud"] = 5
    /\ priorities["prune:mgmt"] = 6
    /\ priorities[NoCheckpoint] = 0
  BY DEF priorities, Checkpoint, NoCheckpoint

LEMMA PrioritiesType ==
    ASSUME NEW c \in Checkpoint \union {NoCheckpoint}
    PROVE  priorities[c] \in Nat
  BY PrioritiesOf DEF Checkpoint

LEMMA NotAStage == NoCheckpoint \notin Checkpoint
  BY DEF NoCheckpoint, Checkpoint

\* a file that lost its content is a note of nothing
LEMMA TornIsNoNote == Torn \notin Checkpoint /\ Torn # NoCheckpoint
  BY DEF Torn, Checkpoint, NoCheckpoint

LEMMA StagesLength ==
    /\ DOMAIN Stages("own") = 1..11 /\ Len(Stages("own")) = 11
    /\ DOMAIN Stages("cloud") = 1..11 /\ Len(Stages("cloud")) = 11
    /\ DOMAIN Stages("byok") = 1..7 /\ Len(Stages("byok")) = 7
  BY DEF Stages

LEMMA StagesType ==
    ASSUME NEW k \in AllKinds
    PROVE  Len(Stages(k)) \in Nat /\ DOMAIN Stages(k) = 1..Len(Stages(k))
  BY StagesLength DEF AllKinds

LEMMA OwnStages ==
    ASSUME NEW i \in 1..11, Stages("own")[i] \in Checkpoint
    PROVE  \/ i = 3 /\ priorities[Stages("own")[i]] = 0
           \/ i = 8 /\ priorities[Stages("own")[i]] = 3
           \/ i = 9 /\ priorities[Stages("own")[i]] = 4
           \/ i = 10 /\ priorities[Stages("own")[i]] = 6
  <1>1. \/ i = 3 /\ Stages("own")[i] = "init"
        \/ i = 8 /\ Stages("own")[i] = "commit"
        \/ i = 9 /\ Stages("own")[i] = "apps"
        \/ i = 10 /\ Stages("own")[i] = "prune:mgmt"
    BY DEF Stages, Checkpoint
  <1> QED
    BY <1>1, PrioritiesOf

LEMMA CloudStages ==
    ASSUME NEW i \in 1..11, Stages("cloud")[i] \in Checkpoint
    PROVE  \/ i = 3 /\ priorities[Stages("cloud")[i]] = 0
           \/ i = 5 /\ priorities[Stages("cloud")[i]] = 1
           \/ i = 6 /\ priorities[Stages("cloud")[i]] = 2
           \/ i = 9 /\ priorities[Stages("cloud")[i]] = 3
           \/ i = 10 /\ priorities[Stages("cloud")[i]] = 4
           \/ i = 11 /\ priorities[Stages("cloud")[i]] = 5
  <1>1. \/ i = 3 /\ Stages("cloud")[i] = "init"
        \/ i = 5 /\ Stages("cloud")[i] = "import"
        \/ i = 6 /\ Stages("cloud")[i] = "apply:import"
        \/ i = 9 /\ Stages("cloud")[i] = "commit"
        \/ i = 10 /\ Stages("cloud")[i] = "apps"
        \/ i = 11 /\ Stages("cloud")[i] = "prune:cloud"
    BY DEF Stages, Checkpoint
  <1> QED
    BY <1>1, PrioritiesOf

LEMMA ByokStages ==
    ASSUME NEW i \in 1..7, Stages("byok")[i] \in Checkpoint
    PROVE  \/ i = 2 /\ priorities[Stages("byok")[i]] = 0
           \/ i = 3 /\ priorities[Stages("byok")[i]] = 3
           \/ i = 6 /\ priorities[Stages("byok")[i]] = 4
           \/ i = 7 /\ priorities[Stages("byok")[i]] = 6
  <1>1. \/ i = 2 /\ Stages("byok")[i] = "init"
        \/ i = 3 /\ Stages("byok")[i] = "commit"
        \/ i = 6 /\ Stages("byok")[i] = "apps"
        \/ i = 7 /\ Stages("byok")[i] = "prune:mgmt"
    BY DEF Stages, Checkpoint
  <1> QED
    BY <1>1, PrioritiesOf

LEMMA StagesSorted ==
    ASSUME NEW k \in AllKinds,
           NEW i \in 1..Len(Stages(k)), NEW j \in 1..Len(Stages(k)), i < j,
           Stages(k)[i] \in Checkpoint, Stages(k)[j] \in Checkpoint
    PROVE  priorities[Stages(k)[i]] < priorities[Stages(k)[j]]
  <1>1. CASE k = "own"
    BY <1>1, StagesLength, OwnStages, SMTT(60)
  <1>2. CASE k = "cloud"
    BY <1>2, StagesLength, CloudStages, SMTT(60)
  <1>3. CASE k = "byok"
    BY <1>3, StagesLength, ByokStages, SMTT(60)
  <1> QED
    BY <1>1, <1>2, <1>3 DEF AllKinds

-----------------------------------------------------------------------------
(* The inductive invariant, in two parts: what a run knows of its progress *)
(* and what it leaves in the world.                                        *)

ControlInv ==
    /\ kind \in Kinds
    /\ pos \in 0..(Len(Stages(kind)) + 1)
    /\ idx \in Nat \ {0} /\ fails \in Nat
    /\ mem \in Checkpoint \union {NoCheckpoint}
    /\ disk \in Checkpoint \union {NoCheckpoint, Torn}
    /\ result \in {"none", "ok", "err", "killed"}
    /\ ran \subseteq Checkpoint
    /\ Recorded(disk) /\ Recorded(mem)
    /\ StagesInOrder
    /\ Resumable

WorldInv ==
    /\ files \subseteq File
    /\ managed \subseteq Resource /\ real \subseteq Resource
    /\ head \in Copies /\ remote \in Copies
    /\ mishaps \in 0..MaxMishaps /\ cloned \in BOOLEAN /\ hung \in BOOLEAN
    /\ Recorded(head.cp) /\ Recorded(remote.cp)

Inv == ControlInv /\ WorldInv

LEMMA InvIsEnough ==
    Inv => TypeOK /\ RecordedWorkDone /\ StagesInOrder /\ Resumable
  BY DEF Inv, ControlInv, WorldInv, TypeOK, RecordedWorkDone

LEMMA KindType == ControlInv => kind \in AllKinds
  BY KindsAssumption DEF ControlInv

\* the plan ahead of a stage is what stands before it in the run
LEMMA PlanAhead ==
    ASSUME NEW k \in AllKinds, NEW j \in 1..Len(Stages(k)),
           Stages(k)[j] \in Checkpoint,
           NEW d \in Plan(k), priorities[d] <= priorities[Stages(k)[j]]
    PROVE  d = Stages(k)[j] \/ \E i \in 1..(j - 1) : d = Stages(k)[i]
  <1>1. PICK i \in 1..Len(Stages(k)) : d = Stages(k)[i]
    BY StagesType DEF Plan, RangeOf
  <1>2. d \in Checkpoint
    BY DEF Plan
  <1>3. CASE i > j
    <2>1. priorities[Stages(k)[j]] < priorities[d]
      BY <1>1, <1>2, <1>3, StagesSorted
    <2>2. priorities[d] \in Nat /\ priorities[Stages(k)[j]] \in Nat
      BY <1>2, PrioritiesType
    <2> QED
      BY <2>1, <2>2
  <1>4. CASE i <= j
    BY <1>1, <1>4, StagesType
  <1> QED
    BY <1>3, <1>4, StagesType

LEMMA LeaveStageInv ==
    ASSUME ControlInv, Running, Entered, LeaveStage, kind' = kind
    PROVE  ControlInv'
  <1> USE DEF ControlInv
  <1>1. kind \in AllKinds /\ Len(Stages(kind)) \in Nat
    BY KindType, StagesType
  <1>2. pos \in 1..Len(Stages(kind)) /\ pos' = pos + 1
    BY DEF Running, LeaveStage
  <1>3. CASE Stage \notin Checkpoint
    <2>1. mem' = mem /\ ran' = ran /\ disk' = disk
      BY <1>3 DEF LeaveStage
    <2>2. Resumable'
      BY <1>1, <1>2, <1>3, <2>1 DEF Resumable, Idle, Stage, Covers
    <2> QED
      BY <1>1, <1>2, <2>1, <2>2
         DEF LeaveStage, Recorded, StagesInOrder, Covers, Plan
  <1>4. CASE Stage \in Checkpoint
    <2>1. /\ mem' = Stage /\ ran' = ran \union {Stage}
          /\ disk' = disk /\ result' = result
      BY <1>4 DEF LeaveStage
    <2>2. \A d \in Plan(kind) :
            priorities[d] <= priorities[Stage] => d \in ran'
      <3> SUFFICES ASSUME NEW d \in Plan(kind),
                          priorities[d] <= priorities[Stages(kind)[pos]]
                   PROVE  d \in ran'
        BY DEF Stage
      <3>1. \/ d = Stages(kind)[pos]
            \/ \E i \in 1..(pos - 1) : d = Stages(kind)[i]
        BY <1>1, <1>2, <1>4, PlanAhead DEF Stage
      <3>2. d \in Checkpoint
        BY DEF Plan
      <3> QED
        BY <2>1, <3>1, <3>2 DEF Stage, Resumable
    <2>3. Recorded(disk)' /\ Recorded(mem)'
      BY <2>1, <2>2 DEF Recorded, Covers
    <2>4. StagesInOrder'
      <3> SUFFICES ASSUME NEW c \in ran', NEW d \in Plan(kind),
                          priorities[d] < priorities[c]
                   PROVE  d \in ran'
        BY DEF StagesInOrder
      <3>1. CASE c \in ran
        BY <2>1, <3>1 DEF StagesInOrder
      <3>2. CASE c = Stage
        <4>1. priorities[d] \in Nat /\ priorities[Stage] \in Nat
          BY <1>4, PrioritiesType DEF Plan
        <4> QED
          BY <2>2, <3>2, <4>1
      <3> QED
        BY <2>1, <3>1, <3>2
    <2>5. Resumable'
      <3>1. pos' # 0 /\ mem' # NoCheckpoint
        <4>1. pos' # 0
          BY <1>1, <1>2
        <4>2. NoCheckpoint \notin Checkpoint
          BY DEF Checkpoint, NoCheckpoint
        <4> QED
          BY <1>4, <2>1, <4>1, <4>2
      <3>2. disk # NoCheckpoint => priorities[disk] <= priorities[Stage]
        <4>1. /\ priorities[disk] \in Nat /\ priorities[mem] \in Nat
              /\ priorities[Stage] \in Nat
          BY <1>2, <1>4, PrioritiesType DEF Resumable, Idle
        <4>2. mem = NoCheckpoint \/ priorities[Stage] > priorities[mem]
          BY <1>4 DEF Entered, RunsCheckpoint
        <4>3. disk # NoCheckpoint => Covers(mem, disk)
          BY <1>2 DEF Resumable, Idle
        <4> QED
          BY <4>1, <4>2, <4>3, NotAStage DEF Covers
      <3>3. \A i \in 1..(pos' - 1) :
              Stages(kind)[i] \in Checkpoint => Stages(kind)[i] \in ran'
        BY <1>2, <2>1 DEF Resumable, Stage
      <3>4. disk # Torn
        BY <1>2 DEF Resumable, Idle
      <3> QED
        BY <1>4, <2>1, <3>1, <3>2, <3>3, <3>4 DEF Resumable, Idle, Covers
    <2> QED
      BY <1>1, <1>2, <1>4, <2>1, <2>3, <2>4, <2>5 DEF LeaveStage
  <1> QED
    BY <1>3, <1>4

\* every way a step moves the run keeps the part of the invariant about it
LEMMA MoveOnInv ==
    ASSUME ControlInv, Running, Entered, MoveOn, kind' = kind
    PROVE  ControlInv'
  <1>1. CASE idx >= Len(Script(kind, Stage)) /\ LeaveStage
    BY <1>1, LeaveStageInv
  <1>2. CASE /\ idx' = idx + 1 /\ fails' = 0
             /\ UNCHANGED <<pos, mem, disk, result, ran>>
    BY <1>2 DEF ControlInv, Recorded, StagesInOrder, Resumable, Idle, Plan,
                Covers
  <1> QED
    BY <1>1, <1>2 DEF MoveOn

\* what a run may leave in workspace.yaml
Left == {disk, mem, Torn}

LEMMA EndsInv ==
    ASSUME ControlInv, NEW outcome \in {"none", "ok", "err", "killed"},
           NEW saved \in Left, Ends(outcome, saved), kind' = kind
    PROVE  ControlInv'
  <1> USE DEF ControlInv, Ends, Left
  <1>1. Len(Stages(kind)) \in Nat
    BY KindType, StagesType
  <1>2. Recorded(disk)' /\ Recorded(mem)'
    BY TornIsNoNote, NotAStage DEF Recorded, Covers, Plan
  <1>3. StagesInOrder' /\ Resumable'
    BY DEF StagesInOrder, Resumable, Idle, Plan
  <1> QED
    BY <1>1, <1>2, <1>3

\* a run that ends flushes what it noted, or loses it
LEMMA EndRunEnds ==
    ASSUME NEW outcome, EndRun(outcome)
    PROVE  \E o \in {outcome, "killed"}, saved \in Left : Ends(o, saved)
  BY DEF EndRun, Left

LEMMA FailRunEnds ==
    ASSUME FailRun
    PROVE  \E o \in {"err", "killed"}, saved \in Left : Ends(o, saved)
  <1>1. CASE Ends("err", disk)
    BY <1>1 DEF Left
  <1>2. CASE EndRun("err")
    BY <1>2, EndRunEnds
  <1> QED
    BY <1>1, <1>2 DEF FailRun

LEMMA GiveUpInv ==
    ASSUME ControlInv, GiveUp, kind' = kind
    PROVE  ControlInv'
  <1>1. CASE fails' = fails + 1 /\ UNCHANGED <<pos, idx, mem, disk, result, ran>>
    BY <1>1 DEF ControlInv, Recorded, StagesInOrder, Resumable, Idle, Plan,
                Covers
  <1>2. CASE FailRun
    BY <1>2, FailRunEnds, EndsInv
  <1> QED
    BY <1>1, <1>2 DEF GiveUp

LEMMA StartUpInv ==
    ASSUME ControlInv, StartUp
    PROVE  ControlInv'
  <1>1. Len(Stages(kind)) \in Nat
    BY KindType, StagesType DEF ControlInv
  <1>2. /\ pos' = 1 /\ mem' = disk /\ result' = "none"
        /\ UNCHANGED <<kind, idx, fails, disk, ran>>
    BY DEF StartUp
  <1>3. Resumable'
    <2>1. /\ disk # Torn
          /\ disk # NoCheckpoint => priorities[disk] <= priorities[disk]
      BY PrioritiesType DEF ControlInv, StartUp
    <2> QED
      BY <1>2, <2>1 DEF ControlInv, Resumable, Idle, Covers
  <1>4. mem' \in Checkpoint \union {NoCheckpoint}
    BY <1>2 DEF ControlInv, StartUp
  <1> QED
    BY <1>1, <1>2, <1>3, <1>4 DEF ControlInv, Recorded, StagesInOrder, Plan, Covers

LEMMA SkipStageInv ==
    ASSUME ControlInv, SkipStage
    PROVE  ControlInv'
  <1> USE DEF ControlInv
  <1>1. kind \in AllKinds /\ Len(Stages(kind)) \in Nat
        /\ DOMAIN Stages(kind) = 1..Len(Stages(kind))
    BY KindType, StagesType
  <1>2. /\ pos \in 1..Len(Stages(kind)) /\ pos' = pos + 1
        /\ idx' = 1 /\ fails' = 0
        /\ UNCHANGED <<kind, mem, disk, result, ran>>
    BY DEF SkipStage, Running, Calm
  <1>3. Stage \in Checkpoint /\ Stage \in ran
    <2>1. Stage \in Plan(kind) /\ ~RunsCheckpoint(mem, Stage)
      BY <1>1, <1>2 DEF SkipStage, Entered, Plan, RangeOf, Stage
    <2>2. priorities[Stage] \in Nat /\ priorities[mem] \in Nat
      BY <2>1, PrioritiesType DEF Plan
    <2>3. Covers(mem, Stage)
      BY <2>1, <2>2 DEF RunsCheckpoint, Covers
    <2> QED
      BY <2>1, <2>3 DEF Recorded, Plan
  <1>4. Resumable'
    BY <1>1, <1>2, <1>3 DEF Resumable, Idle, Stage, Covers
  <1> QED
    BY <1>1, <1>2, <1>4 DEF Recorded, StagesInOrder, Plan, Covers

LEMMA CloneInv ==
    ASSUME Inv, Clone
    PROVE  ControlInv'
  <1>1. Len(Stages(kind)) \in Nat
    BY KindType, StagesType DEF Inv
  <1>2. /\ pos = 0 /\ disk' = remote.cp /\ result' = "none"
        /\ UNCHANGED <<kind, pos, idx, fails, mem, ran>>
    BY DEF Clone, Idle, Mishap
  <1>3. remote.cp \in Checkpoint \union {NoCheckpoint} /\ Recorded(remote.cp)
    BY DEF Inv, WorldInv, Copies
  <1>4. Resumable'
    BY <1>2 DEF Inv, ControlInv, Resumable, Idle
  <1> QED
    BY <1>1, <1>2, <1>3, <1>4
       DEF Inv, ControlInv, Recorded, StagesInOrder, Plan, Covers

-----------------------------------------------------------------------------
(* Every step of the program and of its environment keeps the invariant.   *)

LEMMA ConfigType ==
    ASSUME NEW k, NEW fs
    PROVE  Config(k, fs) \subseteq Resource
  BY DEF Config, Boot, Resource

LEMMA InitInv == Init => Inv
  <1> SUFFICES ASSUME Init PROVE Inv
    OBVIOUS
  <1>1. kind \in AllKinds /\ Len(Stages(kind)) \in Nat
    BY KindsAssumption, StagesType DEF Init
  <1>2. ControlInv
    BY <1>1, NotAStage DEF Init, ControlInv, Recorded, Covers, StagesInOrder,
                           Resumable, Idle
  <1>3. WorldInv
    <2>1. cloned \in BOOLEAN /\ hung \in BOOLEAN
      BY DEF Init
    <2> QED
      BY <1>1, <2>1, MishapsAssumption, NotAStage
         DEF Init, WorldInv, Recorded, Covers, Copies, Tree, Resource
  <1> QED
    BY <1>2, <1>3 DEF Inv

\* the ways a step moves the run, whatever else it does
LEMMA RunMoves ==
    ASSUME ControlInv, Next
    PROVE  /\ kind' = kind
           /\ \/ StartUp \/ SkipStage \/ Clone
              \/ Running /\ Entered /\ (MoveOn \/ LeaveStage)
              \/ Running /\ GiveUp
              \/ \E outcome \in {"none", "ok", "err", "killed"}, saved \in Left :
                     Ends(outcome, saved) /\ (~Idle \/ saved = Torn)
  <1> USE DEF Calm, Mishap
  <1>1. CASE StartUp \/ SkipStage \/ Clone
    BY <1>1 DEF StartUp, SkipStage, Clone
  <1>2. CASE Return
    <2>1. ~Idle
      BY <1>2, KindType, StagesType DEF Return, Idle
    <2>2. \E o \in {"ok", "killed"}, saved \in Left : Ends(o, saved)
      BY <1>2, EndRunEnds DEF Return
    <2> QED
      BY <1>2, <2>1, <2>2 DEF Return
  <1>3. CASE \/ Generate \/ TemplatePlural \/ AfterSetup \/ ApplyMgmt
             \/ ApplyApps \/ Import \/ StateRm \/ StateRmBestEffort
             \/ RemoveFiles \/ GitCommit \/ GitPush \/ CheckOrInit
             \/ BestEffortFails \/ CheckTimesOut \/ DeclineCommit
    BY <1>3 DEF Generate, TemplatePlural, AfterSetup, ApplyMgmt, ApplyApps,
                Import, StateRm, StateRmBestEffort, RemoveFiles, GitCommit,
                GitPush, CheckOrInit, BestEffortFails, CheckTimesOut,
                DeclineCommit, Doing
  <1>4. CASE \/ Refused \/ CommandFails \/ GenerateFails \/ ApplyMgmtFails
             \/ StateRmFails \/ SyncFails
    BY <1>4 DEF Refused, CommandFails, GenerateFails, ApplyMgmtFails,
                StateRmFails, SyncFails, Doing
  <1>5. CASE Crash \/ StopAfterGenerate
    BY <1>5 DEF Crash, StopAfterGenerate, Running, Idle, Left
  <1>6. CASE BuildFails \/ RewriteFails
    <2>1. \E outcome \in {"err", "killed"} : Ends(outcome, Torn)
      <3>1. CASE BuildFails
        <4>1. Ends("err", Torn)
          BY <3>1 DEF BuildFails, Ends
        <4> QED
          BY <4>1
      <3>2. CASE RewriteFails
        BY <3>2 DEF RewriteFails
      <3> QED
        BY <1>6, <3>1, <3>2
    <2>2. kind' = kind
      BY <1>6 DEF BuildFails, RewriteFails
    <2> QED
      BY <2>1, <2>2 DEF Left
  <1> QED
    BY <1>1, <1>2, <1>3, <1>4, <1>5, <1>6 DEF Next, Work, Disturbance

LEMMA NextControlInv ==
    ASSUME Inv, Next
    PROVE  ControlInv'
  <1> USE DEF Inv
  <1>1. CASE StartUp \/ SkipStage \/ Clone
    BY <1>1, StartUpInv, SkipStageInv, CloneInv
  <1>2. CASE Running /\ Entered /\ (MoveOn \/ LeaveStage)
    BY <1>2, RunMoves, MoveOnInv, LeaveStageInv
  <1>3. CASE Running /\ GiveUp
    BY <1>3, RunMoves, GiveUpInv
  <1>4. CASE \E outcome \in {"none", "ok", "err", "killed"}, saved \in Left :
               Ends(outcome, saved)
    BY <1>4, RunMoves, EndsInv
  <1> QED
    BY <1>1, <1>2, <1>3, <1>4, RunMoves

\* history only grows, whatever moves the run
LEMMA RanGrows ==
    ASSUME Next
    PROVE  ran \subseteq ran' /\ kind' = kind
  BY DEF Next, Work, Disturbance, StartUp, SkipStage, Return, Generate,
         CheckOrInit, TemplatePlural, AfterSetup, ApplyMgmt, ApplyApps,
         Import, StateRm, StateRmBestEffort, RemoveFiles, GitCommit, GitPush,
         DeclineCommit, Refused, CommandFails, GenerateFails, ApplyMgmtFails,
         StateRmFails, BestEffortFails, CheckTimesOut, SyncFails, Crash,
           StopAfterGenerate, BuildFails, RewriteFails,
         Clone, Calm, Mishap, MoveOn, LeaveStage, GiveUp, FailRun, EndRun, Ends

LEMMA RecordedGrows ==
    ASSUME NEW cp, Recorded(cp), ran \subseteq ran', kind' = kind
    PROVE  \A c \in Plan(kind') : Covers(cp, c) => c \in ran'
  BY DEF Recorded

LEMMA FilesType ==
    ASSUME Inv, Next
    PROVE  files' \subseteq File
  <1>1. files \subseteq File /\ Generated(kind, files) \subseteq File
    BY DEF Inv, WorldInv, Generated, File
  <1>2. \/ files' = files
        \/ files' \in SUBSET File
        \/ files' = Generated(kind, files)
        \/ files' = files \union {"plural.tf"}
        \/ files' = files \union {"stacks"}
        \/ files' = files \ OneShot(kind)
        \/ files' = remote.files
    BY DEF Next, Work, Disturbance, StartUp, SkipStage, Return, Generate,
           CheckOrInit, TemplatePlural, AfterSetup, ApplyMgmt, ApplyApps,
           Import, StateRm, StateRmBestEffort, RemoveFiles, GitCommit, GitPush,
           DeclineCommit, Refused, CommandFails, GenerateFails, ApplyMgmtFails,
           StateRmFails, BestEffortFails, CheckTimesOut, SyncFails, Crash,
           StopAfterGenerate, BuildFails, RewriteFails,
           Clone, world
  <1>3. remote.files \subseteq File
    BY DEF Inv, WorldInv, Copies
  <1> QED
    BY <1>1, <1>2, <1>3 DEF File

LEMMA ResourcesType ==
    ASSUME Inv, Next
    PROVE  managed' \subseteq Resource /\ real' \subseteq Resource
  <1> DEFINE cfg == Config(kind, files)
  <1>1. managed \subseteq Resource /\ real \subseteq Resource
    BY DEF Inv, WorldInv
  <1>2. cfg \subseteq Resource /\ "apps" \in Resource
        /\ "plural_cluster" \in Resource
    BY ConfigType DEF Resource
  <1> HIDE DEF cfg
  <1>3. CASE UNCHANGED <<managed, real>>
    BY <1>1, <1>3
  <1>4. CASE ApplyMgmt
    BY <1>1, <1>2, <1>4 DEF ApplyMgmt, cfg
  <1>5. CASE ApplyMgmtFails
    <2>1. PICK created \in SUBSET (cfg \ managed),
               gone \in SUBSET (managed \ cfg) :
            /\ managed' = (managed \ gone) \union created
            /\ real' = (real \ gone) \union created
      BY <1>5 DEF ApplyMgmtFails, cfg
    <2> QED
      BY <1>1, <1>2, <2>1
  <1>6. CASE ApplyApps
    BY <1>1, <1>2, <1>6 DEF ApplyApps
  <1>7. CASE Import
    BY <1>1, <1>2, <1>7 DEF Import
  <1>8. CASE StateRm \/ StateRmBestEffort
    BY <1>1, <1>8 DEF StateRm, StateRmBestEffort
  <1> QED
    BY <1>3, <1>4, <1>5, <1>6, <1>7, <1>8
       DEF Next, Work, Disturbance, StartUp, SkipStage, Return, Generate,
           CheckOrInit, TemplatePlural, AfterSetup, RemoveFiles, GitCommit,
           GitPush, DeclineCommit, Refused, CommandFails, GenerateFails,
           StateRmFails, BestEffortFails, CheckTimesOut, SyncFails, Crash,
           StopAfterGenerate, BuildFails, RewriteFails,
           Clone, world

\* a copy of the workspace is only ever taken of what the workspace or
\* another copy holds
LEMMA CopiesKept ==
    ASSUME Inv, Next
    PROVE  /\ head' \in {head, remote} \/ (Running /\ head' = Tree)
           /\ remote' \in {remote, head}
  BY DEF Next, Work, Disturbance, StartUp, SkipStage, Return, Generate,
         CheckOrInit, TemplatePlural, AfterSetup, ApplyMgmt, ApplyApps,
         Import, StateRm, StateRmBestEffort, RemoveFiles, GitCommit, GitPush,
         DeclineCommit, Refused, CommandFails, GenerateFails, ApplyMgmtFails,
         StateRmFails, BestEffortFails, CheckTimesOut, SyncFails, Crash,
           StopAfterGenerate, BuildFails, RewriteFails,
         Clone, Doing, world

LEMMA MishapsType ==
    ASSUME Inv, Next
    PROVE  mishaps' \in 0..MaxMishaps /\ cloned' \in BOOLEAN /\ hung' \in BOOLEAN
  <1>1. /\ \/ mishaps' = mishaps
           \/ mishaps < MaxMishaps /\ mishaps' = mishaps + 1
        /\ cloned' = cloned \/ cloned' \in BOOLEAN
        /\ hung' = hung \/ hung' \in BOOLEAN
    BY DEF Next, Work, Disturbance, StartUp, SkipStage, Return, Generate,
           CheckOrInit, TemplatePlural, AfterSetup, ApplyMgmt, ApplyApps,
           Import, StateRm, StateRmBestEffort, RemoveFiles, GitCommit, GitPush,
           DeclineCommit, Refused, CommandFails, GenerateFails, ApplyMgmtFails,
           StateRmFails, BestEffortFails, CheckTimesOut, SyncFails, Crash,
           StopAfterGenerate, BuildFails, RewriteFails,
           Clone, Calm, Mishap
  <1>2. mishaps \in 0..MaxMishaps /\ cloned \in BOOLEAN /\ hung \in BOOLEAN
    BY DEF Inv, WorldInv
  <1> QED
    BY <1>1, <1>2, MishapsAssumption

LEMMA NextWorldInv ==
    ASSUME Inv, Next
    PROVE  WorldInv'
  <1>1. ran \subseteq ran' /\ kind' = kind
    BY RanGrows
  <1>2. /\ Running => Tree \in Copies
        /\ Tree.cp = disk /\ head \in Copies /\ remote \in Copies
    <2>1. Running => disk # Torn
      BY KindType, StagesType DEF Inv, ControlInv, Resumable, Running, Idle
    <2> QED
      BY <2>1 DEF Inv, ControlInv, WorldInv, Copies, Tree
  <1>3. Recorded(head.cp) /\ Recorded(remote.cp) /\ Recorded(Tree.cp)
    BY <1>2 DEF Inv, ControlInv, WorldInv
  <1>4. head' \in Copies /\ remote' \in Copies
    BY <1>2, CopiesKept
  <1>5. Recorded(head.cp)' /\ Recorded(remote.cp)'
    BY <1>1, <1>3, CopiesKept DEF Recorded, Covers
  <1> QED
    BY <1>4, <1>5, FilesType, ResourcesType, MishapsType DEF WorldInv

\* The inductive invariant of the checkpoints holds in every reachable state.
THEOREM InvHolds == Spec => []Inv
  <1>1. Init => Inv
    BY InitInv
  <1>2. Inv /\ [Next]_vars => Inv'
    <2> SUFFICES ASSUME Inv, [Next]_vars PROVE Inv'
      OBVIOUS
    <2>1. CASE Next
      BY <2>1, NextControlInv, NextWorldInv DEF Inv
    <2>2. CASE UNCHANGED vars
      BY <2>2 DEF vars, control, world, Inv, ControlInv, WorldInv, Recorded,
                  Covers, StagesInOrder, Resumable, Idle, Plan
    <2> QED
      BY <2>1, <2>2
  <1> QED
    BY <1>1, <1>2, PTL DEF Spec

-----------------------------------------------------------------------------
(* The results.                                                            *)

\* Every reachable state of `plural up` has the types of TypeOK.
THEOREM TypeCorrect == Spec => []TypeOK
  BY InvHolds, InvIsEnough, PTL

\* No failure, kill, rerun or clone makes a checkpoint claim work that was
\* never done, wherever that checkpoint is kept.
THEOREM CheckpointsAreTrue == Spec => []RecordedWorkDone
  BY InvHolds, InvIsEnough, PTL

\* The checkpointed stages of a workspace complete in the order of Deploy,
\* over any number of runs.
THEOREM StagesCompleteInOrder == Spec => []StagesInOrder
  BY InvHolds, InvIsEnough, PTL

\* A run, fresh or resumed, has behind it only stages that some run performed.
THEOREM RunsResumeCorrectly == Spec => []Resumable
  BY InvHolds, InvIsEnough, PTL

\* the checkpoint on disk, as every step but a clone changes it
LEMMA DiskAdvances ==
    ASSUME ControlInv, Next
    PROVE  Clone \/ disk' \in {disk, Torn} \/ (~Idle /\ disk' = mem)
  <1>1. ASSUME NEW outcome, NEW saved \in Left, Ends(outcome, saved),
               ~Idle \/ saved = Torn
        PROVE  disk' \in {disk, Torn} \/ (~Idle /\ disk' = mem)
    BY <1>1 DEF Ends, Left
  <1>2. ASSUME Running, GiveUp
        PROVE  disk' \in {disk, Torn} \/ (~Idle /\ disk' = mem)
    <2>1. ~Idle
      BY <1>2 DEF Running, Idle
    <2> QED
      BY <1>1, <1>2, <2>1, FailRunEnds DEF GiveUp
  <1> QED
    BY <1>1, <1>2, RunMoves DEF StartUp, SkipStage, MoveOn, LeaveStage

\* workspace.yaml never goes back to an earlier checkpoint, so no run repeats
\* a stage that an earlier run recorded, unless work moved to a fresh clone;
\* and when a write of the file loses its content, nothing but a fresh clone
\* takes its place.
THEOREM CheckpointsAdvance == Spec => DiskNeverRewinds
  <1> DEFINE Forward == \/ Clone
                        \/ disk' = Torn
                        \/ disk = NoCheckpoint
                        \/ disk # Torn /\ Covers(disk', disk)
  <1>1. Inv /\ [Next]_vars => [Forward]_vars
    <2> SUFFICES ASSUME Inv, Next, ~Clone, disk' # Torn, disk # NoCheckpoint
                 PROVE  disk # Torn /\ Covers(disk', disk)
      OBVIOUS
    <2>1. disk' = disk \/ (~Idle /\ disk' = mem)
      BY DiskAdvances DEF Inv
    <2>2. ~Idle => disk # Torn /\ Covers(mem, disk)
      BY DEF Inv, ControlInv, Resumable
    <2>3. disk # Torn => disk \in Checkpoint /\ priorities[disk] <= priorities[disk]
      BY PrioritiesType DEF Inv, ControlInv
    <2> QED
      BY <2>1, <2>2, <2>3 DEF Covers
  <1> QED
    BY <1>1, InvHolds, PTL DEF Spec, DiskNeverRewinds

-----------------------------------------------------------------------------
(* The run implements the checkpoint protocol.                             *)

Note == IF Idle THEN Noted(disk) ELSE mem

\* leaving a stage performs it, if it is checkpointed
LEMMA LeaveStageRefines ==
    ASSUME Inv, Running, Entered, LeaveStage, kind' = kind
    PROVE  \/ \E c \in Plan(kind) : Protocol!Perform(c)
           \/ UNCHANGED <<Plan(kind), ran, Note, Noted(disk)>>
  <1>1. /\ kind \in AllKinds /\ Len(Stages(kind)) \in Nat
        /\ DOMAIN Stages(kind) = 1..Len(Stages(kind))
    BY KindType, StagesType DEF Inv
  <1>2. /\ pos \in 1..Len(Stages(kind)) /\ pos' = pos + 1 /\ disk' = disk
        /\ Plan(kind)' = Plan(kind)
    BY DEF Running, LeaveStage, Plan
  <1>3. Note = mem /\ Note' = mem'
    BY <1>1, <1>2 DEF Note, Idle
  <1>4. CASE Stage \notin Checkpoint
    BY <1>2, <1>3, <1>4 DEF LeaveStage
  <1>5. CASE Stage \in Checkpoint
    <2>1. Stage \in Plan(kind)
      BY <1>1, <1>2, <1>5 DEF Plan, RangeOf, Stage
    <2>2. /\ priorities[Stage] \in Nat /\ priorities[mem] \in Nat
          /\ \A d \in Plan(kind) : priorities[d] \in Nat
      BY <1>5, PrioritiesType DEF Inv, ControlInv, Plan
    <2>3. ~Protocol!Notes(Note, Stage)
      BY <1>3, <1>5, <2>2 DEF Entered, RunsCheckpoint, Protocol!Notes
    <2>4. {d \in Plan(kind) : priorities[d] < priorities[Stage]} \subseteq ran
      <3> SUFFICES ASSUME NEW d \in Plan(kind),
                          priorities[d] < priorities[Stages(kind)[pos]]
                   PROVE  d \in ran
        BY DEF Stage
      <3>1. priorities[d] <= priorities[Stages(kind)[pos]]
        BY <2>2 DEF Stage
      <3>2. d # Stages(kind)[pos]
        BY <2>2
      <3>3. \E i \in 1..(pos - 1) : d = Stages(kind)[i]
        BY <1>1, <1>2, <1>5, <3>1, <3>2, PlanAhead DEF Stage
      <3> QED
        BY <3>3 DEF Inv, ControlInv, Resumable, Plan
    <2>5. ran' = ran \union {Stage} /\ Note' = Stage
      BY <1>3, <1>5 DEF LeaveStage
    <2>6. Protocol!Perform(Stage)
      BY <1>2, <2>1, <2>3, <2>4, <2>5 DEF Protocol!Perform, Note
    <2> QED
      BY <2>1, <2>6
  <1> QED
    BY <1>4, <1>5

LEMMA OtherMovesRefine ==
    ASSUME Inv, kind' = kind,
           \/ StartUp \/ SkipStage \/ Clone
           \/ Running /\ Entered /\ MoveOn /\ ~LeaveStage
           \/ Running /\ GiveUp
           \/ \E outcome \in {"none", "ok", "err", "killed"}, saved \in Left :
                  Ends(outcome, saved) /\ (~Idle \/ saved = Torn)
    PROVE  \/ Protocol!Save
           \/ \E n \in Protocol!Note : Protocol!Resume(n)
           \/ UNCHANGED Protocol!vars
  <1>1. Len(Stages(kind)) \in Nat /\ Plan(kind)' = Plan(kind)
    BY KindType, StagesType DEF Inv, Plan
  <1>2. /\ Noted(disk) \in Protocol!Note /\ remote.cp \in Protocol!Note
        /\ NoCheckpoint \in Protocol!Note /\ Noted(remote.cp) = remote.cp
        /\ \A c \in Plan(kind) : Protocol!Notes(Noted(disk), c) => c \in ran
        /\ \A c \in Plan(kind) : Protocol!Notes(remote.cp, c) => c \in ran
        /\ \A c \in Plan(kind) : ~Protocol!Notes(NoCheckpoint, c)
    BY TornIsNoNote, NotAStage
       DEF Inv, ControlInv, WorldInv, Copies, Recorded, Covers, Noted,
           Protocol!Note, Protocol!Notes
  <1>3. CASE \/ StartUp \/ SkipStage
             \/ Running /\ Entered /\ MoveOn /\ ~LeaveStage
    <2>1. ran' = ran /\ disk' = disk /\ Note' = Note
      BY <1>1, <1>3 DEF StartUp, SkipStage, MoveOn, Running, Idle, Note, Noted
    <2> QED
      BY <1>1, <2>1 DEF Protocol!vars, Note, Noted
  <1>4. CASE Clone
    BY <1>1, <1>2, <1>4 DEF Clone, Idle, Protocol!Resume, Noted
  <1>5. ASSUME NEW outcome, NEW saved \in Left, Ends(outcome, saved),
               ~Idle \/ saved = Torn
        PROVE  \/ Protocol!Save \/ Protocol!Resume(Noted(disk))
               \/ Protocol!Resume(NoCheckpoint)
    <2>1. pos' = 0 /\ disk' = saved /\ ran' = ran
      BY <1>5 DEF Ends
    <2>2. CASE saved = Torn
      BY <1>1, <1>2, <2>1, <2>2 DEF Protocol!Resume, Idle, Noted
    <2>3. CASE saved = disk
      BY <1>1, <1>2, <2>1, <2>3 DEF Protocol!Resume, Idle, Noted
    <2>4. CASE saved = mem /\ ~Idle
      <3>1. Noted(mem) = mem
        BY TornIsNoNote DEF Noted, Inv, ControlInv
      <3> QED
        BY <1>1, <2>1, <2>4, <3>1 DEF Protocol!Save, Idle, Noted
    <2> QED
      BY <1>5, <2>2, <2>3, <2>4 DEF Left
  <1>6. CASE Running /\ GiveUp
    <2>1. CASE FailRun
      <3>1. ~Idle
        BY <1>6 DEF Running, Idle
      <3> QED
        BY <1>2, <1>5, <2>1, <3>1, FailRunEnds
    <2>2. CASE UNCHANGED <<pos, idx, mem, disk, result, ran>>
      BY <1>1, <2>2 DEF Protocol!vars, Idle, Noted
    <2> QED
      BY <1>6, <2>1, <2>2 DEF GiveUp
  <1> QED
    BY <1>2, <1>3, <1>4, <1>5, <1>6

\* Every behaviour of `plural up`, with its failures, retries, kills, reruns
\* and clones, is one of the checkpoint protocol.
THEOREM UpImplementsProtocol == Spec => ImplementsProtocol
  <1>1. Init => Protocol!Init
    BY TornIsNoNote DEF Init, Protocol!Init, Plan, Idle, Noted
  <1>2. Inv /\ [Next]_vars => [Protocol!Next]_(Protocol!vars)
    <2> SUFFICES ASSUME Inv, [Next]_vars
                 PROVE  Protocol!Next \/ UNCHANGED Protocol!vars
      OBVIOUS
    <2>1. CASE UNCHANGED vars
      BY <2>1 DEF vars, control, Protocol!vars, Plan, Idle, Noted
    <2>2. CASE Next
      <3>1. ControlInv
        BY DEF Inv
      <3>2. CASE Running /\ Entered /\ LeaveStage
        BY <2>2, <3>1, <3>2, RunMoves, LeaveStageRefines
           DEF Protocol!Next, Protocol!vars, Note, Noted
      <3>3. CASE ~(Running /\ Entered /\ LeaveStage)
        BY <2>2, <3>1, <3>3, RunMoves, OtherMovesRefine DEF Protocol!Next
      <3> QED
        BY <3>2, <3>3
    <2> QED
      BY <2>1, <2>2
  <1> QED
    BY <1>1, <1>2, InvHolds, PTL DEF Spec, ImplementsProtocol, Protocol!Spec

-----------------------------------------------------------------------------
(***************************************************************************)
(* What `plural up` does to the world, in every run: nothing that is live  *)
(* is destroyed, and a run that reports success has installed everything   *)
(* and, for a self-hosted workspace, cleaned up after itself.              *)
(***************************************************************************)

(* The inductive invariant                                                 *)

\* A run is at one of the operations of its stage.
StepInv ==
    /\ Running => idx <= Len(Script(kind, Stage))
    /\ ~Running => idx = 1

\* note a says nothing that note b does not say
Behind(a, b) == \A c \in Checkpoint : Covers(a, c) => Covers(b, c)

\* the note of workspace.yaml, or the committed one once the file is lost
LastNote == IF disk = Torn THEN head.cp ELSE disk

\* origin is behind the last commit, which is behind workspace.yaml, and a
\* run is past a checkpointed stage only when its note says so.
NotesInv ==
    /\ Behind(remote.cp, head.cp)
    /\ Behind(head.cp, LastNote)
    /\ \A i \in 1..(pos - 1) :
         Stages(kind)[i] \in Checkpoint => Covers(mem, Stages(kind)[i])

\* the stages at which the files that only the installation needs are there
Installing == \/ kind = "own" /\ pos \in 2..10
              \/ kind = "byok" /\ pos \in 2..6

\* The files terraform/mgmt is applied with: plural.tf is never taken away,
\* and is there before the import and whenever a note says it was done.
FilesInv ==
    /\ Installing => "console.tf" \in files
    /\ kind # "cloud" => "plural.tf" \notin files
    /\ "plural.tf" \in remote.files => "plural.tf" \in head.files
    /\ "plural.tf" \in head.files => "plural.tf" \in files
    /\ kind = "cloud" =>
         /\ pos > 4 => "plural.tf" \in files
         /\ Covers(disk, "import") \/ Covers(mem, "import") => "plural.tf" \in files
         /\ Covers(head.cp, "import") => "plural.tf" \in head.files
         /\ Covers(remote.cp, "import") => "plural.tf" \in remote.files

\* all that terraform/mgmt ever declares
Declared(k) == (IF k = "byok" THEN {} ELSE {"cluster"}) \union Boot(k)
                 \union (IF k = "cloud" THEN {"plural_cluster"} ELSE {})

\* The state of terraform/mgmt holds nothing else, and the registration of a
\* Plural Cloud workspace only where plural.tf declares it.
ManagedInv ==
    /\ managed \subseteq Declared(kind)
    /\ kind = "cloud" /\ "plural_cluster" \in managed => "plural.tf" \in files \/ cloned

\* A note of the import means that the state holds what was imported.
ImportInv ==
    kind = "cloud" /\ (Covers(LastNote, "import") \/ Covers(mem, "import")) =>
        "plural_cluster" \in managed

\* What completed stages have created is still there.
RealInv ==
    /\ "init" \in ran => Boot(kind) \subseteq real /\ (kind # "byok" => "cluster" \in real)
    /\ "apps" \in ran => "apps" \in real

\* How far the clean-up of a self-hosted workspace has come.
PruneInv ==
    kind = "own" =>
        /\ Covers(LastNote, "prune:mgmt") \/ Covers(mem, "prune:mgmt") =>
             managed \intersect Boot(kind) = {}
        /\ pos = 10 => \A i \in 1..(idx - 1) : OwnRequired[i] \notin managed
        /\ pos = 12 \/ (pos = 11 /\ idx > 1) => files \intersect OneShot(kind) = {}
        /\ pos = 12 \/ (pos = 11 /\ idx > 2) => head.files = files
        /\ pos = 12 => remote = head

\* A run that has succeeded is over, and what it promised holds.
SuccessInv == result = "ok" => Idle /\ FinishedIsInstalled /\ OwnFinishIsClean

SafeInv ==
    /\ Inv
    /\ StepInv /\ NotesInv /\ FilesInv /\ ManagedInv /\ ImportInv
    /\ RealInv /\ PruneInv /\ SuccessInv

-----------------------------------------------------------------------------
(* The operations of each stage                                            *)

\* the stages of one operation, which has the stage's name
SimpleStage == {"generate", "bucket", "plural.tf", "outputs", "afterSetup", "dns",
                "ping", "waitForConsole"}

\* what the operations of pruneBYOK do
PruneWork == {"state rm best effort", "state rm", "remove files", "git commit",
              "git push"}

LEMMA OpParts == \A name, arg : Op(name, arg)[1] = name /\ Op(name, arg)[2] = arg
  BY DEF Op

LEMMA ShortLengths ==
    \A a, b, c :
        /\ Len(<<a>>) = 1 /\ <<a>>[1] = a
        /\ Len(<<a, b>>) = 2 /\ <<a, b>>[1] = a /\ <<a, b>>[2] = b
        /\ Len(<<a, b, c>>) = 3 /\ <<a, b, c>>[1] = a /\ <<a, b, c>>[2] = b
        /\ <<a, b, c>>[3] = c
  OBVIOUS

LEMMA SimpleScript ==
    ASSUME NEW k, NEW stage \in SimpleStage
    PROVE  Len(Script(k, stage)) = 1 /\ Script(k, stage)[1] = Op(stage, "")
  <1>1. Script(k, stage) = <<Op(stage, "")>>
    BY DEF Script, SimpleStage
  <1> QED
    BY <1>1, ShortLengths

LEMMA OneScript ==
    ASSUME NEW k
    PROVE  /\ Len(Script(k, "apply:import")) = 1
           /\ Script(k, "apply:import")[1] = Op("apply", "mgmt")
  <1>1. Script(k, "apply:import") = <<Op("apply", "mgmt")>>
    BY DEF Script
  <1> QED
    BY <1>1, ShortLengths

LEMMA TwoScripts ==
    ASSUME NEW k
    PROVE  /\ Len(Script(k, "init")) = 2
           /\ Script(k, "init")[1] = Op("init", "mgmt")
           /\ Script(k, "init")[2] = Op("apply", "mgmt")
           /\ Len(Script(k, "import")) = 2
           /\ Script(k, "import")[1] = Op("init", "mgmt")
           /\ Script(k, "import")[2] = Op("import", "mgmt")
           /\ Len(Script(k, "commit")) = 2
           /\ Script(k, "commit")[1] = Op("git commit", "")
           /\ Script(k, "commit")[2] = Op("git push", "")
  <1>1. Script(k, "init") = <<Op("init", "mgmt"), Op("apply", "mgmt")>>
    BY DEF Script
  <1>2. Script(k, "import") = <<Op("init", "mgmt"), Op("import", "mgmt")>>
    BY DEF Script
  <1>3. Script(k, "commit") = <<Op("git commit", ""), Op("git push", "")>>
    BY DEF Script, Sync
  <1>4. /\ Len(Script(k, "init")) = 2
        /\ Script(k, "init")[1] = Op("init", "mgmt")
        /\ Script(k, "init")[2] = Op("apply", "mgmt")
    BY <1>1, ShortLengths
  <1>5. /\ Len(Script(k, "import")) = 2
        /\ Script(k, "import")[1] = Op("init", "mgmt")
        /\ Script(k, "import")[2] = Op("import", "mgmt")
    BY <1>2, ShortLengths
  <1>6. /\ Len(Script(k, "commit")) = 2
        /\ Script(k, "commit")[1] = Op("git commit", "")
        /\ Script(k, "commit")[2] = Op("git push", "")
    <2> DEFINE a == Op("git commit", "")
               b == Op("git push", "")
    <2> HIDE DEF a, b
    <2>1. Len(<<a, b>>) = 2 /\ <<a, b>>[1] = a /\ <<a, b>>[2] = b
      BY ShortLengths
    <2> QED
      BY <1>3, <2>1 DEF a, b
  <1> QED
    BY <1>4, <1>5, <1>6

LEMMA AppsScript ==
    ASSUME NEW k
    PROVE  /\ Len(Script(k, "apps")) = 3
           /\ Script(k, "apps")[1] = Op("apply", "mgmt")
           /\ Script(k, "apps")[2] = Op("init", "apps")
           /\ Script(k, "apps")[3] = Op("apply", "apps")
  <1>1. Script(k, "apps") = <<Op("apply", "mgmt"), Op("init", "apps"), Op("apply", "apps")>>
    BY DEF Script
  <1> QED
    BY <1>1, ShortLengths

LEMMA ShortSeq ==
    ASSUME NEW S, NEW a \in S, NEW b \in S
    PROVE  /\ <<a>> \in Seq(S) /\ Len(<<a>>) = 1
           /\ <<a, b>> \in Seq(S) /\ Len(<<a, b>>) = 2
  OBVIOUS

\* removing the files, then the two operations of Sync
LEMMA RemovalThenSync ==
    LET script == <<Op("remove files", "")>> \o Sync
    IN  /\ Len(script) = 3 /\ script[1] = Op("remove files", "")
        /\ script[2] = Op("git commit", "") /\ script[3] = Op("git push", "")
  <1> DEFINE first == <<Op("remove files", "")>>
             script == first \o Sync
             W == {Op("remove files", ""), Op("git commit", ""), Op("git push", "")}
  <1>1. first \in Seq(W) /\ Len(first) = 1 /\ first[1] = Op("remove files", "")
    OBVIOUS
  <1>2. /\ Sync \in Seq(W) /\ Len(Sync) = 2
        /\ Sync[1] = Op("git commit", "") /\ Sync[2] = Op("git push", "")
    BY DEF Sync
  <1> HIDE DEF first, W
  <1>3. /\ Len(first \o Sync) = 3
        /\ \A i \in 1..3 : (first \o Sync)[i] = IF i <= 1 THEN first[i] ELSE Sync[i - 1]
    <2>1. /\ Len(first \o Sync) = Len(first) + Len(Sync)
          /\ \A i \in 1..Len(first) + Len(Sync) :
               (first \o Sync)[i] = IF i <= Len(first) THEN first[i] ELSE Sync[i - Len(first)]
      BY <1>1, <1>2, ConcatProperties
    <2>2. Len(first) + Len(Sync) = 3
      <3>1. Len(first) = 1 /\ Len(Sync) = 2
        BY <1>1, <1>2
      <3> QED
        BY <3>1
    <2>3. ASSUME NEW i \in 1..3
          PROVE  (first \o Sync)[i] = IF i <= 1 THEN first[i] ELSE Sync[i - 1]
      <3>1. i \in 1..Len(first) + Len(Sync)
        BY <2>2
      <3> QED
        BY <1>1, <2>1, <3>1
    <2> QED
      BY <2>1, <2>2, <2>3
  <1>4. /\ (first \o Sync)[1] = first[1] /\ (first \o Sync)[2] = Sync[1]
        /\ (first \o Sync)[3] = Sync[2]
    BY <1>3
  <1> QED
    BY <1>1, <1>2, <1>3, <1>4 DEF first

LEMMA RemovalScripts ==
    ASSUME NEW k, NEW stage \in {"prune:cloud", "cleanup"}
    PROVE  /\ Len(Script(k, stage)) = 3
           /\ Script(k, stage)[1] = Op("remove files", "")
           /\ Script(k, stage)[2] = Op("git commit", "")
           /\ Script(k, stage)[3] = Op("git push", "")
  <1>1. Script(k, stage) = <<Op("remove files", "")>> \o Sync
    BY DEF Script, pruneCloud
  <1> QED
    BY <1>1, RemovalThenSync

LEMMA FunctionIsSeq ==
    ASSUME NEW S, NEW n \in Nat, NEW f \in [1..n -> S]
    PROVE  f \in Seq(S) /\ Len(f) = n
  <1>1. f \in Seq(S)
    BY SeqDef
  <1>2. Len(f) \in Nat /\ DOMAIN f = 1..Len(f) /\ DOMAIN f = 1..n
    BY <1>1, LenProperties
  <1> QED
    BY <1>1, <1>2

LEMMA EachType ==
    ASSUME NEW name, NEW args \in Seq(STRING)
    PROVE  /\ Each(name, args) \in Seq({name} \X STRING)
           /\ Len(Each(name, args)) = Len(args)
           /\ \A i \in 1..Len(args) : Each(name, args)[i] = Op(name, args[i])
  <1>1. /\ Len(args) \in Nat /\ DOMAIN args = 1..Len(args)
        /\ \A i \in 1..Len(args) : args[i] \in STRING
    BY LenProperties
  <1>2. Each(name, args) \in [1..Len(args) -> {name} \X STRING]
    BY <1>1 DEF Each, Op
  <1>3. Each(name, args) \in Seq({name} \X STRING) /\ Len(Each(name, args)) = Len(args)
    BY <1>1, <1>2, FunctionIsSeq
  <1> QED
    BY <1>1, <1>3 DEF Each

LEMMA OwnPruneScript ==
    /\ Len(Script("own", "prune:mgmt")) = Len(OwnRequired)
    /\ Len(OwnRequired) \in Nat \ {0}
    /\ \A i \in 1..Len(OwnRequired) :
         Script("own", "prune:mgmt")[i] = Op("state rm", OwnRequired[i])
  <1>1. Script("own", "prune:mgmt") = Each("state rm", OwnRequired)
    BY DEF Script, Prune
  <1>2. OwnRequired \in Seq(STRING) /\ Len(OwnRequired) \in Nat \ {0}
    BY RemovedAssumption, EmptySeq, LenProperties
  <1> QED
    BY <1>1, <1>2, EachType DEF Op

LEMMA ByokPruneScript ==
    /\ Len(Script("byok", "prune:mgmt")) \in Nat \ {0}
    /\ \A i \in 1..Len(Script("byok", "prune:mgmt")) :
         Script("byok", "prune:mgmt")[i][1] \in PruneWork
  <1> DEFINE W == ({"state rm best effort", "state rm"} \X STRING)
                    \union {Op("remove files", ""), Op("git commit", ""), Op("git push", "")}
             best == Each("state rm best effort", ByokOptional)
             must == Each("state rm", ByokRequired)
             last == <<Op("remove files", "")>>
             front == (best \o must) \o last
  <1>1. Script("byok", "prune:mgmt") = front \o Sync
    BY DEF Script, pruneBYOK
  <1>2. best \in Seq(W) /\ must \in Seq(W)
    <2>1. /\ best \in Seq({"state rm best effort"} \X STRING)
          /\ must \in Seq({"state rm"} \X STRING)
      BY RemovedAssumption, EachType
    <2>2. /\ {"state rm best effort"} \X STRING \subseteq W
          /\ {"state rm"} \X STRING \subseteq W
      OBVIOUS
    <2> HIDE DEF W, best, must
    <2> QED
      BY <2>1, <2>2, SeqMonotonic
  <1>3. last \in Seq(W) /\ Len(last) = 1 /\ Sync \in Seq(W) /\ Len(Sync) = 2
    <2>1. /\ Op("remove files", "") \in W /\ Op("git commit", "") \in W
          /\ Op("git push", "") \in W
      OBVIOUS
    <2> HIDE DEF W
    <2>2. last \in Seq(W) /\ Len(last) = 1
      BY <2>1, ShortSeq
    <2>3. Sync \in Seq(W) /\ Len(Sync) = 2
      BY <2>1, ShortSeq DEF Sync
    <2> QED
      BY <2>2, <2>3
  <1>4. ASSUME NEW op \in W
        PROVE  op[1] \in PruneWork
    <2>1. CASE op \in {"state rm best effort", "state rm"} \X STRING
      <3>1. op[1] \in {"state rm best effort", "state rm"}
        BY <2>1, Zenon
      <3> QED
        BY <3>1 DEF PruneWork
    <2>2. CASE op \in {Op("remove files", ""), Op("git commit", ""), Op("git push", "")}
      <3> HIDE DEF W
      <3>1. op[1] \in {"remove files", "git commit", "git push"}
        BY <2>2, OpParts
      <3> QED
        BY <3>1 DEF PruneWork
    <2> QED
      BY <2>1, <2>2
  <1> HIDE DEF W, best, must, last
  <1>5. best \o must \in Seq(W) /\ Len(best \o must) \in Nat
    BY <1>2, ConcatProperties, LenProperties
  <1>6. front \in Seq(W) /\ Len(front) \in Nat
    BY <1>3, <1>5, ConcatProperties, LenProperties
  <1> HIDE DEF front
  <1>7. front \o Sync \in Seq(W) /\ Len(front \o Sync) = Len(front) + Len(Sync)
    BY <1>3, <1>6, ConcatProperties
  <1>8. \A i \in 1..Len(Script("byok", "prune:mgmt")) :
          Script("byok", "prune:mgmt")[i] \in W
    BY <1>1, <1>7, ElementOfSeq
  <1> QED
    BY <1>1, <1>3, <1>4, <1>6, <1>7, <1>8

-----------------------------------------------------------------------------
(* Where a run is                                                          *)

\* the position of each stage that matters here, in each kind of run
LEMMA OwnStageAt ==
    ASSUME NEW i \in 1..11
    PROVE  /\ Stages("own")[i] \in (SimpleStage \ {"plural.tf"}) \union {"cleanup", "init", "commit", "apps", "prune:mgmt"}
           /\ Stages("own")[i] = "generate" <=> i = 1
           /\ Stages("own")[i] = "init" <=> i = 3
           /\ Stages("own")[i] = "commit" <=> i = 8
           /\ Stages("own")[i] = "apps" <=> i = 9
           /\ Stages("own")[i] = "prune:mgmt" <=> i = 10
           /\ Stages("own")[i] = "cleanup" <=> i = 11
  BY DEF Stages, SimpleStage

LEMMA CloudStageAt ==
    ASSUME NEW i \in 1..11
    PROVE  /\ Stages("cloud")[i] \in SimpleStage \union {"init", "import", "apply:import",
                                          "commit", "apps", "prune:cloud"}
           /\ Stages("cloud")[i] = "generate" <=> i = 1
           /\ Stages("cloud")[i] = "init" <=> i = 3
           /\ Stages("cloud")[i] = "plural.tf" <=> i = 4
           /\ Stages("cloud")[i] = "import" <=> i = 5
           /\ Stages("cloud")[i] = "apply:import" <=> i = 6
           /\ Stages("cloud")[i] = "commit" <=> i = 9
           /\ Stages("cloud")[i] = "apps" <=> i = 10
           /\ Stages("cloud")[i] = "prune:cloud" <=> i = 11
  BY DEF Stages, SimpleStage

LEMMA ByokStageAt ==
    ASSUME NEW i \in 1..7
    PROVE  /\ Stages("byok")[i] \in (SimpleStage \ {"plural.tf"}) \union {"init", "commit", "apps", "prune:mgmt"}
           /\ Stages("byok")[i] = "generate" <=> i = 1
           /\ Stages("byok")[i] = "init" <=> i = 2
           /\ Stages("byok")[i] = "commit" <=> i = 3
           /\ Stages("byok")[i] = "apps" <=> i = 6
           /\ Stages("byok")[i] = "prune:mgmt" <=> i = 7
  BY DEF Stages, SimpleStage

\* every stage has an operation
LEMMA ScriptLength ==
    ASSUME NEW k \in AllKinds, NEW i \in 1..Len(Stages(k))
    PROVE  Len(Script(k, Stages(k)[i])) \in Nat \ {0}
  <1>1. \/ Stages(k)[i] \in SimpleStage
        \/ Stages(k)[i] \in {"init", "import", "apply:import", "commit", "apps"}
        \/ Stages(k)[i] \in {"prune:cloud", "cleanup"}
        \/ Stages(k)[i] = "prune:mgmt" /\ k \in {"own", "byok"}
    <2>1. CASE k = "own"
      BY <2>1, StagesLength, OwnStageAt
    <2>2. CASE k = "cloud"
      BY <2>2, StagesLength, CloudStageAt
    <2>3. CASE k = "byok"
      BY <2>3, StagesLength, ByokStageAt
    <2> QED
      BY <2>1, <2>2, <2>3 DEF AllKinds
  <1> DEFINE n == Len(Script(k, Stages(k)[i]))
  <1>2. CASE Stages(k)[i] \in SimpleStage
    <2>1. n = 1
      BY <1>2, SimpleScript, Zenon
    <2> HIDE DEF n
    <2>2. n \in Nat \ {0}
      BY <2>1
    <2> QED
      BY <2>2 DEF n
  <1>3. CASE Stages(k)[i] \in {"init", "import", "apply:import", "commit", "apps"}
    <2>1. n = 1 \/ n = 2 \/ n = 3
      BY <1>3, OneScript, TwoScripts, AppsScript, Zenon
    <2> HIDE DEF n
    <2>2. n \in Nat \ {0}
      BY <2>1
    <2> QED
      BY <2>2 DEF n
  <1>4. CASE Stages(k)[i] \in {"prune:cloud", "cleanup"}
    <2>1. n = 3
      BY <1>4, RemovalScripts, Zenon
    <2> HIDE DEF n
    <2>2. n \in Nat \ {0}
      BY <2>1
    <2> QED
      BY <2>2 DEF n
  <1>5. CASE Stages(k)[i] = "prune:mgmt" /\ k \in {"own", "byok"}
    BY <1>5, OwnPruneScript, ByokPruneScript
  <1> QED
    BY <1>1, <1>2, <1>3, <1>4, <1>5

\* How many operations the stage has, and the one the run is at.
Length  == Len(Script(kind, Stage))
OpName  == CurrentOp[1]
OpArg   == CurrentOp[2]
IsAt(name, arg) == OpName = name /\ OpArg = arg

LEMMA IsAtOp ==
    ASSUME NEW name, NEW arg, CurrentOp = Op(name, arg)
    PROVE  IsAt(name, arg)
  BY DEF IsAt, OpName, OpArg, Op

\* The operations that need no terraform, and those of the pruning.
Removes == OpName = "remove files"
Commits == OpName = "git commit"
Pushes  == OpName = "git push"
Forgets == OpName = "state rm"
Drops   == OpName = "state rm best effort"

\* what every other operation is called
PlainName == SimpleStage \union {"init", "apply", "import"}

\* An operation does one thing.
LEMMA OneThing ==
    /\ Removes => ~Commits /\ ~Pushes /\ ~Forgets /\ ~Drops /\ OpName \notin PlainName
    /\ Commits => ~Removes /\ ~Pushes /\ ~Forgets /\ ~Drops /\ OpName \notin PlainName
    /\ Pushes => ~Removes /\ ~Commits /\ ~Forgets /\ ~Drops /\ OpName \notin PlainName
    /\ Forgets => ~Removes /\ ~Commits /\ ~Pushes /\ ~Drops /\ OpName \notin PlainName
    /\ Drops => ~Removes /\ ~Commits /\ ~Pushes /\ ~Forgets /\ OpName \notin PlainName
  BY Zenon DEF Removes, Commits, Pushes, Forgets, Drops, PlainName, SimpleStage

LEMMA IsAtPlain ==
    /\ IsAt("git commit", "") => Commits
    /\ IsAt("git push", "") => Pushes
    /\ IsAt("remove files", "") => Removes
    /\ \A arg : IsAt("state rm", arg) => Forgets /\ OpArg = arg
    /\ OpName \in PruneWork => Removes \/ Commits \/ Pushes \/ Forgets \/ Drops
  BY Zenon DEF IsAt, Commits, Pushes, Removes, Forgets, Drops, PruneWork

\* The operation a run is at, from its stage.
LEMMA AtOperation ==
    ASSUME ControlInv, StepInv, Running
    PROVE  /\ Length \in Nat \ {0} /\ idx \in 1..Length
           /\ Stage \in SimpleStage => Length = 1 /\ IsAt(Stage, "")
           /\ Stage = "init" =>
                /\ Length = 2
                /\ idx = 1 => IsAt("init", "mgmt")
                /\ idx = 2 => IsAt("apply", "mgmt")
           /\ Stage = "import" =>
                /\ Length = 2
                /\ idx = 1 => IsAt("init", "mgmt")
                /\ idx = 2 => IsAt("import", "mgmt")
           /\ Stage = "apply:import" => Length = 1 /\ IsAt("apply", "mgmt")
           /\ Stage = "commit" =>
                /\ Length = 2
                /\ idx = 1 => Commits
                /\ idx = 2 => Pushes
           /\ Stage = "apps" =>
                /\ Length = 3
                /\ idx = 1 => IsAt("apply", "mgmt")
                /\ idx = 2 => IsAt("init", "apps")
                /\ idx = 3 => IsAt("apply", "apps")
           /\ Stage \in {"prune:cloud", "cleanup"} =>
                /\ Length = 3
                /\ idx = 1 => Removes
                /\ idx = 2 => Commits
                /\ idx = 3 => Pushes
           /\ Stage = "prune:mgmt" /\ kind = "own" =>
                Length = Len(OwnRequired) /\ Forgets /\ OpArg = OwnRequired[idx]
           /\ Stage = "prune:mgmt" /\ kind = "byok" => Removes \/ Commits \/ Pushes \/ Forgets \/ Drops
  <1>1. kind \in AllKinds /\ pos \in 1..Len(Stages(kind))
    BY KindType DEF Running
  <1>2. Length \in Nat \ {0}
    BY <1>1, ScriptLength DEF Stage, Length
  <1>3. idx \in 1..Length
    BY <1>2 DEF ControlInv, StepInv, Length
  <1>4. Length = 1 => idx = 1
    BY <1>3
  <1>5. ASSUME Stage \in SimpleStage PROVE Length = 1 /\ IsAt(Stage, "")
    <2>1. Length = 1 /\ Script(kind, Stage)[1] = Op(Stage, "")
      BY <1>5, SimpleScript, Zenon DEF Length
    <2> QED
      BY <1>4, <2>1, IsAtOp, Zenon DEF CurrentOp
  <1>6. ASSUME Stage = "apply:import" PROVE Length = 1 /\ IsAt("apply", "mgmt")
    BY <1>4, <1>6, OneScript, IsAtOp, Zenon DEF CurrentOp, Length
  <1>7. ASSUME Stage \in {"prune:cloud", "cleanup"}
        PROVE  /\ Length = 3
               /\ idx = 1 => Removes
               /\ idx = 2 => Commits
               /\ idx = 3 => Pushes
    BY <1>7, RemovalScripts, IsAtOp, IsAtPlain, Zenon DEF CurrentOp, Length
  <1>8. ASSUME Stage = "prune:mgmt", kind = "own"
        PROVE  Length = Len(OwnRequired) /\ Forgets /\ OpArg = OwnRequired[idx]
    BY <1>3, <1>8, OwnPruneScript, IsAtOp, IsAtPlain, Zenon DEF CurrentOp, Length
  <1>9. ASSUME Stage = "prune:mgmt", kind = "byok" PROVE Removes \/ Commits \/ Pushes \/ Forgets \/ Drops
    BY <1>3, <1>9, ByokPruneScript, IsAtPlain, Zenon DEF CurrentOp, Length, OpName
  <1>10. Stage = "apps" =>
           /\ Length = 3
           /\ idx = 1 => IsAt("apply", "mgmt")
           /\ idx = 2 => IsAt("init", "apps")
           /\ idx = 3 => IsAt("apply", "apps")
    BY AppsScript, IsAtOp, Zenon DEF CurrentOp, Length
  <1>11. Stage = "init" =>
           /\ Length = 2
           /\ idx = 1 => IsAt("init", "mgmt")
           /\ idx = 2 => IsAt("apply", "mgmt")
    BY TwoScripts, IsAtOp, Zenon DEF CurrentOp, Length
  <1>12. Stage = "import" =>
           /\ Length = 2
           /\ idx = 1 => IsAt("init", "mgmt")
           /\ idx = 2 => IsAt("import", "mgmt")
    BY TwoScripts, IsAtOp, Zenon DEF CurrentOp, Length
  <1>13. Stage = "commit" =>
           /\ Length = 2
           /\ idx = 1 => Commits
           /\ idx = 2 => Pushes
    BY TwoScripts, IsAtOp, IsAtPlain, Zenon DEF CurrentOp, Length
  <1> QED
    BY <1>2, <1>3, <1>5, <1>6, <1>7, <1>8, <1>9, <1>10, <1>11, <1>12, <1>13

\* Where the operations stand that change what the invariant speaks of.
LEMMA OwnOperations ==
    ASSUME ControlInv, StepInv, Running, kind = "own"
    PROVE  /\ pos \in 1..11
           /\ OpName = "generate" <=> pos = 1
           /\ IsAt("apply", "mgmt") => pos \in {3, 9}
           /\ IsAt("apply", "apps") => pos = 9
           /\ OpName \notin {"import", "plural.tf"} /\ ~Drops
           /\ Forgets <=> pos = 10
           /\ Removes <=> (pos = 11 /\ idx = 1)
           /\ pos = 11 => /\ Length = 3
                          /\ Commits <=> idx = 2
                          /\ Pushes <=> idx = 3
           /\ pos = 10 => Length = Len(OwnRequired) /\ OpArg = OwnRequired[idx]
           /\ pos = 3 => Stage = "init" /\ Length = 2 /\ (idx = 2 => IsAt("apply", "mgmt"))
           /\ pos = 8 => Stage = "commit"
           /\ pos = 9 => Stage = "apps" /\ Length = 3 /\ (idx = 3 => IsAt("apply", "apps"))
           /\ pos = 10 => Stage = "prune:mgmt"
           /\ pos \notin {3, 8, 9, 10} => Stage \notin Checkpoint
  <1>1. pos \in 1..11
    BY StagesLength DEF Running
  <1>2. /\ Stage \in (SimpleStage \ {"plural.tf"}) \union {"cleanup", "init", "commit", "apps", "prune:mgmt"}
        /\ Stage = "generate" <=> pos = 1
        /\ Stage = "init" <=> pos = 3
        /\ Stage = "commit" <=> pos = 8
        /\ Stage = "apps" <=> pos = 9
        /\ Stage = "prune:mgmt" <=> pos = 10
        /\ Stage = "cleanup" <=> pos = 11
    BY <1>1, OwnStageAt DEF Stage
  <1>3. pos \notin {3, 8, 9, 10} => Stage \notin Checkpoint
    BY <1>1, <1>2 DEF Checkpoint, SimpleStage
  <1>4. Length \in Nat /\ idx \in 1..Length
    BY AtOperation
  <1>5. CASE pos \notin {3, 8, 9, 10, 11}
    <2>1. Stage \in SimpleStage \ {"plural.tf"}
      BY <1>2, <1>5
    <2>2. OpName = Stage
      BY <2>1, AtOperation DEF IsAt
    <2> QED
      BY <1>1, <1>2, <1>3, <1>5, <2>1, <2>2, OneThing DEF IsAt, PlainName, SimpleStage
  <1>6. CASE pos = 3
    <2>1. Stage = "init" /\ Length = 2
      BY <1>2, <1>6, AtOperation
    <2>2. (idx = 1 /\ OpName = "init" /\ OpArg = "mgmt") \/ (idx = 2 /\ OpName = "apply" /\ OpArg = "mgmt")
      BY <1>4, <2>1, AtOperation DEF IsAt
    <2> QED
      BY <1>1, <1>2, <1>6, <2>1, <2>2, OneThing DEF IsAt, PlainName, SimpleStage
  <1>7. CASE pos = 8
    <2>1. Stage = "commit" /\ Length = 2
      BY <1>2, <1>7, AtOperation
    <2>2. (idx = 1 /\ Commits) \/ (idx = 2 /\ Pushes)
      BY <1>4, <2>1, AtOperation DEF IsAt
    <2> QED
      BY <1>1, <1>2, <1>7, <2>1, <2>2, OneThing DEF IsAt, PlainName, SimpleStage
  <1>8. CASE pos = 9
    <2>1. Stage = "apps" /\ Length = 3
      BY <1>2, <1>8, AtOperation
    <2>2. \/ idx = 1 /\ OpName = "apply" /\ OpArg = "mgmt"
          \/ idx = 2 /\ OpName = "init" /\ OpArg = "apps"
          \/ idx = 3 /\ OpName = "apply" /\ OpArg = "apps"
      BY <1>4, <2>1, AtOperation DEF IsAt
    <2> QED
      BY <1>1, <1>2, <1>8, <2>1, <2>2, OneThing DEF IsAt, PlainName, SimpleStage
  <1>9. CASE pos = 10
    <2>1. Stage = "prune:mgmt" /\ Length = Len(OwnRequired)
      BY <1>2, <1>9, AtOperation
    <2>2. Forgets /\ OpArg = OwnRequired[idx]
      BY <1>4, <2>1, AtOperation DEF IsAt
    <2> QED
      BY <1>1, <1>2, <1>9, <2>1, <2>2, OneThing DEF IsAt, PlainName, SimpleStage
  <1>10. CASE pos = 11
    <2>1. Stage = "cleanup" /\ Length = 3
      BY <1>2, <1>10, AtOperation
    <2>2. \/ idx = 1 /\ Removes
          \/ idx = 2 /\ Commits
          \/ idx = 3 /\ Pushes
      BY <1>4, <2>1, AtOperation DEF IsAt
    <2>3. /\ OpName \notin {"generate", "apply", "import", "plural.tf"}
          /\ ~Forgets /\ ~Drops
          /\ Removes <=> idx = 1
          /\ Commits <=> idx = 2
          /\ Pushes <=> idx = 3
      BY <2>2, OneThing DEF PlainName, SimpleStage
    <2>4. ~IsAt("apply", "mgmt") /\ ~IsAt("apply", "apps")
      BY <2>3 DEF IsAt
    <2>5. /\ pos \in 1..11 /\ pos = 11 /\ pos \notin {1, 3, 8, 9, 10}
          /\ Stage \notin Checkpoint
      BY <1>2, <1>3, <1>10
    <2> QED
      BY <2>1, <2>3, <2>4, <2>5, Zenon
  <1> QED
    BY <1>5, <1>6, <1>7, <1>8, <1>9, <1>10

LEMMA CloudOperations ==
    ASSUME ControlInv, StepInv, Running, kind = "cloud"
    PROVE  /\ pos \in 1..11
           /\ OpName = "generate" <=> pos = 1
           /\ OpName = "plural.tf" <=> pos = 4
           /\ OpName = "import" => pos = 5
           /\ IsAt("apply", "mgmt") => pos \in {3, 6, 10}
           /\ IsAt("apply", "apps") => pos = 10
           /\ ~Forgets /\ ~Drops
           /\ Removes => pos = 11
           /\ Commits => pos > 4
           /\ pos = 4 => Length = 1
           /\ pos = 5 => Stage = "import" /\ Length = 2 /\ (idx = 2 => OpName = "import")
           /\ pos = 3 => Stage = "init" /\ Length = 2 /\ (idx = 2 => IsAt("apply", "mgmt"))
           /\ pos = 10 => Stage = "apps" /\ Length = 3 /\ (idx = 3 => IsAt("apply", "apps"))
           /\ pos = 6 => Stage = "apply:import"
           /\ pos = 9 => Stage = "commit"
           /\ pos = 11 => Stage = "prune:cloud"
           /\ pos \notin {3, 5, 6, 9, 10, 11} => Stage \notin Checkpoint
  <1>1. pos \in 1..11
    BY StagesLength DEF Running
  <1>2. /\ Stage \in SimpleStage \union {"init", "import", "apply:import",
                                          "commit", "apps", "prune:cloud"}
        /\ Stage = "generate" <=> pos = 1
        /\ Stage = "init" <=> pos = 3
        /\ Stage = "plural.tf" <=> pos = 4
        /\ Stage = "import" <=> pos = 5
        /\ Stage = "apply:import" <=> pos = 6
        /\ Stage = "commit" <=> pos = 9
        /\ Stage = "apps" <=> pos = 10
        /\ Stage = "prune:cloud" <=> pos = 11
    BY <1>1, CloudStageAt DEF Stage
  <1>3. pos \notin {3, 5, 6, 9, 10, 11} => Stage \notin Checkpoint
    BY <1>1, <1>2 DEF Checkpoint, SimpleStage
  <1>4. Length \in Nat /\ idx \in 1..Length
    BY AtOperation
  <1>5. CASE pos \notin {3, 5, 6, 9, 10, 11}
    <2>1. Stage \in SimpleStage /\ Length = 1
      BY <1>2, <1>5, AtOperation
    <2>2. OpName = Stage
      BY <2>1, AtOperation DEF IsAt
    <2> QED
      BY <1>1, <1>2, <1>3, <1>5, <2>1, <2>2, OneThing DEF IsAt, PlainName, SimpleStage
  <1>6. CASE pos = 3
    <2>1. Stage = "init" /\ Length = 2
      BY <1>2, <1>6, AtOperation
    <2>2. (idx = 1 /\ OpName = "init" /\ OpArg = "mgmt") \/ (idx = 2 /\ OpName = "apply" /\ OpArg = "mgmt")
      BY <1>4, <2>1, AtOperation DEF IsAt
    <2> QED
      BY <1>1, <1>2, <1>6, <2>1, <2>2, OneThing DEF IsAt, PlainName, SimpleStage
  <1>7. CASE pos = 5
    <2>1. Stage = "import" /\ Length = 2
      BY <1>2, <1>7, AtOperation
    <2>2. (idx = 1 /\ OpName = "init" /\ OpArg = "mgmt") \/ (idx = 2 /\ OpName = "import" /\ OpArg = "mgmt")
      BY <1>4, <2>1, AtOperation DEF IsAt
    <2> QED
      BY <1>1, <1>2, <1>7, <2>1, <2>2, OneThing DEF IsAt, PlainName, SimpleStage
  <1>8. CASE pos = 6
    <2>1. Stage = "apply:import" /\ OpName = "apply" /\ OpArg = "mgmt"
      BY <1>2, <1>8, AtOperation DEF IsAt
    <2> QED
      BY <1>1, <1>2, <1>8, <2>1, OneThing DEF IsAt, PlainName, SimpleStage
  <1>9. CASE pos = 9
    <2>1. Stage = "commit" /\ Length = 2
      BY <1>2, <1>9, AtOperation
    <2>2. (idx = 1 /\ Commits) \/ (idx = 2 /\ Pushes)
      BY <1>4, <2>1, AtOperation DEF IsAt
    <2> QED
      BY <1>1, <1>2, <1>9, <2>1, <2>2, OneThing DEF IsAt, PlainName, SimpleStage
  <1>10. CASE pos = 10
    <2>1. Stage = "apps" /\ Length = 3
      BY <1>2, <1>10, AtOperation
    <2>2. \/ idx = 1 /\ OpName = "apply" /\ OpArg = "mgmt"
          \/ idx = 2 /\ OpName = "init" /\ OpArg = "apps"
          \/ idx = 3 /\ OpName = "apply" /\ OpArg = "apps"
      BY <1>4, <2>1, AtOperation DEF IsAt
    <2> QED
      BY <1>1, <1>2, <1>10, <2>1, <2>2, OneThing DEF IsAt, PlainName, SimpleStage
  <1>11. CASE pos = 11
    <2>1. Stage = "prune:cloud" /\ Length = 3
      BY <1>2, <1>11, AtOperation
    <2>2. \/ idx = 1 /\ Removes
          \/ idx = 2 /\ Commits
          \/ idx = 3 /\ Pushes
      BY <1>4, <2>1, AtOperation DEF IsAt
    <2> QED
      BY <1>1, <1>2, <1>11, <2>1, <2>2, OneThing DEF IsAt, PlainName, SimpleStage
  <1> QED
    BY <1>5, <1>6, <1>7, <1>8, <1>9, <1>10, <1>11

LEMMA ByokOperations ==
    ASSUME ControlInv, StepInv, Running, kind = "byok"
    PROVE  /\ pos \in 1..7
           /\ OpName = "generate" <=> pos = 1
           /\ IsAt("apply", "mgmt") => pos \in {2, 6}
           /\ IsAt("apply", "apps") => pos = 6
           /\ OpName \notin {"import", "plural.tf"}
           /\ Removes => pos = 7
           /\ pos = 2 => Stage = "init" /\ Length = 2 /\ (idx = 2 => IsAt("apply", "mgmt"))
           /\ pos = 3 => Stage = "commit"
           /\ pos = 6 => Stage = "apps" /\ Length = 3 /\ (idx = 3 => IsAt("apply", "apps"))
           /\ pos = 7 => Stage = "prune:mgmt"
           /\ pos \notin {2, 3, 6, 7} => Stage \notin Checkpoint
  <1>1. pos \in 1..7
    BY StagesLength DEF Running
  <1>2. /\ Stage \in (SimpleStage \ {"plural.tf"}) \union {"init", "commit", "apps", "prune:mgmt"}
        /\ Stage = "generate" <=> pos = 1
        /\ Stage = "init" <=> pos = 2
        /\ Stage = "commit" <=> pos = 3
        /\ Stage = "apps" <=> pos = 6
        /\ Stage = "prune:mgmt" <=> pos = 7
    BY <1>1, ByokStageAt DEF Stage
  <1>3. pos \notin {2, 3, 6, 7} => Stage \notin Checkpoint
    BY <1>1, <1>2 DEF Checkpoint, SimpleStage
  <1>4. Length \in Nat /\ idx \in 1..Length
    BY AtOperation
  <1>5. CASE pos \notin {2, 3, 6, 7}
    <2>1. Stage \in SimpleStage \ {"plural.tf"}
      BY <1>2, <1>5
    <2>2. OpName = Stage
      BY <2>1, AtOperation DEF IsAt
    <2> QED
      BY <1>1, <1>2, <1>3, <1>5, <2>1, <2>2, OneThing DEF IsAt, PlainName, SimpleStage
  <1>6. CASE pos = 2
    <2>1. Stage = "init" /\ Length = 2
      BY <1>2, <1>6, AtOperation
    <2>2. (idx = 1 /\ OpName = "init" /\ OpArg = "mgmt") \/ (idx = 2 /\ OpName = "apply" /\ OpArg = "mgmt")
      BY <1>4, <2>1, AtOperation DEF IsAt
    <2> QED
      BY <1>1, <1>2, <1>6, <2>1, <2>2, OneThing DEF IsAt, PlainName, SimpleStage
  <1>7. CASE pos = 3
    <2>1. Stage = "commit" /\ Length = 2
      BY <1>2, <1>7, AtOperation
    <2>2. (idx = 1 /\ Commits) \/ (idx = 2 /\ Pushes)
      BY <1>4, <2>1, AtOperation DEF IsAt
    <2> QED
      BY <1>1, <1>2, <1>7, <2>1, <2>2, OneThing DEF IsAt, PlainName, SimpleStage
  <1>8. CASE pos = 6
    <2>1. Stage = "apps" /\ Length = 3
      BY <1>2, <1>8, AtOperation
    <2>2. \/ idx = 1 /\ OpName = "apply" /\ OpArg = "mgmt"
          \/ idx = 2 /\ OpName = "init" /\ OpArg = "apps"
          \/ idx = 3 /\ OpName = "apply" /\ OpArg = "apps"
      BY <1>4, <2>1, AtOperation DEF IsAt
    <2> QED
      BY <1>1, <1>2, <1>8, <2>1, <2>2, OneThing DEF IsAt, PlainName, SimpleStage
  <1>9. CASE pos = 7
    <2>1. Removes \/ Commits \/ Pushes \/ Forgets \/ Drops
      BY <1>2, <1>9, AtOperation
    <2> QED
      BY <1>1, <1>2, <1>9, <2>1, OneThing DEF IsAt, PlainName, SimpleStage
  <1> QED
    BY <1>5, <1>6, <1>7, <1>8, <1>9

-----------------------------------------------------------------------------
(* The kinds of step                                                       *)

\* an operation succeeds and the run goes on
Completes ==
    /\ Running /\ Entered
    /\ \/ MoveOn
       \/ LeaveStage /\ Commits /\ Stage = "commit"
    /\ \/ Generate \/ TemplatePlural \/ AfterSetup \/ Import
       \/ ApplyMgmt /\ IsAt("apply", "mgmt")
       \/ ApplyApps /\ IsAt("apply", "apps")
       \/ Forgets /\ StateRm
       \/ Drops /\ (StateRmBestEffort \/ UNCHANGED world)
       \/ Removes /\ RemoveFiles
       \/ Commits /\ (GitCommit \/ DeclineCommit)
       \/ Pushes /\ GitPush
       \/ OpName \in Harmless /\ (~Impossible \/ hung') /\ UNCHANGED world

\* an operation fails
Falters ==
    /\ Running /\ Entered /\ GiveUp
    /\ \/ UNCHANGED world \/ GenerateFails
       \/ ApplyMgmtFails /\ IsAt("apply", "mgmt")

\* the run is over, or never starts for want of a workspace.yaml
Finishes ==
    \/ /\ ~Idle
       /\ \/ Return
          \/ Ends("killed", disk) /\ UNCHANGED world
          \/ StopAfterGenerate
    \/ BuildFails
    \/ RewriteFails

LEMMA StepKinds ==
    ASSUME ControlInv, Next
    PROVE  StartUp \/ Clone \/ SkipStage \/ Completes \/ Falters \/ Finishes
  <1>1. CASE StartUp \/ Clone \/ SkipStage
    BY <1>1
  <1>2. CASE Return
    <2>1. ~Idle
      BY <1>2, KindType, StagesType DEF Return, Idle
    <2> QED
      BY <1>2, <2>1 DEF Finishes
  <1>3. CASE Crash \/ StopAfterGenerate \/ BuildFails \/ RewriteFails
    BY <1>3 DEF Crash, StopAfterGenerate, Running, Idle, Finishes
  <1>4. CASE \/ Generate \/ TemplatePlural \/ AfterSetup \/ Import
    BY <1>4 DEF Generate, TemplatePlural, AfterSetup, Import, Doing, Completes
  <1>5. CASE ApplyMgmt \/ ApplyApps
    BY <1>5 DEF ApplyMgmt, ApplyApps, Doing, Completes, IsAt, OpName, OpArg
  <1>6. CASE StateRm \/ RemoveFiles \/ GitPush
    BY <1>6, Zenon DEF StateRm, RemoveFiles, GitPush, Doing, Completes,
                       Forgets, Removes, Pushes, OpName
  <1>7. CASE StateRmBestEffort \/ BestEffortFails
    BY <1>7, Zenon DEF StateRmBestEffort, BestEffortFails, Doing, Completes,
                       Drops, OpName
  <1>8. CASE GitCommit \/ DeclineCommit
    BY <1>8, Zenon DEF GitCommit, DeclineCommit, Doing, Completes, Commits, OpName
  <1>9. CASE CheckOrInit
    BY <1>9, Zenon DEF CheckOrInit, Doing, Completes, OpName
  <1>10. CASE Refused \/ CommandFails \/ GenerateFails \/ StateRmFails \/ SyncFails
    BY <1>10, Zenon DEF Refused, CommandFails, GenerateFails, StateRmFails, SyncFails,
                        Doing, Falters
  <1>11. CASE ApplyMgmtFails
    BY <1>11 DEF ApplyMgmtFails, Doing, Falters, IsAt, OpName, OpArg
  <1>12. CASE CheckTimesOut
    <2>1. OpName \in Harmless /\ Running /\ Entered /\ MoveOn /\ UNCHANGED world
      BY <1>12 DEF CheckTimesOut, Doing, OpName, Harmless
    <2>2. hung'
      BY <1>12 DEF CheckTimesOut, Mishap
    <2> QED
      BY <2>1, <2>2, Zenon DEF Completes
  <1> QED
    BY <1>1, <1>2, <1>3, <1>4, <1>5, <1>6, <1>7, <1>8, <1>9, <1>10, <1>11, <1>12
       DEF Next, Work, Disturbance

-----------------------------------------------------------------------------
(* How the run moves                                                       *)

\* a step within a stage
Inside == /\ Running /\ Entered /\ pos' = pos /\ idx < Length /\ idx' = idx + 1
          /\ UNCHANGED <<mem, disk, result, ran>>

\* a stage is over
Onward == /\ Running /\ pos' = pos + 1 /\ idx' = 1
          /\ UNCHANGED <<disk, result>>

\* the moves of a run
LEMMA Moves ==
    ASSUME ControlInv, StepInv, Next
    PROVE  /\ kind' = kind
           /\ \/ StartUp \/ Clone
              \/ SkipStage /\ Onward /\ UNCHANGED <<mem, ran>>
              \/ Completes /\ Inside
              \/ Completes /\ Onward /\ LeaveStage /\ Entered
                   /\ (idx = Length \/ (Commits /\ Stage = "commit"))
              \/ Falters /\ UNCHANGED <<pos, idx, mem, disk, result, ran>>
              \/ Falters /\ FailRun
              \/ Finishes
  <1>1. kind' = kind
    BY RunMoves
  <1>2. CASE SkipStage
    BY <1>1, <1>2 DEF SkipStage, Onward
  <1>3. CASE Completes
    <2>1. Running /\ Entered /\ idx \in 1..Length /\ Length \in Nat
      BY <1>3, AtOperation DEF Completes
    <2>2. CASE MoveOn /\ ~LeaveStage
      <3>1. /\ idx < Length /\ idx' = idx + 1
            /\ UNCHANGED <<pos, mem, disk, result, ran>>
        BY <2>2 DEF MoveOn, Length
      <3> QED
        BY <1>1, <1>3, <2>1, <3>1 DEF Inside
    <2>3. CASE LeaveStage
      <3>1. Onward
        BY <2>1, <2>3 DEF LeaveStage, Onward
      <3>2. idx = Length \/ (Commits /\ Stage = "commit")
        <4>1. CASE MoveOn
          <5>1. pos' = pos + 1 /\ pos \in Nat
            BY <2>1, <2>3, KindType, StagesType DEF LeaveStage, Running
          <5>2. pos' # pos
            BY <5>1
          <5>3. idx >= Length
            BY <4>1, <5>2 DEF MoveOn, Length
          <5> QED
            BY <2>1, <5>3
        <4> QED
          BY <1>3, <4>1 DEF Completes
      <3> QED
        BY <1>1, <1>3, <2>1, <2>3, <3>1, <3>2
    <2> QED
      BY <1>3, <2>2, <2>3 DEF Completes
  <1>4. CASE Falters
    BY <1>1, <1>4 DEF Falters, GiveUp
  <1> QED
    BY <1>1, <1>2, <1>3, <1>4, StepKinds

\* a run that is over has left its stages
LEMMA FinishesMove ==
    ASSUME ControlInv, Finishes
    PROVE  /\ pos' = 0 /\ idx' = 1 /\ mem' = NoCheckpoint /\ disk' \in Left
           /\ ran' = ran /\ result' \in {"ok", "err", "killed", "none"}
           /\ result' = "ok" => Return
  <1>1. CASE Return
    BY <1>1, EndRunEnds DEF Return, Ends
  <1>2. CASE ~Return
    BY <1>2 DEF Finishes, StopAfterGenerate, BuildFails, RewriteFails, Ends, Left
  <1> QED
    BY <1>1, <1>2

LEMMA FailRunMove ==
    ASSUME FailRun
    PROVE  /\ pos' = 0 /\ idx' = 1 /\ mem' = NoCheckpoint /\ disk' \in Left
           /\ ran' = ran /\ result' \in {"err", "killed"}
  BY FailRunEnds DEF Ends

LEMMA StartUpMove ==
    ASSUME StartUp
    PROVE  /\ pos = 0 /\ pos' = 1 /\ mem' = disk /\ result' = "none"
           /\ UNCHANGED <<kind, idx, disk, ran, files, managed, real, head, remote>>
  BY DEF StartUp, Idle, world

LEMMA CloneMove ==
    ASSUME Clone
    PROVE  /\ pos = 0 /\ disk' = remote.cp /\ files' = remote.files /\ head' = remote
           /\ cloned' = TRUE /\ result' = "none"
           /\ UNCHANGED <<kind, pos, idx, mem, ran, managed, real, remote>>
  BY DEF Clone, Idle, Mishap

LEMMA StepType ==
    ASSUME ControlInv, StepInv, Running
    PROVE  Length \in Nat \ {0} /\ idx \in 1..Length /\ idx \in Nat
  <1>1. Length \in Nat \ {0} /\ idx \in 1..Length
    BY AtOperation
  <1> QED
    BY <1>1

LEMMA StepInvKept ==
    ASSUME ControlInv, StepInv, Next
    PROVE  StepInv'
  <1>1. kind' = kind /\ kind \in AllKinds /\ Len(Stages(kind)) \in Nat
    BY Moves, KindType, StagesType
  <1>2. ControlInv => pos \in 0..(Len(Stages(kind)) + 1)
    BY DEF ControlInv
  <1>3. CASE pos' = 0 /\ idx' = 1
    BY <1>3 DEF StepInv, Running
  <1>4. CASE idx' = 1
    <2>1. ASSUME Running' PROVE idx' <= Len(Script(kind, Stage)')
      <3>1. pos' \in 1..Len(Stages(kind))
        BY <1>1, <2>1 DEF Running
      <3>2. Len(Script(kind, Stages(kind)[pos'])) \in Nat \ {0}
        BY <1>1, <3>1, ScriptLength
      <3> QED
        BY <1>1, <1>4, <3>2 DEF Stage
    <2> QED
      BY <1>1, <1>4, <2>1 DEF StepInv, Stage
  <1>5. CASE Inside
    <2>1. Length \in Nat /\ idx \in Nat
      BY <1>5, StepType DEF Inside
    <2> QED
      BY <1>1, <1>5, <2>1 DEF Inside, StepInv, Running, Stage, Length
  <1>6. CASE UNCHANGED <<pos, idx>>
    BY <1>1, <1>6 DEF StepInv, Running, Stage
  <1> QED
    <2>1. CASE StartUp
      <3>1. ~Running
        BY <2>1, StartUpMove, <1>1 DEF Running
      <3> QED
        BY <1>4, <2>1, <3>1, StartUpMove DEF StepInv
    <2>2. CASE Clone
      BY <1>6, <2>2, CloneMove
    <2>3. CASE Onward
      BY <1>4, <2>3 DEF Onward
    <2>4. CASE FailRun \/ Finishes
      BY <1>3, <2>4, FailRunMove, FinishesMove
    <2> QED
      BY <1>5, <1>6, <2>1, <2>2, <2>3, <2>4, Moves

-----------------------------------------------------------------------------
(* Notes                                                                   *)

Notes == Checkpoint \union {NoCheckpoint}

LEMMA CoversSelf ==
    ASSUME NEW c \in Checkpoint
    PROVE  Covers(c, c)
  <1>1. priorities[c] \in Nat
    BY PrioritiesType
  <1> QED
    BY <1>1 DEF Covers

LEMMA CoversFurther ==
    ASSUME NEW a \in Notes, NEW b \in Notes, NEW c \in Checkpoint,
           Covers(a, b), Covers(b, c)
    PROVE  Covers(a, c)
  <1>1. priorities[a] \in Nat /\ priorities[b] \in Nat /\ priorities[c] \in Nat
    BY PrioritiesType DEF Notes
  <1> QED
    BY <1>1 DEF Covers

LEMMA BehindSelf == \A a : Behind(a, a)
  BY DEF Behind

LEMMA BehindFurther ==
    ASSUME NEW a, NEW b, NEW c, Behind(a, b), Behind(b, c)
    PROVE  Behind(a, c)
  BY DEF Behind

\* what a run holds in memory says all that workspace.yaml says
LEMMA DiskBehindMem ==
    ASSUME ControlInv, ~Idle
    PROVE  Behind(disk, mem)
  <1>1. disk \in Notes /\ mem \in Notes
    BY DEF ControlInv, Resumable, Notes
  <1>2. disk = NoCheckpoint \/ Covers(mem, disk)
    BY DEF ControlInv, Resumable
  <1>3. CASE disk = NoCheckpoint
    BY <1>3, NotAStage DEF Behind, Covers
  <1>4. CASE Covers(mem, disk)
    BY <1>1, <1>4, CoversFurther DEF Behind
  <1> QED
    BY <1>2, <1>3, <1>4

\* a stage that is skipped is one that the note of the run covers
LEMMA SkippedIsCovered ==
    ASSUME ControlInv, SkipStage
    PROVE  Stage \in Checkpoint /\ Covers(mem, Stage)
  <1>1. Stage \in Checkpoint /\ ~RunsCheckpoint(mem, Stage)
    BY DEF SkipStage, Entered
  <1>2. priorities[Stage] \in Nat /\ priorities[mem] \in Nat
    BY <1>1, PrioritiesType DEF ControlInv
  <1> QED
    BY <1>1, <1>2 DEF RunsCheckpoint, Covers, ControlInv

\* a checkpointed stage that is performed is one that it does not cover
LEMMA EnteredIsNotCovered ==
    ASSUME ControlInv, Entered, Stage \in Checkpoint
    PROVE  ~Covers(mem, Stage)
  <1>1. priorities[Stage] \in Nat /\ priorities[mem] \in Nat
    BY PrioritiesType DEF ControlInv
  <1> QED
    BY <1>1, NotAStage DEF Entered, RunsCheckpoint, Covers

\* what the copies of the workspace hold
LEMMA CopiesMove ==
    ASSUME ControlInv, Next
    PROVE  \/ Clone
           \/ head' = Tree /\ remote' = remote /\ disk' = disk /\ Completes /\ GitCommit
           \/ remote' = head /\ head' = head /\ disk' = disk
           \/ UNCHANGED <<head, remote>>
  <1>1. CASE StartUp \/ SkipStage
    BY <1>1 DEF StartUp, SkipStage, world
  <1>2. CASE Completes
    <2>1. disk' = disk
      BY <1>2 DEF Completes, MoveOn, LeaveStage
    <2>2. CASE \/ Generate \/ TemplatePlural \/ AfterSetup \/ Import \/ ApplyMgmt
               \/ ApplyApps \/ StateRm \/ StateRmBestEffort \/ RemoveFiles
               \/ DeclineCommit
      BY <2>2 DEF Generate, TemplatePlural, AfterSetup, Import, ApplyMgmt, ApplyApps,
                  StateRm, StateRmBestEffort, RemoveFiles, DeclineCommit, world
    <2>3. CASE GitCommit
      BY <1>2, <2>1, <2>3 DEF GitCommit
    <2>4. CASE GitPush
      BY <2>1, <2>4 DEF GitPush
    <2> QED
      BY <1>2, <2>2, <2>3, <2>4 DEF Completes, world
  <1>3. CASE Falters
    BY <1>3 DEF Falters, GenerateFails, ApplyMgmtFails, world
  <1>4. CASE Finishes
    BY <1>4 DEF Finishes, Return, StopAfterGenerate, BuildFails, RewriteFails, world
  <1> QED
    BY <1>1, <1>2, <1>3, <1>4, StepKinds

\* a run, and what comes after it, starts from a file that is there
LEMMA NotTorn ==
    ASSUME ControlInv, Running
    PROVE  disk # Torn /\ LastNote = disk /\ ~Idle
  BY KindType, StagesType DEF ControlInv, Resumable, Running, Idle, LastNote

\* a file that lost its content stays lost until the next clone
LEMMA TornStays ==
    ASSUME ControlInv, Next, ~Clone, disk' # Torn
    PROVE  disk # Torn /\ LastNote = disk /\ LastNote' = disk'
  BY DiskAdvances DEF ControlInv, Resumable, LastNote

\* what the last note says, the one before it or the run says already
LEMMA LastNoteMoves ==
    ASSUME ControlInv, NotesInv, Next, ~Clone,
           NEW c \in Checkpoint, Covers(LastNote', c)
    PROVE  Covers(LastNote, c) \/ Covers(mem, c)
  <1>1. CASE disk' # Torn
    BY <1>1, TornStays, DiskAdvances
  <1>2. CASE disk' = Torn
    <2>1. head' = head \/ (disk' = disk /\ Running)
      BY CopiesMove DEF Completes
    <2>2. head' = head
      BY <1>2, <2>1, NotTorn
    <2>3. LastNote' = head.cp
      BY <1>2, <2>2 DEF LastNote
    <2> QED
      BY <2>3 DEF NotesInv, Behind
  <1> QED
    BY <1>1, <1>2

LEMMA NotesInvKept ==
    ASSUME ControlInv, StepInv, NotesInv, Next
    PROVE  NotesInv'
  <1>1. kind' = kind /\ kind \in AllKinds
    BY Moves, KindType
  <1>2. Behind(remote.cp, head.cp)' /\ Behind(head.cp, LastNote)'
    <2>1. CASE Clone
      BY <2>1, CloneMove, BehindSelf DEF LastNote
    <2>2. CASE ~Clone
      <3>1. Behind(remote.cp, head.cp) /\ Behind(head.cp, LastNote) /\ Tree.cp = disk
        BY DEF NotesInv, Tree
      <3>2. CASE head' = Tree /\ remote' = remote /\ disk' = disk /\ Completes
        <4>1. Running
          BY <3>2 DEF Completes
        <4>2. LastNote = disk /\ LastNote' = disk
          BY <3>2, <4>1, NotTorn DEF LastNote
        <4>3. Behind(remote.cp, disk)
          BY <3>1, <4>2, BehindFurther
        <4> QED
          BY <3>1, <3>2, <4>2, <4>3, BehindSelf
      <3>3. CASE head' = head /\ remote' \in {remote, head}
        <4>1. Behind(remote'.cp, head'.cp)
          BY <3>1, <3>3, BehindSelf
        <4>2. CASE disk' = Torn
          BY <3>3, <4>1, <4>2, BehindSelf DEF LastNote
        <4>3. CASE disk' # Torn
          <5>1. disk' = disk \/ (~Idle /\ disk' = mem)
            BY <2>2, <4>3, DiskAdvances
          <5>2. Behind(disk, disk')
            BY <5>1, DiskBehindMem, BehindSelf
          <5>3. LastNote = disk /\ LastNote' = disk'
            BY <2>2, <4>3, TornStays
          <5> QED
            BY <3>1, <3>3, <4>1, <5>2, <5>3, BehindFurther
        <4> QED
          BY <4>2, <4>3
      <3> QED
        BY <2>2, <3>2, <3>3, CopiesMove
    <2> QED
      BY <2>1, <2>2
  <1> DEFINE Past(p, m) == \A i \in 1..(p - 1) :
                 Stages(kind)[i] \in Checkpoint => Covers(m, Stages(kind)[i])
  <1>3. Past(pos, mem)
    BY DEF NotesInv
  <1>4. Past(pos', mem')
    <2>1. pos \in Nat
      BY <1>1, StagesType DEF ControlInv
    <2>2. CASE pos' = 0 \/ pos' = 1
      BY <2>2
    <2>3. CASE UNCHANGED <<pos, mem>>
      BY <1>3, <2>3
    <2>4. CASE Onward
      <3>1. pos' = pos + 1 /\ pos \in 1..Len(Stages(kind)) /\ Len(Stages(kind)) \in Nat
        BY <1>1, <2>4, StagesType DEF Onward, Running
      <3>2. CASE SkipStage /\ mem' = mem
        BY <1>3, <3>1, <3>2, SkippedIsCovered DEF Stage
      <3>3. CASE LeaveStage /\ Stage \in Checkpoint
        <4>1. mem' = Stage
          BY <3>3 DEF LeaveStage
        <4>2. SUFFICES ASSUME NEW i \in 1..(pos' - 1), Stages(kind)[i] \in Checkpoint
                       PROVE  Covers(Stages(kind)[pos], Stages(kind)[i])
          BY <4>1 DEF Stage
        <4>3. CASE i = pos
          BY <3>3, <4>3, CoversSelf DEF Stage
        <4>4. CASE i # pos
          <5>1. i \in 1..Len(Stages(kind)) /\ i < pos
            BY <3>1, <4>4
          <5>2. priorities[Stages(kind)[i]] < priorities[Stages(kind)[pos]]
            BY <1>1, <3>1, <3>3, <4>2, <5>1, StagesSorted DEF Stage
          <5>3. /\ priorities[Stages(kind)[i]] \in Nat
                /\ priorities[Stages(kind)[pos]] \in Nat
                /\ Stages(kind)[pos] \in Checkpoint
            BY <3>3, <4>2, PrioritiesType DEF Stage
          <5> QED
            BY <5>2, <5>3 DEF Covers
        <4> QED
          BY <4>3, <4>4
      <3>4. CASE LeaveStage /\ Stage \notin Checkpoint
        <4>1. mem' = mem
          BY <3>4 DEF LeaveStage
        <4> QED
          BY <1>3, <3>1, <3>4, <4>1 DEF Stage
      <3> QED
        <4>1. (SkipStage /\ mem' = mem) \/ LeaveStage
          <5>1. pos' # 0 /\ pos' # pos /\ pos # 0
            BY <2>1, <3>1
          <5>2. ~StartUp /\ ~Clone /\ ~FailRun /\ ~Finishes /\ ~Inside
            BY <5>1, FailRunMove, FinishesMove, StartUpMove, CloneMove DEF Inside
          <5> QED
            BY <5>1, <5>2, Moves
        <4> QED
          BY <3>2, <3>3, <3>4, <4>1
    <2> QED
      BY <2>2, <2>3, <2>4, Moves, FailRunMove, FinishesMove, StartUpMove, CloneMove DEF Inside
  <1> QED
    BY <1>1, <1>2, <1>4 DEF NotesInv

-----------------------------------------------------------------------------
(* What the operations do                                                  *)

LEMMA ActionName ==
    /\ Generate \/ GenerateFails => OpName = "generate"
    /\ TemplatePlural => OpName = "plural.tf"
    /\ AfterSetup => OpName = "afterSetup"
    /\ Import => OpName = "import"
    /\ ApplyMgmt \/ ApplyMgmtFails => IsAt("apply", "mgmt")
    /\ ApplyApps => IsAt("apply", "apps")
    /\ StateRm => Forgets
    /\ StateRmBestEffort => Drops
    /\ RemoveFiles => Removes
    /\ GitCommit \/ DeclineCommit => Commits
    /\ GitPush => Pushes
  <1>1. /\ Generate \/ GenerateFails => OpName = "generate"
        /\ TemplatePlural => OpName = "plural.tf"
        /\ AfterSetup => OpName = "afterSetup"
        /\ Import => OpName = "import"
    BY DEF Generate, GenerateFails, TemplatePlural, AfterSetup, Import, Doing, OpName
  <1>2. /\ ApplyMgmt \/ ApplyMgmtFails => IsAt("apply", "mgmt")
        /\ ApplyApps => IsAt("apply", "apps")
    BY DEF ApplyMgmt, ApplyMgmtFails, ApplyApps, Doing, IsAt, OpName, OpArg
  <1>3. /\ StateRm => Forgets
        /\ StateRmBestEffort => Drops
        /\ RemoveFiles => Removes
        /\ GitCommit \/ DeclineCommit => Commits
        /\ GitPush => Pushes
    BY Zenon DEF StateRm, StateRmBestEffort, RemoveFiles, GitCommit, DeclineCommit,
                 GitPush, Doing, OpName, Forgets, Drops, Removes, Commits, Pushes
  <1> QED
    BY <1>1, <1>2, <1>3

LEMMA CompletedAction ==
    ASSUME Completes
    PROVE  /\ OpName = "generate" => Generate
           /\ OpName = "plural.tf" => TemplatePlural
           /\ OpName = "import" => Import
           /\ IsAt("apply", "mgmt") => ApplyMgmt
           /\ IsAt("apply", "apps") => ApplyApps
           /\ Forgets => StateRm
           /\ Removes => RemoveFiles
           /\ Commits => GitCommit \/ DeclineCommit
           /\ Pushes => GitPush
  <1> DEFINE Silent == OpName \in Harmless
  <1>1. Silent => /\ OpName \notin {"generate", "plural.tf", "import", "apply"}
                  /\ ~Forgets /\ ~Removes /\ ~Commits /\ ~Pushes
    BY OneThing DEF Harmless, PlainName, SimpleStage
  <1>2. \/ Generate \/ TemplatePlural \/ AfterSetup \/ Import \/ ApplyMgmt \/ ApplyApps
        \/ StateRm \/ Drops \/ RemoveFiles \/ GitCommit \/ DeclineCommit \/ GitPush
        \/ Silent
    BY Zenon DEF Completes
  <1>3. /\ Generate => OpName = "generate"
        /\ TemplatePlural => OpName = "plural.tf"
        /\ AfterSetup => OpName = "afterSetup"
        /\ Import => OpName = "import"
        /\ ApplyMgmt => OpName = "apply" /\ OpArg = "mgmt"
        /\ ApplyApps => OpName = "apply" /\ OpArg = "apps"
    BY ActionName DEF IsAt
  <1> HIDE DEF Silent
  <1>4. /\ Generate \/ TemplatePlural \/ AfterSetup \/ Import \/ ApplyMgmt \/ ApplyApps
             => OpName \in PlainName
    BY <1>3 DEF PlainName, SimpleStage
  <1>5. /\ Forgets => StateRm
        /\ Removes => RemoveFiles
        /\ Commits => GitCommit \/ DeclineCommit
        /\ Pushes => GitPush
    BY <1>1, <1>2, <1>4, ActionName, OneThing
  <1>6. OpName \in {"generate", "plural.tf", "import", "apply"} =>
          Generate \/ TemplatePlural \/ Import \/ ApplyMgmt \/ ApplyApps
    <2>1. OpName \in {"generate", "plural.tf", "import", "apply"} => OpName \in PlainName
      BY DEF PlainName, SimpleStage
    <2>2. OpName \in PlainName => ~Forgets /\ ~Drops /\ ~Removes /\ ~Commits /\ ~Pushes
      BY OneThing
    <2>3. OpName \in {"generate", "plural.tf", "import", "apply"} => ~AfterSetup
      BY <1>3
    <2> QED
      BY <1>1, <1>2, <2>1, <2>2, <2>3, ActionName
  <1>7. IsAt("apply", "mgmt") => OpName = "apply" /\ OpArg = "mgmt"
    BY DEF IsAt
  <1>8. IsAt("apply", "apps") => OpName = "apply" /\ OpArg = "apps"
    BY DEF IsAt
  <1> QED
    BY <1>3, <1>5, <1>6, <1>7, <1>8

LEMMA FilesMove ==
    ASSUME ControlInv, Next, ~Clone
    PROVE  /\ "plural.tf" \in files => "plural.tf" \in files'
           /\ "plural.tf" \in files' =>
                "plural.tf" \in files \/ (Completes /\ TemplatePlural)
           /\ "console.tf" \in files =>
                "console.tf" \in files' \/ (Completes /\ RemoveFiles)
  <1>1. /\ Generated(kind, files) \subseteq
             files \union {"bootstrap", "temp", "apps", "context", "console.tf"}
        /\ files \ {"stacks"} \subseteq Generated(kind, files)
    BY DEF Generated
  <1>2. "plural.tf" \notin OneShot(kind)
    BY DEF OneShot
  <1>3. CASE UNCHANGED world
    BY <1>3 DEF world
  <1>4. CASE Generate \/ GenerateFails \/ StopAfterGenerate
    <2>1. /\ files' \subseteq files \union Generated(kind, files)
          /\ files \ {"stacks"} \subseteq files'
      BY <1>1, <1>4 DEF Generate, GenerateFails, StopAfterGenerate
    <2> QED
      BY <1>1, <2>1
  <1>5. CASE Completes
    <2>1. CASE TemplatePlural
      BY <1>5, <2>1 DEF TemplatePlural
    <2>2. CASE AfterSetup
      BY <2>2 DEF AfterSetup
    <2>3. CASE RemoveFiles
      BY <1>2, <1>5, <2>3 DEF RemoveFiles
    <2>4. CASE \/ Import \/ ApplyMgmt \/ ApplyApps \/ StateRm \/ StateRmBestEffort
               \/ GitCommit \/ DeclineCommit \/ GitPush
      BY <2>4 DEF Import, ApplyMgmt, ApplyApps, StateRm, StateRmBestEffort,
                  GitCommit, DeclineCommit, GitPush, world
    <2> QED
      BY <1>3, <1>4, <1>5, <2>1, <2>2, <2>3, <2>4 DEF Completes
  <1>6. CASE ApplyMgmtFails
    BY <1>6 DEF ApplyMgmtFails
  <1>7. CASE StartUp \/ SkipStage \/ Return
    BY <1>3, <1>7 DEF StartUp, SkipStage, Return, world
  <1>8. CASE BuildFails \/ RewriteFails
    BY <1>3, <1>8 DEF BuildFails, RewriteFails
  <1> QED
    BY <1>8, <1>3, <1>4, <1>5, <1>6, <1>7, StepKinds DEF Falters, Finishes

\* a run only gets past a stage by skipping or performing it
LEMMA Advance ==
    ASSUME ControlInv, StepInv, Next, pos' # 0, pos' # pos, pos' # 1
    PROVE  /\ Running /\ pos' = pos + 1 /\ disk' = disk /\ pos \in Nat
           /\ \/ SkipStage /\ UNCHANGED <<mem, ran>>
              \/ Completes /\ LeaveStage /\ Entered
                   /\ (idx = Length \/ (Commits /\ Stage = "commit"))
  <1>1. pos \in Nat
    BY KindType, StagesType DEF ControlInv
  <1>2. ~StartUp /\ ~Clone /\ ~FailRun /\ ~Finishes /\ ~Inside
    BY FailRunMove, FinishesMove, StartUpMove, CloneMove DEF Inside
  <1> QED
    BY <1>1, <1>2, Moves DEF Onward

\* a run stays where it is, moves on, begins or ends
LEMMA Positions ==
    ASSUME ControlInv, StepInv, Next
    PROVE  pos' = 0 \/ pos' = pos \/ (pos = 0 /\ pos' = 1) \/ (pos' = pos + 1 /\ Running)
  BY Moves, FailRunMove, FinishesMove, StartUpMove, CloneMove DEF Inside, Onward

LEMMA InstallFiles ==
    ASSUME ControlInv, StepInv, FilesInv, Next
    PROVE  Installing' => "console.tf" \in files'
  <1> SUFFICES ASSUME Installing' PROVE "console.tf" \in files'
    OBVIOUS
  <1>1. kind' = kind /\ pos' \in 2..10 /\ ~Clone
    <2>1. kind' = kind /\ pos' \in 2..10
      BY Moves DEF Installing
    <2>2. Clone => pos' = 0
      BY CloneMove
    <2> QED
      BY <2>1, <2>2
  <1>2. kind \in {"own", "byok"}
    BY <1>1 DEF Installing
  <1>3. CASE pos = 1
    <2>1. Running /\ OpName = "generate"
      BY <1>2, <1>3, StagesLength, OwnOperations, ByokOperations DEF Running
    <2>2. Stage = "generate"
      BY <1>2, <1>3, OwnStageAt, ByokStageAt DEF Stage
    <2>3. ~SkipStage
      BY <2>2, SkippedIsCovered DEF Checkpoint
    <2>4. Completes
      BY <1>1, <1>3, <2>3, Advance
    <2> QED
      BY <1>2, <2>1, <2>4, CompletedAction DEF Generate, Generated
  <1>4. CASE pos # 1
    <2>1. Running /\ pos \in 2..10 /\ (kind = "byok" => pos \in 2..6)
      <3>1. pos \in Nat
        BY <1>1, KindType, StagesType DEF ControlInv
      <3>2. kind = "byok" => pos' \in 2..6
        BY <1>1 DEF Installing
      <3>3. pos' = pos \/ pos' = pos + 1
        BY <1>1, <3>1, Positions
      <3>4. pos \in 2..10 /\ (kind = "byok" => pos \in 2..6)
        BY <1>1, <1>4, <3>1, <3>2, <3>3
      <3> DEFINE n == Len(Stages(kind))
      <3>5. (kind = "own" => n = 11) /\ (kind = "byok" => n = 7)
        BY StagesLength
      <3> HIDE DEF n
      <3>6. pos \in 1..n
        BY <1>2, <3>4, <3>5
      <3> QED
        BY <3>4, <3>6 DEF n, Running
    <2>2. "console.tf" \in files
      BY <1>2, <2>1 DEF FilesInv, Installing
    <2>3. ~Removes
      BY <1>2, <2>1, OwnOperations, ByokOperations
    <2> QED
      BY <1>1, <2>2, <2>3, FilesMove, ActionName
  <1> QED
    BY <1>3, <1>4

LEMMA FilesInvKept ==
    ASSUME Inv, StepInv, NotesInv, FilesInv, Next
    PROVE  FilesInv'
  <1> USE DEF Inv
  <1>1. kind' = kind /\ kind \in AllKinds
    BY Moves, KindType
  <1>2. kind # "cloud" => "plural.tf" \notin files'
    <2>1. kind # "cloud" => "plural.tf" \notin files /\ "plural.tf" \notin remote.files
      BY DEF FilesInv
    <2>2. kind # "cloud" => ~(Completes /\ TemplatePlural)
      BY <1>1, ActionName, OwnOperations, ByokOperations DEF AllKinds, Completes
    <2>3. Clone => files' = remote.files
      BY CloneMove
    <2> QED
      BY <2>1, <2>2, <2>3, FilesMove
  <1>3. /\ "plural.tf" \in remote'.files => "plural.tf" \in head'.files
        /\ "plural.tf" \in head'.files => "plural.tf" \in files'
    <2>1. CASE Clone
      BY <2>1, CloneMove
    <2>2. CASE ~Clone
      <3>1. "plural.tf" \in files => "plural.tf" \in files'
        BY <2>2, FilesMove
      <3>2. Tree.files = files
        BY DEF Tree
      <3> QED
        BY <2>2, <3>1, <3>2, CopiesMove DEF FilesInv
    <2> QED
      BY <2>1, <2>2
  <1>4. ASSUME kind = "cloud", pos' > 4 PROVE "plural.tf" \in files'
    <2>1. pos \in Nat /\ pos' # 0 /\ pos' # 1
      <3>1. pos \in Nat /\ pos' \in Nat
        BY <1>1, KindType, StagesType, NextControlInv DEF ControlInv
      <3> QED
        BY <1>4, <3>1
    <2>2. ~Clone
      <3>1. Clone => pos' = 0
        BY CloneMove
      <3> QED
        BY <2>1, <3>1
    <2>3. CASE pos > 4
      BY <1>4, <2>2, <2>3, FilesMove DEF FilesInv
    <2>4. CASE ~(pos > 4)
      <3>1. pos = 4 /\ pos' = 5
        BY <1>4, <2>1, <2>4, Positions
      <3>2. Running /\ OpName = "plural.tf"
        BY <1>4, <3>1, StagesLength, CloudOperations DEF Running
      <3>3. Stage = "plural.tf"
        BY <1>4, <3>1, CloudStageAt DEF Stage
      <3>4. ~SkipStage
        BY <3>3, SkippedIsCovered DEF Checkpoint
      <3>5. Completes
        BY <3>1, <3>4, Advance
      <3> QED
        BY <3>2, <3>5, CompletedAction DEF TemplatePlural
    <2> QED
      BY <2>3, <2>4
  <1>5. ASSUME kind = "cloud", Covers(disk', "import") \/ Covers(mem', "import")
        PROVE  "plural.tf" \in files'
    <2>1. CASE Clone
      <3>1. mem' = NoCheckpoint /\ disk' = remote.cp /\ files' = remote.files
        BY <2>1, CloneMove DEF ControlInv, Resumable, Idle
      <3> QED
        BY <1>5, <3>1, NotAStage DEF FilesInv, Covers
    <2>2. CASE ~Clone
      <3>1. Covers(disk, "import") \/ Covers(mem, "import") => "plural.tf" \in files'
        BY <1>5, <2>2, FilesMove DEF FilesInv
      <3>2. CASE disk' \in Left /\ mem' \in {disk, mem, NoCheckpoint}
        BY <1>5, <3>1, <3>2, NotAStage, TornIsNoNote DEF Covers, Left
      <3>3. CASE Completes /\ Onward /\ LeaveStage /\ Stage \in Checkpoint
        <4>1. mem' = Stage /\ disk' = disk /\ Running
          BY <3>3 DEF LeaveStage, Onward
        <4>2. CASE Stage = "init"
          BY <1>5, <3>1, <4>1, <4>2, PrioritiesOf DEF Covers
        <4>3. CASE Stage # "init"
          <5>1. pos \in 1..11
            BY <1>5, <4>1, CloudOperations
          <5>2. pos \in {5, 6, 9, 10, 11}
            BY <1>5, <3>3, <4>1, <4>3, CloudOperations
          <5>3. pos' > 4
            BY <3>3, <5>2 DEF LeaveStage
          <5> QED
            BY <1>4, <1>5, <5>3
        <4> QED
          BY <4>2, <4>3
      <3> QED
        <4>1. CASE Completes /\ Onward /\ LeaveStage /\ Stage \notin Checkpoint
          BY <3>2, <4>1 DEF LeaveStage, Onward, Left
        <4> QED
          BY <2>2, <3>2, <3>3, <4>1, Moves, FailRunMove, FinishesMove, StartUpMove
             DEF Inside, Onward, Left
    <2> QED
      BY <2>1, <2>2
  <1>6. kind = "cloud" =>
          /\ Covers(head'.cp, "import") => "plural.tf" \in head'.files
          /\ Covers(remote'.cp, "import") => "plural.tf" \in remote'.files
    <2>1. CASE Clone
      BY <2>1, CloneMove DEF FilesInv
    <2>2. CASE ~Clone
      <3>1. Tree.files = files /\ Tree.cp = disk
        BY DEF Tree
      <3> QED
        BY <2>2, <3>1, CopiesMove DEF FilesInv
    <2> QED
      BY <2>1, <2>2
  <1> QED
    BY <1>1, <1>2, <1>3, <1>4, <1>5, <1>6, InstallFiles DEF FilesInv, Covers

-----------------------------------------------------------------------------
(* What terraform does                                                     *)

\* the effect of an apply, complete or not
Applies(cfg) ==
    \E created \in SUBSET (cfg \ managed), gone \in SUBSET (managed \ cfg) :
        /\ managed' = (managed \ gone) \union created
        /\ real \ gone \subseteq real'
        /\ real' \subseteq (real \ gone) \union managed'

LEMMA TerraformMoves ==
    ASSUME ControlInv, Next
    PROVE  \/ UNCHANGED <<managed, real>>
           \/ /\ Running /\ Entered /\ IsAt("apply", "mgmt")
              /\ Applies(Config(kind, files))
              /\ Completes => managed' = Config(kind, files) /\ Config(kind, files) \subseteq real'
           \/ Completes /\ ApplyApps /\ managed' = managed /\ real' = real \union {"apps"}
           \/ Completes /\ Import /\ managed' = managed \union {"plural_cluster"} /\ real' = real
           \/ Completes /\ StateRm /\ managed' = managed \ {OpArg} /\ real' = real
           \/ Completes /\ StateRmBestEffort /\ managed' = managed \ {OpArg} /\ real' = real
  <1> DEFINE cfg == Config(kind, files)
  <1>1. CASE StartUp \/ Clone \/ SkipStage \/ Finishes \/ UNCHANGED world
    BY <1>1 DEF StartUp, Clone, SkipStage, Finishes, Return, StopAfterGenerate,
                BuildFails, RewriteFails, world
  <1>2. CASE GenerateFails
    BY <1>2 DEF GenerateFails
  <1>3. CASE Falters /\ ApplyMgmtFails
    <2>1. Running /\ Entered /\ IsAt("apply", "mgmt")
      BY <1>3, ActionName DEF Falters
    <2>2. PICK created \in SUBSET (cfg \ managed), gone \in SUBSET (managed \ cfg) :
            /\ managed' = (managed \ gone) \union created
            /\ real' = (real \ gone) \union created
      BY <1>3 DEF ApplyMgmtFails
    <2>3. Applies(cfg)
      <3> HIDE DEF cfg
      <3>1. /\ real \ gone \subseteq real'
            /\ real' \subseteq (real \ gone) \union managed'
        BY <2>2
      <3> QED
        BY <2>2, <3>1 DEF Applies
    <2>4. ~Completes
      <3>1. (pos' = pos /\ idx' = idx) \/ pos' = 0
        BY <1>3, FailRunMove DEF Falters, GiveUp
      <3>2. pos \in Nat \ {0} /\ idx \in Nat
        BY <2>1, KindType, StagesType DEF Running, ControlInv
      <3> QED
        BY <3>1, <3>2 DEF Completes, MoveOn, LeaveStage
    <2> QED
      BY <2>1, <2>3, <2>4
  <1>4. CASE Completes /\ ApplyMgmt
    <2>1. Running /\ Entered /\ IsAt("apply", "mgmt")
      BY <1>4, ActionName DEF Completes
    <2>2. managed' = cfg /\ real' = (real \ (managed \ cfg)) \union cfg
      BY <1>4 DEF ApplyMgmt
    <2>3. Applies(cfg)
      <3> HIDE DEF cfg
      <3> DEFINE created == cfg \ managed
                 gone == managed \ cfg
      <3>1. /\ created \in SUBSET (cfg \ managed) /\ gone \in SUBSET (managed \ cfg)
            /\ managed' = (managed \ gone) \union created
            /\ real \ gone \subseteq real'
            /\ real' \subseteq (real \ gone) \union managed'
        BY <2>2
      <3> HIDE DEF created, gone
      <3> QED
        BY <3>1 DEF Applies
    <2> QED
      BY <2>1, <2>2, <2>3
  <1>5. CASE Completes /\ (ApplyApps \/ Import \/ StateRm \/ StateRmBestEffort)
    BY <1>5 DEF ApplyApps, Import, StateRm, StateRmBestEffort, OpArg
  <1>6. CASE \/ Generate \/ TemplatePlural \/ AfterSetup \/ RemoveFiles \/ GitCommit
             \/ DeclineCommit \/ GitPush
    BY <1>6 DEF Generate, TemplatePlural, AfterSetup, RemoveFiles, GitCommit,
                DeclineCommit, GitPush, world
  <1> QED
    BY <1>1, <1>2, <1>3, <1>4, <1>5, <1>6, StepKinds DEF Completes, Falters

\* What terraform/mgmt declares when it is applied: never less than what its
\* state holds, but for the registration of a Plural Cloud workspace that was
\* cloned too early.
LEMMA AppliedConfig ==
    ASSUME ControlInv, StepInv, FilesInv, ManagedInv, Running, IsAt("apply", "mgmt")
    PROVE  /\ Config(kind, files) \subseteq Declared(kind)
           /\ Boot(kind) \subseteq Config(kind, files)
           /\ kind # "byok" => "cluster" \in Config(kind, files)
           /\ "plural.tf" \in files => "plural_cluster" \in Config(kind, files)
           /\ \/ managed \subseteq Config(kind, files)
              \/ /\ kind = "cloud" /\ cloned /\ "plural.tf" \notin files
                 /\ managed \ Config(kind, files) = {"plural_cluster"}
  <1>1. kind \in AllKinds
    BY KindType
  <1>2. kind # "cloud" => "plural.tf" \notin files
    BY DEF FilesInv
  <1>3. managed \subseteq Declared(kind)
    BY DEF ManagedInv
  <1>4. CASE kind = "own"
    <2>1. "console.tf" \in files
      BY <1>4, OwnOperations DEF FilesInv, Installing
    <2> QED
      BY <1>2, <1>3, <1>4, <2>1 DEF Config, Declared
  <1>5. CASE kind = "byok"
    <2>1. "console.tf" \in files
      BY <1>5, ByokOperations DEF FilesInv, Installing
    <2> QED
      BY <1>2, <1>3, <1>5, <2>1 DEF Config, Declared
  <1>6. CASE kind = "cloud"
    <2>1. Boot(kind) = {}
      BY <1>6 DEF Boot
    <2>2. "plural_cluster" \in managed => "plural.tf" \in files \/ cloned
      BY <1>6 DEF ManagedInv
    <2>3. CASE "plural.tf" \in files
      BY <1>3, <1>6, <2>1, <2>3 DEF Config, Declared
    <2>4. CASE "plural.tf" \notin files
      BY <1>3, <1>6, <2>1, <2>2, <2>4 DEF Config, Declared
    <2> QED
      BY <2>3, <2>4
  <1> QED
    BY <1>1, <1>4, <1>5, <1>6 DEF AllKinds

LEMMA LiveKept ==
    ASSUME ControlInv, StepInv, FilesInv, ManagedInv, Next
    PROVE  \/ real \subseteq real'
           \/ /\ cloned /\ kind = "cloud" /\ "plural.tf" \notin remote.files
              /\ real \ real' = {"plural_cluster"}
  <1> DEFINE cfg == Config(kind, files)
  <1>1. CASE Running /\ IsAt("apply", "mgmt") /\ Applies(cfg)
    <2>1. PICK gone \in SUBSET (managed \ cfg) : real \ gone \subseteq real'
      BY <1>1 DEF Applies
    <2>2. CASE managed \subseteq cfg
      <3> HIDE DEF cfg
      <3> QED
        BY <2>1, <2>2
    <2>3. CASE /\ kind = "cloud" /\ cloned /\ "plural.tf" \notin files
               /\ managed \ cfg = {"plural_cluster"}
      <3>1. "plural.tf" \notin remote.files
        BY <2>3 DEF FilesInv
      <3> HIDE DEF cfg
      <3>2. real \subseteq real' \/ real \ real' = {"plural_cluster"}
        BY <2>1, <2>3
      <3> QED
        BY <2>3, <3>1, <3>2
    <2> QED
      BY <1>1, <2>2, <2>3, AppliedConfig
  <1>2. CASE real \subseteq real'
    BY <1>2
  <1> QED
    BY <1>1, <1>2, TerraformMoves

\* what the clean-up of the terraform state leaves alone
LEMMA CloudKeepsRegistration ==
    ASSUME ControlInv, StepInv, FilesInv, ManagedInv, Next, kind = "cloud",
           "plural_cluster" \in managed, "plural.tf" \in files
    PROVE  "plural_cluster" \in managed'
  <1> DEFINE cfg == Config(kind, files)
  <1>1. CASE Running /\ IsAt("apply", "mgmt") /\ Applies(cfg)
    <2>1. "plural_cluster" \in cfg
      BY DEF Config
    <2> HIDE DEF cfg
    <2> QED
      BY <1>1, <2>1 DEF Applies
  <1>2. CASE StateRm \/ StateRmBestEffort
    <2>1. Completes => FALSE
      BY <1>2, CloudOperations, ActionName DEF Completes
    <2> QED
      BY <2>1, <1>1, TerraformMoves
  <1> QED
    BY <1>1, <1>2, TerraformMoves

LEMMA ClonedStays ==
    ASSUME Next
    PROVE  cloned => cloned'
  BY DEF Next, Work, Disturbance, StartUp, SkipStage, Return, Generate,
         CheckOrInit, TemplatePlural, AfterSetup, ApplyMgmt, ApplyApps,
         Import, StateRm, StateRmBestEffort, RemoveFiles, GitCommit, GitPush,
         DeclineCommit, Refused, CommandFails, GenerateFails, ApplyMgmtFails,
         StateRmFails, BestEffortFails, CheckTimesOut, SyncFails, Crash,
           StopAfterGenerate, BuildFails, RewriteFails,
         Clone, Calm, Mishap

LEMMA ManagedInvKept ==
    ASSUME Inv, StepInv, FilesInv, ManagedInv, Next
    PROVE  ManagedInv'
  <1> USE DEF Inv
  <1>1. kind' = kind /\ kind \in AllKinds
    BY Moves, KindType
  <1> DEFINE cfg == Config(kind, files)
  <1>2. managed' \subseteq Declared(kind)
    <2>1. managed \subseteq Declared(kind)
      BY DEF ManagedInv
    <2>2. CASE Running /\ IsAt("apply", "mgmt") /\ Applies(cfg)
      <3>1. cfg \subseteq Declared(kind)
        BY <2>2, AppliedConfig
      <3> HIDE DEF cfg
      <3> QED
        BY <2>1, <2>2, <3>1 DEF Applies
    <2>3. CASE Completes /\ Import /\ managed' = managed \union {"plural_cluster"}
      <3>1. kind = "cloud"
        BY <1>1, <2>3, ActionName, OwnOperations, ByokOperations DEF AllKinds, Completes
      <3> QED
        BY <2>1, <2>3, <3>1 DEF Declared
    <2> QED
      BY <2>1, <2>2, <2>3, TerraformMoves
  <1>3. ASSUME kind = "cloud", "plural_cluster" \in managed', "plural.tf" \notin files'
        PROVE  cloned'
    <2>1. cloned => cloned'
      BY ClonedStays
    <2>2. CASE Clone
      BY <2>2, CloneMove
    <2>3. CASE ~Clone
      <3>1. "plural.tf" \notin files
        BY <1>3, <2>3, FilesMove
      <3>2. CASE "plural_cluster" \in managed
        BY <1>3, <2>1, <3>1, <3>2 DEF ManagedInv
      <3>3. CASE Running /\ IsAt("apply", "mgmt") /\ Applies(cfg)
        <4>1. "plural_cluster" \notin cfg
          BY <1>3, <3>1 DEF Config, Boot
        <4> HIDE DEF cfg
        <4>2. "plural_cluster" \in managed
          BY <1>3, <3>3, <4>1 DEF Applies
        <4> QED
          BY <3>2, <4>2
      <3>4. CASE Completes /\ Import
        <4>1. pos = 5
          BY <1>3, <3>4, ActionName, CloudOperations DEF Completes
        <4> QED
          BY <1>3, <3>1, <4>1 DEF FilesInv
      <3> QED
        BY <1>3, <3>2, <3>3, <3>4, TerraformMoves
    <2> QED
      BY <2>2, <2>3
  <1> QED
    BY <1>1, <1>2, <1>3 DEF ManagedInv

LEMMA ImportInvKept ==
    ASSUME Inv, StepInv, NotesInv, FilesInv, ManagedInv, ImportInv, Next
    PROVE  ImportInv'
  <1> USE DEF Inv
  <1>1. kind' = kind /\ kind \in AllKinds
    BY Moves, KindType
  <1>2. ASSUME kind = "cloud", Covers(LastNote', "import") \/ Covers(mem', "import")
        PROVE  "plural_cluster" \in managed'
    <2>1. CASE Clone
      <3>1. mem' = NoCheckpoint /\ LastNote' = remote.cp /\ managed' = managed
        BY <2>1, CloneMove DEF ControlInv, Resumable, Idle, LastNote
      <3>2. Covers(remote.cp, "import")
        BY <1>2, <3>1, NotAStage DEF Covers
      <3>3. Covers(LastNote, "import")
        BY <3>2 DEF NotesInv, Behind, Checkpoint
      <3> QED
        BY <1>2, <3>1, <3>3 DEF ImportInv
    <2>2. CASE ~Clone
      <3>0. Covers(disk, "import") => Covers(LastNote, "import")
        BY TornIsNoNote DEF Covers, LastNote
      <3>1. Covers(LastNote, "import") \/ Covers(mem, "import")
              => "plural_cluster" \in managed'
        BY <1>2, CloudKeepsRegistration DEF ImportInv, FilesInv, LastNote
      <3>5. Covers(LastNote', "import") => "plural_cluster" \in managed'
        BY <2>2, <3>1, LastNoteMoves DEF Checkpoint
      <3>2. CASE mem' \in {disk, mem, NoCheckpoint}
        BY <1>2, <3>0, <3>1, <3>2, <3>5, NotAStage DEF Covers
      <3>3. CASE Completes /\ Onward /\ LeaveStage /\ Stage \in Checkpoint
                   /\ (idx = Length \/ (Commits /\ Stage = "commit"))
        <4>1. mem' = Stage /\ disk' = disk /\ Running
          BY <3>3 DEF LeaveStage, Onward
        <4>2. pos \in {3, 5, 6, 9, 10, 11}
          BY <1>2, <3>3, <4>1, CloudOperations
        <4>3. CASE pos = 3
          <5>1. Stage = "init"
            BY <1>2, <4>1, <4>3, CloudOperations
          <5> QED
            BY <1>2, <3>5, <4>1, <5>1, PrioritiesOf DEF Covers
        <4>4. CASE pos = 5
          <5>1. Stage = "import" /\ Length = 2 /\ (idx = 2 => OpName = "import")
            BY <1>2, <4>1, <4>4, CloudOperations
          <5>2. idx = 2
            BY <3>3, <5>1
          <5>3. Import
            BY <3>3, <5>1, <5>2, CompletedAction
          <5> QED
            BY <5>3 DEF Import
        <4>5. CASE pos \in {6, 9, 10, 11}
          <5>1. 5 \in 1..(pos - 1) /\ Stages(kind)[5] = "import"
            BY <1>2, <4>5 DEF Stages
          <5>2. Covers(mem, "import")
            BY <5>1 DEF NotesInv, Checkpoint
          <5> QED
            BY <3>1, <5>2
        <4> QED
          BY <4>2, <4>3, <4>4, <4>5
      <3> QED
        <4>1. CASE Completes /\ Onward /\ LeaveStage /\ Stage \notin Checkpoint
          BY <3>2, <4>1 DEF LeaveStage, Onward, Left
        <4> QED
          BY <2>2, <3>2, <3>3, <4>1, Moves, FailRunMove, FinishesMove, StartUpMove
             DEF Inside, Onward
    <2> QED
      BY <2>1, <2>2
  <1> QED
    BY <1>1, <1>2 DEF ImportInv, Covers

\* a stage is performed when its last operation succeeds
LEMMA Performed ==
    ASSUME ControlInv, StepInv, Next, NEW c \in ran', c \notin ran
    PROVE  /\ Completes /\ Running /\ Entered /\ Stage = c /\ Stage \in Checkpoint
           /\ idx = Length \/ (Commits /\ Stage = "commit")
  <1>1. Completes /\ Onward /\ LeaveStage /\ Entered
          /\ (idx = Length \/ (Commits /\ Stage = "commit"))
    BY Moves, FailRunMove, FinishesMove, StartUpMove, CloneMove DEF Inside
  <1> QED
    BY <1>1 DEF LeaveStage, Onward

LEMMA RealInvKept ==
    ASSUME Inv, StepInv, FilesInv, ManagedInv, RealInv, Next
    PROVE  RealInv'
  <1> USE DEF Inv
  <1>1. kind' = kind /\ kind \in AllKinds
    BY Moves, KindType
  <1>2. kind = "cloud" => Boot(kind) = {}
    BY DEF Boot
  <1>3. "init" \in ran' => Boot(kind) \subseteq real' /\ (kind # "byok" => "cluster" \in real')
    <2>1. CASE "init" \in ran
      BY <1>2, <2>1, LiveKept DEF RealInv
    <2>2. CASE "init" \in ran' /\ "init" \notin ran
      <3>1. Completes /\ Running /\ Stage = "init" /\ idx = Length
        BY <2>2, Performed
      <3>2. /\ kind = "own" => pos = 3
            /\ kind = "cloud" => pos = 3
            /\ kind = "byok" => pos = 2
        <4>1. /\ kind = "own" => pos \in 1..11
              /\ kind = "cloud" => pos \in 1..11
              /\ kind = "byok" => pos \in 1..7
          BY <3>1, StagesLength DEF Running
        <4> QED
          BY <3>1, <4>1, OwnStageAt, CloudStageAt, ByokStageAt DEF Stage
      <3>3. Length = 2 /\ (idx = 2 => IsAt("apply", "mgmt"))
        BY <1>1, <3>1, <3>2, OwnOperations, CloudOperations, ByokOperations DEF AllKinds
      <3>4. ApplyMgmt /\ IsAt("apply", "mgmt")
        BY <3>1, <3>3, CompletedAction
      <3>5. Config(kind, files) \subseteq real'
        BY <3>4 DEF ApplyMgmt
      <3> QED
        BY <3>1, <3>4, <3>5, AppliedConfig
    <2> QED
      BY <2>1, <2>2
  <1>4. "apps" \in ran' => "apps" \in real'
    <2>1. CASE "apps" \in ran
      BY <2>1, LiveKept DEF RealInv
    <2>2. CASE "apps" \in ran' /\ "apps" \notin ran
      <3>1. Completes /\ Running /\ Stage = "apps" /\ idx = Length
        BY <2>2, Performed
      <3>2. /\ kind = "own" => pos = 9
            /\ kind = "cloud" => pos = 10
            /\ kind = "byok" => pos = 6
        <4>1. /\ kind = "own" => pos \in 1..11
              /\ kind = "cloud" => pos \in 1..11
              /\ kind = "byok" => pos \in 1..7
          BY <3>1, StagesLength DEF Running
        <4> QED
          BY <3>1, <4>1, OwnStageAt, CloudStageAt, ByokStageAt DEF Stage
      <3>3. Length = 3 /\ (idx = 3 => IsAt("apply", "apps"))
        BY <1>1, <3>1, <3>2, OwnOperations, CloudOperations, ByokOperations DEF AllKinds
      <3>4. ApplyApps
        BY <3>1, <3>3, CompletedAction
      <3> QED
        BY <3>4 DEF ApplyApps
    <2> QED
      BY <2>1, <2>2
  <1> QED
    BY <1>1, <1>3, <1>4 DEF RealInv

-----------------------------------------------------------------------------
(* The clean-up of a self-hosted workspace                                 *)

\* once the pruning has been noted, no run applies terraform/mgmt again
LEMMA PrunedStaysPruned ==
    ASSUME ControlInv, StepInv, Running, Entered, kind = "own", IsAt("apply", "mgmt")
    PROVE  ~Covers(mem, "prune:mgmt") /\ ~Covers(LastNote, "prune:mgmt")
  <1>1. pos \in {3, 9}
    BY OwnOperations
  <1>2. Stage \in {"init", "apps"}
    BY <1>1, OwnStageAt DEF Stage
  <1>3. mem = NoCheckpoint \/ priorities[Stage] > priorities[mem]
    BY <1>2 DEF Entered, RunsCheckpoint, Checkpoint
  <1>4. priorities[mem] \in Nat /\ priorities[Stage] < 6 /\ priorities[Stage] \in Nat
    BY <1>2, PrioritiesType, PrioritiesOf DEF ControlInv
  <1>5. ~Covers(mem, "prune:mgmt")
    BY <1>3, <1>4, PrioritiesOf, NotAStage DEF Covers
  <1>6. Behind(LastNote, mem)
    BY NotTorn, DiskBehindMem
  <1> QED
    BY <1>5, <1>6 DEF Behind, Checkpoint

\* a self-hosted workspace manages less and less, but for its applies
LEMMA OwnManaged ==
    ASSUME ControlInv, StepInv, Next, kind = "own"
    PROVE  \/ managed' = managed
           \/ Running /\ Entered /\ IsAt("apply", "mgmt")
           \/ Completes /\ Running /\ pos = 10 /\ managed' = managed \ {OwnRequired[idx]}
  <1>1. ASSUME Completes, Import \/ StateRmBestEffort PROVE FALSE
    BY <1>1, ActionName, OwnOperations DEF Completes
  <1>2. ASSUME Completes, StateRm
        PROVE  Running /\ pos = 10 /\ OpArg = OwnRequired[idx]
    BY <1>2, ActionName, OwnOperations DEF Completes
  <1> QED
    BY <1>1, <1>2, TerraformMoves

LEMMA PruneNoted ==
    ASSUME Inv, StepInv, NotesInv, PruneInv, Next, kind = "own",
           Covers(LastNote', "prune:mgmt") \/ Covers(mem', "prune:mgmt")
    PROVE  managed' \intersect Boot(kind) = {}
  <1> USE DEF Inv
  <1>1. ASSUME Covers(LastNote, "prune:mgmt") \/ Covers(mem, "prune:mgmt")
        PROVE  managed' \intersect Boot(kind) = {}
    <2>1. managed \intersect Boot(kind) = {}
      BY <1>1 DEF PruneInv
    <2>2. managed' \subseteq managed
      BY <1>1, OwnManaged, PrunedStaysPruned
    <2> QED
      BY <2>1, <2>2
  <1>2. CASE Clone
    <2>1. mem' = NoCheckpoint /\ LastNote' = remote.cp
      BY <1>2, CloneMove DEF ControlInv, Resumable, Idle, LastNote
    <2>2. Covers(remote.cp, "prune:mgmt")
      BY <2>1, NotAStage DEF Covers
    <2> QED
      BY <1>1, <2>2 DEF NotesInv, Behind, Checkpoint
  <1>5. ASSUME ~Clone, Covers(LastNote', "prune:mgmt")
        PROVE  managed' \intersect Boot(kind) = {}
    BY <1>1, <1>5, LastNoteMoves DEF Checkpoint
  <1>3. CASE ~Clone /\ mem' \in {disk, mem, NoCheckpoint}
    <2>1. Covers(disk, "prune:mgmt") => Covers(LastNote, "prune:mgmt")
      BY TornIsNoNote DEF Covers, LastNote
    <2> QED
      BY <1>1, <1>3, <1>5, <2>1, NotAStage DEF Covers
  <1>4. CASE /\ ~Clone /\ Completes /\ Onward /\ LeaveStage /\ Stage \in Checkpoint
             /\ idx = Length \/ (Commits /\ Stage = "commit")
    <2>1. mem' = Stage /\ disk' = disk /\ Running
      BY <1>4 DEF LeaveStage, Onward
    <2>2. pos \in {3, 8, 9, 10}
      BY <1>4, <2>1, OwnOperations
    <2>3. CASE pos # 10
      <3>1. Stage \in {"init", "commit", "apps"}
        BY <2>1, <2>2, <2>3, OwnOperations
      <3>2. ~Covers(mem', "prune:mgmt")
        BY <2>1, <3>1, PrioritiesOf DEF Covers
      <3> QED
        BY <1>4, <1>5, <3>2
    <2>4. CASE pos = 10
      <3>1. Stage = "prune:mgmt" /\ Length = Len(OwnRequired) /\ OpArg = OwnRequired[idx] /\ Forgets
        BY <2>1, <2>4, OwnOperations
      <3>2. idx = Len(OwnRequired)
        BY <1>4, <3>1
      <3>3. managed' = managed \ {OwnRequired[idx]}
        BY <1>4, <3>1, CompletedAction DEF StateRm, OpArg
      <3>4. \A i \in 1..(idx - 1) : OwnRequired[i] \notin managed
        BY <2>4 DEF PruneInv
      <3>5. Boot(kind) = {OwnRequired[i] : i \in 1..Len(OwnRequired)}
        <4>1. DOMAIN OwnRequired = 1..Len(OwnRequired)
          BY RemovedAssumption, LenProperties
        <4> QED
          BY <4>1 DEF Boot, RangeOf
      <3>6. idx \in Nat
        BY <2>1, StepType
      <3> QED
        BY <3>2, <3>3, <3>4, <3>5, <3>6
    <2> QED
      BY <2>3, <2>4
  <1> QED
    <2>1. CASE ~Clone /\ Completes /\ Onward /\ LeaveStage /\ Stage \notin Checkpoint
      BY <1>3, <2>1 DEF LeaveStage, Onward
    <2> QED
      BY <1>2, <1>3, <1>4, <2>1, Moves, FailRunMove, FinishesMove, StartUpMove
         DEF Inside, Onward

\* the steps of a stage that is not over
LEMMA WithinStage ==
    ASSUME ControlInv, StepInv, Next, pos' = pos, pos # 0
    PROVE  /\ Running
           /\ \/ Completes /\ idx' = idx + 1 /\ idx < Length
              \/ Falters /\ idx' = idx
  <1>1. pos \in Nat
    BY KindType, StagesType DEF ControlInv
  <1>2. ~StartUp /\ ~Clone /\ ~FailRun /\ ~Finishes
    BY FailRunMove, FinishesMove, StartUpMove, CloneMove
  <1>3. ~Onward
    <2>1. pos' # pos + 1
      BY <1>1
    <2> QED
      BY <2>1 DEF Onward
  <1> QED
    BY <1>2, <1>3, Moves DEF Inside, Falters

LEMMA PruneProgress ==
    ASSUME ControlInv, StepInv, PruneInv, Next, kind = "own", pos' = 10
    PROVE  \A i \in 1..(idx' - 1) : OwnRequired[i] \notin managed'
  <1>1. CASE pos = 10
    <2>1. /\ Running
          /\ \/ Completes /\ idx' = idx + 1 /\ idx < Length
             \/ Falters /\ idx' = idx
      BY <1>1, WithinStage
    <2>2. \A i \in 1..(idx - 1) : OwnRequired[i] \notin managed
      BY <1>1 DEF PruneInv
    <2>3. ~IsAt("apply", "mgmt") /\ Forgets /\ OpArg = OwnRequired[idx]
      BY <1>1, <2>1, OwnOperations
    <2>4. managed' \subseteq managed
      BY <2>3, OwnManaged
    <2>5. CASE Completes /\ idx' = idx + 1
      <3>1. managed' = managed \ {OwnRequired[idx]}
        BY <2>3, <2>5, CompletedAction DEF StateRm, OpArg
      <3>2. idx \in Nat
        BY <2>1, StepType
      <3> QED
        BY <2>2, <2>5, <3>1, <3>2
    <2> QED
      BY <2>1, <2>2, <2>4, <2>5
  <1>2. CASE pos # 10
    <2>1. pos' = pos + 1
      BY <1>2, Positions
    <2>2. idx' = 1
      <3>1. pos' # 0 /\ pos' # pos /\ pos # 0
        BY <1>2, <2>1, Positions
      <3>2. ~StartUp /\ ~Clone /\ ~FailRun /\ ~Finishes /\ ~Inside
        BY <3>1, FailRunMove, FinishesMove, StartUpMove, CloneMove DEF Inside
      <3> QED
        BY <3>1, <3>2, Moves DEF Onward
    <2> QED
      BY <2>2
  <1> QED
    BY <1>1, <1>2

\* the one-shot files are gone, the commit holds that, origin holds the commit
CleanedUp(p, i, fs, h, r) ==
    /\ p = 12 \/ (p = 11 /\ i > 1) => fs \intersect OneShot("own") = {}
    /\ p = 12 \/ (p = 11 /\ i > 2) => h.files = fs
    /\ p = 12 => r = h

LEMMA CleanUpProgress ==
    ASSUME ControlInv, StepInv, PruneInv, Next, kind = "own"
    PROVE  CleanedUp(pos', idx', files', head', remote')
  <1>1. CleanedUp(pos, idx, files, head, remote)
    BY DEF PruneInv, CleanedUp
  <1>2. pos \in Nat
    BY KindType, StagesType DEF ControlInv
  <1>3. CASE pos' = 11 /\ pos = 11
    <2>1. /\ Running
          /\ \/ Completes /\ idx' = idx + 1 /\ idx < Length
             \/ Falters /\ idx' = idx
      BY <1>3, WithinStage
    <2>2. /\ Length = 3
          /\ Removes <=> idx = 1
          /\ Commits <=> idx = 2
          /\ OpName # "generate"
          /\ Stage # "commit"
          /\ idx \in Nat \ {0}
      <3>1. /\ Length = 3
            /\ Removes <=> idx = 1
            /\ Commits <=> idx = 2
            /\ OpName # "generate"
        BY <1>3, <2>1, OwnOperations
      <3>2. Stage # "commit"
        BY <1>3, OwnStageAt DEF Stage
      <3>3. idx \in 1..Length /\ Length \in Nat
        BY <2>1, StepType
      <3> QED
        BY <3>1, <3>2, <3>3
    <2>3. CASE Falters /\ idx' = idx
      <3>1. UNCHANGED <<files, head, remote>>
        BY <2>2, <2>3, ActionName DEF Falters, ApplyMgmtFails, world
      <3> QED
        BY <1>1, <1>3, <2>3, <3>1
    <2>4. CASE Completes /\ idx' = idx + 1 /\ idx = 1
      <3>1. RemoveFiles
        BY <2>2, <2>4, CompletedAction
      <3>2. files' \intersect OneShot("own") = {}
        BY <3>1 DEF RemoveFiles
      <3>3. pos' # 12 /\ ~(idx' > 2)
        BY <1>3, <2>4
      <3> QED
        BY <3>2, <3>3 DEF CleanedUp
    <2>5. CASE Completes /\ idx' = idx + 1 /\ idx = 2
      <3>1. GitCommit
        BY <2>2, <2>5, CompletedAction DEF DeclineCommit
      <3>2. files' = files /\ head'.files = files
        BY <3>1 DEF GitCommit, Tree
      <3>3. files \intersect OneShot("own") = {}
        BY <1>1, <1>3, <2>5 DEF CleanedUp
      <3>4. pos' # 12
        BY <1>3
      <3> QED
        BY <3>2, <3>3, <3>4 DEF CleanedUp
    <2>6. Length = 3 /\ idx < Length => idx = 1 \/ idx = 2
      BY <2>2
    <2> QED
      BY <2>1, <2>2, <2>3, <2>4, <2>5, <2>6
  <1>4. CASE pos' = 11 /\ pos # 11
    <2>1. idx' = 1
      <3>1. pos' # 0 /\ pos' # pos /\ pos # 0
        BY <1>2, <1>4, Positions
      <3>2. ~StartUp /\ ~Clone /\ ~FailRun /\ ~Finishes /\ ~Inside
        BY <3>1, FailRunMove, FinishesMove, StartUpMove, CloneMove DEF Inside
      <3> QED
        BY <3>1, <3>2, Moves DEF Onward
    <2> QED
      BY <1>4, <2>1 DEF CleanedUp
  <1>5. CASE pos' = 12
    <2>1. pos # 12
      <3>1. ASSUME pos = 12 PROVE FALSE
        <4>1. Running
          BY <1>5, <3>1, WithinStage
        <4> QED
          BY <3>1, <4>1, OwnOperations
      <3> QED
        BY <3>1
    <2>2. Running /\ pos = 11
      BY <1>2, <1>5, <2>1, Positions
    <2>3. Stage # "commit" /\ Stage \notin Checkpoint /\ Length = 3 /\ (Pushes <=> idx = 3)
      <3>1. Stage # "commit"
        BY <2>2, OwnStageAt DEF Stage
      <3>2. Stage \notin Checkpoint /\ Length = 3 /\ (Pushes <=> idx = 3)
        BY <2>2, OwnOperations
      <3> QED
        BY <3>1, <3>2
    <2>4. Completes /\ idx = 3
      BY <1>5, <2>1, <2>3, Advance, SkippedIsCovered
    <2>5. GitPush
      BY <2>3, <2>4, CompletedAction
    <2>6. UNCHANGED <<files, head>> /\ remote' = head
      BY <2>5 DEF GitPush
    <2>7. files \intersect OneShot("own") = {} /\ head.files = files
      BY <1>1, <2>2, <2>4 DEF CleanedUp
    <2> QED
      BY <2>6, <2>7 DEF CleanedUp
  <1> QED
    BY <1>3, <1>4, <1>5 DEF CleanedUp

LEMMA PruneInvKept ==
    ASSUME Inv, StepInv, NotesInv, PruneInv, Next
    PROVE  PruneInv'
  <1>1. kind' = kind
    BY Moves DEF Inv
  <1> QED
    BY <1>1, PruneNoted, PruneProgress, CleanUpProgress DEF PruneInv, CleanedUp, Inv, Covers

-----------------------------------------------------------------------------
(* Success                                                                 *)

\* where the stages stand that a success is read from
LEMMA KnownStages ==
    /\ Stages("own")[3] = "init" /\ Stages("own")[9] = "apps"
    /\ Stages("own")[10] = "prune:mgmt"
    /\ Stages("cloud")[3] = "init" /\ Stages("cloud")[10] = "apps"
    /\ Stages("cloud")[5] = "import"
    /\ Stages("byok")[2] = "init" /\ Stages("byok")[6] = "apps"
  <1>1. 3 \in 1..11 /\ 5 \in 1..11 /\ 9 \in 1..11 /\ 10 \in 1..11 /\ 2 \in 1..7 /\ 6 \in 1..7
    OBVIOUS
  <1> QED
    BY <1>1, OwnStageAt, CloudStageAt, ByokStageAt

LEMMA PastTheStages ==
    ASSUME pos = Len(Stages(kind)) + 1
    PROVE  /\ kind \in {"own", "cloud"} => pos = 12
           /\ kind = "byok" => pos = 8
  <1> DEFINE n == Len(Stages(kind))
  <1>1. (kind \in {"own", "cloud"} => n = 11) /\ (kind = "byok" => n = 7)
    BY StagesLength
  <1>2. pos = n + 1
    OBVIOUS
  <1> HIDE DEF n
  <1> QED
    BY <1>1, <1>2

\* a run that has passed all its stages has done what it promises
LEMMA AllStagesPassed ==
    ASSUME Inv, StepInv, NotesInv, ImportInv, RealInv, PruneInv,
           pos = Len(Stages(kind)) + 1
    PROVE  /\ Boot(kind) \union {"apps"} \subseteq real
           /\ kind # "byok" => "cluster" \in real
           /\ kind = "cloud" => "plural_cluster" \in managed
           /\ kind = "own" => /\ files \intersect OneShot(kind) = {}
                              /\ managed \intersect Boot(kind) = {}
                              /\ remote = head /\ remote.files = files
  <1> USE DEF Inv
  <1>1. kind \in AllKinds
    BY KindType
  <1>2. ASSUME NEW c \in {"init", "apps"} PROVE c \in ran
    <2>1. \E i \in 1..(pos - 1) : Stages(kind)[i] = c
      <3>1. CASE kind = "own"
        <4>1. pos = 12 /\ Stages(kind)[3] = "init" /\ Stages(kind)[9] = "apps"
          BY <3>1, PastTheStages, KnownStages
        <4>2. 3 \in 1..(pos - 1) /\ 9 \in 1..(pos - 1)
          BY <4>1
        <4> QED
          BY <1>2, <4>1, <4>2
      <3>2. CASE kind = "cloud"
        <4>1. pos = 12 /\ Stages(kind)[3] = "init" /\ Stages(kind)[10] = "apps"
          BY <3>2, PastTheStages, KnownStages
        <4>2. 3 \in 1..(pos - 1) /\ 10 \in 1..(pos - 1)
          BY <4>1
        <4> QED
          BY <1>2, <4>1, <4>2
      <3>3. CASE kind = "byok"
        <4>1. pos = 8 /\ Stages(kind)[2] = "init" /\ Stages(kind)[6] = "apps"
          BY <3>3, PastTheStages, KnownStages
        <4>2. 2 \in 1..(pos - 1) /\ 6 \in 1..(pos - 1)
          BY <4>1
        <4> QED
          BY <1>2, <4>1, <4>2
      <3> QED
        BY <1>1, <3>1, <3>2, <3>3 DEF AllKinds
    <2> QED
      BY <1>2, <2>1 DEF ControlInv, Resumable, Checkpoint
  <1>3. Boot(kind) \union {"apps"} \subseteq real /\ (kind # "byok" => "cluster" \in real)
    BY <1>2 DEF RealInv
  <1>4. ASSUME kind = "cloud" PROVE "plural_cluster" \in managed
    <2>1. pos = 12 /\ Stages(kind)[5] = "import"
      BY <1>4, PastTheStages, KnownStages
    <2>2. 5 \in 1..(pos - 1)
      BY <2>1
    <2>3. Covers(mem, "import")
      BY <2>1, <2>2 DEF NotesInv, Checkpoint
    <2> QED
      BY <1>4, <2>3 DEF ImportInv
  <1>5. ASSUME kind = "own"
        PROVE  /\ files \intersect OneShot(kind) = {}
               /\ managed \intersect Boot(kind) = {}
               /\ remote = head /\ remote.files = files
    <2>1. pos = 12 /\ Stages(kind)[10] = "prune:mgmt"
      BY <1>5, PastTheStages, KnownStages
    <2>2. 10 \in 1..(pos - 1)
      BY <2>1
    <2>3. Covers(mem, "prune:mgmt")
      BY <2>1, <2>2 DEF NotesInv, Checkpoint
    <2> QED
      BY <1>5, <2>1, <2>3 DEF PruneInv
  <1> QED
    BY <1>3, <1>4, <1>5

LEMMA SuccessInvKept ==
    ASSUME Inv, StepInv, NotesInv, ImportInv, RealInv, PruneInv, SuccessInv, Next
    PROVE  SuccessInv'
  <1> SUFFICES ASSUME result' = "ok"
               PROVE  (Idle /\ FinishedIsInstalled /\ OwnFinishIsClean)'
    BY DEF SuccessInv
  <1>1. CASE Return
    <2>1. /\ pos = Len(Stages(kind)) + 1 /\ pos' = 0
          /\ UNCHANGED <<kind, files, managed, real, head, remote>>
      BY <1>1, EndRunEnds DEF Return, Ends, Calm, world
    <2> QED
      BY <2>1, AllStagesPassed DEF Idle, FinishedIsInstalled, OwnFinishIsClean
  <1>2. CASE ~Return
    <2>1. ~StartUp /\ ~Clone /\ ~FailRun /\ ~Finishes
      BY <1>2, StartUpMove, CloneMove, FailRunMove, FinishesMove DEF Inv
    <2>2. result = "ok" /\ Running
      BY <2>1, Moves DEF Inv, SkipStage, Inside, Onward, Falters
    <2>3. ~Idle
      BY <2>2 DEF Running, Idle
    <2> QED
      BY <2>2, <2>3 DEF SuccessInv
  <1> QED
    BY <1>1, <1>2

-----------------------------------------------------------------------------
(* The invariant                                                           *)

LEMMA InitSafeInv == Init => SafeInv
  <1> SUFFICES ASSUME Init PROVE SafeInv
    OBVIOUS
  <1>1. Inv /\ kind \in AllKinds
    BY InitInv, KindType DEF Inv
  <1>2. /\ pos = 0 /\ idx = 1 /\ mem = NoCheckpoint /\ disk = NoCheckpoint
        /\ files = {} /\ managed = {} /\ ran = {} /\ result = "none"
        /\ head.cp = NoCheckpoint /\ remote.cp = NoCheckpoint
        /\ head.files = {} /\ remote.files = {}
    BY DEF Init, Tree
  <1>3. \A c : ~Covers(NoCheckpoint, c)
    BY NotAStage DEF Covers
  <1>4. StepInv
    BY <1>2 DEF StepInv, Running
  <1>5. NotesInv
    BY <1>2, <1>3 DEF NotesInv, Behind, LastNote
  <1>6. FilesInv
    BY <1>2, <1>3 DEF FilesInv, Installing
  <1>7. ManagedInv /\ ImportInv /\ RealInv /\ SuccessInv
    BY <1>2, <1>3 DEF ManagedInv, ImportInv, RealInv, SuccessInv, LastNote
  <1>8. PruneInv
    BY <1>2, <1>3 DEF PruneInv, LastNote
  <1> QED
    BY <1>1, <1>4, <1>5, <1>6, <1>7, <1>8 DEF SafeInv

LEMMA SafeInvStutters ==
    ASSUME SafeInv, UNCHANGED vars
    PROVE  SafeInv'
  <1>1. /\ UNCHANGED <<kind, pos, idx, fails, mem, disk, result, ran>>
        /\ UNCHANGED <<files, managed, real, head, remote, mishaps, cloned, hung>>
    BY DEF vars, control, world
  <1>2. Inv'
    BY <1>1 DEF SafeInv, Inv, ControlInv, WorldInv, Recorded, Covers, StagesInOrder,
                Resumable, Idle, Plan
  <1>3. StepInv'
    BY <1>1 DEF SafeInv, StepInv, Running, Stage
  <1>4. NotesInv'
    BY <1>1 DEF SafeInv, NotesInv, LastNote
  <1>5. FilesInv'
    BY <1>1 DEF SafeInv, FilesInv, Installing
  <1>6. ManagedInv' /\ ImportInv' /\ RealInv'
    BY <1>1 DEF SafeInv, ManagedInv, ImportInv, RealInv, LastNote
  <1>7. PruneInv'
    BY <1>1 DEF SafeInv, PruneInv, LastNote
  <1>8. SuccessInv'
    BY <1>1 DEF SafeInv, SuccessInv, Idle, FinishedIsInstalled, OwnFinishIsClean
  <1> QED
    BY <1>2, <1>3, <1>4, <1>5, <1>6, <1>7, <1>8 DEF SafeInv

\* The inductive invariant holds in every reachable state.
THEOREM SafeInvHolds == Spec => []SafeInv
  <1>1. Init => SafeInv
    BY InitSafeInv
  <1>2. SafeInv /\ [Next]_vars => SafeInv'
    <2>1. ASSUME SafeInv, Next PROVE SafeInv'
      <3>1. Inv'
        BY <2>1, NextControlInv, NextWorldInv DEF SafeInv, Inv
      <3> QED
        BY <2>1, <3>1, StepInvKept, NotesInvKept, FilesInvKept, ManagedInvKept,
           ImportInvKept, RealInvKept, PruneInvKept, SuccessInvKept DEF SafeInv, Inv
    <2> QED
      BY <2>1, SafeInvStutters
  <1> QED
    BY <1>1, <1>2, PTL DEF Spec

-----------------------------------------------------------------------------
(* The results                                                             *)

\* When Deploy returns nil, everything it deploys exists, however many of its
\* stages were skipped because an earlier, failed or killed, run did them: the
\* bootstrap resources, the cluster, the apps and, for Plural Cloud, the
\* registration in the terraform state.
THEOREM SuccessMeansInstalled == Spec => []FinishedIsInstalled
  <1>1. SafeInv => FinishedIsInstalled
    BY DEF SafeInv, SuccessInv, FinishedIsInstalled
  <1> QED
    BY <1>1, SafeInvHolds, PTL

\* When `plural up` of a self-hosted workspace succeeds, Prune and its
\* clean-up are complete, for every list of addresses to prune: none is left
\* in the terraform state, no one-shot file is left, and origin holds that.
THEOREM SuccessLeavesItClean == Spec => []OwnFinishIsClean
  <1>1. SafeInv => OwnFinishIsClean
    BY DEF SafeInv, SuccessInv, OwnFinishIsClean
  <1> QED
    BY <1>1, SafeInvHolds, PTL

\* No terraform apply of any run, finished or broken off, destroys what is
\* live, but for the registration of a Plural Cloud workspace cloned before
\* its plural.tf was pushed.
THEOREM NothingLiveIsDestroyed == Spec => LiveResourcesKept
  <1> DEFINE Kept == \/ real \subseteq real'
                     \/ /\ cloned /\ kind = "cloud" /\ "plural.tf" \notin remote.files
                        /\ real \ real' = {"plural_cluster"}
  <1>1. SafeInv /\ [Next]_vars => [Kept]_vars
    BY LiveKept DEF SafeInv, Inv
  <1> QED
    BY <1>1, SafeInvHolds, PTL DEF Spec, LiveResourcesKept
=============================================================================
