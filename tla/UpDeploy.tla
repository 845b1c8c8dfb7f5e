------------------------------ MODULE UpDeploy ------------------------------
(***************************************************************************)
(* `plural up`: the run that generates a workspace, applies its terraform  *)
(* stacks, commits it and prunes what only the installation needed.        *)
(*                                                                         *)
(* A run is a straight line of stages (Context.Deploy, deployBYOK, Prune   *)
(* and pruneBYOK in pkg/up).  Some stages are wrapped in runCheckpoint,    *)
(* which skips a stage that workspace.yaml says was already completed.     *)
(* The checkpoint of a run lives in memory and reaches workspace.yaml only *)
(* when Deploy returns, so a run may end after any step, by an error, by   *)
(* a kill or normally, and be started again by the user.  The file itself  *)
(* is truncated and then written (os.WriteFile), and Deploy drops the      *)
(* error of that write: a run that ends may leave it empty.                *)
(*                                                                         *)
(* Context.Generate and Context.Deploy return at once for a BYOK cluster   *)
(* with --cloud, so that combination has no run to model here.             *)
(***************************************************************************)
EXTENDS Integers, Sequences, FiniteSets

CONSTANTS
    Kinds,          \* the kinds of workspace checked: subset of AllKinds
    OwnRequired,    \* toRemove of Prune, in its order
    ByokOptional,   \* addresses pruneBYOK removes from the state best effort
    ByokRequired,   \* addresses pruneBYOK must remove from the state
    InstallPrereqs, \* whether a BYOK install manages the optional charts
    AsksMessage,    \* no --commit flag: the user is asked for a message
    Faults,         \* the faults the environment may inject
    MaxMishaps      \* bound on the number of faults and interruptions

AllKinds  == {"own", "cloud", "byok"}
AllFaults == {"command", "prune", "git", "crash", "stop", "clone", "hang",
              "flush"}

RangeOf(s) == {s[i] : i \in DOMAIN s}

ASSUME KindsAssumption == Kinds \subseteq AllKinds
ASSUME FaultsAssumption == Faults \subseteq AllFaults
ASSUME MishapsAssumption == MaxMishaps \in Nat
ASSUME FlagsAssumption == InstallPrereqs \in BOOLEAN /\ AsksMessage \in BOOLEAN
ASSUME RemovedAssumption ==
    /\ OwnRequired \in Seq(STRING) /\ OwnRequired # <<>>
    /\ ByokOptional \in Seq(STRING)
    /\ ByokRequired \in Seq(STRING)

\* toRemove of Prune lists charts, a namespace and secrets: neither the
\* management cluster nor its registration is among the addresses
ASSUME PrunedAssumption ==
    {"cluster", "plural_cluster"} \intersect RangeOf(OwnRequired) = {}

-----------------------------------------------------------------------------
(* Checkpoints.                                                            *)

NoCheckpoint == ""

\* what workspace.yaml holds when a write of it stopped half way: nothing, no
\* checkpoint and no provider either
Torn == "torn"

Checkpoint == {"init", "import", "apply:import", "commit", "apps",
               "prune:cloud", "prune:mgmt"}

\* mutant: "commit" and "apps" swapped in the table
PrioritiesSwapped == [c \in Checkpoint \union {NoCheckpoint} |->
    CASE c = "import"       -> 1
      [] c = "apply:import" -> 2
      [] c = "commit"       -> 4
      [] c = "apps"         -> 3
      [] c = "prune:cloud"  -> 5
      [] c = "prune:mgmt"   -> 6
      [] OTHER              -> 0]

\* The map lookup of an unset checkpoint yields 0, the priority of "init".
priorities == [c \in Checkpoint \union {NoCheckpoint} |->
    CASE c = "import"       -> 1
      [] c = "apply:import" -> 2
      [] c = "commit"       -> 3
      [] c = "apps"         -> 4
      [] c = "prune:cloud"  -> 5
      [] c = "prune:mgmt"   -> 6
      [] OTHER              -> 0]

\* mutant: any other checkpoint is run, not only a later one
RunsOther(current, checkpoint) ==
    \/ current = NoCheckpoint
    \/ priorities[checkpoint] # priorities[current]

\* runCheckpoint executes its function instead of skipping it
RunsCheckpoint(current, checkpoint) ==
    \/ current = NoCheckpoint
    \/ priorities[checkpoint] > priorities[current]

\* `current` says that the work of checkpoint c has been done
Covers(current, c) ==
    /\ current \in Checkpoint
    /\ priorities[c] <= priorities[current]

-----------------------------------------------------------------------------
(* The program: the stages of a run and the operations of each stage.      *)

\* mutant: plural.tf is written after the apply that needs it
StagesLateTemplate(k) ==
    CASE k = "own" ->
           <<"generate", "bucket", "init", "outputs", "afterSetup", "dns",
             "ping", "commit", "apps", "prune:mgmt", "cleanup">>
      [] k = "cloud" ->
           <<"generate", "bucket", "init", "import", "apply:import",
             "plural.tf", "outputs", "afterSetup", "commit", "apps",
             "prune:cloud">>
      [] OTHER ->
           <<"generate", "init", "commit", "waitForConsole", "afterSetup",
             "apps", "prune:mgmt">>

\* mutant: a run goes on before the console is there
StagesUnchecked(k) ==
    CASE k = "own" ->
           <<"generate", "bucket", "init", "outputs", "afterSetup", "dns",
             "commit", "apps", "prune:mgmt", "cleanup">>
      [] k = "cloud" ->
           <<"generate", "bucket", "init", "plural.tf", "import",
             "apply:import", "outputs", "afterSetup", "commit", "apps",
             "prune:cloud">>
      [] OTHER ->
           <<"generate", "init", "commit", "waitForConsole", "afterSetup",
             "apps", "prune:mgmt">>

Stages(k) ==
    CASE k = "own" ->
           <<"generate", "bucket", "init", "outputs", "afterSetup", "dns",
             "ping", "commit", "apps", "prune:mgmt", "cleanup">>
      [] k = "cloud" ->
           <<"generate", "bucket", "init", "plural.tf", "import",
             "apply:import", "outputs", "afterSetup", "commit", "apps",
             "prune:cloud">>
      [] OTHER ->
           <<"generate", "init", "commit", "waitForConsole", "afterSetup",
             "apps", "prune:mgmt">>

Op(name, arg) == <<name, arg>>
Each(name, args) == [i \in DOMAIN args |-> Op(name, args[i])]

Sync == <<Op("git commit", ""), Op("git push", "")>>

Prune ==
    Each("state rm", OwnRequired)

pruneBYOK ==
    Each("state rm best effort", ByokOptional)
      \o Each("state rm", ByokRequired)
      \o <<Op("remove files", "")>> \o Sync

pruneCloud == <<Op("remove files", "")>> \o Sync

Script(k, stage) ==
    CASE stage = "init" -> <<Op("init", "mgmt"), Op("apply", "mgmt")>>
      [] stage = "import" -> <<Op("init", "mgmt"), Op("import", "mgmt")>>
      [] stage = "apply:import" -> <<Op("apply", "mgmt")>>
      [] stage = "commit" -> Sync
      [] stage = "apps" ->
           <<Op("apply", "mgmt"), Op("init", "apps"), Op("apply", "apps")>>
      [] stage = "prune:cloud" -> pruneCloud
      [] stage = "prune:mgmt" -> IF k = "own" THEN Prune ELSE pruneBYOK
      [] stage = "cleanup" -> <<Op("remove files", "")>> \o Sync
      [] OTHER -> <<Op(stage, "")>>

\* extra attempts terraformCmd.run makes: only "apply" is given any, and the
\* first command of "apps" is given none
Retries(stage, op) ==
    IF op[1] = "apply" /\ ~(stage = "apps" /\ op[2] = "mgmt") THEN 1 ELSE 0

-----------------------------------------------------------------------------
(* The world a run works on.                                               *)

VARIABLES
    kind,     \* the kind of workspace
    pos,      \* current stage of the running command, 0 when none runs
    idx,      \* current operation of that stage
    fails,    \* failed attempts of that operation
    mem,      \* Manifest.Checkpoint in the running command
    disk,     \* checkpoint in workspace.yaml, or Torn
    files,    \* generated files of the worktree that come and go
    managed,  \* resources in the state of terraform/mgmt
    real,     \* resources that exist, whoever manages them
    head,     \* what the last local commit holds of disk and files
    remote,   \* what origin holds of them
    result,   \* outcome of the last run
    mishaps,  \* faults and interruptions so far
    ran,      \* history: checkpoints whose function once succeeded
    cloned,   \* history: work has moved to a fresh clone
    hung      \* history: a readiness check of the last run timed out unanswered

control == <<pos, idx, fails, mem, disk, result, ran>>
world   == <<files, managed, real, head, remote>>
vars    == <<kind, control, world, mishaps, cloned, hung>>

File == {"bootstrap", "stacks", "console.tf", "plural.tf", "temp", "apps",
         "context"}

\* console.tf stands for config_secrets.tf too: both come and go together
OneShot(k) == IF k = "cloud" THEN {"apps"}
              ELSE {"console.tf", "temp", "apps", "context"}

\* mutant: setup/apps is not copied
GeneratedNoApps(k, fs) ==
    (fs \ {"stacks"}) \union {"bootstrap", "temp", "context"}
      \union (IF k = "cloud" THEN {} ELSE {"console.tf"})

\* Backfill writes context.yaml; Generate writes every file that is missing
\* and copies bootstrap/ anew, untemplated stacks included.
Generated(k, fs) ==
    (fs \ {"stacks"}) \union {"bootstrap", "temp", "apps", "context"}
      \union (IF k = "cloud" THEN {} ELSE {"console.tf"})

\* resources that only the installation needs terraform to manage
Boot(k) ==
    CASE k = "own"   -> RangeOf(OwnRequired)
      [] k = "byok"  -> RangeOf(ByokRequired) \union
                        (IF InstallPrereqs THEN RangeOf(ByokOptional) ELSE {})
      [] OTHER       -> {}

\* resources the files of terraform/mgmt declare
Config(k, fs) ==
    (IF k = "byok" THEN {} ELSE {"cluster"})
      \union (IF "console.tf" \in fs THEN Boot(k) ELSE {})
      \union (IF "plural.tf" \in fs THEN {"plural_cluster"} ELSE {})

Resource == {"cluster", "plural_cluster", "apps"} \union RangeOf(OwnRequired)
              \union RangeOf(ByokRequired) \union RangeOf(ByokOptional)

Tree == [cp |-> disk, files |-> files]
Copies == [cp : Checkpoint \union {NoCheckpoint}, files : SUBSET File]

TypeOK ==
    /\ kind \in Kinds
    /\ pos \in 0..(Len(Stages(kind)) + 1)
    /\ idx \in Nat \ {0}
    /\ fails \in Nat
    /\ mem \in Checkpoint \union {NoCheckpoint}
    /\ disk \in Checkpoint \union {NoCheckpoint, Torn}
    /\ files \subseteq File
    /\ managed \subseteq Resource
    /\ real \subseteq Resource
    /\ head \in Copies
    /\ remote \in Copies
    /\ result \in {"none", "ok", "err", "killed"}
    /\ mishaps \in 0..MaxMishaps
    /\ ran \subseteq Checkpoint
    /\ cloned \in BOOLEAN /\ hung \in BOOLEAN

\* A Plural Cloud instance already holds the management cluster that a
\* --cloud run imports.
Init ==
    /\ kind \in Kinds
    /\ pos = 0 /\ idx = 1 /\ fails = 0
    /\ mem = NoCheckpoint /\ disk = NoCheckpoint
    /\ files = {} /\ managed = {}
    /\ real = (IF kind = "cloud" THEN {"plural_cluster"} ELSE {})
    /\ head = Tree
    /\ remote = Tree
    /\ result = "none"
    /\ mishaps = 0
    /\ ran = {}
    /\ cloned = FALSE /\ hung = FALSE

-----------------------------------------------------------------------------
(* How a run moves through its stages.                                     *)

Idle    == pos = 0
Running == pos \in 1..Len(Stages(kind))
Stage   == Stages(kind)[pos]

\* runCheckpoint is evaluated against the manifest as it is on entry
Entered == Stage \in Checkpoint => RunsCheckpoint(mem, Stage)

CurrentOp == Script(kind, Stage)[idx]
Doing(name) == Running /\ Entered /\ CurrentOp[1] = name

\* mutant: every stage is noted, checkpoint or not
LeaveStageNotesAll ==
    /\ pos' = pos + 1 /\ idx' = 1 /\ fails' = 0
    /\ mem' = Stage
    /\ ran' = (IF Stage \in Checkpoint THEN ran \union {Stage} ELSE ran)
    /\ UNCHANGED <<disk, result>>

\* the function of a checkpoint returned nil, or a plain stage did
LeaveStage ==
    /\ pos' = pos + 1 /\ idx' = 1 /\ fails' = 0
    /\ mem' = (IF Stage \in Checkpoint THEN Stage ELSE mem)
    /\ ran' = (IF Stage \in Checkpoint THEN ran \union {Stage} ELSE ran)
    /\ UNCHANGED <<disk, result>>

MoveOn ==
    \/ /\ idx < Len(Script(kind, Stage))
       /\ idx' = idx + 1 /\ fails' = 0
       /\ UNCHANGED <<pos, mem, disk, result, ran>>
    \/ /\ idx >= Len(Script(kind, Stage))
       /\ LeaveStage

\* the command ends with `note` in workspace.yaml
Ends(outcome, note) ==
    /\ pos' = 0 /\ idx' = 1 /\ fails' = 0 /\ mem' = NoCheckpoint
    /\ disk' = note
    /\ result' = outcome
    /\ UNCHANGED ran

\* the deferred Flush: killed after it truncated the file, or out of space (an
\* error Deploy drops), it leaves an empty one behind
EndRun(outcome) ==
    \/ Ends(outcome, mem)
    \/ /\ "flush" \in Faults
       /\ \E o \in {outcome, "killed"} : Ends(o, Torn)

\* mutant: the checkpoint is noted before its function returned
FailRunNoted ==
    Ends("err", IF Stage \in Checkpoint THEN Stage ELSE mem)

\* the Flush is registered after CreateBucket
FailRun ==
    IF Stage \in {"generate", "bucket"} THEN Ends("err", disk)
    ELSE EndRun("err")

\* an operation failed: terraformCmd.run tries again, all else returns
GiveUp ==
    \/ /\ fails < Retries(Stage, CurrentOp)
       /\ fails' = fails + 1
       /\ UNCHANGED <<pos, idx, mem, disk, result, ran>>
    \/ /\ fails >= Retries(Stage, CurrentOp)
       /\ FailRun

Calm == UNCHANGED <<kind, mishaps, cloned, hung>>
Mishap(f) == /\ f \in Faults
             /\ mishaps < MaxMishaps
             /\ mishaps' = mishaps + 1
             /\ cloned' = (cloned \/ f = "clone")
             /\ hung' = (hung \/ f = "hang")
             /\ UNCHANGED kind

\* mutant: the run starts without the checkpoint of workspace.yaml
StartUpForgets ==
    /\ Idle /\ disk # Torn
    /\ pos' = 1 /\ mem' = NoCheckpoint /\ result' = "none" /\ hung' = FALSE
    /\ UNCHANGED <<idx, fails, disk, ran, world, kind, mishaps, cloned>>

\* the user starts `plural up`; Build reads workspace.yaml
StartUp ==
    /\ Idle /\ disk # Torn
    /\ pos' = 1 /\ mem' = disk /\ result' = "none" /\ hung' = FALSE
    /\ UNCHANGED <<idx, fails, disk, ran, world, kind, mishaps, cloned>>

\* an empty workspace.yaml is read as a manifest without a provider, which
\* provider.FromManifest refuses
BuildFails ==
    /\ Idle /\ disk = Torn
    /\ Ends("err", disk)
    /\ UNCHANGED world /\ Calm

\* before Build, askAppDomain writes the manifest it read back in place: that
\* write can stop half way too
RewriteFails ==
    /\ Idle /\ disk # Torn
    /\ "flush" \in Faults
    /\ \E outcome \in {"err", "killed"} : Ends(outcome, Torn)
    /\ UNCHANGED world /\ Calm

\* mutant: a skipped stage is noted too
SkipStageNotes ==
    /\ Running /\ ~Entered
    /\ pos' = pos + 1 /\ idx' = 1 /\ fails' = 0 /\ mem' = Stage
    /\ UNCHANGED <<disk, result, ran, world>> /\ Calm

\* runCheckpoint finds the stage already covered
SkipStage ==
    /\ Running /\ ~Entered
    /\ pos' = pos + 1 /\ idx' = 1 /\ fails' = 0
    /\ UNCHANGED <<mem, disk, result, ran, world>> /\ Calm

Return ==
    /\ pos = Len(Stages(kind)) + 1
    /\ EndRun("ok")
    /\ UNCHANGED world /\ Calm

-----------------------------------------------------------------------------
(* The operations, when they succeed.                                      *)

\* terraform creates what its state lacks and destroys what the files no
\* longer declare; creating what already exists is an error
Conflict(cfg) == (cfg \ managed) \intersect real # {}

ConsoleUp == "helm_release.console" \in real

\* The current operation is answered with an error in this state of the world:
\* apply in conflict, terraform in a directory that is gone, an import of what
\* the state holds, a removal of what it does not hold, an empty commit, a
\* console that is not there.  (A readiness check that gets no answer at all
\* is CheckTimesOut.)
Impossible ==
    \/ CurrentOp = Op("apply", "mgmt") /\ Conflict(Config(kind, files))
    \/ CurrentOp[2] = "apps" /\ "apps" \notin files
    \/ CurrentOp[1] = "import" /\ "plural_cluster" \in managed
    \/ CurrentOp[1] = "state rm" /\ CurrentOp[2] \notin managed
    \/ CurrentOp[1] = "git commit" /\ Tree = head
    \/ CurrentOp[1] \in {"ping", "waitForConsole"} /\ ~ConsoleUp

Generate ==
    /\ Doing("generate")
    /\ files' = Generated(kind, files)
    /\ MoveOn
    /\ UNCHANGED <<managed, real, head, remote>> /\ Calm

\* CreateBucket, terraform init, terraform output and a readiness check that
\* is answered leave nothing behind that a later step looks at
Harmless == {"bucket", "init", "outputs", "dns", "ping", "waitForConsole"}

CheckOrInit ==
    /\ \E name \in Harmless : Doing(name)
    /\ ~Impossible
    /\ MoveOn
    /\ UNCHANGED world /\ Calm

\* templateFrom(..., "terraform/mgmt/plural.tf")
TemplatePlural ==
    /\ Doing("plural.tf")
    /\ files' = files \union {"plural.tf"}
    /\ MoveOn
    /\ UNCHANGED <<managed, real, head, remote>> /\ Calm

AfterSetup ==
    /\ Doing("afterSetup")
    /\ files' = files \union {"stacks"}
    /\ MoveOn
    /\ UNCHANGED <<managed, real, head, remote>> /\ Calm

ApplyMgmt ==
    LET cfg == Config(kind, files) IN
    /\ Doing("apply") /\ CurrentOp[2] = "mgmt"
    /\ ~Impossible
    /\ managed' = cfg
    /\ real' = (real \ (managed \ cfg)) \union cfg
    /\ MoveOn
    /\ UNCHANGED <<files, head, remote>> /\ Calm

ApplyApps ==
    /\ Doing("apply") /\ CurrentOp[2] = "apps"
    /\ ~Impossible
    /\ real' = real \union {"apps"}
    /\ MoveOn
    /\ UNCHANGED <<files, managed, head, remote>> /\ Calm

Import ==
    /\ Doing("import")
    /\ ~Impossible
    /\ managed' = managed \union {"plural_cluster"}
    /\ MoveOn
    /\ UNCHANGED <<files, real, head, remote>> /\ Calm

\* mutant: an address the state does not hold is no error
StateRmTolerant ==
    /\ Doing("state rm")
    /\ managed' = managed \ {CurrentOp[2]}
    /\ MoveOn
    /\ UNCHANGED <<files, real, head, remote>> /\ Calm

StateRm ==
    /\ Doing("state rm")
    /\ ~Impossible
    /\ managed' = managed \ {CurrentOp[2]}
    /\ MoveOn
    /\ UNCHANGED <<files, real, head, remote>> /\ Calm

StateRmBestEffort ==
    /\ Doing("state rm best effort")
    /\ managed' = managed \ {CurrentOp[2]}
    /\ MoveOn
    /\ UNCHANGED <<files, real, head, remote>> /\ Calm

\* a crash between two removals leaves files the next Generate would write
\* again anyway, so the removals are one step
RemoveFiles ==
    /\ Doing("remove files")
    /\ files' = files \ OneShot(kind)
    /\ MoveOn
    /\ UNCHANGED <<managed, real, head, remote>> /\ Calm

GitCommit ==
    /\ Doing("git commit")
    /\ ~Impossible
    /\ head' = Tree
    /\ MoveOn
    /\ UNCHANGED <<files, managed, real, remote>> /\ Calm

GitPush ==
    /\ Doing("git push")
    /\ remote' = head
    /\ MoveOn
    /\ UNCHANGED <<files, managed, real, head>> /\ Calm

\* an empty commit message: the callback returns nil and commits nothing
DeclineCommit ==
    /\ AsksMessage
    /\ Doing("git commit") /\ Stage = "commit"
    /\ LeaveStage
    /\ UNCHANGED world /\ Calm

-----------------------------------------------------------------------------
(* The operations, when they fail.                                         *)

Refused ==
    /\ Running /\ Entered
    /\ Impossible
    /\ GiveUp
    /\ UNCHANGED world /\ Calm

\* mutant: runAll goes on after a failed command
CommandFailsUnseen ==
    /\ Running /\ Entered
    /\ CurrentOp[1] \notin {"remove files", "git commit", "git push", "state rm",
                           "state rm best effort"}
    /\ MoveOn
    /\ UNCHANGED world /\ Mishap("command")

\* a command, a request or a prompt that fails and changes nothing
CommandFails ==
    /\ Running /\ Entered
    /\ CurrentOp[1] \notin {"remove files", "git commit", "git push", "state rm",
                           "state rm best effort"}
    /\ GiveUp
    /\ UNCHANGED world /\ Mishap("command")

StateRmFails ==
    /\ Doing("state rm")
    /\ GiveUp
    /\ UNCHANGED world /\ Mishap("prune")

\* stateRmBestEffort drops whatever error terraform returned
BestEffortFails ==
    /\ Doing("state rm best effort")
    /\ MoveOn
    /\ UNCHANGED world /\ Mishap("prune")

\* Generate stops at the first file it cannot write
GenerateFails ==
    /\ Doing("generate")
    /\ files' \in SUBSET File
    /\ files \ {"stacks"} \subseteq files'
    /\ files' \subseteq files \union Generated(kind, files)
    /\ GiveUp
    /\ UNCHANGED <<managed, real, head, remote>> /\ Mishap("command")

\* terraform apply stops half way: what it created is in its state
ApplyMgmtFails ==
    LET cfg == Config(kind, files) IN
    /\ Doing("apply") /\ CurrentOp[2] = "mgmt"
    /\ ~Impossible
    /\ \E created \in SUBSET (cfg \ managed), gone \in SUBSET (managed \ cfg) :
         /\ managed' = (managed \ gone) \union created
         /\ real' = (real \ gone) \union created
    /\ GiveUp
    /\ UNCHANGED <<files, head, remote>> /\ Mishap("command")

\* a readiness check whose first call is still out at its deadline: retrier
\* has stored no error yet and returns nil, whatever the console is doing
CheckTimesOut ==
    /\ Doing("ping") \/ Doing("waitForConsole")
    /\ MoveOn
    /\ UNCHANGED world /\ Mishap("hang")

\* mutant: Sync drops the error of a git command
SyncFailsUnseen ==
    /\ Doing("git commit") \/ Doing("git push")
    /\ MoveOn
    /\ UNCHANGED world /\ Mishap("git")

\* the failed commit may be left behind in the index only
SyncFails ==
    /\ Doing("git commit") \/ Doing("git push")
    /\ GiveUp
    /\ UNCHANGED world /\ Mishap("git")

\* the process is killed: nothing is flushed
Crash ==
    /\ ~Idle
    /\ Ends("killed", disk)
    /\ UNCHANGED world /\ Mishap("crash")

\* --dry-run, or a declined confirmation: the run ends after Generate
StopAfterGenerate ==
    /\ Running /\ Stage = "generate"
    /\ files' = Generated(kind, files)
    /\ Ends("none", disk)
    /\ UNCHANGED <<managed, real, head, remote>> /\ Mishap("stop")

\* work goes on in a fresh clone; the terraform state of a cloud provider is
\* in its bucket, that of BYOK stays behind
Clone ==
    /\ Idle /\ kind # "byok"
    /\ disk' = remote.cp
    /\ files' = remote.files
    /\ head' = remote
    /\ result' = "none"
    /\ UNCHANGED <<pos, idx, fails, mem, ran, managed, real, remote>>
    /\ Mishap("clone")

-----------------------------------------------------------------------------
Work ==
    \/ SkipStage \/ Return \/ Generate \/ CheckOrInit \/ TemplatePlural
    \/ AfterSetup \/ ApplyMgmt \/ ApplyApps \/ Import \/ StateRm
    \/ StateRmBestEffort \/ RemoveFiles \/ GitCommit \/ GitPush
    \/ DeclineCommit \/ Refused

Disturbance ==
    \/ CommandFails \/ GenerateFails \/ ApplyMgmtFails \/ StateRmFails
    \/ BestEffortFails \/ CheckTimesOut \/ SyncFails \/ Crash
    \/ StopAfterGenerate \/ Clone

Next == StartUp \/ BuildFails \/ RewriteFails \/ Work \/ Disturbance

Spec == Init /\ [][Next]_vars

\* A started command runs on its own; the user is assumed to start `up`
\* again for as long as it has not succeeded.
Fairness == WF_vars(Work) /\ WF_vars(result # "ok" /\ StartUp)
FairSpec == Spec /\ Fairness

-----------------------------------------------------------------------------
(* Safety.                                                                 *)

Plan(k) == Checkpoint \intersect RangeOf(Stages(k))

Recorded(cp) == \A c \in Plan(kind) : Covers(cp, c) => c \in ran

\* runCheckpoint and the deferred Flush: whatever ends a run, a checkpoint
\* that workspace.yaml, a commit, origin or the running command holds covers
\* only work that was done, in this run or in an earlier one.
RecordedWorkDone ==
    /\ Recorded(disk)
    /\ Recorded(mem)
    /\ Recorded(head.cp)
    /\ Recorded(remote.cp)

\* The order of Deploy: no checkpointed stage has ever run to its end before
\* the stages ahead of it, although each run skips a different part of them.
StagesInOrder ==
    \A c \in ran : \A d \in Plan(kind) :
        priorities[d] < priorities[c] => d \in ran

\* Where a run stands agrees with what was done: every checkpointed stage it
\* passed, by running or by skipping it, was performed by some run, the
\* checkpoint in memory is never behind the one it was started from, and no
\* run goes on over a workspace.yaml that lost its content.
Resumable ==
    /\ Idle => mem = NoCheckpoint
    /\ ~Idle => disk # Torn
    /\ ~Idle /\ disk # NoCheckpoint => Covers(mem, disk)
    /\ \A i \in 1..(pos - 1) :
         Stages(kind)[i] \in Checkpoint => Stages(kind)[i] \in ran

\* Deploy returning nil ("Finished setting up your management cluster!")
\* means that what it deploys exists, even when most of it was skipped.
FinishedIsInstalled ==
    result = "ok" =>
        /\ Boot(kind) \union {"apps"} \subseteq real
        /\ kind # "byok" => "cluster" \in real
        /\ kind = "cloud" => "plural_cluster" \in managed

\* Prune of a self-hosted workspace leaves no one-shot file and no bootstrap
\* resource in the terraform state, and origin holds the cleaned-up tree.
OwnFinishIsClean ==
    kind = "own" /\ result = "ok" =>
        /\ files \intersect OneShot(kind) = {}
        /\ managed \intersect Boot(kind) = {}
        /\ remote = head /\ remote.files = files

\* Files are removed only after the terraform state forgot what they
\* declare, and Generate brings them back before the next apply: no apply of
\* any run destroys something that is live.  The one exception is a --cloud
\* workspace cloned before plural.tf was pushed: the first apply of the clone
\* destroys the registration that the import of the first workspace put into
\* the shared state.
LiveResourcesKept ==
    [][\/ real \subseteq real'
       \/ /\ cloned /\ kind = "cloud" /\ "plural.tf" \notin remote.files
          /\ real \ real' = {"plural_cluster"}]_vars

\* The checkpoint in workspace.yaml is never replaced by an earlier one, by
\* failed, killed and repeated runs included: only a fresh clone goes back to
\* what origin holds.  It can be lost with the whole file, when the write of
\* workspace.yaml stops half way; a file lost so is never taken for that of a
\* workspace where nothing was done yet, only a fresh clone replaces it.
DiskNeverRewinds ==
    [][\/ Clone
       \/ disk' = Torn
       \/ disk = NoCheckpoint
       \/ disk # Torn /\ Covers(disk', disk)]_vars

-----------------------------------------------------------------------------
(* Progress.                                                               *)

\* files on disk when a rerun reaches its commit callback
FilesAtCommit ==
    Generated(kind, files)
      \union (IF kind = "cloud" THEN {"plural.tf"} ELSE {})
      \union (IF kind = "byok" THEN {} ELSE {"stacks"})

FilesAfterPrune ==
    (FilesAtCommit \union {"stacks"}) \ OneShot(kind)

NothingToCommit(fs) == head = [cp |-> disk, files |-> fs]

\* A workspace no further run can finish without help from outside: a write of
\* workspace.yaml stopped half way and Build refuses the file; terraform would
\* have to create what exists but was taken out of its state (or was never
\* imported), import what it already manages, or remove from its state what a
\* pruning that stopped half way already removed; or a commit whose push
\* failed leaves git nothing new to commit.
Wedged ==
    \/ disk = Torn
    \/ RunsCheckpoint(disk, "apps") /\ Conflict(Boot(kind))
    \/ RunsCheckpoint(disk, "init") /\ Conflict(Config(kind, files))
    \/ /\ kind = "cloud" /\ RunsCheckpoint(disk, "import")
       /\ "plural_cluster" \in managed
    \/ /\ disk = (IF kind = "cloud" THEN "apply:import" ELSE "init")
       /\ NothingToCommit(FilesAtCommit)
    \/ /\ kind # "cloud" /\ RunsCheckpoint(disk, "prune:mgmt")
       /\ \E r \in (IF kind = "own" THEN RangeOf(OwnRequired)
                    ELSE RangeOf(ByokRequired)) :
            r \in real \ managed
    \/ /\ disk = (IF kind = "own" THEN "prune:mgmt" ELSE "apps")
       /\ NothingToCommit(FilesAfterPrune)

\* As long as the user keeps starting `up` again and faults do not go on for
\* ever, a run succeeds, unless the workspace ends in one of the states of
\* Wedged: these are the only ways a failed run is not recoverable.
FinishesOrWedges == <>(result = "ok") \/ <>[]Wedged

\* With a fixed --commit message Wedged is exact: no later run of a wedged
\* workspace succeeds, whatever does or does not fail in it.
WedgedForGood ==
    [](Wedged /\ Idle /\ result # "ok" => [](result # "ok"))

-----------------------------------------------------------------------------
(* The checkpoint protocol this run implements.                            *)

\* a file that lost its content notes nothing
Noted(cp) == IF cp = Torn THEN NoCheckpoint ELSE cp

Protocol == INSTANCE ResumableRun WITH
    Stage     <- Checkpoint,
    Rank      <- priorities,
    None      <- NoCheckpoint,
    plan      <- Plan(kind),
    performed <- ran,
    volatile  <- IF Idle THEN Noted(disk) ELSE mem,
    durable   <- Noted(disk)

\* Every run, with its failures, retries, kills, reruns and clones, is a run
\* of the checkpoint protocol: stages are performed in order, each is noted
\* only after it was performed, and work resumes from a note that is true, be
\* it one that notes nothing because the file was lost.
ImplementsProtocol == Protocol!Spec

=============================================================================
