# Verification of plural-cli

TLA+ models of the Plural CLI (`src/`), TLC configurations that check them on
small instances, and TLAPS proofs.  Paths below are relative to `src/`.

The CLI is a set of one-shot commands.  Nearly all of them are sequential, so
what makes them hard is not threads but time: a command runs for minutes over
terraform, git, a cluster, a server and files in the home directory; any step may
fail, the user may kill it anywhere, and the only recovery is to run the same
command, or another one, again on whatever the last one left.  That is what the
models are about: commands that fail or are killed between any two effects and
are run again, by one user or several.

## 1. Inventory

| Part | State it keeps | Operations | What is hard | What makes it correct |
|---|---|---|---|---|
| `plural up` (`pkg/up`, `cmd/command/up`) | checkpoint in `workspace.yaml`, generated files, terraform state, git | `Generate`, `Deploy`, `deployBYOK`, `Prune`, `pruneBYOK`, `Backfill` | some forty steps that fail or are killed; checkpoints flushed only at the end; a terraform state that is edited by hand | a checkpoint is true; a rerun finishes what is missing and destroys nothing live; success means installed |
| `plural down` (`cmd/command/down`, `Context.Destroy`) | terraform state | `init`, `state rm`, `destroy` with two retries | runs before, after and between `up`s | nothing left, the Plural Cloud registration kept |
| readiness checks (`pkg/up/ping.go`) | one goroutine, `resErr`, a channel | `testDns`, `ping`, `waitForConsole` through `retrier` | timeout against answer, calls that never return | goes on only when ready, and always ends |
| encryption (`pkg/crypto`, `cmd/command/crypto`) | `~/.plural/key`, `identity`, `keybackups`; `.plural-crypt`, `crypto.yml`, `.keyid` in the repository; backups in the account | `init`, the git filters, `share`, `setup-keys`, `fingerprint`, `backup`, `import`, `unlock` | several users with several keys on one repository; torn home files; two files that must agree | no key in use is lost; who is listed can open; one key per repository |
| agent sessions (`pkg/agents`) | cached archive, the user's clone, the provider's session files | `agents resume`: download, checkout, patch, restore, launch | resumes, edits, commits and pushes alternate; each provider restores in its own order | nothing of the user's is lost without a yes; launch on the right branch and a whole session |
| cluster bootstrap (`cmd/command/cd/cd_clusters.go`, `cmd/command/edge/bootstrap.go`, `pkg/client/plural.go`, `pkg/console/agent.go`, `pkg/helm`) | cluster records and tokens of the console, helm release in the cluster, `repositories.yaml` | bootstrap, reinstall, edge registration, `DoInstallOperator`, `InstallAgent`, `AddRepo` | console and cluster change in turn, either may fail; rerun finds a record, a namespace, a release | the agent runs with a token of the record it is registered under; a rerun converges |
| login and profiles (`pkg/common`, `pkg/config`, `pkg/client`) | `config.yml`, profiles, the login set in memory | `login`, `profile`, `config`, `auth oidc`, `import`, `postLogin`, `AssumeServiceAccount` | in-memory and stored identity differ; truncating writes; endless polls | config.yml changes to another user only when told so |
| workspace (`pkg/common`, `pkg/wkspace`, `pkg/manifest`, `pkg/up/context.go`) | `workspace.yaml`, `context.yaml`, the registered subdomain | `init`, `up` as far as its deployment | who runs it is not who owns it; it is found in a directory further up; every file is written by several steps | a workspace stays what it was set up as; `up` deploys with what it needs |
| source control set-up (`pkg/scm`) | repository, deploy key, first commit, clone | `Setup` at GitHub, GitLab, Bitbucket | a kill between any two leaves a name that is taken | |
| providers (`pkg/provider`) | resource group, storage account, state bucket | surveys, `FromManifest`, preflights, `CreateBucket` | legacy and dry-run manifests; get or create; failed questions that are no error | the bucket that is deployed with is there |
| pull request automations (`pkg/pr`, `cmd/command/pr`) | the worktree | `test`, `template`, `contracts`: vendoring, creates, updates, deletes | no rollback; later phases see what earlier ones wrote; reruns | what an automation moves is not lost |
| cd resources (`cmd/command/cd`, `pkg/cd`, `pkg/console`) | `console.yml`; the console's services | login, services, one request each for the rest | read, change, write back the whole | an update changes what it names |
| a console of one's own (`pkg/cd/control_plane_install.go`, `pkg/bundle/oidc.go`) | the values file with its secrets, the OIDC client | `control-plane`, `control-plane-values`, `SetupOIDC` | the key of a running console's database lies in a file that is made anew | earlier consoles go on working |
| edge images (`cmd/command/edge/image.go`) | cloud configuration, docker volume, build and output directories | `edge image` | every directory and the volume survive a killed run | an image is of the run that saved it |
| workbenches (`cmd/command/workbenches`) | none | finds a pull request in the CI environment, posts a follow-up | provider detection | |

How they interact: every command of the second half of the table reads the login, the
console and the workspace that other commands left; `up` and `down` share `workspace.yaml`, the files, the
terraform state and git; `up` calls the readiness checks between stages, and login,
preflights and scm set-up (through `HandleInitWithProject`) before the first;
`CreateBucket` of the provider is a stage of `up`; edge and cd bootstrap share the installer, which takes
helm's locked repository file; git calls `plural crypto encrypt|decrypt` as
filters on every commit, those of `up` included; an agent resume uses the user's
clone, which the other commands use too.

`PROJECT.json` lists every part with its files, also the ones without a model, and
every hazard with its line.

## 2. Modules

| Module | Models | Checked with |
|---|---|---|
| `ResumableRun` | what checkpoints promise of any resumable job (abstract) | implemented by `UpDeploy` |
| `UpDeploy` | `plural up` and its three shapes | `MCUpDeploy` |
| `UpDown` | `UpDeploy` composed with `plural down` | `MCUpDown` |
| `Readiness` | `retrier` and the checks it runs | `MCReadiness` |
| `CryptoKeys` | keys, identities, sharing, filters | `MCCryptoKeys` |
| `AgentSession` | `agents resume`, the user and the agent | `MCAgentSession` |
| `ClusterBootstrap` | registering clusters, installing and removing the operator | `MCClusterBootstrap` |
| `Machine` | the files at home and in the workspace, and the command that runs | `MCSession` |
| `Identity` | login, profiles, configuration | `MCSession` |
| `Services` | console login, the console's services and everyone who writes them | `MCSession` |
| `Workspace` | `init`, `up` as far as its deployment, source control, providers | `MCSession` |
| `ControlPlane` | the values of a console of one's own and its OIDC client | `MCSession` |
| `PullRequest` | the phases of an automation on a worktree | `MCSession` |
| `EdgeImage` | `edge image` | `MCSession` |
| `Session` | the last six composed: any command after any other | `MCSession` |
| `UpDeploy_proofs` | theorems about `UpDeploy` | TLAPS |
| `UpDown_proofs` | theorems about `up` and `down` in turn, on top of those | TLAPS |
| `Readiness_proofs` | theorems about `Readiness` | TLAPS |
| `CryptoKeys_proofs` | theorems about `CryptoKeys` | TLAPS |
| `AgentSession_proofs` | theorems about `AgentSession` | TLAPS |
| `ClusterBootstrap_proofs` | theorems about `ClusterBootstrap` | TLAPS |
| `Session_proofs` | a theorem about `PullRequest` by itself, lifted to `Session`; theorems about the login, images, consoles and services in `Session` | TLAPS |
| `Workspace_proofs` | theorems about the workspace in `Session`, on top of those | TLAPS |

An operator whose comment begins with `mutant:` is not part of a model.  It is a form
a plausible bug would give to the definition after it; putting it in place of that
definition makes TLC find the property violated that `PROJECT.json` names with it.

### UpDeploy and ResumableRun

`Stages(kind)` is the straight line of `Deploy` (self-hosted `"own"`, Plural Cloud
`"cloud"`) and `deployBYOK` (`"byok"`); `Script` gives each stage its commands.  `pos`,
`idx` and `fails` are the program counter and the retry count of
`terraformCmd.run`; `mem` is `Manifest.Checkpoint`; `disk` the one in
`workspace.yaml`, written by the deferred `Flush` that is registered only after
`CreateBucket` - so an error saves it and a kill does not.  The file is truncated and then written
(`pkg/manifest/manifest.go:45`), and nobody looks at the error of the flush: `EndRun` may leave it `Torn`, an empty
file, also when the run succeeds, and so may the write of the application domain before `Build`
(`RewriteFails`).  (The file is smaller than a block and written by one call, so that a write that stops leaves
nothing of it.)  From then on every run stops at `Build` (`BuildFails`), and so does `down`.  `managed` is terraform's
state, `real` what exists: `state rm` moves the two apart, and `apply` destroys
`managed \ Config` and refuses what exists outside its state.  `files` holds the
generated files that come and go, `head` and `remote` what git has of them.
`ran`, `cloned` and `hung` are history variables for the properties.

A command that fails is an action of its own (`CommandFails`, `ApplyMgmtFails`
with any part of the apply done, `GenerateFails` with any part of the files
written, ...); `Crash` ends a run after any step; `StopAfterGenerate` is `--dry-run` or a
declined confirmation; `Clone` goes on from origin.  `Impossible` says when terraform
and git themselves refuse: an import of what is imported, a `state rm` of
what is not there, a commit of nothing, and when a readiness check gets an error.  A check that gets no answer at all
before its deadline returns nil (`CheckTimesOut`, which sets `hung`), as `Readiness` shows of `retrier`.

`ImplementsProtocol` maps `UpDeploy` to `ResumableRun`: the note in memory is `mem`
while a run goes on and `disk` between runs, a stage is `Perform`, the flush is `Save`, a
kill or a clone `Resume`.

### UpDown

`Destroy` with its commands; each command of `down` is a step, failing (`destroy`
half way, too) and killed like those of `up`.  `down` never writes the checkpoint.

### Readiness

One retrier per check: the caller, its goroutine, the unbuffered channel, the shared
`resErr`, a clock in units of the ten seconds between calls.  That a call comes back with an error (`Fails`) and that
the error is assigned to `resErr` (`Stores`) are two steps, between which the deadline may pass.  `CanHang` names
the checks whose call has no timeout of its own.

### CryptoKeys

Each user has a home (`keyfile`, `ident`, `saved`), all share the repository (`sealed`,
`listed`, `conf`, `keyid`, `content`) and the account (`server`, `uploaded`).  A command
walks over `Place`s in the order of the code.  Home files are truncated by one
step and filled by another (`os.WriteFile`, `os.Create`), so a kill leaves
`Torn`; a torn key reads as a nil key, and the nil is sealed where the code ignores the
error.  A file of the repository is written in one step: what a kill tears there git
restores.

### AgentSession

`run` is the agent's run, `head` its pushes, `branch`/`local`/`dirty` the user's clone,
`archive`/`partial` the cache, `files` the session files of the provider.  The order
in which a provider removes, copies and asks is its own (`restorer_*.go`).  Users edit, commit
and switch, and agents push, between commands.

### ClusterBootstrap

`record` and `issued` are the console's cluster records (a record's number is also its
token), `reg` the registration of each machine, `release` and `agent` what a cluster holds:
the helm release and the operator with the token and id it runs with.  `cmd` is the command
that runs against each cluster.  `bootstrap`, `reinstall`, `edge` and `install` reach the common
`Check`, `HelmStarts`, `HelmEnds` by ways of their own, and take their token from the answer of
`CreateCluster`, from `GetDeployToken` or from the command line.  A request that fails, a prompt that is
declined and a kill are the same `Abort`; `HelmEnds` and `Remove` have the outcomes helm has,
a kill that leaves the release pending among them.  `uninstall` lists releases first, and
helm lists the deployed and the failed ones only.

### Machine and Session

`cmd` is the one running command: a record of what it holds in memory and its
place `at`, which names its next step; `NoCommand` between commands.  A command
takes a new place with each effect, and `Abort` ends it at any place, whether it was
killed or failed.  Files are `Absent`, `Torn` (truncated, not yet filled) or `Holding` something.
`Dir` has three directories one in another, since `workspace.yaml` is looked for
upwards (`ProjectDir`).  What outlives a command is `files` (home, `yaml`, `context`), `outside`
(clone, repository, subdomain, cloud), the console's services, the worktree, the image's files and the
console values; `Session` starts any command on whatever the earlier ones left.  `Init` is one of four
machines: a new one, a new clone on a machine with a token-only profile, a clone on a machine with a
login and a console, and the clone of a workspace that a service account set up some versions ago.

### Identity

`mem` is the login `config.SetConfig` holds in memory, `conf` the one that is being logged in or
stored, `asked` the user the command was told to become (a history field for `StoredAsAsked`): the user of the file
that was read and confirmed, of the device login, the token or `--service-account` of `login`, never the one that
is impersonated in memory.
`Read` prefers `mem`, and else reads `config.yml` or the file of `--profile-file`.  `Flush` truncates,
`Filled` fills.  `PostLogin` is where a service account is impersonated: stored by `login`, in memory only
for every other command.

### Workspace

The actions follow `HandleInit` and `handleUp` in their order: the API client (with
`AssumeServiceAccount`), the console of `--cloud`, `Preflight`, the provider and its survey, source
control, `Flush`, the application domain, `Build`, `Backfill`, the bucket.  `deploy` is where `UpDeploy`
takes over.  `WorkspaceFixed` excepts `control-plane-values` in a workspace inside another one: its upgrade of a legacy gcp
manifest writes to the nearest `workspace.yaml` what it read from the root's (section 5; the attempt to prove the
property without the exception showed it).  A manifest is its provider, owner, bucket and the facts later code decides by (`full`,
`account`, `located`, `domain`).  `Survey*` and `*Setup` are one action per provider.

### Services, ControlPlane, EdgeImage

A service is its id, repository, contexts and two configuration keys, of which the flags only ever
name `"ours"`.  `seen` is what `GetClusterService` returned; `OthersWrite` changes, deletes and recreates the service
between that and the request.  `ControlPlane` records which command drew each secret of the values file, and
`OthersBind` writes the OIDC client between `SetupOIDC`'s read and its write.  `EdgeImage` records
which runs the volume and the image have content of; `CleanUp` is the deferred removals, `docker volume rm`
failing among them.

### PullRequest

A file is how often it was updated.  `contracts` first copies the templates over the worktree (`CopyTemplates`): each
file is truncated and filled, and an error of a file is printed and passed over.  A creation may have a condition,
and one that is not met leaves it out while the rest goes on (`Skips`).  `ReplaceTo` is the read, the truncation and the write that creates, regex
replacements, overlays and file matches share; `todo` the automations that `contracts` applies in turn.
`BuildCRD` writes an empty `workspace.yaml` where there is none and `Configuration` removes it, so that
a kill in between leaves one, which the commands of `Workspace` find.  `PrSpec` is the component by
itself, beside anything that leaves the worktree alone.

## 3. Runs

| Run | Instance | Shows |
|---|---|---|
| `up` | all kinds, all faults, 3 mishaps and a lost `workspace.yaml` besides; two addresses to prune (own) and one + two (byok) | checkpoints are true, stages complete in order, no rerun or clone destroys anything live but in one named case, success means installed and clean, `UpDeploy` implements `ResumableRun` |
| `up_wedge` | as `up` without clones, fair | a user who keeps trying finishes or is in one of the dead ends of `Wedged`; no later run leaves one |
| `up_down` | all kinds, 2 mishaps, `down` at any time | registration kept, `down` leaves nothing, success after it means a reachable console, unless a readiness check hung |
| `ready` | two checks, deadline 3 units, `ping` may hang | a failure is lost in one window only, and the command always goes on |
| `crypto` | 2 users, 2 keys, 1 file | no key in use is lost, shares only add users and keep the repository key, everyone listed opens a key that `crypto.yml` refers to |
| `agents` | 4 providers, 3 kinds of work, 1 push | a resume launches on what it prepared, work stays on its branch, nothing is overwritten without a yes |
| `bootstrap` | 2 clusters contending for 1 handle, 2 records, 4 commands | an operator runs under its own record, a live token has its record's id, an installation killed inside helm is abandoned for good |
| `session` | `Session`: any two commands on four machines; 2 people, 1 service account, 1 bucket, 1 cloud console | the login stored is the one asked for, but in one case; a workspace keeps owner and provider, its subdomain is its owner's; `up` deploys with what it needs; automations, service updates, images and console values keep what they must |
| `up_after_down` | cloud, no fault | **finding**: `up` after `down` skips all and reports success |
| `ready_hang` | `waitForConsole` that hangs | **finding**: a timeout before the first answer counts as ready |
| `crypto_share` | as `crypto` | **finding**: a share can make the repository unreadable, `.keyid` is not looked at |
| `agents_stale` | as `agents` | **finding**: a clone on the pull request's branch is not brought up to date |

**Bounds.**  `MaxMishaps` counts faults, kills, stops and clones; a torn `workspace.yaml` (`"flush"`) is not counted, since
no run gets past it but a clone.  Two make a fault
and a fault while recovering from it; the third makes a clone or a failed
rerun in between.  Cutting the lists of addresses to two keeps every position where
a pruning may stop (before, between, after); the proofs are for lists of any length.
`Deadline` 3 has a call that fails, one that succeeds late and one that does
not come back; `MaxClock` is when the last retrier has expired.  Two users and
two keys make one user who shares and one who joins with another key; a file is
touched only by its own filter call, so one stands for all.  `User`, `Key` and
`File` are only compared, hence the symmetry.  One push (`MaxPushes`) makes a clone
that is behind.  In `ClusterBootstrap` one handle is what two clusters need to
contend, two records are one that is deleted and one created anew under its handle, and four
commands are two for each cluster: a rerun after a failure beside the other's.
Kills in `CryptoKeys`, `AgentSession` and `ClusterBootstrap` are unbounded.

In `Session` two commands (`MaxCommands`) are one that is killed, or that another user's work comes
after, and its rerun or the next command; most of what takes three (the second of them killed) is
reached by the initial machines, which are what earlier commands left; a workspace inside another one is not (three
commands; the theorems of section 4 cover it).  Two people make one who may
impersonate the service account and one who may not.  The constraint `Independent` of `MCSession` stops
at states where a command would run after a change to a part it never reads: services,
worktree, image and values are each read and written by their own commands only, so that two
commands over different parts show nothing that each alone does not; the proofs do without it.
One `Bucket` and one `Instance` suffice because names are only compared with what the manifest or `console.yml` has, and
`DryBucket`, `NoBucket` and `OwnConsole` are the other values.  `MaxServices` 2 makes a
service that is deleted and one created anew under its name.  `MaxUpdates` bounds how often
a file is counted as updated: two tell an update from its repetition.  An automation may be run over its own result.  Other bounds of the modules: `--dry-run` and `--cloud` are not given
together; `--profile-file` names a file that is there; profiles are not called "console"; `Amend`
changes a key that is not part of the login; the worktrees are the clone and one outside; the updates of an automation
find what they change, also in their own result; others write only between
a look-up and its request; the console's application is never uninstalled; `Forget` drops fields
of a command that it will not use again.

**Fairness.**  `up_wedge` assumes that a started command goes on (an operating
system runs a process, and every step of a run ends: a command fails or succeeds) and
that the user starts `up` again while it has not succeeded; faults are not fair, and
bounded by `MaxMishaps`.  `ready` assumes that time passes, that the command is scheduled, and that
calls with a timeout return (`doTestDns` has ten seconds); nothing of the
calls in `CanHang`.  The other runs check safety only.  `CHECK_DEADLOCK FALSE` is set
only for `Readiness`, whose command ends, and for `ClusterBootstrap` and `Session`, where `MaxCommands`
stops the users; in the other models the user can always do
something.

## 4. Proofs

Every theorem holds for all values of the constants that the `ASSUME`s of its module allow.
Each safety theorem comes from an inductive invariant (`...Inv`), which TLC has checked on a small
instance before it was proved; `...InvHolds` is the theorem that it holds in every
reachable state.

**`plural up`** (`UpDeploy_proofs`), for all lists of addresses, all sets of faults and any number of mishaps:

| Theorem | |
|---|---|
| `TypeCorrect` | `TypeOK` |
| `CheckpointsAreTrue` | `RecordedWorkDone`: no checkpoint, in memory, on disk, in a commit or on origin, covers work that was not done |
| `StagesCompleteInOrder` | `StagesInOrder` |
| `RunsResumeCorrectly` | `Resumable` |
| `CheckpointsAdvance` | `DiskNeverRewinds`: the checkpoint on disk only advances, but for a clone and a write that stopped half way |
| `UpImplementsProtocol` | `ImplementsProtocol`, the refinement of `ResumableRun`; a torn `workspace.yaml` is a note that was lost |
| `SuccessMeansInstalled` | `FinishedIsInstalled`: what a successful run deploys exists, whichever stages it skipped |
| `SuccessLeavesItClean` | `OwnFinishIsClean`: the clean-up of a self-hosted workspace is complete and pushed |
| `NothingLiveIsDestroyed` | `LiveResourcesKept`: no apply destroys what is live, but for the cloned registration |

The argument for the checkpoints.  `StagesSorted` says that in each kind of run the checkpointed stages
stand in the order of `priorities`; it is the only place that looks at the tables.  The inductive
invariant `Inv` has two parts.  `ControlInv` is about the run: types, true
checkpoints in `mem` and `disk`, all checkpointed stages before `pos` in `ran`, `mem`
not behind `disk`.  None of the properties is inductive alone: that a completed stage
comes after all earlier ones needs to know that the stages already passed were performed,
and for a skipped stage that is the truth of `mem`, which was once `disk`.  `WorldInv` adds the
types of the world and the truth of the checkpoints in `head` and `remote`, which a clone
turns into `disk`.  Each way a run moves (`LeaveStage`, `MoveOn`, `Ends`, `GiveUp`, `StartUp`,
`SkipStage`, `Clone`) has a lemma for `ControlInv`; `RunMoves` reduces the actions of
`Next` to these, so that no proof goes through the two dozen actions twice.
The refinement reuses the same moves.

The argument for the world.  A run is not only at a stage but at an operation of it
(`StepInv`), and what a note says must be said of resources and files, not only of
the stages that were performed.  `SafeInv` adds, to `Inv`:

- `NotesInv`: origin's note is behind the commit's and that behind `workspace.yaml`'s, so that a clone
  goes back to a note that was true of the same files; a stage that was passed is covered by the note
  in memory.
- `FilesInv`: when `console.tf` and `plural.tf` are there.  Generation is never skipped and comes first, so
  that the files that declare the bootstrap resources are there at every apply, also in a run that follows a
  pruning which removed them; with `ManagedInv` (terraform's state holds nothing the files do not
  declare) an apply finds nothing to destroy.  The exception of `LiveResourcesKept` is the one place where
  this fails, and the proof shows it is the only one.
- `ImportInv` and `RealInv`: what the notes of the import, of `init` and of the apps mean for the
  resources, which holds for ever after since nothing live is destroyed.
- `PruneInv`: how far the pruning and the clean-up have come, address by address and file, commit, push.  That a
  rerun does not undo it needs that an apply is only reached by a run whose note does not cover the pruning.
- `SuccessInv`: a run that has succeeded is over.

`AtOperation` says of each stage which operation is at which index; `OwnOperations`, `CloudOperations`
and `ByokOperations` where each effect is found in each kind of run.  `Moves`, `TerraformMoves`,
`FilesMove` and `CopiesMove` reduce the actions to what they do to each part of the state.

**`plural up` and `plural down` in turn** (`UpDown_proofs`), under the same assumptions:

| Theorem | |
|---|---|
| `RegistrationSurvives` | `RegistrationKept` for as long as the work is not cloned (the run `up_down` has no clones) |
| `SuccessMeansReachable` | `FinishedMeansReachable`, unless a readiness check got no answer before its deadline |
| `SuccessfulDownDestroysAll` | `DownDestroysAll` |

What `down` destroys is no longer there for the notes to be true of, so `ImportInv`, `RealInv` and `PruneInv` fail here
(that is the finding `up_after_down`); `DownKeepsRun` shows what is kept.  `BothInv` adds
`DownInv` (when `down` destroys, it has forgotten the registration), `ReachInv` (a run past the stage that waits
for the console has one, or did not get an answer) and `ClusterInv`: `down` must destroy what terraform no longer manages, and does so by
destroying the cluster it runs in.  If the state holds no cluster, all that is live of the installation is
in the state still; and if a note says that the apps are there, either the cluster is in the state or nothing
is left.  Without that second part a pruning after a broken-off `down` could take out of the state what no cluster
holds.

**Readiness checks** (`Readiness_proofs`), for any list of checks, any of which may hang, and any deadline:
`ReadinessTypeCorrect` (`TypeOK`), `FailuresAreSeen` (`NoFailureLost`) and `WaitsAreBounded`: the command waits no
longer than the deadlines of the checks it has called, so `MaxClock` cuts no behaviour off.
`NoFailureLost` names the two ways past a check without a yes: no call came back, or the first one has just done so and
its error is not stored yet.  That there is no third needs to know of each goroutine, also those left behind, that it
sends only after a yes and that `resErr` is nil only in these two cases or after a yes (`AnswerInv`).

**Encryption** (`CryptoKeys_proofs`), for any users, keys and files and any number of commands killed anywhere:
`KeysTypeCorrect` (`TypeOK`), `WhoIsListedCanOpen` (`ListedCanOpen`), `KeysAreNeverLost` (`NoKeyLost`),
`SharesOnlyAdd` (`NobodyDropped`), `RepositoryKeepsItsKey` (`RepoKeyFixed`), `SharedKeysOpen` (`SharedKeyOpens`).  `KeysInv` adds to what the properties say where a command stands: a share at its
sealing has the repository's key, if there is one, and seals it for whoever was listed (`ShareInv`); a command about to
overwrite the key file has saved the key it replaces, or holds one that the server has (`SetupInv`).
`SharedInv` adds for the last of them what makes a share that began with a torn key file, or was killed, come to nothing:
whoever is listed has a whole identity, somebody is listed when a share comes to `crypto.yml`, and the sharing user must open
the key then.

**Agent sessions** (`AgentSession_proofs`), for any providers and any number of pushes: `AgentTypeCorrect` (`TypeOK`),
`ProvidersAreLaunchedAsPrepared` (`LaunchedAsPrepared`), `UncommittedWorkStays` (`WorkStaysOnItsBranch`),
`OverwritesAreAgreedTo` (`OverwritesOnlyAfterYes`).  `AgentInv` says of the running command that it switches only in a
clean clone, is on the validated branch from the validation on, and has the session file either from the
archive, still to copy, or not to replace.

**Clusters and their operators** (`ClusterBootstrap_proofs`), for any clusters and handles, any number of records and
commands: `BootstrapTypeCorrect` (`TypeOK`), `OperatorsHaveTheirOwnRecord` (`OwnRecord`),
`OperatorsReportUnderTheirToken` (`LiveTokenHasItsId`), `PendingReleasesStay` (`AbandonedForGood`).  `BootstrapInv` says
that a record is never numbered anew, that a token a command holds goes with its record's id or with none as long as
the record lives, and that what two clusters' commands and operators claim as their own is disjoint.

Three assumptions were found by proving, and are the code's.  `IdsAreDigests`: no key's id, a digest, is one of the words
`crypto.yml` may hold in its place.  `HandlesAreNames`: a handle is never taken for the
id of a record, as `GetIdAndName` (`pkg/common/common.go:201`) tells them apart by the `@`; without it a token could be asked
of the wrong record.  `PrunedAssumption`: neither the cluster nor its registration is among the addresses
`Prune` removes (`toRemove`, `pkg/up/prune.go:26`); with them there, `down` would leave the cluster behind.

**Sessions** (`Session_proofs`, `Workspace_proofs`), for any set of users, service accounts, buckets and consoles and any
number of commands, from the `ASSUME`s of `Machine` and `Services` only:

| Theorem | |
|---|---|
| `MovesAreWhole` | `PrSpec => MovedWhole`: automations by themselves |
| `SessionMovesAreWhole` | `Spec => MovedWhole`: the same beside every other command |
| `SessionStoresAsAsked` | `StoredAsAsked`: what is stored was asked for, but the service account that `init` shows as the current user |
| `SessionImagesAreOfTheirRun` | `ImageIsOfItsRun` |
| `SessionKeepsConsoles` | `EarlierConsolesWork` |
| `SessionUpdatesKeepTheRest` | `UpdateKeepsTheRest` |
| `SessionDeploysPrepared` | `ReadyToDeploy` |
| `SessionDomainIsOwners` | `DomainIsOwners` |
| `SessionTypeCorrect` | `TypeOK` |

The argument for automations.  `MovedWhole` is about one step, the deletion of a whole source: what it was made into must
be whole and updated once, or its creation was left out by a condition.  `PrInv` says why it is.  As long as the source is
whole and no creation was left out, `Ready` states for each place of "move" what the destination is: before its updates it
is whole, before the deletions updated once as well.  `CommandInv` adds the shape of the commands.  Every phase is one of a few moves
(`StaysInv`, `ChangesInv`).  A kill is harmless because a rerun starts over while the source is there: it makes the
destination anew, so that updates are not applied twice to it, and the source goes last.  A copy of the
templates that was cut short leaves a torn source, which later automations move and delete: the property is about
whole ones, and section 5 says so.

The argument for sessions.  Six components write one `cmd`, and a property of one holds beside
the others only if no other command is ever taken for its own.  `Shape` says which fields a command has
by the place it is at (the places of the components are disjoint but for those they share), `NextSessionInv`
that every step keeps that, and `StepLands` which component's steps lead to which place.  To this each
theorem adds what its component's commands carry: `EdgeInv` (configuration and volume have this run's content from their
step on), `PlaneInv` (a command that makes values anew has the key and the address of the file it will replace),
`ServInv` (what was looked up is a service).  Steps of the component keep its invariant by a lemma of its own, all
others by `StepLands`: they do not reach its places and leave its variables alone.

The argument for the workspace.  What `up` deploys is prepared by steps that are far from each other, and the files
they write outlive the command.  `Ground` is what all of it rests on: the shapes, `PathInv` (which command may be at
which place, and where it goes when it has logged in or upgraded a file), `FoundInv` (a manifest about to be read is there),
and the types of the files and of what a command holds.  On it stand

- `ReadyInv`: from `Build` on, `workspace.yaml` of the current directory is the manifest in memory and names a provider;
  from `Generate` on, the credentials are in `context.yaml`; at the deployment the bucket, the resource group and the
  storage account exist.  `CloudInv`: a console that `--cloud` validated stays.
- `HeldInv`: the subdomain of a manifest, on disk or in memory, is registered for the owner the manifest names.  It holds
  because a survey names as owner the e-mail of the login whose token registers the subdomain, which are one user's
  in every login the program writes (`LoginsAre`), and nobody takes a subdomain that another holds (`HolderStays`).
- `ClientInv`: from the making of the client to its last use, in a workspace that is set up, it speaks for the owner.
- `StoreInv`: the login about to be stored is the one asked for, or the one that `init` holds in memory.  It needs
  `Ground` for what logins are, and `MemInv`: of the commands that come to a login, only `init` has impersonated anybody.
- `AllTyped`: `Ground`, the invariants of the other components and what types need beside them: commands are counted
  when they start (`CountInv`), the user has been asked wherever an answer is used (`AskedInv`), and a command that is
  about to merge an OIDC client has one (`PlaneTyped`).

Only model-checked: `WorkspaceFixed` of `Session`; and the liveness
properties `FinishesOrWedges`, `WedgedForGood` and `Terminates`, which are out of the prover's reach.  (`WedgedForGood`
is a safety property in the form of a temporal formula; its reason is a case analysis over all that a later run may
do, which TLC makes.)

## 5. What the models leave out

In `up`: what `Backfill` and the prompts ask; the content of templates; a terraform
process killed between creating a resource and storing it; `--cloud` on a BYOK
workspace, where `Generate` and `Deploy` return at once (`pkg/up/deploy.go:63`,
`generate.go:25`); `down` of a cloud workspace without `--cloud`; two commands at once.

In `CryptoKeys`: `crypto unlock`, `decrypt` and `random`; two processes that draw a key at the
same time; `HandleClone` of `pkg/common`.  `NoKeyLost` excepts `crypto import`, because there the code does not keep it:
`import` overwrites the key file without a backup.  No property says that the fingerprint of `.keyid` is obeyed: all
encryption goes through the one guard of `Builds`, and with an unreadable `crypto.yml` `Build` falls back to the
local key before it looks at `.keyid` (`pkg/crypto/config.go:61`).

In `AgentSession`: leftovers in the directory an archive is unpacked into; the user
working in the clone while the command runs; what the archive's entries are called.

In `ClusterBootstrap`: two commands against one cluster at once; the download of the chart and the
helm repositories with their lock (`pkg/helm/helm.go:49`); the values' templates; agent URLs;
`--metadata`; an `install --force` whose `--cluster-id` is not the token's cluster (no code compares them).

In `Identity`: the wording of prompts; `access_token` endpoints; the endpoint of a login; what an `import` does to the
encryption key, which is `crypto import` of `CryptoKeys`.

In `Workspace`: bundles, SMTP and buckets of `context.yaml`, which no command of the
repository sets; kube configs and node decommissioning; what preflights do beside
failing or not: permission checks, and the services of the project that gcp's preflight enables
(`pkg/provider/gcp/validation.go:23`), which no model reads; `plural clone`.  The deployment itself is `UpDeploy`, which starts where
`Workspace` has `deploy`; the two are not composed, since `UpDeploy` reads of the
manifest the provider's kind and the checkpoint only.

In `Services` and the other cd resources: commands that are one request (contexts, credentials, notifications, pipelines,
providers, repositories, settings) and those that only read (`describe` of others, `eject`, `template`, `lua`,
`tarball`).  `cd clusters create|update|delete` by themselves.

In `PullRequest`: what lua scripts compute; `create` and `trigger`, which are one request each;
updates and deletes of directories.  In `ControlPlane`: the survey of the cloud settings.  In `EdgeImage`: `flash` and `download`,
which copy from one source to one device or directory; an image that is half unpacked into the volume counts
as unpacked.

Not modelled at all: workbenches, stacks, templates, the Kubernetes wrapper, command
tables and helpers, for the reasons `PROJECT.json` gives with each.

### Behaviour met while modelling that no run is about

- The BYOK run applies `terraform/mgmt` twice, the second time without retries (`deploy.go:275`).
- `stateRmBestEffort` ignores every error of `state rm`, not only a missing address
  (`prune.go:79`).
- `down` of a BYOK workspace leaves the console running: `pruneBYOK` took it out of the
  state that `destroy` works on.
- `down` repeats `state rm` on a rerun, which terraform refuses: a cloud `down` whose
  `destroy` failed cannot be completed by `down` (`deploy.go:157`).
- The dead ends of `up` (`Wedged`): a push that fails after its commit, a pruning
  that stops between two addresses, a kill after a pruning or an import and before the flush, and a write of
  `workspace.yaml` that stopped after it truncated the file, which loses the checkpoint and the manifest.
- The error of that write is dropped (`deploy.go:74`): a run on a full disk succeeds and leaves no workspace.
- A failure is lost when a deadline of `retrier` falls between the return of the first call and the assignment of
  its error (`ping.go:112`, `:118`).
- `workspace.yaml` is committed with the checkpoint before the commit's own.
- After a readiness timeout the goroutine of `retrier` stays blocked on its channel.
- A torn `~/.plural/key` or `identity` is never repaired: `Materialize` and `SetupIdentity`
  take a file that exists as it is, and a share seals the nil key it reads.
- A user who shares after another user's share was killed between the sealed key and
  `identities.yml` drops the members only the sealed key knew.
- `crypto fingerprint` records the local key even where the repository's is another.
- Codex and Gemini remove local session files before they copy the archive's.
- A resume that applied a patch leaves the clone dirty: the next one refuses.
- `cd uninstall` returns without an error and without removing anything when a kill left the release
  pending, and every reinstallation is refused: no command of the CLI repairs it (`AbandonedForGood`).
- `cd clusters reinstall` may install an operator with an empty token: `GetDeployToken` makes an
  absent token the empty one, which bootstrap checks for (`cd_clusters.go:545`) and reinstall does not.
- After a record was deleted and created anew during a reinstall, the operator has the dead
  token with the new record's id; never a live token with another's id.
- `edge bootstrap` is refused its handle when it is run again after a failed installation,
  and its wait for the registration has no end.
- `PLURAL_INSTALL_AGENT_CONFIRM_IF_EXISTS` answers two different questions (`cd_clusters.go:534`, `plural.go:217`).
- Login and workspace: `init` in a subdirectory of a service account's repository stores the service
  account's login after a yes, over the user's own (`StoredAsAsked` names it).  A torn `config.yml` is read as an empty
  login, and `config amend` stores that.  A profile with only a token makes an owner "" that locks the workspace.
  `auth oidc` and `config import` lose the endpoint.  A profile saved as "console" overwrites `console.yml`.
  The login poll ignores every error for ever (`pkg/common/common.go:64`).
- An empty or torn `workspace.yaml` is an empty manifest: `init` takes it as "already
  initialized" and every `up` fails at `Build`.  A `pr` command killed while it asks leaves such a file,
  also above a clone.
- `gcp.WithManifest` writes what it upgrades to the nearest `workspace.yaml` (`pkg/provider/gcp/option.go:65`), wherever
  it was read: `cd control-plane-values` in a subdirectory with a workspace of its own reads the root's
  (`pkg/cd/control_plane_install.go:88`) and, if that has no region, overwrites the subdirectory's with it.
- A torn `context.yaml` makes `Backfill` panic in every later run.
- The survey of azure offers storage accounts of other resource groups; every rerun then fails.
- A dry run's manifest is what a later real `up` uses, and the credentials it took unverified are trusted later.
- `up` in a subdirectory always fails at `Build`.  `up --cloud` keeps the `console.yml` of another instance
  after a yes, and a rerun on BYOK installs the operator in whatever kube context is current.
- After a kill in source control set-up the repository's name is taken and its key is lost.
- `cd services update` finds the service by name once more: it puts the configuration it
  read on a service recreated under that name, and reverts what others wrote in between.  A service without
  a repository makes it panic.
- `contracts` prints the errors of its copy of templates and goes on; killed in it, it leaves a torn template that the
  next automation moves and deletes.  A creation that its condition leaves out does not keep the deletes from going on.
- A kill in an update of an automation leaves the file empty and a rerun does not restore it; appended overlays and
  regexes that match their own result are applied again by a rerun.  The walk visits `.git` too.  `contracts` with an
  external directory and no creates panics; the CRD form of `pr test` drops lua and vendoring.
- `edge image` leaves its volume after a kill or a failing `docker volume rm`, and a later image has its
  remnants; `CopyDir` prints copy errors and reports success; a failing run leaves its bootstrap token.
  `edge download` writes over a previous image without truncating it.
- `cd control-plane` run twice overwrites the values with a new database key; a torn values file loses it.
  `SetupOIDC` reverts what others bind between its read and its write.
- `cd clusters create` passes the provider's name where its cloud is meant.
- A handle moved by `cd clusters update --handle` between the two requests of `ReinstallOperator` is left out of
  `ClusterBootstrap`.

## 6. Plan

1. `ClusterBootstrap` further: `AddRepo` under its lock, where one command must not lose another's
   repository; `cd clusters create|update|delete`; agent URLs.
2. `CryptoKeys` with two processes that draw a key at once, and git's filters in the commits of `UpDeploy`.
3. Composition of `Workspace` with `UpDeploy` through the manifest and the checkpoint, once either reads more of the other.
4. Proofs: `WorkspaceFixed` of `Session` on top of `Ground` (it needs that a manifest in memory is the one on disk
   wherever it is written back); `WedgedForGood` as an inductive invariant.  `RECURSIVE`
   operators are avoided in all of these.
