------------------------------ MODULE Workspace ------------------------------
(***************************************************************************)
(* Setting a workspace up: `plural init`, and `plural up` as far as its    *)
(* deployment (UpDeploy takes over there).  The login of Identity becomes  *)
(* the owner of the workspace; a survey of a cloud provider, the source    *)
(* control set-up and the credentials of the repository come before        *)
(* workspace.yaml, context.yaml and the bucket for the terraform state.    *)
(***************************************************************************)
EXTENDS Identity, Services

VARIABLES
    remote, \* the repository at the source control provider
    holder, \* the user the workspace's subdomain is registered for
    cloud   \* the resource group, the storage account and the buckets made

outside == <<clone, remote, holder, cloud>>

\* https: with an http remote URL; key: there is a deploy key; commits: it can
\* be cloned
Remote == [https : BOOLEAN, key : BOOLEAN, commits : BOOLEAN]

\* the repository's credentials that context.yaml has: a key or a token
Credentials == {"none", "ssh", "https"}

WorkspaceTypeOK ==
    /\ yaml \in [Dir -> {Absent} \union File(Manifest)]
    /\ context \in [Dir -> {Absent, Torn} \union File(Credentials)]
    /\ clone \in BOOLEAN
    /\ remote \in {Absent} \union File(Remote)
    /\ holder \in User \union {NoUser}
    /\ cloud \in [group : BOOLEAN, account : BOOLEAN, buckets : SUBSET (Bucket \union {DryBucket})]

\* the file that ProjectManifestPath names, and what it holds
ProjectFile == yaml[ProjectDir(cmd.cwd)]

-----------------------------------------------------------------------------
(* The API client                                                          *)

\* what a command wants its client for
ClientFor == CASE cmd.name = "oidc" -> "exchange"
               [] cmd.name = "control-plane-values" -> "values"
               [] cmd.cloud -> "choose"
               [] OTHER -> "preflight"

\* mutant: the owner of the workspace is not looked at
ClientAsStored ==
    /\ At("client")
    /\ Becomes([cmd EXCEPT !.at = ClientFor, !.client = Read.token])
    /\ UNCHANGED <<files, outside>>

\* InitPluralClient and AssumeServiceAccount: in a workspace of another user
\* the command impersonates the owner, and ends if it may not
InitPluralClient ==
    LET owned == ProjectFile # Absent /\ ConfigFile # Absent
                   /\ ProjectFile.has.prov # NoProvider
        owner == ProjectFile.has.owner
    IN
    /\ At("client")
    /\ IF owned /\ Read.email # owner
       THEN /\ Read.token \in Trusted /\ owner \in Robot
            /\ Becomes([cmd EXCEPT !.at = ClientFor, !.mem = As(owner), !.client = owner])
       ELSE Becomes([cmd EXCEPT !.at = ClientFor, !.client = Read.token])
    /\ UNCHANGED <<files, outside>>

-----------------------------------------------------------------------------
(* A console of Plural's cloud                                             *)

\* choseCluster; the login that follows is Services' HandleCdLogin
ChoseCluster ==
    /\ At("choose")
    /\ \E i \in Instance :
         Becomes([cmd EXCEPT !.at = "console login", !.next = "validate", !.pick = i])
    /\ UNCHANGED <<files, outside>>

\* ValidateConsoleConfig: console.yml names one of the account's consoles, not
\* necessarily the one that was chosen
ValidateConsoleConfig ==
    /\ At("validate") /\ console.is = "file" /\ console.has \in Instance
    /\ Becomes([cmd EXCEPT !.at = "preflight", !.next = "end", !.pick = OwnConsole])
    /\ UNCHANGED <<files, outside>>

-----------------------------------------------------------------------------
(* `plural init`                                                           *)

\* wkspace.Preflight: outside of a repository a dry run ends, `up` and `init`
\* go on; "./workspace.yaml" decides whether the workspace is set up
Preflight ==
    /\ At("preflight") /\ ~(cmd.cwd = "outside" /\ cmd.dry)
    /\ IF HasYaml(cmd.cwd) THEN Goto("ensure")
       ELSE IF cmd.name = "up" THEN Goto("provider")
       ELSE Becomes([cmd EXCEPT !.at = "login", !.next = "provider"])
    /\ UNCHANGED <<files, outside>>

\* bound: what the command is past using is forgotten
Forget(c) == [c EXCEPT !.mem = Nobody, !.pf = FALSE, !.client = NoUser, !.next = "end"]

\* CreateDomain takes a subdomain nobody has or the user has already.
MayHold(u) == u # NoUser /\ holder \in {NoUser, u}

\* ensureWorkspace: the subdomain is registered again and workspace.yaml is
\* written anew with the branch, which there is none of outside of a repository
EnsureWorkspace ==
    LET man == ProjectFile.has IN
    /\ At("ensure") /\ cmd.cwd # "outside"
    /\ man.domain => MayHold(cmd.client)
    /\ holder' = IF man.domain THEN cmd.client ELSE holder
    /\ Becomes([Forget(cmd) EXCEPT !.at = "write", !.man = man, !.writer = TRUE])
    /\ UNCHANGED <<files, clone, remote, cloud>>

-----------------------------------------------------------------------------
(* The provider and its survey                                             *)

\* FromManifest; the manifest of a legacy gcp deployment is written anew
FromManifest(man, place) ==
    /\ man.prov # NoProvider
    /\ IF man.prov = "gcp" /\ ~man.located
       THEN Becomes([Forget(cmd) EXCEPT !.man = [man EXCEPT !.located = TRUE],
                                !.at = "upgrade", !.next = place])
       ELSE Becomes([Forget(cmd) EXCEPT !.man = man, !.at = place])
    /\ UNCHANGED <<files, outside>>

\* gcp.WithManifest: up to three writes in place
UpgradeManifest ==
    LET d == ProjectDir(cmd.cwd) IN
    \/ /\ At("upgrade") /\ Goto("upgrading")
       /\ yaml' = [yaml EXCEPT ![d] = Holding(EmptyManifest)]
       /\ UNCHANGED <<home, context, outside>>
    \/ /\ At("upgrading") /\ Goto(cmd.next)
       /\ yaml' = [yaml EXCEPT ![d] = Holding(cmd.man)]
       /\ UNCHANGED <<home, context, outside>>

\* mutant: only the current directory is looked at
ProviderHere ==
    /\ At("provider")
    /\ IF HasYaml(cmd.cwd)
       THEN FromManifest(yaml[cmd.cwd].has, "preflights")
       ELSE \E p \in Provider :
              /\ Becomes([cmd EXCEPT !.at = "survey", !.man.prov = p])
              /\ UNCHANGED <<files, outside>>

\* GetProvider: a workspace.yaml further up comes before the survey
GetProvider ==
    /\ At("provider")
    /\ IF ProjectFile # Absent
       THEN FromManifest(ProjectFile.has, "preflights")
       ELSE \E p \in Provider :
              /\ Becomes([cmd EXCEPT !.at = "survey", !.man.prov = p])
              /\ UNCHANGED <<files, outside>>

\* the manifest of a dry run: a provider and an owner
DryManifest(p) ==
    [EmptyManifest EXCEPT !.prov = p, !.owner = Read.email,
                          !.bucket = IF p = "gcp" THEN DryBucket ELSE NoBucket]

Surveyed(man) == Becomes([Forget(cmd) EXCEPT !.man = man, !.writer = TRUE, !.at = "preflights"])

Unanswered == Becomes([Forget(cmd) EXCEPT !.at = "preflights"])

\* Configure and ConfigureNetwork: a random bucket with --cloud; otherwise a
\* bucket of the user's naming and a subdomain, which is registered at once.
\* When one of these questions fails there is no writer, and no error either.
Configure(man) ==
    \/ /\ cmd.cloud /\ \E b \in Bucket : Surveyed([man EXCEPT !.bucket = b])
       /\ UNCHANGED <<files, outside>>
    \/ /\ ~cmd.cloud /\ MayHold(Read.token) /\ holder' = Read.token
       /\ \/ \E b \in Bucket : Surveyed([man EXCEPT !.bucket = b, !.domain = TRUE])
          \/ Unanswered
       /\ UNCHANGED <<files, clone, remote, cloud>>
    \/ ~cmd.cloud /\ Unanswered /\ UNCHANGED <<files, outside>>

\* what every survey starts from
Fresh(p, account) == [EmptyManifest EXCEPT !.prov = p, !.owner = Read.email,
    !.full = TRUE, !.account = account, !.located = TRUE]

Surveying(p) == At("survey") /\ cmd.man.prov = p

SurveyDry ==
    /\ At("survey") /\ cmd.dry
    /\ Surveyed(DryManifest(cmd.man.prov)) /\ UNCHANGED <<files, outside>>

\* mkAWS
SurveyAws ==
    /\ Surveying("aws") /\ ~cmd.dry
    /\ Configure(Fresh("aws", FALSE))

\* WithConfig
SurveyGcp ==
    /\ Surveying("gcp") /\ ~cmd.dry
    /\ Configure(Fresh("gcp", FALSE))

\* The survey of azure offers a new name, or any resource group and any storage
\* account of the subscription, whether or not the one lies in the other.
AskAzure == BOOLEAN

\* mkAzure
SurveyAzure ==
    /\ Surveying("azure") /\ ~cmd.dry
    /\ \E account \in AskAzure : Configure(Fresh("azure", account))

\* mkBYOK: the domain is the user's own
SurveyByok ==
    /\ Surveying("byok") /\ ~cmd.dry
    /\ Surveyed(Fresh("byok", FALSE)) /\ UNCHANGED <<files, outside>>

Survey == SurveyDry \/ SurveyAws \/ SurveyGcp \/ SurveyAzure \/ SurveyByok

\* RunPreflights: a survey or a preflight that failed is ignored with
\* --ignore-preflights; then setup of a repository outside of one, or on
RunPreflights ==
    LET then == IF cmd.cwd = "outside" THEN "repo" ELSE "manifest" IN
    /\ At("preflights") \/ (At("survey") /\ ~cmd.dry)
    /\ Becomes([Forget(cmd) EXCEPT !.at = then])
    /\ UNCHANGED <<files, outside>>

-----------------------------------------------------------------------------
(* Source control                                                          *)

\* The repository is created, if its name is free, and then gets the public
\* half of a key that only the running command has.
CreateRepository(commits, next) ==
    /\ At("repo") /\ remote = Absent
    /\ remote' = Holding([https |-> FALSE, key |-> FALSE, commits |-> commits])
    /\ Goto(next)
    /\ UNCHANGED <<files, clone, holder, cloud>>

AddDeployKey(place, next) ==
    /\ At(place)
    /\ remote' = [remote EXCEPT !.has.key = TRUE] /\ Goto(next)
    /\ UNCHANGED <<files, clone, holder, cloud>>

\* with a first commit (AutoInit); three attempts at the key
GithubSetup ==
    CreateRepository(TRUE, "github key") \/ AddDeployKey("github key", "clone")

GitlabSetup ==
    CreateRepository(TRUE, "gitlab key") \/ AddDeployKey("gitlab key", "clone")

\* bitbucket's repository is empty until its README is there, after the key
BitbucketSetup ==
    \/ CreateRepository(FALSE, "bitbucket key") \/ AddDeployKey("bitbucket key", "readme")
    \/ /\ At("readme")
       /\ remote' = [remote EXCEPT !.has.commits = TRUE] /\ Goto("clone")
       /\ UNCHANGED <<files, clone, holder, cloud>>

\* scm.Setup clones with the new key, changes into the clone and writes
\* context.yaml, first truncated; the star is a question of its own
Clone ==
    /\ At("clone") /\ ~clone /\ remote.has.commits
    /\ clone' = TRUE /\ Becomes([cmd EXCEPT !.cwd = "root", !.at = "context"])
    /\ UNCHANGED <<files, remote, holder, cloud>>

BuildContext ==
    \/ /\ At("context") /\ Goto("contexting")
       /\ context' = [context EXCEPT !["root"] = Torn]
       /\ UNCHANGED <<home, yaml, outside>>
    \/ /\ At("contexting") /\ Goto("manifest")
       /\ context' = [context EXCEPT !["root"] = Holding("ssh")]
       /\ UNCHANGED <<home, yaml, outside>>

-----------------------------------------------------------------------------
(* workspace.yaml                                                          *)

Configured == IF cmd.name = "init" THEN "end" ELSE "domain"
Leave(place) ==
    IF place = "end" THEN End
    ELSE Becomes([Forget(cmd) EXCEPT !.at = place, !.writer = FALSE, !.man = EmptyManifest])

\* prov.Flush: nothing to write without a writer; FetchProject must then find
\* a file all the same
FlushProvider ==
    /\ At("manifest")
    /\ \/ cmd.writer /\ Goto("write")
       \/ ~cmd.writer /\ ProjectFile # Absent /\ Leave(Configured)
    /\ UNCHANGED <<files, outside>>

\* ProjectManifest.Write: the file is empty before it is written, and an
\* empty file reads as an empty manifest
WriteManifest ==
    LET d == ProjectDir(cmd.cwd) IN
    \/ /\ At("write") /\ Goto("written")
       /\ yaml' = [yaml EXCEPT ![d] = Holding(EmptyManifest)]
       /\ UNCHANGED <<home, context, outside>>
    \/ /\ At("written") /\ Leave(Configured)
       /\ yaml' = [yaml EXCEPT ![d] = Holding(cmd.man)]
       /\ UNCHANGED <<home, context, outside>>

\* askAppDomain and processAppDomain, not in a dry run: the manifest is
\* written again when a domain is given
AskAppDomain ==
    LET d == ProjectDir(cmd.cwd) IN
    \/ /\ At("domain") /\ Goto("build") /\ UNCHANGED <<files, outside>>
    \/ /\ At("domain") /\ ~cmd.dry
       /\ Becomes([cmd EXCEPT !.man = yaml[d].has, !.at = "naming"])
       /\ yaml' = [yaml EXCEPT ![d] = Holding(EmptyManifest)]
       /\ UNCHANGED <<home, context, outside>>
    \/ /\ At("naming")
       /\ Becomes([cmd EXCEPT !.at = "build", !.man = EmptyManifest])
       /\ yaml' = [yaml EXCEPT ![d] = Holding(cmd.man)]
       /\ UNCHANGED <<home, context, outside>>

-----------------------------------------------------------------------------
(* The rest of `up` before the deployment                                  *)

\* up.Build reads the workspace.yaml of the current directory.
Build ==
    /\ At("build") /\ HasYaml(cmd.cwd)
    /\ FromManifest(yaml[cmd.cwd].has, IF cmd.cloud THEN "cluster" ELSE "backfill")

\* getCluster, with the credentials of console.yml; a BYOK cluster gets its
\* operator here (ClusterBootstrap)
GetCluster ==
    /\ At("cluster") /\ console.is = "file"
    /\ Goto("backfill") /\ UNCHANGED <<files, outside>>

\* mutant: any context.yaml will do
BackfillAny ==
    LET c == context[cmd.cwd] IN
    /\ At("backfill") /\ c # Torn
    /\ IF c # Absent THEN Goto("generate") ELSE Goto("credentials")
    /\ UNCHANGED <<files, outside>>

\* Backfill: a context with credentials is taken as it is; a torn one reads
\* as no context and no error, and the command panics
Backfill ==
    LET c == context[cmd.cwd] IN
    /\ At("backfill") /\ c # Torn
    /\ IF c # Absent /\ c.has # "none" THEN Goto("generate")
       ELSE Goto("credentials")
    /\ UNCHANGED <<files, outside>>

\* backfillHTTPS asks for a token, backfillSSH for a key file; one that does
\* not open the repository ends the command
Ask(kind) ==
    /\ Becomes([cmd EXCEPT !.at = "backfilled", !.cred = kind])
    /\ context' = [context EXCEPT ![cmd.cwd] = Torn]
    /\ UNCHANGED <<home, yaml, outside>>

BackfillHTTPS == At("credentials") /\ remote.has.https /\ Ask("https")
BackfillSSH   == At("credentials") /\ ~remote.has.https /\ Ask("ssh")

\* Context.Write
WriteContext ==
    /\ At("backfilled")
    /\ Becomes([cmd EXCEPT !.at = "generate", !.cred = "none"])
    /\ context' = [context EXCEPT ![cmd.cwd] = Holding(cmd.cred)]
    /\ UNCHANGED <<home, yaml, outside>>

\* Generate and the question whether to deploy: UpDeploy; a dry run ends here
Generate ==
    /\ At("generate")
    /\ IF cmd.dry THEN End ELSE Goto("bucket")
    /\ UNCHANGED <<files, outside>>

\* mutant: whatever workspace.yaml names is created
BucketUnnamed ==
    /\ At("bucket") /\ cmd.man.prov \in {"aws", "gcp"}
    /\ cloud' = [cloud EXCEPT !.buckets = @ \union {cmd.man.bucket}]
    /\ Goto("deploy")
    /\ UNCHANGED <<files, clone, remote, holder>>

\* mkBucket and createBucket: a bucket that cannot be read is created
CreateBucket ==
    /\ At("bucket") /\ cmd.man.prov \in {"aws", "gcp"}
    /\ cmd.man.bucket # NoBucket
    /\ cloud' = [cloud EXCEPT !.buckets = @ \union {cmd.man.bucket}]
    /\ Goto("deploy")
    /\ UNCHANGED <<files, clone, remote, holder>>

\* CreateBucket of azure: get or create, one after the other, the resource
\* group, the storage account, unless it belongs to another group, and the
\* container
AzureGroup ==
    /\ At("bucket") /\ cmd.man.prov = "azure" /\ cmd.man.full
    /\ ~cloud.group /\ cloud' = [cloud EXCEPT !.group = TRUE]
    /\ UNCHANGED <<files, cmd, started, clone, remote, holder>>

AzureAccount ==
    /\ At("bucket") /\ cmd.man.prov = "azure" /\ cmd.man.account
    /\ cloud.group /\ ~cloud.account
    /\ cloud' = [cloud EXCEPT !.account = TRUE]
    /\ UNCHANGED <<files, cmd, started, clone, remote, holder>>

AzureContainer ==
    /\ At("bucket") /\ cmd.man.prov = "azure" /\ cmd.man.account
    /\ cloud.group /\ cloud.account
    /\ cloud' = [cloud EXCEPT !.buckets = @ \union {cmd.man.bucket}]
    /\ Goto("deploy")
    /\ UNCHANGED <<files, clone, remote, holder>>

ByokBucket ==
    /\ At("bucket") /\ cmd.man.prov = "byok"
    /\ Goto("deploy") /\ UNCHANGED <<files, outside>>

\* the deployment itself: UpDeploy
Deployed == At("deploy") /\ End /\ UNCHANGED <<files, outside>>

\* bound: --dry-run and --cloud are not given together
StartWorkspace ==
    \E d \in Dir, pf \in ProfileFile :
        /\ d # "outside" => clone
        /\ \/ Start(Command("init", "client", d, pf))
           \/ \E dry, cld \in BOOLEAN :
                /\ ~(dry /\ cld)
                /\ Start([Command("up", "login", d, pf) EXCEPT
                            !.next = "client", !.dry = dry, !.cloud = cld])

WorkspaceNext ==
    \/ InitPluralClient \/ ChoseCluster \/ ValidateConsoleConfig
    \/ Preflight \/ EnsureWorkspace
    \/ GetProvider \/ UpgradeManifest \/ Survey \/ RunPreflights
    \/ GithubSetup \/ GitlabSetup \/ BitbucketSetup
    \/ Clone \/ BuildContext
    \/ FlushProvider \/ WriteManifest \/ AskAppDomain
    \/ Build \/ GetCluster \/ Backfill \/ BackfillHTTPS \/ BackfillSSH \/ WriteContext
    \/ Generate \/ CreateBucket \/ AzureGroup \/ AzureAccount
    \/ AzureContainer \/ ByokBucket \/ Deployed

-----------------------------------------------------------------------------
(* Properties                                                              *)

\* A workspace that was surveyed is never surveyed again: whatever commands
\* run in and below it, its provider, owner, bucket and account stay.  It is
\* only ever emptied to be written as it was, with the locations if it is a
\* legacy one.  (But for `control-plane-values` in a workspace that lies in
\* another one: gcp.WithManifest writes the outer one's manifest over it.)
WorkspaceFixed ==
    [][\A d \in Dir : HasYaml(d) /\ yaml[d].has.full =>
         \/ yaml'[d] = yaml[d]
         \/ /\ yaml'[d] = Holding(EmptyManifest)
            /\ \/ cmd'.man \in {yaml[d].has, [yaml[d].has EXCEPT !.located = TRUE]}
               \/ cmd.name = "control-plane-values" /\ d = "sub" /\ HasYaml("root")]_yaml

\* The subdomain that workspace.yaml names is registered for its owner, and
\* every later run of init and up, which registers it again, does that as the
\* owner, whoever runs it, or without a login, which fails.  (The survey of a
\* user whose profile has only a token names no owner.)
DomainIsOwners ==
    /\ \A d \in Dir : HasYaml(d) /\ yaml[d].has.domain /\ yaml[d].has.owner # NoUser
         => holder = yaml[d].has.owner
    /\ At("ensure") /\ ProjectFile.has.prov # NoProvider /\ ConfigFile # Absent
         => \/ cmd.client \in {ProjectFile.has.owner, NoUser}
            \/ ProjectFile.has.owner = NoUser

\* `up` deploys with what was prepared: the bucket of the workspace.yaml it
\* runs in is there, its storage account lies in its resource group, the
\* repository's credentials are in context.yaml, and with --cloud the console
\* it imports is one of the account's.
ReadyToDeploy ==
    At("deploy") =>
        /\ HasYaml(cmd.cwd) /\ yaml[cmd.cwd].has.prov # NoProvider
        /\ yaml[cmd.cwd].has.prov # "byok" => yaml[cmd.cwd].has.bucket \in cloud.buckets
        /\ yaml[cmd.cwd].has.prov = "azure" => cloud.group /\ cloud.account
        /\ context[cmd.cwd].is = "file" /\ context[cmd.cwd].has # "none"
        /\ cmd.cloud => console.is = "file" /\ console.has \in Instance
=============================================================================
