------------------------------- MODULE Machine -------------------------------
(***************************************************************************)
(* What the commands of the Plural CLI share on the machine they run on:   *)
(* the files at home and in the workspace, and the command that is         *)
(* running.  One command runs at a time and may be killed anywhere; a file *)
(* is truncated before it is filled (os.WriteFile).                        *)
(***************************************************************************)
EXTENDS Naturals

CONSTANTS
    Person,     \* Plural users with a browser
    Robot,      \* service accounts
    Trusted,    \* the people allowed to impersonate service accounts
    Bucket,     \* names of state buckets
    Instance,   \* the account's cloud consoles
    MaxCommands \* bound: commands ever started

ASSUME TrustedPeople == Trusted \subseteq Person
ASSUME CommandBound == MaxCommands \in Nat

User == Person \union Robot

VARIABLES
    config,  \* ~/.plural/config.yml
    profile, \* a saved profile, ~/.plural/<name>.yml
    console, \* ~/.plural/console.yml: the console that commands talk to
    yaml,    \* [dir] its workspace.yaml
    context, \* [dir] its context.yaml
    clone,   \* whether there is a clone of the repository in "root"
    cmd,     \* the running command
    started  \* commands started so far

home  == <<config, profile, console>>
files == <<home, yaml, context>>

NoUser  == "nobody"
Absent  == [is |-> "absent"]
Torn    == [is |-> "torn"]
File(S) == [is : {"file"}, has : S]
Holding(x) == [is |-> "file", has |-> x]

\* a login: the user its email names and the user its token belongs to
Login  == [email : User \union {NoUser}, token : User \union {NoUser}]
Nobody == [email |-> NoUser, token |-> NoUser]
As(u)  == [email |-> u, token |-> u]

\* the account's own console, run outside of Plural's cloud
OwnConsole == "own"
Console    == Instance \union {OwnConsole}

\* "sub" lies in "root", the worktree of the clone, and that in "outside"
Dir == {"outside", "root", "sub"}
Above(d) == CASE d = "sub" -> {"sub", "root", "outside"}
              [] d = "root" -> {"root", "outside"}
              [] OTHER -> {"outside"}

NoProvider == "none"
Provider   == {"aws", "azure", "gcp", "byok"}
NoBucket   == "no bucket"
DryBucket  == "dry-run"

\* full: from a survey, not from a dry run; account: the storage account lies
\* in the manifest's own resource group; located: the region and the
\* locations that are derived from it are set; app: the app domain
Manifest == [prov : Provider \union {NoProvider}, owner : User \union {NoUser},
             full : BOOLEAN, bucket : Bucket \union {DryBucket, NoBucket},
             account : BOOLEAN, located : BOOLEAN, domain : BOOLEAN]

\* What an empty workspace.yaml parses to; a torn one is empty.
EmptyManifest == [prov |-> NoProvider, owner |-> NoUser, full |-> FALSE,
                  bucket |-> NoBucket, account |-> FALSE, located |-> FALSE,
                  domain |-> FALSE]

HasYaml(d) == yaml[d] # Absent

\* ProjectManifestPath: the nearest directory above with a workspace.yaml, the
\* current one if there is none
ProjectDir(d) ==
    LET found == {a \in Above(d) : HasYaml(a)} IN
    IF found = {} THEN d ELSE CHOOSE a \in found : found \subseteq Above(a)

-----------------------------------------------------------------------------
(* The running command                                                     *)

NoCommand == [at |-> "none"]
Running   == cmd # NoCommand
At(place) == cmd.at = place

Becomes(c)  == cmd' = c /\ UNCHANGED started
Goto(place) == Becomes([cmd EXCEPT !.at = place])
End         == Becomes(NoCommand)

Start(c) ==
    /\ ~Running
    /\ started < MaxCommands /\ started' = started + 1
    /\ cmd' = c
=============================================================================
