------------------------------- MODULE UpDown -------------------------------
(***************************************************************************)
(* `plural down` beside `plural up`: HandleDown builds the same context    *)
(* from workspace.yaml and runs Context.Destroy, which never touches the   *)
(* checkpoint.  One command runs at a time.                                *)
(***************************************************************************)
EXTENDS UpDeploy

VARIABLES
    downIdx,    \* current command of Destroy, 0 when `down` does not run
    downFails,  \* failed attempts of that command
    downResult  \* outcome of the last `down`

downVars == <<downIdx, downFails, downResult>>
allVars  == <<vars, downVars>>

Destroy ==
    IF kind = "cloud" THEN <<"init", "state rm", "destroy">>
    ELSE <<"init", "destroy">>

DownInit == Init /\ downIdx = 0 /\ downFails = 0 /\ downResult = "none"

DownIdle    == downIdx = 0
DownCommand == Destroy[downIdx]

EndDown(outcome) == /\ downIdx' = 0 /\ downFails' = 0
                    /\ downResult' = outcome

DownMovesOn ==
    IF downIdx = Len(Destroy) THEN EndDown("ok")
    ELSE downIdx' = downIdx + 1 /\ downFails' = 0 /\ UNCHANGED downResult

\* only the last command is retried, twice
DownGivesUp ==
    IF DownCommand = "destroy" /\ downFails < 2
    THEN downFails' = downFails + 1 /\ UNCHANGED <<downIdx, downResult>>
    ELSE EndDown("err")

\* the management cluster takes what runs in it along
Gone(destroyed) ==
    destroyed \union
        (IF "cluster" \in destroyed THEN Resource \ {"plural_cluster"} ELSE {})

StartDown ==
    /\ Idle /\ DownIdle
    /\ disk # Torn
    /\ downIdx' = 1 /\ downResult' = "none"
    /\ result' = "none"
    /\ UNCHANGED <<pos, idx, fails, mem, disk, ran, world>> /\ Calm
    /\ UNCHANGED downFails

\* Build refuses a workspace.yaml that lost its content for `down` as well
DownBuildFails ==
    /\ Idle /\ DownIdle
    /\ disk = Torn
    /\ downResult' = "err"
    /\ result' = "none"
    /\ UNCHANGED <<pos, idx, fails, mem, disk, ran, world>> /\ Calm
    /\ UNCHANGED <<downIdx, downFails>>

DownTerraformInit ==
    /\ ~DownIdle /\ DownCommand = "init"
    /\ DownMovesOn
    /\ UNCHANGED vars

\* mutant: plural_cluster.mgmt stays in the state
DownStateRmKeeps ==
    /\ ~DownIdle /\ DownCommand = "state rm"
    /\ "plural_cluster" \in managed
    /\ DownMovesOn
    /\ UNCHANGED vars

DownStateRm ==
    /\ ~DownIdle /\ DownCommand = "state rm"
    /\ "plural_cluster" \in managed
    /\ managed' = managed \ {"plural_cluster"}
    /\ DownMovesOn
    /\ UNCHANGED <<control, files, real, head, remote>> /\ Calm

\* mutant: only what the state still holds goes, not what runs in the cluster
DownDestroyOnly ==
    /\ ~DownIdle /\ DownCommand = "destroy"
    /\ real' = real \ managed
    /\ managed' = {}
    /\ DownMovesOn
    /\ UNCHANGED <<control, files, head, remote>> /\ Calm

DownDestroy ==
    /\ ~DownIdle /\ DownCommand = "destroy"
    /\ real' = real \ Gone(managed)
    /\ managed' = {}
    /\ DownMovesOn
    /\ UNCHANGED <<control, files, head, remote>> /\ Calm

\* `state rm` of an address the state does not hold
DownRefused ==
    /\ ~DownIdle /\ DownCommand = "state rm"
    /\ "plural_cluster" \notin managed
    /\ DownGivesUp
    /\ UNCHANGED vars

\* a command fails, destroy possibly half way
DownFails ==
    /\ ~DownIdle
    /\ \E d \in SUBSET managed :
         /\ d # {} => DownCommand = "destroy"
         /\ managed' = managed \ d
         /\ real' = real \ Gone(d)
    /\ DownGivesUp
    /\ UNCHANGED <<control, files, head, remote>> /\ Mishap("command")

DownCrash ==
    /\ ~DownIdle
    /\ EndDown("killed")
    /\ UNCHANGED <<control, world>> /\ Mishap("crash")

\* a step of `up`; each command forgets the outcome of the other
UpNext ==
    /\ DownIdle /\ Next
    /\ downResult' = "none"
    /\ UNCHANGED <<downIdx, downFails>>

DownNext ==
    \/ StartDown \/ DownBuildFails \/ DownTerraformInit \/ DownStateRm
    \/ DownDestroy \/ DownRefused \/ DownFails \/ DownCrash

BothNext == UpNext \/ DownNext

BothSpec == DownInit /\ [][BothNext]_allVars

-----------------------------------------------------------------------------
\* Destroy takes plural_cluster.mgmt out of the terraform state before it
\* destroys the rest: whatever fails in between and however often `down` and
\* `up` are run, the Plural Cloud registration of the cluster survives.
RegistrationKept == kind = "cloud" => "plural_cluster" \in real

\* The readiness checks of Deploy and deployBYOK are under no checkpoint: a
\* run that succeeds after a `down` reached a console, however many of its
\* stages it skipped, unless the check timed out with its call unanswered,
\* which retrier takes for a success (see Readiness).  (A --cloud run checks
\* nothing of the kind.)
FinishedMeansReachable ==
    result = "ok" /\ kind # "cloud" /\ ~hung => ConsoleUp

\* "destroys your management cluster and any apps installed on it" (down.go):
\* when `down` succeeds nothing of the installation is left.  A BYOK workspace
\* is left out: pruneBYOK took the console out of the state Destroy works on.
DownDestroysAll ==
    downResult = "ok" /\ kind # "byok" =>
        real \intersect (Boot(kind) \union {"cluster", "apps"}) = {}

=============================================================================
