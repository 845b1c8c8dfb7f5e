------------------------------- MODULE Session -------------------------------
(***************************************************************************)
(* One user's session on one machine: any command of Identity, Workspace,  *)
(* Services, ControlPlane, PullRequest and EdgeImage after any other, each *)
(* of them killed or failed anywhere.  They meet in the login, the         *)
(* console, the workspace and the repository, which outlive the command.   *)
(***************************************************************************)
EXTENDS ControlPlane, PullRequest, EdgeImage

side == <<onConsole, tree, edge, plane>>
vars == <<files, outside, side, cmd, started>>

Unset == /\ yaml = [d \in Dir |-> Absent]
         /\ holder = NoUser
         /\ cloud = [group |-> FALSE, account |-> FALSE, buckets |-> {}]
Cloned(https, key, c) ==
    /\ clone = TRUE
    /\ remote = Holding([https |-> https, key |-> key, commits |-> TRUE])
    /\ context = [[d \in Dir |-> Absent] EXCEPT !["root"] = c]
LoggedIn(login, token, c) == config = login /\ profile = token /\ console = c

\* a new machine
Nothing == /\ Unset /\ LoggedIn(Absent, Absent, Absent)
           /\ clone = FALSE /\ remote = Absent
           /\ context = [d \in Dir |-> Absent]
\* a new clone on a machine whose user has a token of its own in a profile
Token == /\ Unset /\ Cloned(TRUE, FALSE, Absent)
         /\ \E p \in Person \ Trusted :
              LoggedIn(Absent, Holding([email |-> NoUser, token |-> p]), Absent)
\* a clone, with a context.yaml of the user's, on a machine that is logged in
\* to both Plural and a console
Connected == /\ Unset /\ Cloned(FALSE, FALSE, Holding("none"))
             /\ \E p \in Trusted : LoggedIn(Holding(As(p)), Absent, Holding(OwnConsole))
\* the clone of a workspace that a service account set up some versions ago
Teammate == \E p \in Person, r \in Robot, b \in Bucket :
    /\ Cloned(FALSE, TRUE, Holding("ssh")) /\ LoggedIn(Holding(As(p)), Absent, Absent)
    /\ holder = r
    /\ yaml = [[d \in Dir |-> Absent] EXCEPT !["root"] = Holding(
         [prov |-> "gcp", owner |-> r, full |-> TRUE, bucket |-> b,
          account |-> FALSE, located |-> FALSE, domain |-> TRUE])]
    /\ cloud = [group |-> FALSE, account |-> FALSE, buckets |-> {b}]

OneService == <<[[n \in Name |-> Absent] EXCEPT !["app"] = Holding(
                    [id |-> 1, git |-> "old", contexts |-> {"bound"},
                     conf |-> [k \in Key |-> "old"]])], 1>>
Checkout == [d \in Worktree |-> [f \in PrFile |->
                IF f \in {"made", "chart"} THEN Absent ELSE Holding(0)]]

\* bound: four machines to start from
Init ==
    /\ Nothing \/ Token \/ Connected \/ Teammate
    /\ services = OneService[1] /\ created = OneService[2] /\ tree = Checkout
    /\ cloudConfig = Absent /\ volume = Absent /\ build = Absent /\ image = Absent
    /\ values = Absent /\ oidc = Absent
    /\ cmd = NoCommand /\ started = 0

\* A command fails, or is killed, before any of its steps.
Abort == Running /\ End /\ UNCHANGED <<files, outside, side>>

Next ==
    \/ /\ \/ StartIdentity \/ StartWorkspace \/ StartServices
          \/ StartPullRequest \/ StartEdge \/ StartControlPlane
       /\ UNCHANGED <<files, outside, side>>
    \/ Abort
    \/ IdentityNext /\ UNCHANGED <<outside, side>>
    \/ WorkspaceNext /\ UNCHANGED side
    \/ ServicesNext /\ UNCHANGED <<outside, tree, edge, plane>>
    \/ PullRequestNext /\ UNCHANGED <<outside, onConsole, edge, plane>>
    \/ EdgeNext /\ UNCHANGED <<outside, tree, plane>>
    \/ ControlPlaneNext /\ UNCHANGED <<onConsole, tree, edge>>

Spec == Init /\ [][Next]_vars

-----------------------------------------------------------------------------

\* The types of everything that outlives a command, and of the command itself.
TypeOK ==
    /\ {config, profile} \subseteq {Absent, Torn} \union File(Login)
    /\ console \in {Absent, Torn} \union File(Console)
    /\ WorkspaceTypeOK /\ ServicesTypeOK /\ PullRequestTypeOK
    /\ EdgeTypeOK /\ ControlPlaneTypeOK
    /\ started \in 0..MaxCommands
    /\ Running /\ "mem" \in DOMAIN cmd =>
          {cmd.mem, cmd.conf} \subseteq Login /\ cmd.man \in Manifest
=============================================================================
