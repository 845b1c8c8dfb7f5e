-------------------------- MODULE ClusterBootstrap --------------------------
(***************************************************************************)
(* Registering clusters with a console and installing the deployment       *)
(* operator in them: `cd clusters bootstrap` and `reinstall`, `edge        *)
(* bootstrap`, `cd install` and `cd uninstall`.                            *)
(*                                                                         *)
(* The console keeps a record per handle, each with its deploy token; a    *)
(* cluster holds a helm release and the operator, which runs with a token. *)
(* One command runs per cluster, next to those of the others and to        *)
(* operators who delete records.  Requests fail or lose their answer, and  *)
(* a command may be killed anywhere.                                       *)
(***************************************************************************)
EXTENDS Naturals

CONSTANTS
    Site,       \* Kubernetes clusters
    Handle,     \* handles of cluster records
    MaxRecords, \* bound: records ever created
    MaxCommands \* bound: commands ever started

ASSUME Bounded == MaxRecords \in Nat /\ MaxCommands \in Nat
\* GetIdAndName tells a handle (@name) from the id of a record
ASSUME HandlesAreNames == \A h \in Handle : h \notin Nat

VARIABLES
    record,   \* [handle] the record it names: its number, 0 for none
    issued,   \* records created so far; a record's token is its number
    reg,      \* [site] its machine's registration: "none", "open" or, once
              \* an operator completed it, a handle
    release,  \* [site] status of the latest helm revision
    agent,    \* [site] the token and cluster id the operator runs with; own:
              \* the command that installed it had registered the cluster
    cmd,      \* [site] the running command
    started   \* commands started so far

console == <<record, issued, reg>>
cluster == <<release, agent>>
vars    == <<console, cluster, cmd, started>>

\* what lo.FromPtr makes of a token the console does not show, and the
\* cluster id of a command that does not know it
Empty == 0

Token   == 1..MaxRecords
NoAgent == [there |-> FALSE]
Agent   == [there : {TRUE}, token : Token \union {Empty},
            id : Token \union {Empty}, own : BOOLEAN]

Name  == {"bootstrap", "reinstall", "edge", "install", "uninstall"}
Place == {"create", "register", "wait", "confirm", "token", "id", "check",
          "helm", "writing", "list", "removing"}

\* target: the handle or the id the command was given (GetIdAndName)
Command == [name : Name, target : Handle \union Token, at : Place,
            token : Token \union {Empty}, id : Token \union {Empty},
            own : BOOLEAN]
NoCommand == [at |-> "none"]

\* helm changes the cluster
Changing(s) == cmd[s].at \in {"writing", "removing"}

\* Type invariant; helm works on a release only while it is pending.
TypeOK ==
    /\ record \in [Handle -> Token \union {Empty}]
    /\ issued \in 0..MaxRecords
    /\ reg \in [Site -> {"none", "open"} \union Handle]
    /\ release \in [Site -> {"none", "pending", "failed", "deployed"}]
    /\ agent \in [Site -> Agent \union {NoAgent}]
    /\ cmd \in [Site -> Command \union {NoCommand}]
    /\ started \in 0..MaxCommands
    /\ \A s \in Site : Changing(s) => release[s] = "pending"

Init ==
    /\ record = [h \in Handle |-> Empty] /\ issued = 0
    /\ reg = [s \in Site |-> "none"]
    /\ release = [s \in Site |-> "none"]
    /\ agent = [s \in Site |-> NoAgent]
    /\ cmd = [s \in Site |-> NoCommand]
    /\ started = 0

-----------------------------------------------------------------------------
(* How a command moves                                                     *)

Running(s) == cmd[s] # NoCommand
Live(t)    == t # Empty /\ \E h \in Handle : record[h] = t

\* the record with this handle or id, Empty if there is none
Lookup(x) == IF x \in Handle THEN record[x] ELSE IF Live(x) THEN x ELSE Empty

Start(s, name, x, place, t, i) ==
    /\ ~Running(s)
    /\ started < MaxCommands /\ started' = started + 1
    /\ cmd' = [cmd EXCEPT ![s] = [name |-> name, target |-> x, at |-> place,
                 token |-> t, id |-> i, own |-> FALSE]]
    /\ UNCHANGED <<console, cluster>>

Becomes(s, c)  == cmd' = [cmd EXCEPT ![s] = c] /\ UNCHANGED started
Goto(s, place) == Becomes(s, [cmd[s] EXCEPT !.at = place])
End(s)         == Becomes(s, NoCommand)

\* a request failed, a prompt was declined, or the command was killed
Abort(s) ==
    /\ Running(s) /\ ~Changing(s)
    /\ End(s) /\ UNCHANGED <<console, cluster>>

-----------------------------------------------------------------------------
(* Before the operator is installed                                        *)

\* CreateCluster succeeds; its answer may be lost or hold no token, both of
\* which end the command
CreateCluster(s) ==
    LET h == cmd[s].target IN
    /\ cmd[s].at = "create"
    /\ record[h] = Empty /\ issued < MaxRecords
    /\ issued' = issued + 1
    /\ record' = [record EXCEPT ![h] = issued + 1]
    /\ \/ End(s)
       \/ Becomes(s, [cmd[s] EXCEPT !.at = "check", !.own = TRUE,
                                    !.token = issued + 1, !.id = issued + 1])
    /\ UNCHANGED <<reg, cluster>>

\* mutant: the record that is there is taken for the command's own
TakeOver(s) ==
    LET t == record[cmd[s].target] IN
    /\ cmd[s].at = "create" /\ t # Empty
    /\ Becomes(s, [cmd[s] EXCEPT !.at = "check", !.own = TRUE,
                                 !.token = t, !.id = t])
    /\ UNCHANGED <<console, cluster>>

\* mutant: the requests of ReinstallOperator in the other order
IdFirst == <<"id", "token">>

\* the requests of ReinstallOperator
Requests == <<"token", "id">>

After(place) == IF place = Requests[1] THEN Requests[2] ELSE "check"

\* the handle is taken: bootstrap offers a reinstallation, edge does not
HandleTaken(s) ==
    /\ cmd[s].at = "create" /\ record[cmd[s].target] # Empty
    /\ cmd[s].name = "bootstrap"
    /\ Goto(s, Requests[1]) /\ UNCHANGED <<console, cluster>>

\* "machine_id has already been taken" is no error
Register(s) ==
    /\ cmd[s].at = "register"
    /\ reg' = [reg EXCEPT ![s] = IF @ = "none" THEN "open" ELSE @]
    /\ Goto(s, "wait")
    /\ UNCHANGED <<record, issued, cluster>>

\* the poll finds a registration with a name
Registered(s) ==
    /\ cmd[s].at = "wait" /\ reg[s] \in Handle
    /\ Becomes(s, [cmd[s] EXCEPT !.at = "create", !.target = reg[s]])
    /\ UNCHANGED <<console, cluster>>

\* confirmCluster asks the console whose token it is
ConfirmCluster(s) ==
    /\ cmd[s].at = "confirm" /\ Live(cmd[s].token)
    /\ Becomes(s, [cmd[s] EXCEPT !.at = "check", !.id = cmd[s].token])
    /\ UNCHANGED <<console, cluster>>

\* GetDeployToken: the token may be one the console does not show
GetDeployToken(s) ==
    /\ cmd[s].at = "token" /\ Lookup(cmd[s].target) # Empty
    /\ \E t \in {Lookup(cmd[s].target), Empty} :
         Becomes(s, [cmd[s] EXCEPT !.at = After("token"), !.token = t])
    /\ UNCHANGED <<console, cluster>>

\* GetCluster is a request of its own, whose failure is no error
GetCluster(s) ==
    /\ cmd[s].at = "id"
    /\ \E i \in {cmd[s].id} \union ({Lookup(cmd[s].target)} \ {Empty}) :
         Becomes(s, [cmd[s] EXCEPT !.at = After("id"), !.id = i])
    /\ UNCHANGED <<console, cluster>>

-----------------------------------------------------------------------------
(* DoInstallOperator and InstallAgent                                      *)

\* IsAlreadyAgentInstalled and the question, whose no ends the command
Check(s) ==
    /\ cmd[s].at = "check"
    /\ Goto(s, "helm")
    /\ UNCHANGED <<console, cluster>>

\* mutant: an operation that did not end is overridden
HelmForces(s) ==
    /\ cmd[s].at = "helm"
    /\ release' = [release EXCEPT ![s] = "pending"]
    /\ Goto(s, "writing")
    /\ UNCHANGED <<console, agent>>

\* After the namespace, the settings (whose absence is a warning), the values
\* and the chart, helm installs what has no release and upgrades what has
\* one; it refuses to upgrade a release with an operation that did not end.
HelmStarts(s) ==
    /\ cmd[s].at = "helm"
    /\ release[s] # "pending"
    /\ release' = [release EXCEPT ![s] = "pending"]
    /\ Goto(s, "writing")
    /\ UNCHANGED <<console, agent>>

Installed(s) == [there |-> TRUE, token |-> cmd[s].token, id |-> cmd[s].id,
                 own |-> cmd[s].own]

\* helm succeeds, fails, or is killed with the command, the operator
\* replaced or not
HelmEnds(s) ==
    /\ cmd[s].at = "writing"
    /\ \/ /\ release' = [release EXCEPT ![s] = "deployed"]
          /\ agent' = [agent EXCEPT ![s] = Installed(s)]
       \/ /\ release' \in {release, [release EXCEPT ![s] = "failed"]}
          /\ \E a \in {agent[s], Installed(s)} : agent' = [agent EXCEPT ![s] = a]
    /\ End(s) /\ UNCHANGED console

\* mutant: the release is not marked before it is removed
ListUnmarked(s) ==
    /\ cmd[s].at = "list"
    /\ IF release[s] \in {"deployed", "failed"} THEN Goto(s, "removing") ELSE End(s)
    /\ UNCHANGED <<console, cluster>>

\* helm.Uninstall removes a release it lists, and only deployed and failed
\* ones are listed: without one it returns nil at once
ListRelease(s) ==
    /\ cmd[s].at = "list"
    /\ IF release[s] \in {"deployed", "failed"}
       THEN /\ release' = [release EXCEPT ![s] = "pending"]
            /\ Goto(s, "removing")
       ELSE End(s) /\ UNCHANGED release
    /\ UNCHANGED <<console, agent>>

\* an uninstallation that fails or is killed does not end either
Remove(s) ==
    /\ cmd[s].at = "removing"
    /\ \/ /\ release' = [release EXCEPT ![s] = "none"]
          /\ agent' = [agent EXCEPT ![s] = NoAgent]
       \/ /\ UNCHANGED release
          /\ \E a \in {agent[s], NoAgent} : agent' = [agent EXCEPT ![s] = a]
    /\ End(s) /\ UNCHANGED console

-----------------------------------------------------------------------------
(* Commands and operators                                                  *)

StartCommand(s) ==
    \/ \E h \in Handle :
         \/ Start(s, "bootstrap", h, "create", Empty, Empty)
         \/ Start(s, "edge", h, "register", Empty, Empty)
         \/ Start(s, "uninstall", h, "list", Empty, Empty)
         \/ Start(s, "reinstall", h, Requests[1], Empty, Empty)
    \/ \E t \in 1..issued :
         \/ Start(s, "reinstall", t, Requests[1], Empty, t)
         \/ Start(s, "install", t, "confirm", t, Empty)
         \* --force, with the --cluster-id of the token or without
         \/ \E i \in {Empty, t} : Start(s, "install", t, "check", t, i)

\* an operator completes the registration of a machine
CompleteRegistration(s, h) ==
    /\ reg[s] = "open" /\ reg' = [reg EXCEPT ![s] = h]
    /\ UNCHANGED <<record, issued, cluster, cmd, started>>

\* `cd clusters delete`, also --soft
DeleteCluster(h) ==
    /\ record[h] # Empty /\ record' = [record EXCEPT ![h] = Empty]
    /\ UNCHANGED <<issued, reg, cluster, cmd, started>>

Next ==
    \/ \E s \in Site :
         \/ StartCommand(s) \/ Abort(s)
         \/ CreateCluster(s) \/ HandleTaken(s)
         \/ Register(s) \/ Registered(s) \/ ConfirmCluster(s)
         \/ GetDeployToken(s) \/ GetCluster(s)
         \/ Check(s) \/ HelmStarts(s) \/ HelmEnds(s)
         \/ ListRelease(s) \/ Remove(s)
    \/ \E s \in Site, h \in Handle : CompleteRegistration(s, h)
    \/ \E h \in Handle : DeleteCluster(h)

Spec == Init /\ [][Next]_vars

-----------------------------------------------------------------------------
(* Properties                                                              *)

\* An operator installed by the command that registered its cluster has the
\* token and the id of that record, and no other cluster's command, however
\* the two were interleaved, installed one with the same record as its own.
OwnRecord ==
    \A s \in Site : agent[s].there /\ agent[s].own =>
        /\ agent[s].token # Empty /\ agent[s].id = agent[s].token
        /\ \A r \in Site \ {s} :
             agent[r].there /\ agent[r].own => agent[r].token # agent[s].token

\* ReinstallOperator asks for the token first and for the cluster then, and
\* the record may be deleted and created anew in between: whatever the order
\* of events, an operator whose token is good reports under that record's id.
LiveTokenHasItsId ==
    \A s \in Site : agent[s].there /\ Live(agent[s].token) =>
        agent[s].id \in {Empty, agent[s].token}

\* A helm operation nobody works on any more
Abandoned(s) == release[s] = "pending" /\ ~Changing(s)

\* A command that was killed while helm worked leaves a release that no
\* command repairs: an installation is refused, and an uninstallation finds
\* nothing to remove.
AbandonedForGood == [][\A s \in Site : Abandoned(s) => Abandoned(s)']_vars
=============================================================================
