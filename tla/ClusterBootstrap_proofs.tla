----------------------- MODULE ClusterBootstrap_proofs -----------------------
(***************************************************************************)
(* Theorems about ClusterBootstrap, for every set of clusters and handles  *)
(* and any number of records and commands.                                 *)
(***************************************************************************)
EXTENDS ClusterBootstrap, TLAPS

-----------------------------------------------------------------------------
(* The inductive invariant                                                 *)

\* A number names one record only, also after that was deleted.
RecordsInv ==
    /\ \A h \in Handle : record[h] <= issued
    /\ \A g, h \in Handle : record[g] = record[h] /\ record[h] # Empty => g = h

\* A token that is good goes with its record's id or with none.
Fits(t, i) == t <= issued /\ (Live(t) => i \in {Empty, t})

\* The record a command or an operator has registered as its own
OwnInv(x) == x.own => x.token # Empty /\ x.id = x.token

CommandInv(c) ==
    /\ Fits(c.token, c.id) /\ OwnInv(c)
    /\ c.own => c.at \in {"check", "helm", "writing"}
    /\ c.at = "create" => c.target \in Handle
    /\ c.at \in {"create", "register", "wait"} => c.id = Empty
    /\ c.at = "token" =>
         \/ c.id = Empty
         \/ c.target \notin Handle /\ c.id = c.target
    /\ c.at = "id" /\ Live(c.token) => Lookup(c.target) = c.token

AgentInv(a) == Fits(a.token, a.id) /\ OwnInv(a)

\* what a cluster's operator and its command have registered themselves
Claims(s) ==
    {t \in Token : \/ agent[s].there /\ agent[s].own /\ t = agent[s].token
                   \/ Running(s) /\ cmd[s].own /\ t = cmd[s].token}

BootstrapInv ==
    /\ TypeOK
    /\ RecordsInv
    /\ \A s \in Site : /\ Running(s) => CommandInv(cmd[s])
                       /\ agent[s].there => AgentInv(agent[s])
    /\ \A r, s \in Site : r # s => Claims(r) \intersect Claims(s) = {}

-----------------------------------------------------------------------------
(* Every step keeps it                                                     *)

LEMMA InitBootstrapInv == Init => BootstrapInv
  <1> SUFFICES ASSUME Init PROVE BootstrapInv
    OBVIOUS
  <1>1. TypeOK /\ RecordsInv
    BY Bounded DEF Init, TypeOK, RecordsInv, Empty, NoCommand, NoAgent, Changing
  <1>2. \A s \in Site : ~Running(s) /\ ~agent[s].there
    BY DEF Init, Running, NoAgent
  <1> QED
    BY <1>1, <1>2 DEF BootstrapInv, Claims

LEMMA RequestsAre ==
    Requests[1] = "token" /\ After("token") = "id" /\ After("id") = "check"
  BY DEF Requests, After

\* what a command or an operator claims: nothing it had not claimed before
ClaimsOnly(c, a, S) ==
    /\ c # NoCommand /\ c.own => c.token \in S
    /\ a.there /\ a.own => a.token \in S

\* A step of one cluster's command that changes no record
LEMMA MoveBootstrapInv ==
    ASSUME BootstrapInv, NEW s \in Site, UNCHANGED <<record, issued>>,
           NEW c \in Command \union {NoCommand}, cmd' = [cmd EXCEPT ![s] = c],
           NEW a \in Agent \union {NoAgent}, agent' = [agent EXCEPT ![s] = a],
           NEW r \in {"none", "pending", "failed", "deployed"},
           release' = [release EXCEPT ![s] = r],
           c.at \in {"writing", "removing"} => r = "pending",
           reg' \in [Site -> {"none", "open"} \union Handle],
           started' \in 0..MaxCommands,
           c # NoCommand => CommandInv(c),
           a.there => AgentInv(a),
           ClaimsOnly(c, a, Claims(s))
    PROVE  BootstrapInv'
  <1>1. /\ cmd'[s] = c /\ agent'[s] = a /\ release'[s] = r
        /\ \A q \in Site \ {s} :
             cmd'[q] = cmd[q] /\ agent'[q] = agent[q] /\ release'[q] = release[q]
    BY DEF BootstrapInv, TypeOK
  <1>2. TypeOK'
    <2>1. /\ cmd' \in [Site -> Command \union {NoCommand}]
          /\ agent' \in [Site -> Agent \union {NoAgent}]
          /\ release' \in [Site -> {"none", "pending", "failed", "deployed"}]
      BY DEF BootstrapInv, TypeOK
    <2>2. \A q \in Site : Changing(q)' => release'[q] = "pending"
      BY <1>1 DEF BootstrapInv, TypeOK, Changing
    <2> QED
      BY <2>1, <2>2 DEF BootstrapInv, TypeOK
  <1>3. RecordsInv'
    BY DEF BootstrapInv, RecordsInv
  <1>4. \A q \in Site : /\ Running(q)' => (CommandInv(cmd[q]))'
                        /\ agent'[q].there => (AgentInv(agent[q]))'
    <2>1. \A t : Live(t)' = Live(t) /\ \A i : Fits(t, i)' = Fits(t, i)
      BY DEF Live, Fits
    <2>2. \A x : Lookup(x)' = Lookup(x)
      BY <2>1 DEF Lookup
    <2>3. \A q \in Site \ {s} : /\ Running(q)' => (CommandInv(cmd[q]))'
                                /\ agent'[q].there => (AgentInv(agent[q]))'
      BY <1>1, <2>1, <2>2 DEF BootstrapInv, Running, CommandInv, AgentInv, OwnInv
    <2>4. /\ Running(s)' => (CommandInv(cmd[s]))'
          /\ agent'[s].there => (AgentInv(agent[s]))'
      BY <1>1, <2>1, <2>2 DEF Running, CommandInv, AgentInv, OwnInv
    <2> QED
      BY <2>3, <2>4
  <1>5. Claims(s)' \subseteq Claims(s) /\ \A q \in Site \ {s} : Claims(q)' = Claims(q)
    BY <1>1 DEF Claims, ClaimsOnly, Running
  <1> QED
    BY <1>2, <1>3, <1>4, <1>5 DEF BootstrapInv

\* A step that touches neither a record nor the cluster
LEMMA CommandOnlyInv ==
    ASSUME BootstrapInv, NEW s \in Site, UNCHANGED <<record, issued, cluster>>,
           reg' \in [Site -> {"none", "open"} \union Handle],
           started' \in 0..MaxCommands,
           NEW c \in Command \union {NoCommand}, cmd' = [cmd EXCEPT ![s] = c],
           c.at \in {"writing", "removing"} => release[s] = "pending",
           c # NoCommand => CommandInv(c),
           c # NoCommand /\ c.own => Running(s) /\ cmd[s].own /\ c.token = cmd[s].token
    PROVE  BootstrapInv'
  <1>1. /\ agent[s] \in Agent \union {NoAgent} /\ agent' = [agent EXCEPT ![s] = agent[s]]
        /\ release[s] \in {"none", "pending", "failed", "deployed"}
        /\ release' = [release EXCEPT ![s] = release[s]]
        /\ agent[s].there => AgentInv(agent[s])
    BY DEF BootstrapInv, TypeOK, cluster
  <1>2. /\ c # NoCommand /\ c.own => c.token \in Token
        /\ agent[s].there /\ agent[s].own => agent[s].token \in Token
    <2>1. ASSUME c # NoCommand, c.own PROVE c.token \in Token
      BY <2>1 DEF CommandInv, OwnInv, Command
    <2>2. ASSUME agent[s].there, agent[s].own PROVE agent[s].token \in Token
      <3>1. agent[s] \in Agent
        BY <1>1, <2>2 DEF NoAgent
      <3>2. agent[s].token \in Token \union {Empty} /\ agent[s].token # Empty
        BY <1>1, <2>2, <3>1 DEF AgentInv, OwnInv, Agent
      <3> QED
        BY <3>2
    <2> QED
      BY <2>1, <2>2
  <1>3. ClaimsOnly(c, agent[s], Claims(s))
    BY <1>2 DEF ClaimsOnly, Claims
  <1> HIDE DEF NoCommand
  <1> QED
    BY <1>1, <1>3, MoveBootstrapInv

\* A command that is running, and what is known of it
LEMMA RunningCommand ==
    ASSUME BootstrapInv, NEW s \in Site, cmd[s].at # "none"
    PROVE  Running(s) /\ cmd[s] \in Command /\ CommandInv(cmd[s]) /\ started \in 0..MaxCommands
           /\ reg \in [Site -> {"none", "open"} \union Handle]
  BY DEF BootstrapInv, TypeOK, Running, NoCommand

LEMMA EndBootstrapInv ==
    ASSUME BootstrapInv, NEW s \in Site, End(s), UNCHANGED <<console, cluster>>
    PROVE  BootstrapInv'
  BY CommandOnlyInv DEF End, Becomes, console, NoCommand, BootstrapInv, TypeOK

LEMMA StartBootstrapInv ==
    ASSUME BootstrapInv, NEW s \in Site, StartCommand(s)
    PROVE  BootstrapInv'
  <1>1. ASSUME NEW name \in Name, NEW x \in Handle, NEW place \in {"create", "register", "list", "token"},
               Start(s, name, x, place, Empty, Empty)
        PROVE  BootstrapInv'
    <2> DEFINE c == [name |-> name, target |-> x, at |-> place, token |-> Empty,
                     id |-> Empty, own |-> FALSE]
    <2>1. c \in Command /\ CommandInv(c) /\ ~c.own
      BY DEF Command, Place, CommandInv, Fits, OwnInv, Live, Empty, BootstrapInv, TypeOK
    <2>2. /\ cmd' = [cmd EXCEPT ![s] = c] /\ UNCHANGED <<console, cluster>>
          /\ started' \in 0..MaxCommands
      BY <1>1, Bounded DEF Start, BootstrapInv, TypeOK
    <2>3. c.at \notin {"writing", "removing"}
      OBVIOUS
    <2> HIDE DEF c
    <2> QED
      BY <2>1, <2>2, <2>3, CommandOnlyInv DEF console, BootstrapInv, TypeOK
  <1>2. ASSUME NEW name \in Name, NEW t \in 1..issued, NEW place \in {"token", "confirm", "check"},
               NEW u \in {Empty, t}, NEW i \in {Empty, t},
               Start(s, name, t, place, u, i)
        PROVE  BootstrapInv'
    <2> DEFINE c == [name |-> name, target |-> t, at |-> place, token |-> u,
                     id |-> i, own |-> FALSE]
    <2>1. t \in Token /\ t \notin Handle /\ t <= issued /\ t # Empty
      BY HandlesAreNames, Bounded, SMT DEF Token, BootstrapInv, TypeOK, Empty
    <2>2. c \in Command /\ ~c.own
      BY <2>1 DEF Command, Place
    <2>3. CommandInv(c)
      BY <2>1, SMT DEF CommandInv, Fits, OwnInv, Live, Empty, BootstrapInv, TypeOK
    <2>4. /\ cmd' = [cmd EXCEPT ![s] = c] /\ UNCHANGED <<console, cluster>>
          /\ started' \in 0..MaxCommands
      BY <1>2, Bounded DEF Start, BootstrapInv, TypeOK
    <2>5. c.at \notin {"writing", "removing"}
      OBVIOUS
    <2> HIDE DEF c
    <2> QED
      BY <2>2, <2>3, <2>4, <2>5, CommandOnlyInv DEF console, BootstrapInv, TypeOK
  <1> QED
    BY <1>1, <1>2, RequestsAre DEF StartCommand, Name

\* Only the place of the command changes, to one that says less of it.
LEMMA GotoBootstrapInv ==
    ASSUME BootstrapInv, NEW s \in Site, cmd[s].at # "none",
           UNCHANGED <<record, issued, cluster>>,
           reg' \in [Site -> {"none", "open"} \union Handle],
           NEW place \in Place, Goto(s, place),
           \/ cmd[s].at = "create" /\ place = "token"
           \/ cmd[s].at = "register" /\ place = "wait"
           \/ cmd[s].at = "check" /\ place = "helm"
    PROVE  BootstrapInv'
  <1> DEFINE c == [cmd[s] EXCEPT !.at = place]
  <1>1. Running(s) /\ cmd[s] \in Command /\ CommandInv(cmd[s]) /\ started \in 0..MaxCommands
    BY RunningCommand
  <1>2. /\ c \in Command /\ c.at = place /\ c.target = cmd[s].target
        /\ c.token = cmd[s].token /\ c.id = cmd[s].id /\ c.own = cmd[s].own
    BY <1>1 DEF Command
  <1>3. cmd' = [cmd EXCEPT ![s] = c] /\ UNCHANGED started
    BY DEF Goto, Becomes
  <1> HIDE DEF c
  <1>4. CommandInv(c)
    BY <1>1, <1>2, SMT DEF CommandInv, OwnInv
  <1> QED
    BY <1>1, <1>2, <1>3, <1>4, CommandOnlyInv

LEMMA QuestionsBootstrapInv ==
    ASSUME BootstrapInv, NEW s \in Site, HandleTaken(s) \/ Register(s) \/ Check(s)
    PROVE  BootstrapInv'
  <1>1. reg' \in [Site -> {"none", "open"} \union Handle]
    BY DEF HandleTaken, Register, Check, console, BootstrapInv, TypeOK
  <1>2. /\ cmd[s].at # "none" /\ UNCHANGED <<record, issued, cluster>>
        /\ \E place \in Place :
             /\ Goto(s, place)
             /\ \/ cmd[s].at = "create" /\ place = "token"
                \/ cmd[s].at = "register" /\ place = "wait"
                \/ cmd[s].at = "check" /\ place = "helm"
    BY RequestsAre DEF HandleTaken, Register, Check, console, Place
  <1> QED
    BY <1>1, <1>2, GotoBootstrapInv

LEMMA RegisteredBootstrapInv ==
    ASSUME BootstrapInv, NEW s \in Site, Registered(s)
    PROVE  BootstrapInv'
  <1> DEFINE c == [cmd[s] EXCEPT !.at = "create", !.target = reg[s]]
  <1>1. /\ cmd[s].at = "wait" /\ reg[s] \in Handle /\ cmd' = [cmd EXCEPT ![s] = c]
        /\ UNCHANGED <<record, issued, reg, cluster, started>>
    BY DEF Registered, Becomes, console
  <1>2. /\ Running(s) /\ cmd[s] \in Command /\ CommandInv(cmd[s]) /\ started \in 0..MaxCommands
        /\ reg \in [Site -> {"none", "open"} \union Handle]
    BY <1>1, RunningCommand
  <1>3. /\ c \in Command /\ c.at = "create" /\ c.target = reg[s]
        /\ c.token = cmd[s].token /\ c.id = cmd[s].id /\ c.own = cmd[s].own
    BY <1>1, <1>2 DEF Command, Place
  <1> HIDE DEF c
  <1>4. cmd[s].id = Empty
    BY <1>1, <1>2 DEF CommandInv
  <1>5. CommandInv(c)
    BY <1>1, <1>2, <1>3, SMT DEF CommandInv, OwnInv
  <1> QED
    BY <1>1, <1>2, <1>3, <1>5, CommandOnlyInv

\* what Lookup finds is a live record, and for an id it is that of the id
LEMMA LookupFinds ==
    ASSUME BootstrapInv, NEW x \in Handle \union Token, Lookup(x) # Empty
    PROVE  /\ Lookup(x) \in Token /\ Lookup(x) <= issued /\ Live(Lookup(x))
           /\ x \notin Handle => Lookup(x) = x
  <1>1. CASE x \in Handle
    BY <1>1 DEF Lookup, Live, BootstrapInv, TypeOK, RecordsInv
  <1>2. CASE x \notin Handle
    BY <1>2 DEF Lookup, Live, BootstrapInv, TypeOK, RecordsInv
  <1> QED
    BY <1>1, <1>2

LEMMA ConfirmBootstrapInv ==
    ASSUME BootstrapInv, NEW s \in Site, ConfirmCluster(s)
    PROVE  BootstrapInv'
  <1> DEFINE c == [cmd[s] EXCEPT !.at = "check", !.id = cmd[s].token]
  <1>1. /\ cmd[s].at = "confirm" /\ cmd' = [cmd EXCEPT ![s] = c]
        /\ UNCHANGED <<record, issued, reg, cluster, started>>
    BY DEF ConfirmCluster, Becomes, console
  <1>2. /\ Running(s) /\ cmd[s] \in Command /\ CommandInv(cmd[s]) /\ started \in 0..MaxCommands
        /\ reg \in [Site -> {"none", "open"} \union Handle]
    BY <1>1, RunningCommand
  <1>3. /\ c \in Command /\ c.at = "check" /\ c.target = cmd[s].target
        /\ c.token = cmd[s].token /\ c.id = cmd[s].token /\ c.own = cmd[s].own
    BY <1>1, <1>2 DEF Command, Place
  <1> HIDE DEF c
  <1>4. CommandInv(c)
    BY <1>1, <1>2, <1>3, SMT DEF CommandInv, OwnInv, Fits
  <1> QED
    BY <1>1, <1>2, <1>3, <1>4, CommandOnlyInv

LEMMA GetTokenBootstrapInv ==
    ASSUME BootstrapInv, NEW s \in Site, GetDeployToken(s)
    PROVE  BootstrapInv'
  <1> DEFINE x == cmd[s].target
  <1>1. PICK t \in {Lookup(x), Empty} :
          cmd' = [cmd EXCEPT ![s] = [cmd[s] EXCEPT !.at = "id", !.token = t]]
    BY RequestsAre DEF GetDeployToken, Becomes
  <1> DEFINE c == [cmd[s] EXCEPT !.at = "id", !.token = t]
  <1>2. /\ cmd[s].at = "token" /\ Lookup(x) # Empty /\ cmd' = [cmd EXCEPT ![s] = c]
        /\ UNCHANGED <<record, issued, reg, cluster, started>>
    BY <1>1 DEF GetDeployToken, Becomes, console
  <1>3. /\ Running(s) /\ cmd[s] \in Command /\ CommandInv(cmd[s]) /\ started \in 0..MaxCommands
        /\ reg \in [Site -> {"none", "open"} \union Handle]
    BY <1>2, RunningCommand
  <1>4. /\ x \in Handle \union Token /\ ~cmd[s].own
        /\ \/ cmd[s].id = Empty
           \/ x \notin Handle /\ cmd[s].id = x
    BY <1>2, <1>3, SMT DEF Command, CommandInv
  <1>5. /\ t \in Token \union {Empty} /\ t <= issued
        /\ t # Empty => t = Lookup(x) /\ (x \notin Handle => t = x)
    BY <1>2, <1>4, LookupFinds DEF Empty, BootstrapInv, TypeOK
  <1>6. /\ c \in Command /\ c.at = "id" /\ c.target = x
        /\ c.token = t /\ c.id = cmd[s].id /\ c.own = cmd[s].own
    BY <1>3, <1>5 DEF Command, Place
  <1> HIDE DEF c
  <1>7. CommandInv(c)
    BY <1>3, <1>4, <1>5, <1>6, SMT DEF CommandInv, OwnInv, Fits, Live
  <1> QED
    BY <1>2, <1>3, <1>4, <1>6, <1>7, CommandOnlyInv

LEMMA GetClusterBootstrapInv ==
    ASSUME BootstrapInv, NEW s \in Site, GetCluster(s)
    PROVE  BootstrapInv'
  <1> DEFINE x == cmd[s].target
  <1>1. PICK i \in {cmd[s].id} \union ({Lookup(x)} \ {Empty}) :
          cmd' = [cmd EXCEPT ![s] = [cmd[s] EXCEPT !.at = "check", !.id = i]]
    BY RequestsAre DEF GetCluster, Becomes
  <1> DEFINE c == [cmd[s] EXCEPT !.at = "check", !.id = i]
  <1>2. /\ cmd[s].at = "id" /\ cmd' = [cmd EXCEPT ![s] = c]
        /\ UNCHANGED <<record, issued, reg, cluster, started>>
    BY <1>1 DEF GetCluster, Becomes, console
  <1>3. /\ Running(s) /\ cmd[s] \in Command /\ CommandInv(cmd[s]) /\ started \in 0..MaxCommands
        /\ reg \in [Site -> {"none", "open"} \union Handle]
    BY <1>2, RunningCommand
  <1>4. /\ x \in Handle \union Token /\ ~cmd[s].own /\ cmd[s].id \in Token \union {Empty}
        /\ Fits(cmd[s].token, cmd[s].id)
        /\ Live(cmd[s].token) => Lookup(x) = cmd[s].token
    BY <1>2, <1>3, SMT DEF Command, CommandInv
  <1>5. i \in Token \union {Empty} /\ Fits(cmd[s].token, i)
    BY <1>4, LookupFinds DEF Fits
  <1>6. /\ c \in Command /\ c.at = "check" /\ c.target = x
        /\ c.token = cmd[s].token /\ c.id = i /\ c.own = cmd[s].own
    BY <1>3, <1>5 DEF Command, Place
  <1> HIDE DEF c
  <1>7. CommandInv(c)
    BY <1>3, <1>4, <1>5, <1>6, SMT DEF CommandInv, OwnInv
  <1> QED
    BY <1>2, <1>3, <1>4, <1>6, <1>7, CommandOnlyInv

\* helm begins to change a release: it is pending from then on.
LEMMA HelmBeginsBootstrapInv ==
    ASSUME BootstrapInv, NEW s \in Site, HelmStarts(s) \/ ListRelease(s)
    PROVE  BootstrapInv'
  <1>1. CASE End(s) /\ UNCHANGED <<console, cluster>>
    BY <1>1, EndBootstrapInv
  <1>2. ASSUME NEW place \in {"writing", "removing"}, Goto(s, place), cmd[s].at # "none",
               place = "writing" => cmd[s].at = "helm",
               place = "removing" => cmd[s].at = "list",
               release' = [release EXCEPT ![s] = "pending"], UNCHANGED <<console, agent>>
        PROVE  BootstrapInv'
    <2> DEFINE c == [cmd[s] EXCEPT !.at = place]
    <2>1. Running(s) /\ cmd[s] \in Command /\ CommandInv(cmd[s]) /\ started \in 0..MaxCommands
      BY <1>2, RunningCommand
    <2>2. /\ c \in Command /\ c.at = place /\ c.target = cmd[s].target
          /\ c.token = cmd[s].token /\ c.id = cmd[s].id /\ c.own = cmd[s].own
      BY <2>1 DEF Command, Place
    <2>3. /\ cmd' = [cmd EXCEPT ![s] = c] /\ started' = started
          /\ agent[s] \in Agent \union {NoAgent} /\ agent' = [agent EXCEPT ![s] = agent[s]]
          /\ agent[s].there => AgentInv(agent[s])
          /\ reg' \in [Site -> {"none", "open"} \union Handle]
      BY <1>2 DEF Goto, Becomes, BootstrapInv, TypeOK, console
    <2> HIDE DEF c
    <2>4. CommandInv(c)
      BY <1>2, <2>1, <2>2, SMT DEF CommandInv, OwnInv
    <2>5. ClaimsOnly(c, agent[s], Claims(s))
      <3>1. ASSUME c.own PROVE c.token \in Claims(s)
        BY <2>1, <2>2, <3>1, SMT DEF Claims, CommandInv, OwnInv, Command
      <3>2. ASSUME agent[s].there, agent[s].own PROVE agent[s].token \in Claims(s)
        <4>1. agent[s] \in Agent
          BY <2>3, <3>2 DEF NoAgent
        <4>2. agent[s].token \in Token
          BY <2>3, <3>2, <4>1 DEF AgentInv, OwnInv, Agent
        <4> QED
          BY <3>2, <4>2 DEF Claims
      <3> QED
        BY <3>1, <3>2 DEF ClaimsOnly
    <2> QED
      BY <1>2, <2>1, <2>2, <2>3, <2>4, <2>5, MoveBootstrapInv DEF console
  <1>3. CASE HelmStarts(s)
    BY <1>2, <1>3 DEF HelmStarts
  <1>4. CASE ListRelease(s)
    BY <1>1, <1>2, <1>4 DEF ListRelease, cluster
  <1> QED
    BY <1>3, <1>4

\* helm ends, however it does: the operator is as it was, gone, or the one
\* of this command.
LEMMA HelmEndsBootstrapInv ==
    ASSUME BootstrapInv, NEW s \in Site, HelmEnds(s) \/ Remove(s)
    PROVE  BootstrapInv'
  <1>1. cmd[s].at \in {"writing", "removing"}
    BY DEF HelmEnds, Remove
  <1>2. /\ Running(s) /\ cmd[s] \in Command /\ CommandInv(cmd[s]) /\ started \in 0..MaxCommands
        /\ agent[s] \in Agent \union {NoAgent}
        /\ agent[s].there => AgentInv(agent[s])
    BY <1>1, RunningCommand DEF BootstrapInv, TypeOK
  <1>3. /\ End(s) /\ UNCHANGED <<record, issued, reg>>
        /\ \E r \in {"none", "pending", "failed", "deployed"} :
             release' = [release EXCEPT ![s] = r]
        /\ \E a \in {agent[s], NoAgent, Installed(s)} : agent' = [agent EXCEPT ![s] = a]
    <2>1. release[s] \in {"none", "pending", "failed", "deployed"}
          /\ release = [release EXCEPT ![s] = release[s]]
      BY DEF BootstrapInv, TypeOK
    <2>2. CASE HelmEnds(s)
      BY <2>1, <2>2 DEF HelmEnds, console
    <2>3. CASE Remove(s)
      BY <2>1, <2>3 DEF Remove, console
    <2> QED
      BY <2>2, <2>3
  <1>4. PICK r \in {"none", "pending", "failed", "deployed"} :
          release' = [release EXCEPT ![s] = r]
    BY <1>3
  <1>5. PICK a \in {agent[s], NoAgent, Installed(s)} : agent' = [agent EXCEPT ![s] = a]
    BY <1>3
  <1>6. Installed(s) \in Agent /\ AgentInv(Installed(s))
    BY <1>2 DEF Installed, Agent, Command, AgentInv, CommandInv, OwnInv
  <1>7. a \in Agent \union {NoAgent} /\ (a.there => AgentInv(a))
    <2>1. CASE a = agent[s]
      BY <1>2, <2>1
    <2>2. CASE a = NoAgent
      BY <2>2 DEF NoAgent
    <2>3. CASE a = Installed(s)
      BY <1>6, <2>3
    <2> QED
      BY <1>5, <2>1, <2>2, <2>3
  <1>8. ClaimsOnly(NoCommand, a, Claims(s))
    <2> SUFFICES ASSUME a.there, a.own PROVE a.token \in Claims(s)
      BY DEF ClaimsOnly
    <2>1. a \in Agent
      BY <1>7 DEF NoAgent
    <2>2. a.token \in Token
      BY <1>7, <2>1 DEF AgentInv, OwnInv, Agent
    <2>3. \/ agent[s].there /\ agent[s].own /\ a.token = agent[s].token
          \/ Running(s) /\ cmd[s].own /\ a.token = cmd[s].token
      BY <1>2, <1>5 DEF Installed, NoAgent
    <2> QED
      BY <2>2, <2>3 DEF Claims
  <1>9. /\ cmd' = [cmd EXCEPT ![s] = NoCommand] /\ started' = started
        /\ reg' \in [Site -> {"none", "open"} \union Handle]
        /\ NoCommand.at \notin {"writing", "removing"}
    BY <1>3 DEF End, Becomes, BootstrapInv, TypeOK, NoCommand
  <1> HIDE DEF NoCommand
  <1> QED
    BY <1>2, <1>3, <1>4, <1>5, <1>7, <1>8, <1>9, MoveBootstrapInv

LEMMA AbortBootstrapInv ==
    ASSUME BootstrapInv, NEW s \in Site, Abort(s)
    PROVE  BootstrapInv'
  BY EndBootstrapInv DEF Abort

\* a record that is created has a number nobody has
LEMMA CreateClusterBootstrapInv ==
    ASSUME BootstrapInv, NEW s \in Site, CreateCluster(s)
    PROVE  BootstrapInv'
  <1> PICK n \in Nat : n = issued + 1
    BY DEF BootstrapInv, TypeOK
  <1> DEFINE h == cmd[s].target
             c == [cmd[s] EXCEPT !.at = "check", !.own = TRUE, !.token = n, !.id = n]
  <1>1. /\ cmd[s].at = "create" /\ record[h] = Empty /\ issued < MaxRecords
        /\ issued' = n /\ record' = [record EXCEPT ![h] = n]
        /\ End(s) \/ Becomes(s, c)
        /\ UNCHANGED <<reg, release, agent>>
    BY DEF CreateCluster, cluster
  <1>2. /\ Running(s) /\ cmd[s] \in Command /\ CommandInv(cmd[s]) /\ started \in 0..MaxCommands
        /\ h \in Handle /\ ~cmd[s].own
    BY <1>1, RunningCommand DEF CommandInv
  <1>3. /\ n \in Token /\ n # Empty /\ n > issued /\ n \in Nat /\ issued \in Nat
        /\ n \in 0..MaxRecords
    BY <1>1, Bounded, SMT DEF Token, Empty, BootstrapInv, TypeOK
  <1>4. /\ c \in Command /\ c.at = "check" /\ c.token = n /\ c.id = n /\ c.own
        /\ c # NoCommand /\ started' = started
        /\ cmd' = [cmd EXCEPT ![s] = NoCommand] \/ cmd' = [cmd EXCEPT ![s] = c]
    BY <1>1, <1>2, <1>3 DEF Command, Place, End, Becomes, NoCommand
  <1>5. /\ record' \in [Handle -> Token \union {Empty}] /\ record'[h] = n
        /\ \A g \in Handle \ {h} : record'[g] = record[g]
    BY <1>1, <1>2, <1>3 DEF BootstrapInv, TypeOK
  <1>6. RecordsInv'
    BY <1>1, <1>3, <1>5, SMT DEF RecordsInv, BootstrapInv, TypeOK, Token, Empty
  <1>7. \A t \in Token \union {Empty} : t <= issued => Live(t)' = Live(t)
    BY <1>1, <1>2, <1>3, <1>5, SMT DEF Live, Token, Empty
  <1>8. \A t, i \in Token \union {Empty} : Fits(t, i) => Fits(t, i)'
    BY <1>1, <1>3, <1>7, SMT DEF Fits, Token, Empty
  <1>9. ASSUME NEW x \in Handle \union Token, NEW t \in Token \union {Empty}, t <= issued,
               Live(t) => Lookup(x) = t, Live(t)'
        PROVE  Lookup(x)' = t
    <2>1. Live(t) /\ t # Empty /\ Lookup(x) = t
      BY <1>7, <1>9 DEF Live
    <2>2. CASE x \in Handle
      BY <1>1, <1>5, <2>1, <2>2 DEF Lookup
    <2>3. CASE x \notin Handle
      BY <1>9, <2>1, <2>3, LookupFinds DEF Lookup
    <2> QED
      BY <2>2, <2>3
  <1>10. Fits(n, n)'
    BY <1>1, <1>3 DEF Fits
  <1> HIDE DEF c, h, NoCommand
  <1>11. ASSUME NEW q \in Site, Running(q)' PROVE (CommandInv(cmd[q]))'
    <2>1. CASE q # s
      <3>1. PICK d \in Command : d = cmd[q] /\ cmd'[q] = d /\ CommandInv(d)
        BY <1>4, <1>11, <2>1 DEF Running, BootstrapInv, TypeOK
      <3>2. /\ d.token \in Token \union {Empty} /\ d.id \in Token \union {Empty}
            /\ d.target \in Handle \union Token /\ d.token <= issued
        BY <3>1 DEF Command, CommandInv, Fits
      <3>3. Fits(d.token, d.id)' /\ OwnInv(d)
        BY <1>8, <3>1, <3>2 DEF CommandInv
      <3>4. d.at = "id" /\ Live(d.token)' => Lookup(d.target)' = d.token
        BY <1>9, <3>1, <3>2 DEF CommandInv
      <3> QED
        BY <3>1, <3>3, <3>4 DEF CommandInv, OwnInv
    <2>2. CASE q = s
      <3>1. cmd'[q] = c
        BY <1>4, <1>11, <2>2 DEF Running, BootstrapInv, TypeOK
      <3>2. (Fits(cmd[q].token, cmd[q].id))'
        BY <1>4, <1>10, <3>1
      <3> QED
        BY <1>3, <1>4, <3>1, <3>2 DEF CommandInv, OwnInv
    <2> QED
      BY <2>1, <2>2
  <1>12. ASSUME NEW q \in Site, agent'[q].there PROVE (AgentInv(agent[q]))'
    <2>1. agent'[q] = agent[q] /\ agent[q] \in Agent /\ AgentInv(agent[q])
      BY <1>1, <1>12 DEF BootstrapInv, TypeOK, NoAgent
    <2> QED
      BY <1>8, <2>1 DEF Agent, AgentInv, OwnInv
  <1>13. TypeOK'
    <2>1. cmd' \in [Site -> Command \union {NoCommand}]
      BY <1>4 DEF BootstrapInv, TypeOK
    <2>2. \A q \in Site : Changing(q)' => Changing(q)
      <3>1. NoCommand.at \notin {"writing", "removing"}
        BY DEF NoCommand
      <3> QED
        BY <1>4, <3>1 DEF Changing, BootstrapInv, TypeOK
    <2>3. issued' \in 0..MaxRecords
      BY <1>1, <1>3
    <2> QED
      BY <1>1, <1>4, <1>5, <1>2, <2>1, <2>2, <2>3 DEF BootstrapInv, TypeOK
  <1>14. \A q \in Site : \A t \in Claims(q) : t <= issued
    <2> SUFFICES ASSUME NEW q \in Site, NEW t \in Claims(q) PROVE t <= issued
      OBVIOUS
    <2> QED
      BY DEF Claims, BootstrapInv, CommandInv, AgentInv, Fits
  <1>15. /\ Claims(s)' \subseteq Claims(s) \union {n}
         /\ \A q \in Site \ {s} : Claims(q)' = Claims(q)
    BY <1>1, <1>4 DEF Claims, Running, BootstrapInv, TypeOK
  <1>16. \A q, r \in Site : q # r => Claims(q)' \intersect Claims(r)' = {}
    <2>1. ASSUME NEW q \in Site, n \in Claims(q) PROVE FALSE
      <3>1. n <= issued
        BY <1>14, <2>1
      <3> QED
        BY <1>3, <3>1
    <2> QED
      BY <1>15, <2>1 DEF BootstrapInv
  <1> QED
    BY <1>6, <1>11, <1>12, <1>13, <1>16 DEF BootstrapInv

\* A record that is deleted is nobody's any more: less is live than before.
LEMMA DeleteClusterBootstrapInv ==
    ASSUME BootstrapInv, NEW h \in Handle, DeleteCluster(h)
    PROVE  BootstrapInv'
  <1>1. /\ record' = [record EXCEPT ![h] = Empty]
        /\ UNCHANGED <<issued, reg, release, agent, cmd, started>>
    BY DEF DeleteCluster, cluster
  <1>2. /\ record' \in [Handle -> Token \union {Empty}] /\ record'[h] = Empty
        /\ \A g \in Handle \ {h} : record'[g] = record[g]
    BY <1>1 DEF BootstrapInv, TypeOK
  <1>3. TypeOK' /\ RecordsInv'
    BY <1>1, <1>2, SMT DEF BootstrapInv, TypeOK, RecordsInv, Changing, Empty
  <1>4. \A t \in Token \union {Empty} : Live(t)' => Live(t)
    BY <1>2 DEF Live
  <1>5. ASSUME NEW x \in Handle \union Token, NEW t \in Token \union {Empty},
               Live(t) => Lookup(x) = t, Live(t)'
        PROVE  Lookup(x)' = t
    <2>1. Live(t) /\ t # Empty /\ Lookup(x) = t
      BY <1>4, <1>5 DEF Live
    <2>2. CASE x \in Handle
      <3>1. PICK g \in Handle : record'[g] = t
        BY <1>5 DEF Live
      <3>2. record[x] = t /\ record[g] = t /\ g # h
        BY <1>2, <2>1, <2>2, <3>1 DEF Lookup
      <3>3. g = x
        BY <2>1, <2>2, <3>2 DEF BootstrapInv, RecordsInv
      <3> QED
        BY <2>2, <3>1, <3>3 DEF Lookup
    <2>3. CASE x \notin Handle
      BY <1>5, <2>1, <2>3, LookupFinds DEF Lookup
    <2> QED
      BY <2>2, <2>3
  <1>6. ASSUME NEW q \in Site, Running(q)' PROVE (CommandInv(cmd[q]))'
    <2>1. PICK d \in Command : d = cmd[q] /\ cmd'[q] = d /\ CommandInv(d)
      BY <1>1, <1>6 DEF Running, BootstrapInv, TypeOK
    <2>2. /\ d.token \in Token \union {Empty} /\ d.target \in Handle \union Token
      BY <2>1 DEF Command
    <2>3. Fits(d.token, d.id)' /\ OwnInv(d)
      BY <1>1, <1>4, <2>1, <2>2 DEF CommandInv, Fits
    <2>4. d.at = "id" /\ Live(d.token)' => Lookup(d.target)' = d.token
      BY <1>5, <2>1, <2>2 DEF CommandInv
    <2> QED
      BY <2>1, <2>3, <2>4 DEF CommandInv, OwnInv
  <1>7. ASSUME NEW q \in Site, agent'[q].there PROVE (AgentInv(agent[q]))'
    <2>1. PICK a \in Agent : a = agent[q] /\ agent'[q] = a /\ AgentInv(a)
      BY <1>1, <1>7 DEF BootstrapInv, TypeOK, NoAgent
    <2> QED
      BY <1>1, <1>4, <2>1 DEF Agent, AgentInv, OwnInv, Fits
  <1>8. \A q \in Site : Claims(q)' = Claims(q)
    BY <1>1 DEF Claims, Running
  <1> QED
    BY <1>3, <1>6, <1>7, <1>8 DEF BootstrapInv

LEMMA CompleteRegistrationBootstrapInv ==
    ASSUME BootstrapInv, NEW s \in Site, NEW h \in Handle, CompleteRegistration(s, h)
    PROVE  BootstrapInv'
  <1>1. UNCHANGED <<record, issued, release, agent, cmd, started>>
    BY DEF CompleteRegistration, cluster
  <1>2. reg' \in [Site -> {"none", "open"} \union Handle]
    BY DEF CompleteRegistration, BootstrapInv, TypeOK
  <1> QED
    BY <1>1, <1>2 DEF BootstrapInv, TypeOK, RecordsInv, Claims, Running, Changing, CommandInv,
                      AgentInv, OwnInv, Fits, Live, Lookup

LEMMA NextBootstrapInv ==
    ASSUME BootstrapInv, Next
    PROVE  BootstrapInv'
  BY StartBootstrapInv, AbortBootstrapInv, CreateClusterBootstrapInv, QuestionsBootstrapInv,
     RegisteredBootstrapInv, ConfirmBootstrapInv, GetTokenBootstrapInv, GetClusterBootstrapInv,
     HelmBeginsBootstrapInv, HelmEndsBootstrapInv, DeleteClusterBootstrapInv,
     CompleteRegistrationBootstrapInv
     DEF Next

\* The inductive invariant holds in every reachable state.
THEOREM BootstrapInvHolds == Spec => []BootstrapInv
  <1>1. Init => BootstrapInv
    BY InitBootstrapInv
  <1>2. BootstrapInv /\ [Next]_vars => BootstrapInv'
    <2> SUFFICES ASSUME BootstrapInv, UNCHANGED vars PROVE BootstrapInv'
      BY NextBootstrapInv
    <2>1. UNCHANGED <<record, issued, reg, release, agent, cmd, started>>
      BY DEF vars, console, cluster
    <2> QED
      BY <2>1 DEF BootstrapInv, TypeOK, RecordsInv, Claims, Running, Changing, CommandInv,
                  AgentInv, OwnInv, Fits, Live, Lookup
  <1> QED
    BY <1>1, <1>2, PTL DEF Spec

-----------------------------------------------------------------------------
(* The results                                                             *)

\* The types of TypeOK, and that helm works on pending releases only
THEOREM BootstrapTypeCorrect == Spec => []TypeOK
  BY BootstrapInvHolds, PTL DEF BootstrapInv

\* An operator that was installed by the command that registered its cluster
\* has that record's token and id, and no two clusters have the same.
THEOREM OperatorsHaveTheirOwnRecord == Spec => []OwnRecord
  <1>1. BootstrapInv => OwnRecord
    <2> SUFFICES ASSUME BootstrapInv, NEW s \in Site, agent[s].there, agent[s].own
                 PROVE  /\ agent[s].token # Empty /\ agent[s].id = agent[s].token
                        /\ \A r \in Site \ {s} :
                             agent[r].there /\ agent[r].own => agent[r].token # agent[s].token
      BY DEF OwnRecord
    <2>1. ASSUME NEW r \in Site, agent[r].there, agent[r].own
          PROVE  /\ agent[r].token # Empty /\ agent[r].id = agent[r].token
                 /\ agent[r].token \in Claims(r)
      <3>1. agent[r] \in Agent /\ OwnInv(agent[r])
        BY <2>1 DEF BootstrapInv, TypeOK, AgentInv, NoAgent
      <3>2. agent[r].token # Empty /\ agent[r].token \in Token
        BY <2>1, <3>1 DEF OwnInv, Agent
      <3> QED
        BY <2>1, <3>1, <3>2 DEF OwnInv, Claims
    <2> QED
      BY <2>1 DEF BootstrapInv
  <1> QED
    BY <1>1, BootstrapInvHolds, PTL

\* Whatever record was deleted and created anew in between, an operator whose
\* token is good reports under that record's id.
THEOREM OperatorsReportUnderTheirToken == Spec => []LiveTokenHasItsId
  <1>1. BootstrapInv => LiveTokenHasItsId
    BY DEF BootstrapInv, LiveTokenHasItsId, AgentInv, Fits
  <1> QED
    BY <1>1, BootstrapInvHolds, PTL

\* No command repairs a release whose helm operation was killed.
THEOREM PendingReleasesStay == Spec => AbandonedForGood
  <1>1. BootstrapInv /\ [Next]_vars => [\A s \in Site : Abandoned(s) => Abandoned(s)']_vars
    <2> SUFFICES ASSUME BootstrapInv, Next, NEW s \in Site, Abandoned(s)
                 PROVE  Abandoned(s)'
      OBVIOUS
    <2>1. release[s] = "pending" /\ cmd[s].at \notin {"writing", "removing"}
      BY DEF Abandoned, Changing
    <2>2. CASE UNCHANGED <<release, cmd>>
      BY <2>1, <2>2 DEF Abandoned, Changing
    <2>3. ASSUME NEW r \in Site, NEW c, cmd' = [cmd EXCEPT ![r] = c],
                 c.at \notin {"writing", "removing"}, UNCHANGED release
          PROVE  Abandoned(s)'
      BY <2>1, <2>3 DEF Abandoned, Changing, BootstrapInv, TypeOK
    <2>4. ASSUME NEW r \in Site, r # s, NEW c, cmd' = [cmd EXCEPT ![r] = c],
                 NEW x, release' = [release EXCEPT ![r] = x]
          PROVE  Abandoned(s)'
      BY <2>1, <2>4 DEF Abandoned, Changing, BootstrapInv, TypeOK
    <2>5. ASSUME NEW r \in Site,
                 HelmStarts(r) \/ HelmEnds(r) \/ ListRelease(r) \/ Remove(r)
          PROVE  Abandoned(s)'
      <3>1. release = [release EXCEPT ![r] = release[r]]
        BY DEF BootstrapInv, TypeOK
      <3>2. CASE End(r) /\ UNCHANGED release
        BY <2>3, <3>2 DEF End, Becomes, NoCommand
      <3>3. CASE r # s
        <4>1. \E c : cmd' = [cmd EXCEPT ![r] = c]
          BY <2>5 DEF HelmStarts, HelmEnds, ListRelease, Remove, Goto, End, Becomes
        <4>2. \E x : release' = [release EXCEPT ![r] = x]
          BY <2>5, <3>1 DEF HelmStarts, HelmEnds, ListRelease, Remove
        <4> QED
          BY <2>4, <3>3, <4>1, <4>2
      <3>4. CASE r = s /\ ~(End(r) /\ UNCHANGED release)
        BY <2>1, <2>5, <3>4 DEF HelmStarts, HelmEnds, ListRelease, Remove
      <3> QED
        BY <3>2, <3>3, <3>4
    <2>6. ASSUME NEW r \in Site,
                 \/ StartCommand(r) \/ Abort(r) \/ CreateCluster(r) \/ HandleTaken(r)
                 \/ Register(r) \/ Registered(r) \/ ConfirmCluster(r)
                 \/ GetDeployToken(r) \/ GetCluster(r) \/ Check(r)
          PROVE  Abandoned(s)'
      <3>1. UNCHANGED release
        BY <2>6 DEF StartCommand, Start, Abort, CreateCluster, HandleTaken, Register, Registered,
                    ConfirmCluster, GetDeployToken, GetCluster, Check, cluster
      <3>2. CASE End(r)
        BY <2>3, <3>1, <3>2 DEF End, Becomes, NoCommand
      <3>3. CASE StartCommand(r)
        <4>1. PICK place \in {"create", "register", "list", "token", "confirm", "check"} :
                \E name, x, t, i : Start(r, name, x, place, t, i)
          BY <3>3, RequestsAre DEF StartCommand
        <4> QED
          BY <2>3, <3>1, <4>1 DEF Start
      <3>4. CASE ~End(r) /\ ~StartCommand(r)
        <4>1. cmd[r] \in Command
          BY <2>6, <3>4, RunningCommand
             DEF Abort, CreateCluster, HandleTaken, Register, Registered, ConfirmCluster,
                 GetDeployToken, GetCluster, Check
        <4>2. ASSUME NEW place \in {"token", "wait", "helm"}, Goto(r, place)
              PROVE  Abandoned(s)'
          BY <2>3, <3>1, <4>1, <4>2 DEF Goto, Becomes, Command
        <4>3. ASSUME NEW x, \/ Becomes(r, [cmd[r] EXCEPT !.at = "create", !.target = x])
                            \/ Becomes(r, [cmd[r] EXCEPT !.at = "check", !.id = x])
                            \/ Becomes(r, [cmd[r] EXCEPT !.at = "id", !.token = x])
              PROVE  Abandoned(s)'
          BY <2>3, <3>1, <4>1, <4>3 DEF Becomes, Command
        <4>4. CASE CreateCluster(r)
          BY <2>3, <3>1, <3>4, <4>1, <4>4 DEF CreateCluster, Becomes, Command
        <4>5. CASE HandleTaken(r) \/ Register(r) \/ Check(r)
          BY <4>2, <4>5, RequestsAre DEF HandleTaken, Register, Check
        <4>6. CASE Registered(r) \/ ConfirmCluster(r) \/ GetDeployToken(r) \/ GetCluster(r)
          BY <4>3, <4>6, RequestsAre DEF Registered, ConfirmCluster, GetDeployToken, GetCluster
        <4> QED
          BY <2>6, <3>4, <4>4, <4>5, <4>6 DEF Abort
      <3> QED
        BY <3>2, <3>3, <3>4
    <2> QED
      BY <2>2, <2>5, <2>6 DEF Next, CompleteRegistration, DeleteCluster, cluster
  <1> QED
    BY <1>1, BootstrapInvHolds, PTL DEF Spec, AbandonedForGood
=============================================================================
