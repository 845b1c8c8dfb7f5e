------------------------------ MODULE Services ------------------------------
(***************************************************************************)
(* The console's services, as `plural cd login` and `plural cd services`   *)
(* handle them: a command reads console.yml, looks a service up and sends  *)
(* back what it read with its flags on top.  The other users of the        *)
(* console, and its controllers, write in between.                         *)
(***************************************************************************)
EXTENDS Machine

CONSTANT MaxServices \* bound: services ever created

ASSUME ServiceBound == MaxServices \in Nat \ {0}

VARIABLES
    services, \* [name] the service that has it
    created   \* services created so far, which are their ids

onConsole == <<services, created>>

\* Only "ours" is ever named by --conf, and only "flag" by --context-id.
Key     == {"ours", "theirs"}
Value   == {"unset", "old", "new"}
Context == {"bound", "flag"}
Flag    == {"git", "conf", "context"}
Name    == {"app", "copy"}
Service == [id : 1..MaxServices, git : {"old", "new"},
            conf : [Key -> Value], contexts : SUBSET Context]

ServicesTypeOK ==
    /\ services \in [Name -> {Absent} \union File(Service)]
    /\ created \in 0..MaxServices

Exists(n) == services[n] # Absent

\* pick: the console to log in to; set: the flags that are given; seen: the
\* service that was looked up
ConsoleCommand(name, place, pick, set) ==
    [name |-> name, at |-> place, next |-> "end", cwd |-> "root", pick |-> pick,
     set |-> set, seen |-> Absent]

-----------------------------------------------------------------------------
(* The login                                                               *)

Proceed(c) == IF c.next = "end" THEN End ELSE Becomes([c EXCEPT !.at = c.next])

\* HandleCdLogin: a login to another console is kept if the user says so
HandleCdLogin ==
    /\ At("console login")
    /\ \/ /\ console.is = "file" /\ console.has # cmd.pick
          /\ Proceed(cmd) /\ UNCHANGED console
       \/ Goto("save console") /\ console' = Torn
    /\ UNCHANGED <<config, profile, yaml, context>>

\* Config.Save
SaveConsole ==
    /\ At("save console") /\ console' = Holding(cmd.pick)
    /\ Proceed(cmd)
    /\ UNCHANGED <<config, profile, yaml, context>>

\* InitConsoleClient: a missing console.yml and a torn one have no token
InitConsoleClient ==
    /\ At("connect") /\ console.is = "file"
    /\ Goto(CASE cmd.name \in {"create", "clone"} -> "send"
              [] cmd.name = "edge image" -> "cloud config"
              [] OTHER -> "look up")
    /\ UNCHANGED <<files, onConsole>>

-----------------------------------------------------------------------------
(* Services                                                                *)

\* GetClusterService
GetClusterService ==
    /\ At("look up") /\ Exists("app")
    /\ IF cmd.name = "describe" THEN End
       ELSE Becomes([cmd EXCEPT !.at = "send", !.seen = services["app"]])
    /\ UNCHANGED <<files, onConsole>>

Sending(name) == At("send") /\ cmd.name = name

\* what --conf names is new, what it does not name stays
Overlaid(conf) == IF "conf" \in cmd.set THEN [conf EXCEPT !["ours"] = "new"] ELSE conf

Put(n, svc) ==
    /\ services' = [services EXCEPT ![n] = Holding(svc)]
    /\ End /\ UNCHANGED files

\* handleCreateClusterService: the configuration is that of the flags and of
\* --config-file
CreateService ==
    /\ Sending("create") /\ ~Exists("app") /\ created < MaxServices
    /\ created' = created + 1
    /\ \E theirs \in {"unset", "new"} :
         Put("app", [id |-> created', git |-> "new", contexts |-> {},
                       conf |-> Overlaid([k \in Key |-> IF k = "theirs" THEN theirs ELSE "unset"])])

\* mutant: the configuration that is sent starts from the flags
UpdateFromFlags ==
    LET seen == cmd.seen.has IN
    /\ Sending("update") /\ Exists("app")
    /\ Put("app", [services["app"].has EXCEPT !.conf = Overlaid([k \in Key |-> "unset"])])
    /\ UNCHANGED created

\* handleUpdateClusterService: the whole configuration and all contexts are
\* sent as they were read, those of the flags over them; without any context
\* the console's stay.  The service is found by its name once more.
UpdateService ==
    LET seen     == cmd.seen.has
        contexts == IF "context" \in cmd.set THEN seen.contexts \union {"flag"}
                    ELSE seen.contexts
    IN
    /\ Sending("update") /\ Exists("app")
    /\ Put("app", [services["app"].has EXCEPT
                        !.git = IF "git" \in cmd.set THEN "new" ELSE seen.git,
                        !.conf = Overlaid(seen.conf),
                        !.contexts = IF contexts = {} THEN @ ELSE contexts])
    /\ UNCHANGED created

\* handleCloneClusterService: the console copies the service it has by then
CloneService ==
    /\ Sending("clone") /\ Exists("app") /\ ~Exists("copy") /\ created < MaxServices
    /\ created' = created + 1
    /\ Put("copy", [services["app"].has EXCEPT !.id = created', !.conf = Overlaid(@)])

\* handleDeleteClusterService sends the id that was looked up.
DeleteService ==
    /\ Sending("delete") /\ Exists("app") /\ services["app"].has.id = cmd.seen.has.id
    /\ services' = [services EXCEPT !["app"] = Absent]
    /\ End /\ UNCHANGED <<files, created>>

\* handleKickClusterService: a sync is the console's work
KickService ==
    /\ Sending("kick") /\ Exists("app")
    /\ End /\ UNCHANGED <<files, onConsole>>

-----------------------------------------------------------------------------
(* Everyone else                                                           *)

\* They write at any time; only what they write between the look-up and the
\* request can matter, for a request is one step.
OthersWrite ==
    /\ At("send") /\ UNCHANGED <<files, cmd, started>>
    /\ \/ /\ Exists("app") /\ UNCHANGED created
          /\ \/ \E v \in Value :
                  services' = [services EXCEPT !["app"].has.conf["theirs"] = v]
             \/ \E c \in SUBSET {"bound"} :
                  services' = [services EXCEPT !["app"].has.contexts = c]
             \/ services' = [services EXCEPT !["app"] = Absent]
       \/ /\ ~Exists("app") /\ created < MaxServices
          /\ created' = created + 1
          /\ services' = [services EXCEPT !["app"] = Holding(
                [id |-> created', git |-> "old", contexts |-> {},
                 conf |-> [k \in Key |-> "old"]])]

StartServices ==
    \/ \E c \in Console : Start(ConsoleCommand("cd login", "console login", c, {}))
    \/ \E set \in SUBSET Flag :
         Start(ConsoleCommand("update", "connect", OwnConsole, set))
    \/ \E name \in {"create", "clone"}, set \in SUBSET {"conf"} :
         Start(ConsoleCommand(name, "connect", OwnConsole, set))
    \/ \E name \in {"describe", "delete", "kick"} :
         Start(ConsoleCommand(name, "connect", OwnConsole, {}))

ServicesNext ==
    \/ HandleCdLogin /\ UNCHANGED onConsole
    \/ SaveConsole /\ UNCHANGED onConsole
    \/ InitConsoleClient \/ GetClusterService
    \/ CreateService \/ UpdateService \/ CloneService
    \/ DeleteService \/ KickService \/ OthersWrite

-----------------------------------------------------------------------------
(* Properties                                                              *)

\* An update changes what its flags name and nothing else, unless somebody
\* wrote between its look-up and its request: the configuration and contexts
\* that others have set survive it, although all of them are sent back.
UpdateKeepsTheRest ==
    [][LET old == services["app"].has  new == services'["app"].has IN
       Sending("update") /\ cmd' = NoCommand /\ services' # services
         /\ services["app"] = cmd.seen
         => /\ new.id = old.id
            /\ new.conf["theirs"] = old.conf["theirs"]
            /\ old.contexts \subseteq new.contexts
            /\ "conf" \notin cmd.set => new.conf = old.conf
            /\ "git" \notin cmd.set => new.git = old.git]_services
=============================================================================
