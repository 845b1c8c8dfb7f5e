------------------------------ MODULE Identity ------------------------------
(***************************************************************************)
(* Who the CLI is: the login in ~/.plural/config.yml, the profile it is    *)
(* saved to, the login a command holds in memory (config.SetConfig), and   *)
(* the commands that change them: `login`, `profile use` and `save`,       *)
(* `config amend` and `import`, `auth oidc`, `import`.                     *)
(***************************************************************************)
EXTENDS Machine

\* name: the command; at: its next step; next: the step after the login; cwd:
\* where it runs; pf: --profile-file names the profile; dry, cloud: --dry-run
\* and --cloud; mem: the login set in memory; conf: the one that logs in; asked:
\* the user the command was told to become; client: the user its API client
\* speaks for; man, writer: the manifest to write; cred: the credentials found;
\* pick: the console to log in to
Command(name, place, d, pf) ==
    [name |-> name, at |-> place, next |-> "end", cwd |-> d, pf |-> pf,
     dry |-> FALSE, cloud |-> FALSE, mem |-> Nobody, conf |-> Nobody,
     asked |-> NoUser, client |-> NoUser, man |-> EmptyManifest,
     writer |-> FALSE, cred |-> "none", pick |-> OwnConsole]

\* configFile
ConfigFile == IF cmd.pf THEN profile ELSE config

\* A missing file and one that does not parse are an empty login.
Import(f) == IF f.is = "file" THEN f.has ELSE Nobody

\* config.Read: what SetConfig put in memory comes first
Read == IF cmd.mem # Nobody THEN cmd.mem ELSE Import(ConfigFile)

-----------------------------------------------------------------------------
(* Login                                                                   *)

\* HandleLogin: the current user, if there is one and the user says yes, or
\* whoever opens the device login; the poll for the token goes on for ever.  In
\* `init` a service account that is impersonated already is the current user.
HandleLogin ==
    /\ At("login")
    /\ \/ /\ ConfigFile # Absent
          /\ Becomes([cmd EXCEPT !.at = "me", !.conf = Read,
                                !.asked = Import(ConfigFile).token])
       \/ \E p \in Person :
            Becomes([cmd EXCEPT !.at = "me", !.asked = p,
                                !.conf = [email |-> NoUser, token |-> p]])
    /\ UNCHANGED files

\* mutant: the impersonated login is stored whatever the command
PersistAlways ==
    LET u == cmd.conf.token IN
    /\ At("me") /\ u # NoUser
    /\ \/ Becomes([cmd EXCEPT !.at = "flush", !.conf = As(u)])
       \/ \E r \in Robot :
            /\ u \in Trusted
            /\ Becomes([cmd EXCEPT !.conf = As(r), !.mem = As(r), !.at = "flush"])
    /\ UNCHANGED files

\* The console's name for the token's user replaces the email.  With
\* --service-account the robot's login is set in memory, and only `login`
\* goes on to store it.
PostLogin ==
    LET u == cmd.conf.token IN
    /\ At("me") /\ u # NoUser
    /\ \/ Becomes([cmd EXCEPT !.at = "flush", !.conf = As(u)])
       \/ \E r \in Robot :
            /\ u \in Trusted
            /\ IF cmd.name = "login"
               THEN Becomes([cmd EXCEPT !.conf = As(r), !.mem = As(r),
                                        !.asked = r, !.at = "flush"])
               ELSE Becomes([cmd EXCEPT !.conf = Nobody, !.mem = As(r),
                                        !.asked = NoUser, !.at = cmd.next])
    /\ UNCHANGED files

\* Flush writes config.yml, also when the login was read from a profile file.
Flush ==
    /\ At("flush") /\ config' = Torn
    /\ Goto("fill") /\ UNCHANGED <<profile, console, yaml, context>>

Filled ==
    /\ At("fill") /\ config' = Holding(cmd.conf)
    /\ IF cmd.next = "end" THEN End
       ELSE Becomes([cmd EXCEPT !.at = cmd.next, !.conf = Nobody, !.asked = NoUser])
    /\ UNCHANGED <<profile, console, yaml, context>>

-----------------------------------------------------------------------------
(* Profiles and the configuration                                          *)

Store(conf, asked) ==
    Becomes([cmd EXCEPT !.at = "flush", !.conf = conf, !.asked = asked])

\* config.Profile: also a profile that is missing or torn becomes the login
UseProfile ==
    /\ At("use")
    /\ Store(Import(profile), Import(profile).token)
    /\ UNCHANGED files

\* handleSaveProfile; the second step fills the file
SaveProfile ==
    \/ /\ At("save") /\ profile' = Torn
       /\ Becomes([cmd EXCEPT !.at = "saving", !.conf = Import(ConfigFile)])
       /\ UNCHANGED <<config, console, yaml, context>>
    \/ /\ At("saving") /\ profile' = Holding(cmd.conf)
       /\ End /\ UNCHANGED <<config, console, yaml, context>>

\* config.Amend of a key that is not part of the login
Amend ==
    /\ At("amend") /\ Store(Read, Read.token)
    /\ UNCHANGED files

\* config.FromToken: nothing but the token is stored
FromToken ==
    /\ At("token")
    /\ \E u \in User : Store([email |-> NoUser, token |-> u], u)
    /\ UNCHANGED files

\* handleOidcToken, once the client is there
OidcToken ==
    /\ At("exchange")
    /\ \E u \in User : Store(As(u), u)
    /\ UNCHANGED files

\* HandleImport of another home directory; its key is CryptoKeys' Import
ImportHome ==
    /\ At("import")
    /\ \E u \in User \union {NoUser} : Store(As(u), u)
    /\ UNCHANGED files

\* whether --profile-file is given: only with a file that is there
ProfileFile == {FALSE, profile # Absent}

StartIdentity ==
    \/ \E pf \in ProfileFile :
         \/ Start(Command("login", "login", "root", pf))
         \/ Start(Command("amend", "amend", "root", pf))
    \/ Start(Command("profile use", "use", "root", FALSE))
    \/ Start(Command("profile save", "save", "root", FALSE))
    \/ Start(Command("config import", "token", "root", FALSE))
    \/ Start(Command("import", "import", "root", FALSE))
    \/ \E d \in Dir : Start(Command("oidc", "client", d, FALSE))

IdentityNext ==
    \/ HandleLogin \/ PostLogin \/ Flush \/ Filled
    \/ UseProfile \/ SaveProfile \/ Amend \/ FromToken
    \/ OidcToken \/ ImportHome

-----------------------------------------------------------------------------
(* Properties                                                              *)

\* Whenever config.yml is filled it is with the login that the command was told
\* to store: the one of the file that was read, which the user confirmed, the
\* one of a new login or of a token, or a service account's that `login` was to
\* assume.  The login that a command impersonates for itself stays in memory,
\* with one exception: `init` in a service account's workspace shows it as the
\* current user, and stores it after a yes.
StoredAsAsked ==
    [][config' # config /\ config'.is = "file" =>
         \/ config'.has.token = cmd.asked
         \/ /\ cmd.name = "init" /\ cmd.mem # Nobody
            /\ config'.has.token = cmd.mem.token]_config
=============================================================================
