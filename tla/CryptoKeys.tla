----------------------------- MODULE CryptoKeys -----------------------------
(***************************************************************************)
(* The repository encryption of `plural crypto`: the symmetric key in      *)
(* ~/.plural/key, its local and remote backups, the age sharing under      *)
(* .plural-crypt, crypto.yml, the .keyid fingerprint, the git filters that *)
(* encrypt files.                                                          *)
(*                                                                         *)
(* Every user has one machine; the repository is shared, and a command     *)
(* sees what the last one wrote to it (users push and pull between         *)
(* commands).  One command runs at a time and may be killed between any    *)
(* two writes.  A file in the home directory is truncated by one step and  *)
(* filled by another, so a kill leaves it torn; a file of the repository   *)
(* is one write, since git restores a torn one.                            *)
(***************************************************************************)
EXTENDS FiniteSets

CONSTANTS
    User,   \* machines, each with its own home directory
    Key,    \* symmetric keys RandStr may draw
    File,   \* the files .gitattributes puts behind the filters
    NoKey,  \* no key: the file is missing
    Torn    \* a truncated file; a nil *AESKey once it is read

ASSUME SpecialValues == NoKey \notin Key /\ Torn \notin Key /\ NoKey # Torn
\* the id of a key is a digest
ASSUME IdsAreDigests == Key \intersect {"none", "age", "bad"} = {}

VARIABLES
    keyfile,  \* [user] ~/.plural/key
    ident,    \* [user] the age identity ~/.plural/identity
    saved,    \* keys under some user's ~/.plural/keybackups
    server,   \* keys in the account's backups or a console-conf secret
    uploaded, \* users whose public key the account lists
    sealed,   \* .plural-crypt/key: the key inside and who can open it
    listed,   \* identities.yml, {} while there is no such file
    conf,     \* crypto.yml: "none", "age", "bad" (unreadable) or a key's id
    keyid,    \* .keyid
    content,  \* [file] the key the committed file is encrypted with
    drawn,    \* keys generated so far
    cmd       \* the running command

home == <<keyfile, saved, ident>>
repo == <<sealed, listed, conf, keyid, content>>
vars == <<home, repo, server, uploaded, drawn, cmd>>

Builders == {"init", "encrypt"}
Command  == Builders \union
    {"fingerprint", "share", "setup-keys", "backup", "restore", "import"}

NoCommand == [name |-> "none"]
Running   == cmd # NoCommand

Place == {"key", "act", "config", "mail", "open", "seal", "list", "conf",
          "copy", "flush"}

CommandRecord == [name : Command, user : User, at : Place,
                  key : Key \union {NoKey, Torn}, mail : SUBSET User,
                  file : File, writing : {"none", "key", "ident"}]

\* Type invariant; a key being written is one that was drawn or fetched.
TypeOK ==
    /\ keyfile \in [User -> Key \union {NoKey, Torn}]
    /\ saved \subseteq Key
    /\ ident \in [User -> {"none", "torn", "whole"}]
    /\ server \subseteq Key
    /\ uploaded \subseteq User
    /\ sealed \in [key : Key \union {NoKey, Torn}, to : SUBSET User]
    /\ listed \subseteq User
    /\ conf \in {"none", "age", "bad"} \union Key
    /\ keyid \in Key \union {NoKey}
    /\ content \in [File -> Key \union {NoKey}]
    /\ drawn \subseteq Key
    /\ cmd \in CommandRecord \union {NoCommand}
    /\ Running /\ cmd.writing = "key" => cmd.key \in Key

Init ==
    /\ \/ keyfile = [u \in User |-> NoKey] /\ conf = "none" /\ drawn = {}
       \* a repository with a crypto.yml of type key
       \/ \E u \in User, k \in Key :
            /\ keyfile = [v \in User |-> IF v = u THEN k ELSE NoKey]
            /\ conf = k /\ drawn = {k}
    /\ saved = {}
    /\ ident = [u \in User |-> "none"]
    /\ server = {} /\ uploaded = {}
    /\ sealed = [key |-> NoKey, to |-> {}] /\ listed = {}
    /\ keyid = NoKey /\ content = [f \in File |-> NoKey]
    /\ cmd = NoCommand

-----------------------------------------------------------------------------
(* How a command moves                                                     *)

Start(u, name, place, k, mail, f) ==
    /\ ~Running
    /\ cmd' = [name |-> name, user |-> u, at |-> place, key |-> k,
               mail |-> mail, file |-> f, writing |-> "none"]
    /\ UNCHANGED <<home, repo, server, uploaded, drawn>>

At(place)     == Running /\ cmd.writing = "none" /\ cmd.at = place
Goto(place)   == cmd' = [cmd EXCEPT !.at = place]
End           == cmd' = NoCommand
Me            == cmd.user

\* an error return, or the panic on a nil key
Abort ==
    /\ End
    /\ UNCHANGED <<home, repo, server, uploaded, drawn>>

\* generateIdentity creates the file first and prints the identity into it
CreateIdentity ==
    /\ ident[Me] = "none"
    /\ ident' = [ident EXCEPT ![Me] = "torn"]
    /\ cmd' = [cmd EXCEPT !.writing = "ident"]
    /\ UNCHANGED <<keyfile, saved, repo, server, uploaded, drawn>>

FillIdentity ==
    /\ Running /\ cmd.writing = "ident"
    /\ ident' = [ident EXCEPT ![Me] = "whole"]
    /\ cmd' = [cmd EXCEPT !.writing = "none"]
    /\ UNCHANGED <<keyfile, saved, repo, server, uploaded, drawn>>

\* os.WriteFile of the key file: truncated here, filled by FillKey
TruncateKey(k) ==
    /\ keyfile' = [keyfile EXCEPT ![Me] = Torn]
    /\ cmd' = [cmd EXCEPT !.writing = "key", !.key = k]
    /\ UNCHANGED <<saved, ident, repo, server, uploaded>>

FillKey ==
    /\ Running /\ cmd.writing = "key"
    /\ keyfile' = [keyfile EXCEPT ![Me] = cmd.key]
    /\ cmd' = IF cmd.at = "flush" THEN NoCommand
              ELSE [cmd EXCEPT !.writing = "none"]
    /\ UNCHANGED <<saved, ident, repo, server, uploaded, drawn>>

\* mutant: the key is drawn after the file is opened
MaterializeLate ==
    /\ At("key") /\ keyfile[Me] = NoKey
    /\ TruncateKey(NoKey) /\ UNCHANGED drawn

\* an existing key file is always used, whatever is in it
Materialize ==
    /\ At("key")
    /\ IF keyfile[Me] = NoKey
       THEN \E k \in Key \ drawn : TruncateKey(k) /\ drawn' = drawn \union {k}
       ELSE /\ cmd' = [cmd EXCEPT !.key = keyfile[Me],
                                  !.at = IF cmd.name = "share" THEN "seal" ELSE "act"]
            /\ UNCHANGED <<home, repo, server, uploaded, drawn>>

-----------------------------------------------------------------------------
(* crypto.Build: the provider whose key encrypts and decrypts              *)

Opens(u) == ident[u] = "whole" /\ u \in sealed.to /\ sealed.key \in Key

\* the provider's key, NoKey when there is none
Provider(u) ==
    IF conf = "age" THEN IF Opens(u) THEN sealed.key ELSE NoKey
    ELSE IF conf \in Key /\ keyfile[u] # conf THEN NoKey
    ELSE keyfile[u]

\* the fingerprint is compared unless crypto.yml cannot be parsed
Builds(u) == /\ keyfile[u] \in Key
             /\ Provider(u) # NoKey
             /\ conf = "bad" \/ keyid = NoKey \/ keyid = Provider(u)

\* an age provider generates the identity it misses before it decrypts
BuildNeedsIdentity ==
    /\ At("act") /\ cmd.name \in Builders
    /\ conf = "age" /\ keyfile[Me] \in Key
    /\ CreateIdentity

CanBuild == At("act") /\ cmd.name \in Builders
            /\ ~(conf = "age" /\ keyfile[Me] \in Key /\ ident[Me] = "none")

BuildFails == CanBuild /\ ~Builds(Me) /\ Abort

InitEnds ==
    /\ CanBuild /\ cmd.name = "init" /\ Builds(Me)
    /\ End /\ UNCHANGED <<home, repo, server, uploaded, drawn>>

Encrypt ==
    /\ CanBuild /\ cmd.name = "encrypt" /\ Builds(Me)
    /\ content' = [content EXCEPT ![cmd.file] = Provider(Me)]
    /\ End
    /\ UNCHANGED <<home, sealed, listed, conf, keyid, server, uploaded, drawn>>

Fingerprint ==
    /\ At("act") /\ cmd.name = "fingerprint"
    /\ IF keyfile[Me] = Torn THEN Abort
       ELSE /\ keyid' = keyfile[Me] /\ End
            /\ UNCHANGED <<home, sealed, listed, conf, content, server, uploaded, drawn>>

-----------------------------------------------------------------------------
(* crypto share                                                            *)

Recipients == cmd.mail \union (IF listed = {} THEN {Me} ELSE listed)

\* the first share makes a configuration with the user's own identity
ShareConfig ==
    /\ At("config")
    /\ \/ listed = {} /\ CreateIdentity
       \/ listed = {} /\ ident[Me] = "torn" /\ Abort
       \/ /\ listed # {} \/ ident[Me] = "whole"
          /\ Goto("mail")
          /\ UNCHANGED <<home, repo, server, uploaded, drawn>>

\* all invited users must have a public key in the account
ShareMail ==
    /\ At("mail")
    /\ \/ Abort
       \/ /\ cmd.mail \subseteq uploaded
          /\ Goto(IF sealed.key = NoKey THEN "key" ELSE "open")
          /\ UNCHANGED <<home, repo, server, uploaded, drawn>>

\* mutant: the user's own key replaces the repository's
ShareOpenOwn ==
    /\ At("open") /\ ident[Me] # "none"
    /\ Goto("key") /\ UNCHANGED <<home, repo, server, uploaded, drawn>>

\* an existing repository key is opened to be encrypted anew; a nil key
\* (Torn) opens too, and is written back as it is
ShareOpen ==
    /\ At("open")
    /\ \/ CreateIdentity
       \/ /\ ident[Me] # "none"
          /\ IF ident[Me] = "whole" /\ Me \in sealed.to
             THEN /\ cmd' = [cmd EXCEPT !.key = sealed.key, !.at = "seal"]
                  /\ UNCHANGED <<home, repo, server, uploaded, drawn>>
             ELSE Abort

\* mutant: only the invited users are recipients
SealForInvited ==
    /\ At("seal")
    /\ sealed' = [key |-> cmd.key, to |-> cmd.mail \union {Me}]
    /\ Goto("list")
    /\ UNCHANGED <<home, listed, conf, keyid, content, server, uploaded, drawn>>

Seal ==
    /\ At("seal")
    /\ sealed' = [key |-> cmd.key, to |-> Recipients]
    /\ Goto("list")
    /\ UNCHANGED <<home, listed, conf, keyid, content, server, uploaded, drawn>>

\* mutant: identities.yml lists the invited users only
ListInvited ==
    /\ At("list")
    /\ listed' = cmd.mail /\ Goto("conf")
    /\ UNCHANGED <<home, sealed, conf, keyid, content, server, uploaded, drawn>>

List ==
    /\ At("list")
    /\ listed' = Recipients /\ Goto("conf")
    /\ UNCHANGED <<home, sealed, conf, keyid, content, server, uploaded, drawn>>

\* mutant: crypto.yml is written before the provider is built
ShareConfUnopened ==
    /\ At("conf")
    /\ conf' = "age" /\ End
    /\ UNCHANGED <<home, sealed, listed, keyid, content, server, uploaded, drawn>>

\* the sealed key is opened once more before crypto.yml says "age"; a nil
\* key panics here
ShareConf ==
    /\ At("conf")
    /\ IF Opens(Me)
       THEN /\ conf' = "age" /\ End
            /\ UNCHANGED <<home, sealed, listed, keyid, content, server, uploaded, drawn>>
       ELSE Abort

SetupKeys ==
    /\ At("act") /\ cmd.name = "setup-keys"
    /\ \/ CreateIdentity
       \/ ident[Me] # "none" /\ Abort
       \/ /\ ident[Me] = "whole"
          /\ uploaded' = uploaded \union {Me} /\ End
          /\ UNCHANGED <<home, repo, server, drawn>>

-----------------------------------------------------------------------------
(* Backups and imports                                                     *)

BackupKey ==
    /\ At("act") /\ cmd.name = "backup"
    /\ \/ Abort
       \/ /\ keyfile[Me] \in Key
          /\ server' = server \union {keyfile[Me]} /\ End
          /\ UNCHANGED <<home, repo, uploaded, drawn>>

\* mutant: Setup flushes without keeping the old key
CopySkipped ==
    /\ At("copy") /\ Goto("flush")
    /\ UNCHANGED <<home, repo, server, uploaded, drawn>>

\* Setup keeps a key file that holds another key under a fresh name
CopyKey ==
    /\ At("copy")
    /\ saved' = saved \union ({keyfile[Me]} \intersect (Key \ {cmd.key}))
    /\ Goto("flush")
    /\ UNCHANGED <<keyfile, ident, repo, server, uploaded, drawn>>

FlushKey == At("flush") /\ TruncateKey(cmd.key) /\ UNCHANGED drawn

-----------------------------------------------------------------------------
(* Commands, kills and merges                                              *)

Exported == {keyfile[v] : v \in User} \intersect Key

StartCommand(u, f) ==
    \/ Start(u, "init", "key", NoKey, {}, f)
    \/ Start(u, "encrypt", "key", NoKey, {}, f)
    \/ Start(u, "fingerprint", "key", NoKey, {}, f)
    \/ Start(u, "setup-keys", "act", NoKey, {}, f)
    \/ Start(u, "backup", "act", NoKey, {}, f)
    \/ \E mail \in (SUBSET User) \ {{}} : Start(u, "share", "config", NoKey, mail, f)
    \/ \E k \in server : Start(u, "restore", "copy", k, {}, f)
    \/ \E k \in Exported : Start(u, "import", "flush", k, {}, f)

Kill ==
    /\ Running /\ End
    /\ UNCHANGED <<home, repo, server, uploaded, drawn>>

\* a merge leaves conflict markers in crypto.yml
MergeConflict ==
    /\ ~Running /\ conf # "none" /\ conf' = "bad"
    /\ UNCHANGED <<home, sealed, listed, keyid, content, server, uploaded, drawn, cmd>>

Next ==
    \/ \E u \in User, f \in File : StartCommand(u, f)
    \/ FillIdentity \/ FillKey \/ Materialize
    \/ BuildNeedsIdentity \/ BuildFails \/ InitEnds \/ Encrypt
    \/ Fingerprint
    \/ ShareConfig \/ ShareMail \/ ShareOpen \/ Seal \/ List \/ ShareConf
    \/ SetupKeys \/ BackupKey \/ CopyKey \/ FlushKey
    \/ Kill \/ MergeConflict

Spec == Init /\ [][Next]_vars

-----------------------------------------------------------------------------
(* Properties                                                              *)

\* where a key can still be had from
Held(k) ==
    \/ k \in server \union saved
    \/ \E u \in User : keyfile[u] = k
    \/ sealed.key = k /\ \E u \in sealed.to : ident[u] = "whole"

\* No command but `crypto import`, killed or not, takes away the last copy
\* of a key some file is encrypted with: Setup copies the key file before it
\* overwrites it, and Materialize never replaces one.
NoKeyLost ==
    [][\A k \in Key :
        (\E f \in File : content[f] = k) /\ Held(k) /\ ~Held(k)'
            => Running /\ cmd.name = "import"]_vars

\* Whoever identities.yml lists can open .plural-crypt/key, also after a
\* kill between the two writes (age.go writes the key first).
ListedCanOpen == listed \subseteq sealed.to

\* A share only adds users: who is listed stays listed and keeps opening
\* the repository's key.
NobodyDropped == [][listed \subseteq listed' /\ listed \subseteq sealed'.to]_vars

\* Once a repository has a key of its own, no share replaces it, whatever
\* key the sharing user has at home.
RepoKeyFixed == [][sealed.key # NoKey => sealed'.key = sealed.key]_vars

\* Once crypto.yml refers everyone to the shared key, it is a key, and each
\* listed user opens it with an identity that is whole: a share that began
\* with a torn key file, or was killed on the way, is never what the
\* repository is switched to.
SharedKeyOpens == conf = "age" => listed # {} /\ \A u \in listed : Opens(u)

\* "allows a list of plural users to decrypt this repository"
\* (crypto.go:105): after a share that succeeds, an invited user with an
\* intact home directory can build the provider.
ShareLetsUsersDecrypt ==
    [][ShareConf /\ Opens(cmd.user)
        => \A u \in cmd.mail :
            ident[u] = "whole" /\ keyfile[u] \in Key => Builds(u)']_vars
=============================================================================
