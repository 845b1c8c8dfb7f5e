-------------------------- MODULE CryptoKeys_proofs --------------------------
(***************************************************************************)
(* Theorems about CryptoKeys, for every set of users, keys and files: any  *)
(* number of commands, each of which may be killed anywhere.               *)
(***************************************************************************)
EXTENDS CryptoKeys, TLAPS

-----------------------------------------------------------------------------
(* The inductive invariant                                                 *)

SharePlace == {"config", "mail", "open", "seal", "list", "conf"}
SetupPlace == {"copy", "flush"}

\* Where a share stands: what it will seal is the repository's key, if there
\* is one, for users who can open it and for those who were listed already.
ShareInv ==
    /\ cmd.mail # {}
    /\ cmd.at \notin {"config", "mail"} => cmd.mail \subseteq uploaded
    /\ cmd.at = "key" => sealed.key = NoKey
    /\ cmd.at = "seal" => sealed.key \in {NoKey, cmd.key}
    /\ cmd.at = "list" => Recipients \subseteq sealed.to

\* Where a command stands that overwrites the key file: the key it replaces
\* has a copy, and so has the one it writes.
SetupInv ==
    /\ cmd.name \in {"restore", "import"} /\ cmd.key \in Key
    /\ cmd.name = "restore" => cmd.key \in server
    /\ cmd.name = "restore" /\ cmd.at = "flush" /\ keyfile[Me] \in Key =>
         keyfile[Me] \in saved \union {cmd.key}

CommandInv ==
    /\ cmd.at \in SharePlace => cmd.name = "share"
    /\ cmd.at \in SetupPlace => SetupInv
    /\ cmd.name = "share" => ShareInv
    /\ cmd.writing = "key" => keyfile[Me] = Torn /\ cmd.at \in {"key", "flush"}

KeysInv ==
    /\ TypeOK
    /\ ListedCanOpen
    /\ \A u \in uploaded : ident[u] = "whole"
    /\ Running => CommandInv

-----------------------------------------------------------------------------
(* Every step keeps it                                                     *)

LEMMA InitKeysInv == Init => KeysInv
  BY SpecialValues
     DEF Init, KeysInv, TypeOK, ListedCanOpen, Running, NoCommand

\* A command that ends leaves nothing to say of it.
LEMMA EndKeysInv ==
    ASSUME KeysInv, End, ListedCanOpen',
           keyfile' \in [User -> Key \union {NoKey, Torn}],
           saved' \subseteq Key, server' \subseteq Key,
           uploaded' \subseteq User, \A u \in uploaded' : ident[u] = "whole",
           conf' \in {"none", "age", "bad"} \union Key,
           keyid' \in Key \union {NoKey},
           content' \in [File -> Key \union {NoKey}],
           UNCHANGED <<ident, sealed, listed, drawn>>
    PROVE  KeysInv'
  BY DEF KeysInv, TypeOK, End, Running, NoCommand

LEMMA AbortKeysInv ==
    ASSUME KeysInv, Abort
    PROVE  KeysInv'
  BY EndKeysInv DEF KeysInv, TypeOK, ListedCanOpen, Abort, home, repo

\* A command that is started has done nothing yet.
LEMMA StartKeysInv ==
    ASSUME KeysInv, NEW u \in User, NEW f \in File, StartCommand(u, f)
    PROVE  KeysInv'
  <1>1. UNCHANGED <<home, repo, server, uploaded, drawn>> /\ ~Running
    BY DEF StartCommand, Start
  <1>2. SUFFICES cmd' \in CommandRecord /\ (CommandInv)' /\ cmd'.writing = "none"
    BY <1>1, SMT DEF KeysInv, TypeOK, ListedCanOpen, home, repo, NoCommand, Running
  <1>3. ASSUME NEW name \in {"init", "encrypt", "fingerprint", "setup-keys", "backup"},
               NEW place \in {"key", "act"},
               Start(u, name, place, NoKey, {}, f)
        PROVE  cmd' \in CommandRecord /\ (CommandInv)' /\ cmd'.writing = "none"
    BY <1>3 DEF Start, CommandRecord, Command, Builders, Place, CommandInv, SharePlace,
                SetupPlace
  <1>4. ASSUME NEW mail \in (SUBSET User) \ {{}},
               Start(u, "share", "config", NoKey, mail, f)
        PROVE  cmd' \in CommandRecord /\ (CommandInv)' /\ cmd'.writing = "none"
    BY <1>4 DEF Start, CommandRecord, Command, Builders, Place, CommandInv, SharePlace,
                SetupPlace, ShareInv
  <1>5. ASSUME NEW k \in server, Start(u, "restore", "copy", k, {}, f)
        PROVE  cmd' \in CommandRecord /\ (CommandInv)' /\ cmd'.writing = "none"
    BY <1>1, <1>5 DEF Start, CommandRecord, Command, Builders, Place, CommandInv, SharePlace,
                SetupPlace, SetupInv, KeysInv, TypeOK
  <1>6. ASSUME NEW k \in Exported, Start(u, "import", "flush", k, {}, f)
        PROVE  cmd' \in CommandRecord /\ (CommandInv)' /\ cmd'.writing = "none"
    BY <1>1, <1>6 DEF Start, CommandRecord, Command, Builders, Place, CommandInv, SharePlace,
                SetupPlace, SetupInv, Exported
  <1> QED
    BY <1>3, <1>4, <1>5, <1>6 DEF StartCommand

\* An identity is created where there is none, and filled in the next step.
LEMMA IdentityKeysInv ==
    ASSUME KeysInv,
           \/ FillIdentity
           \/ (At("act") \/ At("config") \/ At("open")) /\ CreateIdentity
    PROVE  KeysInv'
  <1>1. /\ Running /\ cmd \in CommandRecord
        /\ UNCHANGED <<keyfile, saved, repo, server, uploaded, drawn>>
        /\ \E w \in {"none", "ident"} : cmd' = [cmd EXCEPT !.writing = w]
    BY DEF KeysInv, TypeOK, FillIdentity, CreateIdentity, At, Running
  <1>2. /\ ident' \in [User -> {"none", "torn", "whole"}]
        /\ \A u \in User : ident[u] = "whole" => ident'[u] = "whole"
    BY DEF KeysInv, TypeOK, FillIdentity, CreateIdentity
  <1>3. /\ cmd' \in CommandRecord /\ cmd'.writing # "key"
        /\ \A f \in {"name", "user", "at", "key", "mail", "file"} : cmd'[f] = cmd[f]
    BY <1>1 DEF CommandRecord
  <1>4. (CommandInv)'
    BY <1>1, <1>3, SMT DEF KeysInv, CommandInv, ShareInv, SetupInv, Recipients, Me, repo
  <1> QED
    BY <1>1, <1>2, <1>3, <1>4, SMT DEF KeysInv, TypeOK, ListedCanOpen, Running, NoCommand, repo

\* What a step leaves of the running command, and of what CommandInv says of it.
LEMMA GotoKeysInv ==
    ASSUME KeysInv, Running, cmd' \in CommandRecord, cmd'.writing \in {"none", "ident"},
           (CommandInv)',
           UNCHANGED <<home, server, uploaded, drawn, conf, keyid, content>>,
           sealed' \in [key : Key \union {NoKey, Torn}, to : SUBSET User],
           listed' \subseteq User, ListedCanOpen'
    PROVE  KeysInv'
  BY SMT DEF KeysInv, TypeOK, Running, NoCommand, home

LEMMA FillKeyKeysInv ==
    ASSUME KeysInv, FillKey
    PROVE  KeysInv'
  <1>1. /\ Running /\ cmd \in CommandRecord /\ cmd.key \in Key /\ cmd.writing = "key"
        /\ CommandInv
        /\ UNCHANGED <<saved, ident, repo, server, uploaded, drawn>>
        /\ keyfile' = [keyfile EXCEPT ![Me] = cmd.key]
    BY DEF KeysInv, TypeOK, FillKey, Running
  <1>2. keyfile' \in [User -> Key \union {NoKey, Torn}]
    BY <1>1 DEF KeysInv, TypeOK
  <1>3. CASE cmd.at = "flush"
    BY <1>1, <1>2, <1>3, EndKeysInv DEF FillKey, End, KeysInv, TypeOK, ListedCanOpen, repo
  <1>4. CASE cmd.at = "key"
    <2>1. /\ cmd' = [cmd EXCEPT !.writing = "none"]
      BY <1>4 DEF FillKey
    <2>2. /\ cmd' \in CommandRecord /\ cmd'.writing = "none" /\ cmd'.at = "key"
          /\ \A f \in {"name", "user", "key", "mail", "file"} : cmd'[f] = cmd[f]
      BY <1>1, <1>4, <2>1 DEF CommandRecord
    <2>3. (CommandInv)'
      BY <1>1, <1>4, <2>2, SMT DEF CommandInv, ShareInv, SharePlace, SetupPlace, repo
    <2> QED
      BY <1>1, <1>2, <2>2, <2>3, SMT DEF KeysInv, TypeOK, ListedCanOpen, Running, NoCommand, repo
  <1> QED
    BY <1>1, <1>3, <1>4 DEF CommandInv

\* The key file is truncated by Materialize, where there is none, and by
\* FlushKey, where its key has a copy.
LEMMA TruncateKeysInv ==
    ASSUME KeysInv, Running, cmd.writing = "none",
           NEW k \in Key, TruncateKey(k), drawn' \subseteq Key,
           cmd.at = "key" \/ (cmd.at = "flush" /\ k = cmd.key)
    PROVE  KeysInv'
  <1>1. /\ cmd \in CommandRecord /\ CommandInv /\ cmd.user \in User
        /\ UNCHANGED <<saved, ident, repo, server, uploaded>>
        /\ keyfile' = [keyfile EXCEPT ![Me] = Torn]
        /\ cmd' = [cmd EXCEPT !.writing = "key", !.key = k]
    BY DEF KeysInv, TypeOK, TruncateKey, Running, CommandRecord
  <1>2. /\ cmd' \in CommandRecord /\ cmd'.writing = "key" /\ cmd'.key = k
        /\ \A f \in {"name", "user", "at", "mail", "file"} : cmd'[f] = cmd[f]
    BY <1>1 DEF CommandRecord
  <1>3. keyfile' \in [User -> Key \union {NoKey, Torn}] /\ keyfile'[cmd.user] = Torn
    BY <1>1 DEF KeysInv, TypeOK, Me
  <1>4. (CommandInv)'
    BY <1>1, <1>2, <1>3, SpecialValues, SMT
       DEF CommandInv, ShareInv, SetupInv, SharePlace, SetupPlace, Me, repo
  <1> QED
    BY <1>1, <1>2, <1>3, <1>4, SMT DEF KeysInv, TypeOK, ListedCanOpen, Running, NoCommand, repo

LEMMA MaterializeKeysInv ==
    ASSUME KeysInv, Materialize
    PROVE  KeysInv'
  <1>1. /\ Running /\ cmd.writing = "none" /\ cmd.at = "key" /\ cmd \in CommandRecord
        /\ CommandInv
    BY DEF KeysInv, TypeOK, Materialize, At, Running
  <1>2. CASE keyfile[Me] = NoKey
    BY <1>1, <1>2, TruncateKeysInv DEF Materialize, KeysInv, TypeOK
  <1>3. CASE keyfile[Me] # NoKey
    <2>1. PICK place \in {"seal", "act"} :
            /\ cmd' = [cmd EXCEPT !.key = keyfile[Me], !.at = place]
            /\ place = "seal" => cmd.name = "share"
      BY <1>3 DEF Materialize
    <2>2. UNCHANGED <<home, repo, server, uploaded, drawn>>
      BY <1>3 DEF Materialize
    <2>3. keyfile[Me] \in Key \union {NoKey, Torn}
      BY <1>1 DEF KeysInv, TypeOK, CommandRecord, Me
    <2>4. /\ cmd' \in CommandRecord /\ cmd'.at = place /\ cmd'.key = keyfile[Me]
          /\ \A f \in {"name", "user", "mail", "file", "writing"} : cmd'[f] = cmd[f]
      BY <1>1, <2>1, <2>3 DEF CommandRecord, Place
    <2>5. (CommandInv)'
      BY <1>1, <2>1, <2>2, <2>4, SMT DEF CommandInv, ShareInv, SharePlace, SetupPlace, repo
    <2> QED
      BY <1>1, <2>2, <2>4, <2>5, GotoKeysInv DEF KeysInv, TypeOK, ListedCanOpen, repo
  <1> QED
    BY <1>2, <1>3

\* A step that only goes on to another place
LEMMA OnlyGotoKeysInv ==
    ASSUME KeysInv, Running, cmd.writing = "none", NEW place \in Place, Goto(place),
           UNCHANGED <<home, repo, server, uploaded, drawn>>,
           \/ cmd.at = "config" /\ place = "mail"
           \/ /\ cmd.at = "mail" /\ cmd.mail \subseteq uploaded
              /\ place = (IF sealed.key = NoKey THEN "key" ELSE "open")
    PROVE  KeysInv'
  <1>1. cmd \in CommandRecord /\ CommandInv
    BY DEF KeysInv, TypeOK, Running
  <1>2. /\ cmd' \in CommandRecord /\ cmd'.at = place
        /\ \A f \in {"name", "user", "key", "mail", "file", "writing"} : cmd'[f] = cmd[f]
    BY <1>1 DEF CommandRecord, Goto
  <1>3. (CommandInv)'
    BY <1>1, <1>2, SMT DEF CommandInv, ShareInv, SharePlace, SetupPlace, repo
  <1> QED
    BY <1>1, <1>2, <1>3, GotoKeysInv DEF KeysInv, TypeOK, ListedCanOpen, repo

LEMMA ShareConfigKeysInv ==
    ASSUME KeysInv, ShareConfig
    PROVE  KeysInv'
  <1>1. At("config") /\ Running /\ cmd.writing = "none" /\ cmd.at = "config"
    BY DEF ShareConfig, At, Running
  <1>2. CASE CreateIdentity
    BY <1>1, <1>2, IdentityKeysInv
  <1>3. CASE Abort
    BY <1>3, AbortKeysInv
  <1>4. CASE Goto("mail") /\ UNCHANGED <<home, repo, server, uploaded, drawn>>
    BY <1>1, <1>4, OnlyGotoKeysInv DEF Place
  <1> QED
    BY <1>2, <1>3, <1>4 DEF ShareConfig

LEMMA ShareMailKeysInv ==
    ASSUME KeysInv, ShareMail
    PROVE  KeysInv'
  <1>1. Running /\ cmd.writing = "none" /\ cmd.at = "mail"
    BY DEF ShareMail, At, Running
  <1>2. CASE Abort
    BY <1>2, AbortKeysInv
  <1>3. CASE ~Abort
    BY <1>1, <1>3, OnlyGotoKeysInv DEF ShareMail, Place
  <1> QED
    BY <1>2, <1>3

LEMMA ShareOpenKeysInv ==
    ASSUME KeysInv, ShareOpen
    PROVE  KeysInv'
  <1>1. /\ Running /\ cmd.writing = "none" /\ cmd.at = "open" /\ At("open")
        /\ cmd \in CommandRecord /\ CommandInv
    BY DEF ShareOpen, At, Running, KeysInv, TypeOK
  <1>2. CASE CreateIdentity
    BY <1>1, <1>2, IdentityKeysInv
  <1>3. CASE Abort
    BY <1>3, AbortKeysInv
  <1>4. CASE /\ cmd' = [cmd EXCEPT !.key = sealed.key, !.at = "seal"]
             /\ UNCHANGED <<home, repo, server, uploaded, drawn>>
    <2>1. sealed.key \in Key \union {NoKey, Torn}
      BY DEF KeysInv, TypeOK
    <2>2. /\ cmd' \in CommandRecord /\ cmd'.at = "seal" /\ cmd'.key = sealed.key
          /\ \A f \in {"name", "user", "mail", "file", "writing"} : cmd'[f] = cmd[f]
      BY <1>1, <1>4, <2>1 DEF CommandRecord, Place
    <2>3. (CommandInv)'
      BY <1>1, <1>4, <2>2, SMT DEF CommandInv, ShareInv, SharePlace, SetupPlace, repo
    <2> QED
      BY <1>1, <1>4, <2>2, <2>3, GotoKeysInv DEF KeysInv, TypeOK, ListedCanOpen, repo
  <1> QED
    BY <1>2, <1>3, <1>4 DEF ShareOpen

\* Who the key is sealed for holds who is listed, and is listed next.
LEMMA RecipientsType ==
    ASSUME KeysInv, Running
    PROVE  Recipients \subseteq User /\ listed \subseteq Recipients
  BY DEF Recipients, KeysInv, TypeOK, CommandRecord, Running, Me

LEMMA SealKeysInv ==
    ASSUME KeysInv, Seal
    PROVE  KeysInv'
  <1>1. /\ Running /\ cmd.writing = "none" /\ cmd.at = "seal"
        /\ cmd \in CommandRecord /\ CommandInv
        /\ UNCHANGED <<home, listed, conf, keyid, content, server, uploaded, drawn>>
        /\ sealed' = [key |-> cmd.key, to |-> Recipients]
    BY DEF Seal, At, Running, KeysInv, TypeOK
  <1>2. /\ cmd' \in CommandRecord /\ cmd'.at = "list"
        /\ \A f \in {"name", "user", "key", "mail", "file", "writing"} : cmd'[f] = cmd[f]
    BY <1>1 DEF CommandRecord, Seal, Goto, Place
  <1>3. Recipients' = Recipients
    BY <1>1, <1>2 DEF Recipients, Me
  <1>4. (CommandInv)'
    BY <1>1, <1>2, <1>3, SMT DEF CommandInv, ShareInv, SharePlace, SetupPlace
  <1>5. /\ sealed' \in [key : Key \union {NoKey, Torn}, to : SUBSET User]
        /\ listed' \subseteq User /\ ListedCanOpen'
    BY <1>1, RecipientsType DEF CommandRecord, ListedCanOpen, KeysInv, TypeOK
  <1> QED
    BY <1>1, <1>2, <1>4, <1>5, GotoKeysInv

LEMMA ListKeysInv ==
    ASSUME KeysInv, List
    PROVE  KeysInv'
  <1>1. /\ Running /\ cmd.writing = "none" /\ cmd.at = "list"
        /\ cmd \in CommandRecord /\ CommandInv
        /\ UNCHANGED <<home, sealed, conf, keyid, content, server, uploaded, drawn>>
        /\ listed' = Recipients
    BY DEF List, At, Running, KeysInv, TypeOK
  <1>2. /\ cmd' \in CommandRecord /\ cmd'.at = "conf"
        /\ \A f \in {"name", "user", "key", "mail", "file", "writing"} : cmd'[f] = cmd[f]
    BY <1>1 DEF CommandRecord, List, Goto, Place
  <1>3. (CommandInv)'
    BY <1>1, <1>2, SMT DEF CommandInv, ShareInv, SharePlace, SetupPlace
  <1>4. listed' \subseteq User /\ ListedCanOpen'
    BY <1>1, RecipientsType DEF CommandInv, SharePlace, ShareInv, ListedCanOpen
  <1> QED
    BY <1>1, <1>2, <1>3, <1>4, GotoKeysInv DEF KeysInv, TypeOK

LEMMA CopyKeyKeysInv ==
    ASSUME KeysInv, CopyKey
    PROVE  KeysInv'
  <1>1. /\ Running /\ cmd.writing = "none" /\ cmd.at = "copy"
        /\ cmd \in CommandRecord /\ CommandInv
        /\ UNCHANGED <<keyfile, ident, repo, server, uploaded, drawn>>
        /\ saved' = saved \union ({keyfile[Me]} \intersect (Key \ {cmd.key}))
    BY DEF CopyKey, At, Running, KeysInv, TypeOK
  <1>2. /\ cmd' \in CommandRecord /\ cmd'.at = "flush"
        /\ \A f \in {"name", "user", "key", "mail", "file", "writing"} : cmd'[f] = cmd[f]
    BY <1>1 DEF CommandRecord, CopyKey, Goto, Place
  <1>3. (CommandInv)'
    BY <1>1, <1>2, SMT DEF CommandInv, ShareInv, SetupInv, SharePlace, SetupPlace, Me, repo
  <1>4. saved' \subseteq Key
    BY <1>1 DEF KeysInv, TypeOK
  <1> QED
    BY <1>1, <1>2, <1>3, <1>4, SMT DEF KeysInv, TypeOK, ListedCanOpen, Running, NoCommand, repo

\* The key of a provider that was built is a key.
LEMMA ProviderType ==
    ASSUME NEW u, Builds(u)
    PROVE  Provider(u) \in Key
  BY DEF Builds, Provider, Opens

LEMMA EncryptKeysInv ==
    ASSUME KeysInv, Encrypt
    PROVE  KeysInv'
  <1>1. /\ content' = [content EXCEPT ![cmd.file] = Provider(Me)] /\ Provider(Me) \in Key
        /\ UNCHANGED <<home, sealed, listed, conf, keyid, server, uploaded, drawn>> /\ End
    BY ProviderType DEF Encrypt
  <1>2. content' \in [File -> Key \union {NoKey}]
    BY <1>1 DEF KeysInv, TypeOK
  <1> QED
    BY <1>1, <1>2, EndKeysInv DEF KeysInv, TypeOK, ListedCanOpen, home

\* A command that ends, with or without the one write it is about
LEMMA LastStepKeysInv ==
    ASSUME KeysInv,
           InitEnds \/ Fingerprint \/ ShareConf \/ SetupKeys \/ BackupKey \/ Kill \/ BuildFails
    PROVE  KeysInv'
  <1>1. CASE Abort
    BY <1>1, AbortKeysInv
  <1>2. CASE InitEnds \/ Kill \/ BuildFails
    <2>1. Abort
      BY <1>2 DEF InitEnds, Kill, BuildFails, Abort
    <2> QED
      BY <1>1, <2>1
  <1>3. CASE Fingerprint /\ ~Abort
    <2>1. /\ keyid' = keyfile[Me] /\ End /\ keyfile[Me] # Torn
          /\ UNCHANGED <<home, sealed, listed, conf, content, server, uploaded, drawn>>
          /\ Me \in User
      BY <1>3 DEF Fingerprint, At, Running, KeysInv, TypeOK, CommandRecord, Me
    <2>2. keyid' \in Key \union {NoKey}
      BY <2>1 DEF KeysInv, TypeOK
    <2> QED
      BY <2>1, <2>2, EndKeysInv DEF KeysInv, TypeOK, ListedCanOpen, home
  <1>4. CASE ShareConf /\ ~Abort
    <2>1. /\ conf' = "age" /\ End
          /\ UNCHANGED <<home, sealed, listed, keyid, content, server, uploaded, drawn>>
      BY <1>4 DEF ShareConf
    <2> QED
      BY <2>1, EndKeysInv DEF KeysInv, TypeOK, ListedCanOpen, home
  <1>5. CASE SetupKeys /\ ~Abort
    <2>1. CASE CreateIdentity
      BY <1>5, <2>1, IdentityKeysInv DEF SetupKeys
    <2>2. CASE ~CreateIdentity
      <3>1. /\ uploaded' = uploaded \union {Me} /\ End /\ ident[Me] = "whole" /\ Me \in User
            /\ UNCHANGED <<home, repo, server, drawn>>
        BY <1>5, <2>2 DEF SetupKeys, At, Running, KeysInv, TypeOK, CommandRecord, Me
      <3> QED
        BY <3>1, EndKeysInv DEF KeysInv, TypeOK, ListedCanOpen, home, repo
    <2> QED
      BY <2>1, <2>2
  <1>6. CASE BackupKey /\ ~Abort
    <2>1. /\ server' = server \union {keyfile[Me]} /\ End /\ keyfile[Me] \in Key
          /\ UNCHANGED <<home, repo, uploaded, drawn>>
      BY <1>6 DEF BackupKey
    <2> QED
      BY <2>1, EndKeysInv DEF KeysInv, TypeOK, ListedCanOpen, home, repo
  <1> QED
    BY <1>1, <1>2, <1>3, <1>4, <1>5, <1>6

LEMMA FlushKeyKeysInv ==
    ASSUME KeysInv, FlushKey
    PROVE  KeysInv'
  <1>1. /\ Running /\ cmd.writing = "none" /\ cmd.at = "flush" /\ cmd.key \in Key
        /\ TruncateKey(cmd.key) /\ drawn' = drawn
    BY DEF FlushKey, At, Running, KeysInv, CommandInv, SetupPlace, SetupInv
  <1> QED
    BY <1>1, TruncateKeysInv DEF KeysInv, TypeOK

LEMMA MergeConflictKeysInv ==
    ASSUME KeysInv, MergeConflict
    PROVE  KeysInv'
  BY DEF KeysInv, TypeOK, ListedCanOpen, MergeConflict, Running, home

LEMMA NextKeysInv ==
    ASSUME KeysInv, Next
    PROVE  KeysInv'
  <1>1. CASE \E u \in User, f \in File : StartCommand(u, f)
    BY <1>1, StartKeysInv
  <1>2. CASE FillIdentity \/ BuildNeedsIdentity
    <2>1. \/ FillIdentity
          \/ (At("act") \/ At("config") \/ At("open")) /\ CreateIdentity
      BY <1>2 DEF BuildNeedsIdentity
    <2> QED
      BY <2>1, IdentityKeysInv
  <1>3. CASE FillKey \/ Materialize \/ Encrypt \/ CopyKey \/ FlushKey \/ MergeConflict
    BY <1>3, FillKeyKeysInv, MaterializeKeysInv, EncryptKeysInv, CopyKeyKeysInv,
       FlushKeyKeysInv, MergeConflictKeysInv
  <1>4. CASE ShareConfig \/ ShareMail \/ ShareOpen \/ Seal \/ List
    BY <1>4, ShareConfigKeysInv, ShareMailKeysInv, ShareOpenKeysInv, SealKeysInv, ListKeysInv
  <1>5. CASE InitEnds \/ Fingerprint \/ ShareConf \/ SetupKeys \/ BackupKey \/ Kill \/ BuildFails
    BY <1>5, LastStepKeysInv
  <1> QED
    BY <1>1, <1>2, <1>3, <1>4, <1>5 DEF Next

\* The inductive invariant holds in every reachable state.
THEOREM KeysInvHolds == Spec => []KeysInv
  <1>1. Init => KeysInv
    BY InitKeysInv
  <1>2. KeysInv /\ [Next]_vars => KeysInv'
    <2> SUFFICES ASSUME KeysInv, UNCHANGED vars PROVE KeysInv'
      BY NextKeysInv
    <2>1. UNCHANGED <<keyfile, ident, saved, server, uploaded, sealed, listed, conf, keyid,
                      content, drawn, cmd>>
      BY DEF vars, home, repo
    <2> QED
      BY <2>1 DEF KeysInv, TypeOK, ListedCanOpen, Running, CommandInv, ShareInv, SetupInv,
                  Recipients, Me
  <1> QED
    BY <1>1, <1>2, PTL DEF Spec

-----------------------------------------------------------------------------
(* What a step may change                                                  *)

LEMMA SharingSteps ==
    ASSUME Next
    PROVE  \/ Seal /\ UNCHANGED listed
           \/ List /\ UNCHANGED sealed
           \/ UNCHANGED <<sealed, listed>>
  BY DEF Next, StartCommand, Start, FillIdentity, FillKey, Materialize, TruncateKey,
         BuildNeedsIdentity, CreateIdentity, BuildFails, Abort, InitEnds, Encrypt, Fingerprint,
         ShareConfig, ShareMail, ShareOpen, Seal, List, ShareConf, SetupKeys, BackupKey, CopyKey,
         FlushKey, Kill, MergeConflict, home, repo

\* Copies and identities are only added.
LEMMA CopiesGrow ==
    ASSUME KeysInv, Next
    PROVE  /\ saved \subseteq saved' /\ server \subseteq server'
           /\ \A u \in User : ident[u] = "whole" => ident'[u] = "whole"
  <1>1. saved \subseteq saved' /\ server \subseteq server'
    BY DEF Next, StartCommand, Start, FillIdentity, FillKey, Materialize, TruncateKey,
           BuildNeedsIdentity, CreateIdentity, BuildFails, Abort, InitEnds, Encrypt, Fingerprint,
           ShareConfig, ShareMail, ShareOpen, Seal, List, ShareConf, SetupKeys, BackupKey,
           CopyKey, FlushKey, Kill, MergeConflict, home, repo
  <1>2. CreateIdentity \/ FillIdentity \/ UNCHANGED ident
    BY DEF Next, StartCommand, Start, FillKey, Materialize, TruncateKey,
           BuildNeedsIdentity, BuildFails, Abort, InitEnds, Encrypt, Fingerprint,
           ShareConfig, ShareMail, ShareOpen, Seal, List, ShareConf, SetupKeys, BackupKey,
           CopyKey, FlushKey, Kill, MergeConflict, home, repo
  <1>3. \A u \in User : ident[u] = "whole" => ident'[u] = "whole"
    BY <1>2 DEF CreateIdentity, FillIdentity, KeysInv, TypeOK
  <1> QED
    BY <1>1, <1>3

\* A key file is left as it is, unless the key in it is elsewhere too, or
\* the command imports another one.
LEMMA KeyfileSteps ==
    ASSUME KeysInv, Next, ~(Running /\ cmd.name = "import"),
           NEW u \in User, keyfile[u] \in Key
    PROVE  keyfile'[u] = keyfile[u] \/ keyfile[u] \in saved \union server
  <1>1. FillKey \/ Materialize \/ FlushKey \/ UNCHANGED keyfile
    BY DEF Next, StartCommand, Start, FillIdentity, BuildNeedsIdentity, CreateIdentity,
           BuildFails, Abort, InitEnds, Encrypt, Fingerprint, ShareConfig, ShareMail, ShareOpen,
           Seal, List, ShareConf, SetupKeys, BackupKey, CopyKey, Kill, MergeConflict, home, repo
  <1>2. CASE FillKey
    <2>1. keyfile' = [keyfile EXCEPT ![Me] = cmd.key] /\ keyfile[Me] = Torn
      BY <1>2 DEF FillKey, KeysInv, CommandInv
    <2> QED
      BY <2>1, SpecialValues DEF KeysInv, TypeOK
  <1>3. CASE Materialize
    <2>1. \/ keyfile[Me] = NoKey /\ keyfile' = [keyfile EXCEPT ![Me] = Torn]
          \/ UNCHANGED keyfile
      BY <1>3 DEF Materialize, TruncateKey, home
    <2> QED
      BY <2>1, SpecialValues DEF KeysInv, TypeOK
  <1>4. CASE FlushKey
    <2>1. /\ keyfile' = [keyfile EXCEPT ![Me] = Torn]
          /\ Running /\ cmd.at = "flush" /\ CommandInv
      BY <1>4 DEF FlushKey, TruncateKey, At, KeysInv
    <2>2. keyfile[Me] \in Key => keyfile[Me] \in saved \union server
      BY <2>1 DEF CommandInv, SetupPlace, SetupInv
    <2> QED
      BY <2>1, <2>2 DEF KeysInv, TypeOK
  <1> QED
    BY <1>1, <1>2, <1>3, <1>4

\* What a share seals is the key that was sealed before.
LEMMA SealKeeps ==
    ASSUME KeysInv, Seal, sealed.key # NoKey
    PROVE  /\ sealed'.key = sealed.key
           /\ \E u \in sealed'.to : ident[u] = "whole"
  <1>1. /\ Running /\ cmd.at = "seal" /\ CommandInv
        /\ sealed' = [key |-> cmd.key, to |-> Recipients]
    BY DEF Seal, At, KeysInv
  <1>2. cmd.key = sealed.key /\ cmd.mail # {} /\ cmd.mail \subseteq uploaded
    BY <1>1 DEF CommandInv, ShareInv, SharePlace
  <1>3. cmd.mail \subseteq Recipients
    BY DEF Recipients
  <1> QED
    BY <1>1, <1>2, <1>3 DEF KeysInv

LEMMA HeldIsKept ==
    ASSUME KeysInv, Next, ~(Running /\ cmd.name = "import"),
           NEW k \in Key, Held(k)
    PROVE  Held(k)'
  <1>1. CASE k \in server \union saved
    BY <1>1, CopiesGrow DEF Held
  <1>2. CASE \E u \in User : keyfile[u] = k
    BY <1>2, CopiesGrow, KeyfileSteps DEF Held
  <1>3. CASE sealed.key = k /\ \E u \in sealed.to : ident[u] = "whole"
    <2>1. sealed.to \subseteq User /\ sealed.key # NoKey
      BY <1>3, SpecialValues DEF KeysInv, TypeOK
    <2>2. CASE UNCHANGED sealed
      BY <1>3, <2>1, <2>2, CopiesGrow DEF Held
    <2>3. CASE Seal
      <3>1. sealed'.to \subseteq User
        BY NextKeysInv DEF KeysInv, TypeOK
      <3> QED
        BY <1>3, <2>1, <2>3, <3>1, SealKeeps, CopiesGrow DEF Held
    <2> QED
      BY <2>2, <2>3, SharingSteps
  <1> QED
    BY <1>1, <1>2, <1>3 DEF Held

-----------------------------------------------------------------------------
(* The results                                                             *)

\* The types of TypeOK, and in particular that what is written to a key file
\* is a key, hold of every reachable state.
THEOREM KeysTypeCorrect == Spec => []TypeOK
  BY KeysInvHolds, PTL DEF KeysInv

\* Whoever identities.yml lists can open the repository's key, whatever was
\* killed between the two writes of a share.
THEOREM WhoIsListedCanOpen == Spec => []ListedCanOpen
  BY KeysInvHolds, PTL DEF KeysInv

\* No command but an import, killed or not, takes away the last copy of a
\* key that some file is encrypted with.
THEOREM KeysAreNeverLost == Spec => NoKeyLost
  <1> DEFINE Kept ==
        \A k \in Key :
            (\E f \in File : content[f] = k) /\ Held(k) /\ ~Held(k)'
                => Running /\ cmd.name = "import"
  <1>1. KeysInv /\ [Next]_vars => [Kept]_vars
    BY HeldIsKept
  <1> QED
    BY <1>1, KeysInvHolds, PTL DEF Spec, NoKeyLost

\* A share only adds users, and those who were listed keep opening the key.
THEOREM SharesOnlyAdd == Spec => NobodyDropped
  <1>1. KeysInv /\ [Next]_vars => [listed \subseteq listed' /\ listed \subseteq sealed'.to]_vars
    <2> SUFFICES ASSUME KeysInv, Next
                 PROVE  listed \subseteq listed' /\ listed \subseteq sealed'.to
      OBVIOUS
    <2>1. CASE Seal /\ UNCHANGED listed
      BY <2>1, RecipientsType DEF Seal, At
    <2>2. CASE List /\ UNCHANGED sealed
      BY <2>2, RecipientsType DEF List, At, KeysInv, ListedCanOpen
    <2>3. CASE UNCHANGED <<sealed, listed>>
      BY <2>3 DEF KeysInv, ListedCanOpen
    <2> QED
      BY <2>1, <2>2, <2>3, SharingSteps
  <1> QED
    BY <1>1, KeysInvHolds, PTL DEF Spec, NobodyDropped

\* A repository that has a key of its own keeps it through every share.
THEOREM RepositoryKeepsItsKey == Spec => RepoKeyFixed
  <1>1. KeysInv /\ [Next]_vars => [sealed.key # NoKey => sealed'.key = sealed.key]_vars
    BY SharingSteps, SealKeeps
  <1> QED
    BY <1>1, KeysInvHolds, PTL DEF Spec, RepoKeyFixed

-----------------------------------------------------------------------------
(* What a shared repository promises its users                             *)

\* Who is listed has an identity that is whole, and a share seals for users
\* who have one: those it invites, those who are listed, or the user whose
\* identity it has made.  crypto.yml says "age" over a key, and a list.
SharedInv ==
    /\ \A u \in listed : ident[u] = "whole"
    /\ conf = "age" => listed # {} /\ sealed.key \in Key
    /\ Running /\ cmd.name = "share" /\ cmd.at # "config" =>
         listed # {} \/ ident[Me] = "whole"
    /\ Running /\ cmd.name = "share" /\ cmd.at = "conf" => listed # {}

\* A share leaves its first place for a list or an identity, and reaches its
\* last one by listing.
LEMMA ShareMoves ==
    ASSUME KeysInv, Next, Running', cmd'.name = "share", cmd'.at # "config"
    PROVE  /\ Running /\ cmd.name = "share" /\ cmd'.user = cmd.user
           /\ cmd.at # "config" \/ listed # {} \/ ident[Me] = "whole"
           /\ cmd'.at = "conf" => cmd.at = "conf" \/ List
  <1>1. ~\E u \in User, f \in File : StartCommand(u, f)
    BY DEF StartCommand, Start
  <1>2. ~End
    BY DEF End, Running
  <1>3. /\ Running /\ cmd \in CommandRecord /\ cmd'.name = cmd.name /\ cmd'.user = cmd.user
        /\ cmd'.at # cmd.at => cmd'.at # "conf" \/ List
    <2>1. Running
      BY <1>1, <1>2
         DEF Next, FillIdentity, FillKey, Materialize, BuildNeedsIdentity, CanBuild, BuildFails,
             InitEnds, Encrypt, Fingerprint, ShareConfig, ShareMail, ShareOpen, Seal, List,
             ShareConf, SetupKeys, BackupKey, CopyKey, FlushKey, Kill, MergeConflict, At, Running
    <2>2. cmd \in CommandRecord
      BY <2>1 DEF KeysInv, TypeOK, Running
    <2>3. \/ \E p \in Place : cmd' = [cmd EXCEPT !.at = p] /\ (p # "conf" \/ List)
          \/ \E k, w : cmd' = [cmd EXCEPT !.writing = w, !.key = k]
          \/ \E k, p : p # "conf" /\ cmd' = [cmd EXCEPT !.key = k, !.at = p]
          \/ \E w : cmd' = [cmd EXCEPT !.writing = w]
      <3>1. CASE FillKey
        BY <1>2, <3>1 DEF FillKey, End
      <3>2. CASE Materialize \/ FlushKey
        BY <3>2 DEF Materialize, FlushKey, TruncateKey
      <3>3. CASE FillIdentity \/ BuildNeedsIdentity \/ SetupKeys
        BY <1>2, <3>3 DEF FillIdentity, BuildNeedsIdentity, SetupKeys, CreateIdentity, Abort
      <3>4. CASE ShareConfig \/ ShareMail
        BY <1>2, <3>4 DEF ShareConfig, ShareMail, CreateIdentity, Abort, Goto, Place
      <3>5. CASE ShareOpen
        BY <1>2, <3>5 DEF ShareOpen, CreateIdentity, Abort
      <3>6. CASE Seal \/ List \/ CopyKey
        BY <3>6 DEF Seal, List, CopyKey, Goto, Place
      <3> QED
        BY <1>1, <1>2, <2>1, <3>1, <3>2, <3>3, <3>4, <3>5, <3>6
           DEF Next, BuildFails, InitEnds, Encrypt, Fingerprint, ShareConf, BackupKey, Abort,
               Kill, MergeConflict
    <2> QED
      BY <2>1, <2>2, <2>3 DEF CommandRecord
  <1>4. ASSUME cmd.at = "config" PROVE listed # {} \/ ident[Me] = "whole"
    BY <1>1, <1>2, <1>3, <1>4, SMTT(60)
       DEF Next, FillIdentity, FillKey, Materialize, TruncateKey, BuildNeedsIdentity,
           CreateIdentity, BuildFails, Abort, InitEnds, Encrypt, Fingerprint, ShareConfig,
           ShareMail, ShareOpen, Seal, List, ShareConf, SetupKeys, BackupKey, CopyKey, FlushKey,
           Kill, MergeConflict, At, Goto, End, Running, CommandRecord
  <1> QED
    BY <1>3, <1>4

LEMMA ConfSteps ==
    ASSUME Next
    PROVE  \/ ShareConf /\ Opens(Me) /\ UNCHANGED <<sealed, listed>>
           \/ conf' \in {conf, "bad"}
  BY DEF Next, StartCommand, Start, FillIdentity, FillKey, Materialize, TruncateKey,
         BuildNeedsIdentity, CreateIdentity, BuildFails, Abort, InitEnds, Encrypt, Fingerprint,
         ShareConfig, ShareMail, ShareOpen, Seal, List, ShareConf, SetupKeys, BackupKey, CopyKey,
         FlushKey, Kill, MergeConflict, home, repo

\* Whoever a share lists has an identity.
LEMMA RecipientsAreWhole ==
    ASSUME KeysInv, SharedInv, List
    PROVE  listed' # {} /\ \A u \in listed' : ident[u] = "whole"
  <1>1. /\ Running /\ cmd.at = "list" /\ cmd.name = "share" /\ ShareInv
        /\ listed' = Recipients
    BY DEF List, At, KeysInv, CommandInv, SharePlace
  <1>2. cmd.mail # {} /\ cmd.mail \subseteq uploaded
    BY <1>1 DEF ShareInv
  <1>3. listed # {} \/ ident[Me] = "whole"
    BY <1>1 DEF SharedInv
  <1> QED
    BY <1>1, <1>2, <1>3 DEF Recipients, KeysInv, SharedInv

LEMMA NextSharedInv ==
    ASSUME KeysInv, SharedInv, Next
    PROVE  SharedInv'
  <1>1. listed' = listed \/ List
    BY SharingSteps
  <1>2. \A u \in User : ident[u] = "whole" => ident'[u] = "whole"
    BY CopiesGrow
  <1>3. listed' # {} \/ listed = {}
    BY <1>1, RecipientsAreWhole
  <1>4. \A u \in listed' : ident'[u] = "whole"
    <2>1. listed' \subseteq User
      BY NextKeysInv DEF KeysInv, TypeOK
    <2>2. \A u \in listed' : ident[u] = "whole"
      BY <1>1, RecipientsAreWhole DEF SharedInv
    <2> QED
      BY <1>2, <2>1, <2>2
  <1>5. ASSUME conf' = "age" PROVE listed' # {} /\ sealed'.key \in Key
    <2>1. CASE ShareConf /\ Opens(Me) /\ UNCHANGED <<sealed, listed>>
      BY <2>1 DEF ShareConf, At, Opens, SharedInv, KeysInv, CommandInv, SharePlace
    <2>2. CASE conf' \in {conf, "bad"}
      <3>1. listed # {} /\ sealed.key \in Key
        BY <1>5, <2>2 DEF SharedInv
      <3>2. sealed'.key = sealed.key
        BY <3>1, SharingSteps, SealKeeps, SpecialValues
      <3> QED
        BY <1>3, <3>1, <3>2
    <2> QED
      BY <2>1, <2>2, ConfSteps
  <1>6. ASSUME Running', cmd'.name = "share", cmd'.at # "config"
        PROVE  /\ listed' # {} \/ ident'[cmd'.user] = "whole"
               /\ cmd'.at = "conf" => listed' # {}
    <2>1. /\ Running /\ cmd.name = "share" /\ cmd'.user = cmd.user
          /\ cmd.at # "config" \/ listed # {} \/ ident[Me] = "whole"
          /\ cmd'.at = "conf" => cmd.at = "conf" \/ List
      BY <1>6, ShareMoves
    <2>2. cmd.user \in User
      BY <2>1 DEF KeysInv, TypeOK, CommandRecord, Running
    <2>3. listed # {} \/ ident[cmd.user] = "whole"
      BY <2>1 DEF SharedInv, Me
    <2> QED
      BY <1>2, <1>3, <2>1, <2>2, <2>3, RecipientsAreWhole DEF SharedInv
  <1> QED
    BY <1>4, <1>5, <1>6 DEF SharedInv, Me

\* Once crypto.yml refers to the shared key, every listed user can open it, and
\* it is a key: shares that were killed, or began with a torn key file, come
\* to nothing.
THEOREM SharedKeysOpen == Spec => []SharedKeyOpens
  <1>1. Init => SharedInv
    BY IdsAreDigests DEF Init, SharedInv, Running
  <1>2. KeysInv /\ SharedInv /\ [Next]_vars => SharedInv'
    <2> SUFFICES ASSUME KeysInv, SharedInv, [Next]_vars PROVE SharedInv'
      OBVIOUS
    <2>1. CASE Next
      BY <2>1, NextSharedInv
    <2>2. CASE UNCHANGED vars
      BY <2>2 DEF vars, home, repo, SharedInv, Running, Me
    <2> QED
      BY <2>1, <2>2
  <1>3. KeysInv /\ SharedInv => SharedKeyOpens
    BY DEF KeysInv, SharedInv, SharedKeyOpens, ListedCanOpen, Opens
  <1> QED
    BY <1>1, <1>2, <1>3, KeysInvHolds, PTL DEF Spec
=============================================================================
