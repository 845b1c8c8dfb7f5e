--------------------------- MODULE Workspace_proofs ---------------------------
(***************************************************************************)
(* What is proved of the login, of the workspace and of everything's       *)
(* types, in sessions of any length.                                       *)
(***************************************************************************)
EXTENDS Session_proofs

(* The nearest workspace.yaml                                              *)

\* where it lies among the files y
Nearest(y, d) ==
    LET found == {a \in Above(d) : y[a] # Absent} IN
    IF found = {} THEN d ELSE CHOOSE a \in found : found \subseteq Above(a)

LEMMA ProjectDirNearest ==
    /\ ProjectDir(cmd.cwd) = Nearest(yaml, cmd.cwd)
    /\ ProjectFile = yaml[Nearest(yaml, cmd.cwd)]
    /\ ProjectDir(cmd.cwd)' = Nearest(yaml', cmd'.cwd)
    /\ ProjectFile' = yaml'[Nearest(yaml', cmd'.cwd)]
  BY DEF ProjectDir, HasYaml, Nearest, ProjectFile

\* It is where there is one, or the current directory if there is none above.
LEMMA NearestIs ==
    ASSUME NEW y, NEW d \in Dir
    PROVE  /\ Nearest(y, d) \in Dir /\ Nearest(y, d) \in Above(d)
           /\ y[d] # Absent => Nearest(y, d) = d
           /\ \/ y[Nearest(y, d)] # Absent
              \/ Nearest(y, d) = d /\ \A a \in Above(d) : y[a] = Absent
           /\ d = "outside" => Nearest(y, d) = "outside"
           /\ Nearest(y, d) = "sub" => d = "sub"
<1>. DEFINE found == {a \in Above(d) : y[a] # Absent}
<1>1. /\ Above("sub") = {"sub", "root", "outside"}
      /\ Above("root") = {"root", "outside"}
      /\ Above("outside") = {"outside"}
      /\ d \in {"outside", "root", "sub"}
  BY DEF Above, Dir
<1>2. CASE found = {}
  <2>1. Nearest(y, d) = d
    BY <1>2 DEF Nearest
  <2>. QED
    BY <1>1, <1>2, <2>1 DEF Dir
<1>3. CASE found # {}
  <2>1. \E a \in found : found \subseteq Above(a)
    BY <1>1, <1>3
  <2>2. Nearest(y, d) = CHOOSE a \in found : found \subseteq Above(a)
    BY <1>3 DEF Nearest
  <2>3. Nearest(y, d) \in found /\ found \subseteq Above(Nearest(y, d))
    BY <2>1, <2>2
  <2>4. y[d] # Absent => d \in found
    BY <1>1
  <2>. QED
    BY <1>1, <2>3, <2>4 DEF Dir
<1>. QED
  BY <1>2, <1>3

\* It stays where it is when it is written.
LEMMA NearestStays ==
    ASSUME NEW y, NEW d \in Dir, NEW z, z[Nearest(y, d)] # Absent,
           \A a \in Dir \ {Nearest(y, d)} : z[a] = y[a]
    PROVE  Nearest(z, d) = Nearest(y, d)
<1>. DEFINE p == Nearest(y, d)
            found == {a \in Above(d) : y[a] # Absent}
            later == {a \in Above(d) : z[a] # Absent}
            Chosen(S) == IF S = {} THEN d ELSE CHOOSE a \in S : S \subseteq Above(a)
<1>1. p = Chosen(found) /\ Nearest(z, d) = Chosen(later)
  BY DEF Nearest
<1>2. p \in Dir /\ p \in Above(d) /\ (found = {} => p = d)
  BY NearestIs, <1>1
<1>3. Above(d) \subseteq Dir
  BY DEF Above, Dir
<1>. HIDE DEF p
<1>4. z[p] # Absent
  BY DEF p
<1>5. \A a \in Above(d) \ {p} : z[a] = y[a]
  BY <1>3 DEF p
<1>6. later = found \union {p}
  BY <1>2, <1>4, <1>5
<1>7. CASE found # {}
  <2>1. p \in found
    BY <1>2, <1>7, NearestIs DEF p
  <2>2. later = found
    BY <1>6, <2>1
  <2>. HIDE DEF found, later
  <2>. QED
    BY <1>1, <1>4, <2>2 DEF p
<1>8. CASE found = {}
  <2>1. later = {d} /\ p = d
    BY <1>2, <1>6, <1>8
  <2>2. d \in Above(d)
    BY DEF Above, Dir
  <2>. HIDE DEF found, later
  <2>3. Chosen(later) = CHOOSE a \in {d} : {d} \subseteq Above(a)
    BY <2>1
  <2>4. \E a \in {d} : {d} \subseteq Above(a)
    BY <2>2
  <2>5. (CHOOSE a \in {d} : {d} \subseteq Above(a)) \in {d}
    BY <2>4
  <2>. QED
    BY <1>1, <1>4, <2>1, <2>3, <2>5 DEF p
<1>. QED
  BY <1>7, <1>8
-----------------------------------------------------------------------------
(* How a command goes on                                                   *)

\* It is the same command, in the same directory,
Alike == /\ cmd'.name = cmd.name /\ cmd'.cwd = cmd.cwd
         /\ cmd'.dry = cmd.dry /\ cmd'.cloud = cmd.cloud
         /\ cmd'.conf = cmd.conf /\ cmd'.asked = cmd.asked

\* speaks for the same user,
Speaks == cmd'.pf = cmd.pf /\ cmd'.mem = cmd.mem /\ cmd'.client = cmd.client

\* with what it holds, at a place.
Holds(place, man, writer, next) ==
    cmd'.at = place /\ cmd'.man = man /\ cmd'.writer = writer /\ cmd'.next = next

Goes(place) ==
    /\ Alike /\ Speaks /\ Holds(place, cmd.man, cmd.writer, cmd.next)
    /\ cmd'.cred = cmd.cred /\ cmd'.pick = cmd.pick

\* past the use of its login
Forgets(place, man, writer, next) ==
    /\ Alike /\ Holds(place, man, writer, next)
    /\ cmd'.pf = FALSE /\ cmd'.mem = Nobody /\ cmd'.client = NoUser
    /\ cmd'.cred = cmd.cred /\ cmd'.pick = cmd.pick

\* The commands that go on without forgetting
LEMMA GotoMoves ==
    ASSUME DOMAIN cmd = LoginField
    PROVE  /\ \A place : Goto(place) => Goes(place)
           /\ \A place, next : Becomes([cmd EXCEPT !.at = place, !.next = next])
                => /\ Alike /\ Speaks /\ Holds(place, cmd.man, cmd.writer, next)
                   /\ cmd'.cred = cmd.cred /\ cmd'.pick = cmd.pick
           /\ \A place, next, pick : Becomes([cmd EXCEPT !.at = place, !.next = next, !.pick = pick])
                => /\ Alike /\ Speaks /\ Holds(place, cmd.man, cmd.writer, next)
                   /\ cmd'.cred = cmd.cred /\ cmd'.pick = pick
           /\ \A place, cred : Becomes([cmd EXCEPT !.at = place, !.cred = cred])
                => /\ Alike /\ Speaks /\ Holds(place, cmd.man, cmd.writer, cmd.next)
                   /\ cmd'.cred = cred /\ cmd'.pick = cmd.pick
           /\ \A place, man : \/ Becomes([cmd EXCEPT !.at = place, !.man = man])
                               \/ Becomes([cmd EXCEPT !.man = man, !.at = place])
                => /\ Alike /\ Speaks /\ Holds(place, man, cmd.writer, cmd.next)
                   /\ cmd'.cred = cmd.cred /\ cmd'.pick = cmd.pick
           /\ \A place, prov : Becomes([cmd EXCEPT !.at = place, !.man.prov = prov])
                => /\ Alike /\ Speaks
                   /\ Holds(place, [cmd.man EXCEPT !.prov = prov], cmd.writer, cmd.next)
                   /\ cmd'.cred = cmd.cred /\ cmd'.pick = cmd.pick
<1>1. ASSUME NEW place PROVE Goto(place) => Goes(place)
  BY DEF Goto, Becomes, Goes, Alike, Speaks, Holds, LoginField
<1>2. ASSUME NEW place, NEW next, Becomes([cmd EXCEPT !.at = place, !.next = next])
      PROVE  /\ Alike /\ Speaks /\ Holds(place, cmd.man, cmd.writer, next)
             /\ cmd'.cred = cmd.cred /\ cmd'.pick = cmd.pick
  BY <1>2 DEF Becomes, Alike, Speaks, Holds, LoginField
<1>3. ASSUME NEW place, NEW next, NEW pick,
             Becomes([cmd EXCEPT !.at = place, !.next = next, !.pick = pick])
      PROVE  /\ Alike /\ Speaks /\ Holds(place, cmd.man, cmd.writer, next)
             /\ cmd'.cred = cmd.cred /\ cmd'.pick = pick
  BY <1>3 DEF Becomes, Alike, Speaks, Holds, LoginField
<1>4. ASSUME NEW place, NEW cred, Becomes([cmd EXCEPT !.at = place, !.cred = cred])
      PROVE  /\ Alike /\ Speaks /\ Holds(place, cmd.man, cmd.writer, cmd.next)
             /\ cmd'.cred = cred /\ cmd'.pick = cmd.pick
  BY <1>4 DEF Becomes, Alike, Speaks, Holds, LoginField
<1>5. ASSUME NEW place, NEW man, \/ Becomes([cmd EXCEPT !.at = place, !.man = man])
                                 \/ Becomes([cmd EXCEPT !.man = man, !.at = place])
      PROVE  /\ Alike /\ Speaks /\ Holds(place, man, cmd.writer, cmd.next)
             /\ cmd'.cred = cmd.cred /\ cmd'.pick = cmd.pick
  BY <1>5 DEF Becomes, Alike, Speaks, Holds, LoginField
<1>6. ASSUME NEW place, NEW prov, Becomes([cmd EXCEPT !.at = place, !.man.prov = prov])
      PROVE  /\ Alike /\ Speaks
             /\ Holds(place, [cmd.man EXCEPT !.prov = prov], cmd.writer, cmd.next)
             /\ cmd'.cred = cmd.cred /\ cmd'.pick = cmd.pick
  BY <1>6 DEF Becomes, Alike, Speaks, Holds, LoginField
<1>. QED
  BY <1>1, <1>2, <1>3, <1>4, <1>5, <1>6

\* The client of a command speaks for the owner of the workspace, if that is
\* another user's, and for the user of the command otherwise.
LEMMA ClientMoves ==
    ASSUME DOMAIN cmd = LoginField, InitPluralClient
    PROVE  LET owner == ProjectFile.has.owner IN
           /\ Alike /\ Holds(ClientFor, cmd.man, cmd.writer, cmd.next) /\ cmd'.pf = cmd.pf
           /\ cmd'.cred = cmd.cred /\ cmd'.pick = cmd.pick /\ cmd.at = "client"
           /\ UNCHANGED <<files, outside>>
           /\ \/ owner \in Robot /\ cmd'.mem = As(owner) /\ cmd'.client = owner
              \/ /\ cmd'.mem = cmd.mem /\ cmd'.client = Read.token
                 /\ ProjectFile # Absent /\ ConfigFile # Absent
                      /\ ProjectFile.has.prov # NoProvider => Read.email = owner
<1>1. ASSUME NEW owner, Becomes([cmd EXCEPT !.at = ClientFor, !.mem = As(owner), !.client = owner])
      PROVE  /\ Alike /\ Holds(ClientFor, cmd.man, cmd.writer, cmd.next) /\ cmd'.pf = cmd.pf
             /\ cmd'.cred = cmd.cred /\ cmd'.pick = cmd.pick
             /\ cmd'.mem = As(owner) /\ cmd'.client = owner
  BY <1>1 DEF Becomes, Alike, Holds, LoginField
<1>2. ASSUME Becomes([cmd EXCEPT !.at = ClientFor, !.client = Read.token])
      PROVE  /\ Alike /\ Holds(ClientFor, cmd.man, cmd.writer, cmd.next) /\ cmd'.pf = cmd.pf
             /\ cmd'.cred = cmd.cred /\ cmd'.pick = cmd.pick
             /\ cmd'.mem = cmd.mem /\ cmd'.client = Read.token
  BY <1>2 DEF Becomes, Alike, Holds, LoginField
<1>. QED
  BY <1>1, <1>2 DEF InitPluralClient, At

\* The clone is the directory that the command goes on in.
LEMMA CloneMoves ==
    ASSUME DOMAIN cmd = LoginField, Clone
    PROVE  /\ Holds("context", cmd.man, cmd.writer, cmd.next) /\ cmd'.cwd = "root"
           /\ cmd'.name = cmd.name /\ cmd'.dry = cmd.dry /\ cmd'.cloud = cmd.cloud
           /\ cmd'.conf = cmd.conf /\ cmd'.asked = cmd.asked
           /\ Speaks /\ cmd'.cred = cmd.cred /\ cmd'.pick = cmd.pick
  BY DEF Clone, Becomes, Speaks, Holds, LoginField

\* What is forgotten, and what is not
LEMMA ForgetFields ==
    ASSUME DOMAIN cmd = LoginField
    PROVE  LET c == Forget(cmd) IN
           /\ DOMAIN c = LoginField /\ c.name = cmd.name /\ c.at = cmd.at /\ c.cwd = cmd.cwd
           /\ c.dry = cmd.dry /\ c.cloud = cmd.cloud /\ c.conf = cmd.conf /\ c.asked = cmd.asked
           /\ c.man = cmd.man /\ c.writer = cmd.writer /\ c.cred = cmd.cred /\ c.pick = cmd.pick
           /\ c.mem = Nobody /\ c.pf = FALSE /\ c.client = NoUser /\ c.next = "end"
  BY DEF Forget, LoginField

\* The commands that forget
LEMMA ForgetMoves ==
    ASSUME DOMAIN cmd = LoginField
    PROVE  /\ \A man : Surveyed(man) => Forgets("preflights", man, TRUE, "end")
           /\ Unanswered => Forgets("preflights", cmd.man, cmd.writer, "end")
           /\ \A place : Becomes([Forget(cmd) EXCEPT !.at = place])
                => Forgets(place, cmd.man, cmd.writer, "end")
           /\ \A man : Becomes([Forget(cmd) EXCEPT !.at = "write", !.man = man, !.writer = TRUE])
                => Forgets("write", man, TRUE, "end")
           /\ \A place : Leave(place)
                => \/ cmd' = NoCommand
                   \/ place # "end" /\ Forgets(place, EmptyManifest, FALSE, "end")
           /\ \A man, place : FromManifest(man, place) =>
                /\ man.prov # NoProvider /\ UNCHANGED <<files, outside>>
                /\ \/ Forgets(place, man, cmd.writer, "end")
                   \/ /\ man.prov = "gcp" /\ ~man.located
                      /\ Forgets("upgrade", [man EXCEPT !.located = TRUE], cmd.writer, place)
<1>. DEFINE c == Forget(cmd)
<1>1. /\ DOMAIN c = LoginField /\ c.name = cmd.name /\ c.at = cmd.at /\ c.cwd = cmd.cwd
      /\ c.dry = cmd.dry /\ c.cloud = cmd.cloud /\ c.conf = cmd.conf /\ c.asked = cmd.asked
      /\ c.man = cmd.man /\ c.writer = cmd.writer /\ c.cred = cmd.cred /\ c.pick = cmd.pick
      /\ c.mem = Nobody /\ c.pf = FALSE /\ c.client = NoUser /\ c.next = "end"
  BY ForgetFields
<1>. HIDE DEF c
<1>2. ASSUME NEW man, NEW place, NEW writer, NEW next
      PROVE  /\ cmd' = [c EXCEPT !.man = man, !.writer = writer, !.at = place]
                   => Forgets(place, man, writer, "end")
             /\ cmd' = [c EXCEPT !.at = place, !.man = man, !.writer = writer]
                   => Forgets(place, man, writer, "end")
             /\ cmd' = [c EXCEPT !.at = place, !.writer = writer, !.man = man]
                   => Forgets(place, man, writer, "end")
             /\ cmd' = [c EXCEPT !.at = place] => Forgets(place, cmd.man, cmd.writer, "end")
             /\ cmd' = [c EXCEPT !.man = man, !.at = place]
                   => Forgets(place, man, cmd.writer, "end")
             /\ cmd' = [c EXCEPT !.man = man, !.at = place, !.next = next]
                   => Forgets(place, man, cmd.writer, next)
  <2>1. CASE cmd' = [c EXCEPT !.man = man, !.writer = writer, !.at = place]
    BY <1>1, <2>1 DEF Forgets, Alike, Holds, LoginField
  <2>2. CASE cmd' = [c EXCEPT !.at = place, !.man = man, !.writer = writer]
    BY <1>1, <2>2 DEF Forgets, Alike, Holds, LoginField
  <2>3. CASE cmd' = [c EXCEPT !.at = place, !.writer = writer, !.man = man]
    BY <1>1, <2>3 DEF Forgets, Alike, Holds, LoginField
  <2>4. CASE cmd' = [c EXCEPT !.at = place]
    BY <1>1, <2>4 DEF Forgets, Alike, Holds, LoginField
  <2>5. CASE cmd' = [c EXCEPT !.man = man, !.at = place]
    BY <1>1, <2>5 DEF Forgets, Alike, Holds, LoginField
  <2>6. CASE cmd' = [c EXCEPT !.man = man, !.at = place, !.next = next]
    BY <1>1, <2>6 DEF Forgets, Alike, Holds, LoginField
  <2>. DEFINE c1 == [c EXCEPT !.man = man, !.writer = writer, !.at = place]
              c2 == [c EXCEPT !.at = place, !.man = man, !.writer = writer]
              c3 == [c EXCEPT !.at = place, !.writer = writer, !.man = man]
              c4 == [c EXCEPT !.at = place]
              c5 == [c EXCEPT !.man = man, !.at = place]
              c6 == [c EXCEPT !.man = man, !.at = place, !.next = next]
  <2>7. /\ cmd' = c1 => Forgets(place, man, writer, "end")
        /\ cmd' = c2 => Forgets(place, man, writer, "end")
        /\ cmd' = c3 => Forgets(place, man, writer, "end")
        /\ cmd' = c4 => Forgets(place, cmd.man, cmd.writer, "end")
        /\ cmd' = c5 => Forgets(place, man, cmd.writer, "end")
        /\ cmd' = c6 => Forgets(place, man, cmd.writer, next)
    BY <2>1, <2>2, <2>3, <2>4, <2>5, <2>6, Zenon
  <2>. QED
    BY <2>7
<1>3. ASSUME NEW man PROVE Surveyed(man) => Forgets("preflights", man, TRUE, "end")
  BY <1>2 DEF Surveyed, Becomes, c
<1>4. Unanswered => Forgets("preflights", cmd.man, cmd.writer, "end")
  BY <1>2 DEF Unanswered, Becomes, c
<1>5. ASSUME NEW place PROVE Leave(place)
                => \/ cmd' = NoCommand
                   \/ place # "end" /\ Forgets(place, EmptyManifest, FALSE, "end")
  BY <1>2, EndShape DEF Leave, Becomes, c
<1>6. ASSUME NEW man, NEW place, FromManifest(man, place)
      PROVE  /\ man.prov # NoProvider /\ UNCHANGED <<files, outside>>
             /\ \/ Forgets(place, man, cmd.writer, "end")
                \/ /\ man.prov = "gcp" /\ ~man.located
                   /\ Forgets("upgrade", [man EXCEPT !.located = TRUE], cmd.writer, place)
  BY <1>2, <1>6 DEF FromManifest, Becomes, c
<1>7. ASSUME NEW place PROVE Becomes([Forget(cmd) EXCEPT !.at = place])
                => Forgets(place, cmd.man, cmd.writer, "end")
  BY <1>2 DEF Becomes, c
<1>8. ASSUME NEW man PROVE Becomes([Forget(cmd) EXCEPT !.at = "write", !.man = man, !.writer = TRUE])
                => Forgets("write", man, TRUE, "end")
  BY <1>2 DEF Becomes, c
<1>. QED
  BY <1>3, <1>4, <1>5, <1>6, <1>7, <1>8
-----------------------------------------------------------------------------
(* The types of what commands of Identity and Workspace hold and write     *)

\* a login whose email, if there is one, is that of its token's user
Logins == {l \in Login : l.email \in {NoUser, l.token}}

\* a manifest whose storage account lies in its own resource group has a bucket
Manifests == {m \in Manifest : m.account => m.bucket \in Bucket}

FilesTyped ==
    /\ {config, profile} \subseteq {Absent, Torn} \union File(Logins)
    /\ console \in {Absent, Torn} \union File(Console)
    /\ WorkspaceTypeOK
    /\ yaml \in [Dir -> {Absent} \union File(Manifests)]

LoginTyped(c) ==
    /\ c.cwd \in Dir /\ c.pf \in BOOLEAN
    /\ c.mem \in Logins /\ c.conf \in Logins
    /\ c.asked \in User \union {NoUser} /\ c.client \in User \union {NoUser}
    /\ c.man \in Manifests /\ c.cred \in Credentials /\ c.pick \in Console

LoginsTyped == OfLogin(cmd) => LoginTyped(cmd)

\* The manifest that such a command is about to read is there.
FoundInv == OfLogin(cmd) /\ cmd.at \in {"ensure", "domain"} => HasYaml(ProjectDir(cmd.cwd))

\* the logins there are
LEMMA LoginsAre ==
    /\ Nobody \in Logins /\ \A u \in User \union {NoUser} : As(u) \in Logins
    /\ \A u \in User \union {NoUser} : [email |-> NoUser, token |-> u] \in Logins
    /\ \A l \in Logins : /\ l.email \in User \union {NoUser}
                         /\ l.token \in User \union {NoUser}
                         /\ l.email \in {NoUser, l.token}
  BY DEF Logins, Login, Nobody, As

\* a file that is read as a login
LEMMA ImportTyped ==
    ASSUME NEW f \in {Absent, Torn} \union File(Logins)
    PROVE  Import(f) \in Logins
  BY LoginsAre DEF Import, File, Absent, Torn

\* what config.Read returns
LEMMA ReadTyped ==
    ASSUME FilesTyped, LoginTyped(cmd)
    PROVE  Read \in Logins
  BY ImportTyped DEF Read, FilesTyped, LoginTyped, ConfigFile

\* the manifests there are
LEMMA ManifestsAre ==
    /\ EmptyManifest \in Manifests /\ ~EmptyManifest.full /\ ~EmptyManifest.domain
    /\ EmptyManifest.prov = NoProvider /\ EmptyManifest.owner = NoUser
    /\ Manifests \subseteq Manifest
    /\ \A m \in Manifests : /\ m.owner \in User \union {NoUser}
                            /\ m.prov \in Provider \union {NoProvider}
                            /\ [m EXCEPT !.located = TRUE] \in Manifests
                            /\ [m EXCEPT !.located = TRUE].prov = m.prov
                            /\ [m EXCEPT !.located = TRUE].owner = m.owner
                            /\ [m EXCEPT !.located = TRUE].domain = m.domain
    /\ \A m \in Manifests, p \in Provider :
         /\ [m EXCEPT !.prov = p] \in Manifests
         /\ [m EXCEPT !.prov = p].owner = m.owner
         /\ [m EXCEPT !.prov = p].domain = m.domain
    /\ \A m \in Manifest, b \in Bucket :
         /\ [m EXCEPT !.bucket = b] \in Manifests /\ [m EXCEPT !.bucket = b].domain = m.domain
         /\ [m EXCEPT !.bucket = b, !.domain = TRUE] \in Manifests
         /\ [m EXCEPT !.bucket = b, !.domain = TRUE].owner = m.owner
<1>1. EmptyManifest \in Manifests /\ ~EmptyManifest.full /\ ~EmptyManifest.domain
      /\ EmptyManifest.prov = NoProvider /\ EmptyManifest.owner = NoUser
  BY DEF EmptyManifest, Manifests, Manifest
<1>2. ASSUME NEW m \in Manifests
      PROVE  /\ m.owner \in User \union {NoUser}
             /\ m.prov \in Provider \union {NoProvider}
             /\ [m EXCEPT !.located = TRUE] \in Manifests
             /\ [m EXCEPT !.located = TRUE].prov = m.prov
             /\ [m EXCEPT !.located = TRUE].owner = m.owner
             /\ [m EXCEPT !.located = TRUE].domain = m.domain
  BY DEF Manifests, Manifest
<1>3. ASSUME NEW m \in Manifests, NEW p \in Provider
      PROVE  /\ [m EXCEPT !.prov = p] \in Manifests
             /\ [m EXCEPT !.prov = p].owner = m.owner
             /\ [m EXCEPT !.prov = p].domain = m.domain
  BY DEF Manifests, Manifest
<1>4. ASSUME NEW m \in Manifest, NEW b \in Bucket
      PROVE  /\ [m EXCEPT !.bucket = b] \in Manifests /\ [m EXCEPT !.bucket = b].domain = m.domain
             /\ [m EXCEPT !.bucket = b, !.domain = TRUE] \in Manifests
             /\ [m EXCEPT !.bucket = b, !.domain = TRUE].owner = m.owner
  BY DEF Manifests, Manifest
<1>. QED
  BY <1>1, <1>2, <1>3, <1>4 DEF Manifests

\* the manifests of surveys
LEMMA SurveysTyped ==
    ASSUME Read \in Logins, NEW p \in Provider \union {NoProvider}, NEW account \in BOOLEAN
    PROVE  /\ DryManifest(p) \in Manifests /\ ~DryManifest(p).domain
           /\ Fresh(p, account) \in Manifest /\ ~Fresh(p, account).domain
           /\ Fresh(p, account).owner = Read.email /\ Fresh(p, account).prov = p
           /\ ~account => Fresh(p, account) \in Manifests
<1>1. Read.email \in User \union {NoUser}
  BY LoginsAre
<1>2. \A b \in {DryBucket, NoBucket} :
        LET m == [EmptyManifest EXCEPT !.prov = p, !.owner = Read.email, !.bucket = b]
        IN  m \in Manifests /\ ~m.domain
  BY <1>1 DEF EmptyManifest, Manifests, Manifest
<1>3. DryManifest(p) \in Manifests /\ ~DryManifest(p).domain
  BY <1>2 DEF DryManifest
<1>4. /\ Fresh(p, account) \in Manifest /\ ~Fresh(p, account).domain
      /\ Fresh(p, account).owner = Read.email /\ Fresh(p, account).prov = p
      /\ ~account => Fresh(p, account) \in Manifests
  BY <1>1 DEF Fresh, EmptyManifest, Manifests, Manifest
<1>. QED
  BY <1>3, <1>4

\* The commands of Identity keep these types.
LEMMA IdentityTyped ==
    ASSUME SessionInv, FilesTyped, LoginsTyped, IdentityNext, UNCHANGED outside
    PROVE  FilesTyped' /\ LoginsTyped'
<1>1. OfLogin(cmd) /\ DOMAIN cmd = LoginField /\ LoginTyped(cmd)
  BY OtherPlaces, ShapeAt DEF LoginPlace, SessionInv, LoginsTyped, OfLogin
<1>2. /\ Read \in Logins /\ Import(profile) \in Logins /\ Import(ConfigFile) \in Logins
      /\ Nobody \in Logins /\ \A u \in User \union {NoUser} : As(u) \in Logins
  BY <1>1, ReadTyped, ImportTyped, LoginsAre DEF FilesTyped, ConfigFile, LoginTyped
<1>3. \A l \in Logins : l.token \in User \union {NoUser} /\ Holding(l) \in File(Logins)
  BY LoginsAre DEF Holding, File
<1>4. ASSUME UNCHANGED <<yaml, context, clone, remote, holder, cloud, console>>,
             {config', profile'} \subseteq {Absent, Torn} \union File(Logins)
      PROVE  FilesTyped'
  BY <1>4 DEF FilesTyped, WorkspaceTypeOK
<1>5. ASSUME NEW conf \in Logins, NEW asked \in User \union {NoUser}, Store(conf, asked)
      PROVE  LoginTyped(cmd')
  BY <1>1, <1>5 DEF Store, Becomes, LoginTyped, LoginField
<1>6. {config, profile} \subseteq {Absent, Torn} \union File(Logins) /\ User = Person \union Robot
  BY DEF FilesTyped, User
<1>7. CASE HandleLogin
  <2>1. \E conf \in Logins, asked \in User \union {NoUser} :
          cmd' = [cmd EXCEPT !.at = "me", !.conf = conf, !.asked = asked]
    <3>1. CASE cmd' = [cmd EXCEPT !.at = "me", !.conf = Read, !.asked = Import(ConfigFile).token]
      BY <1>2, <1>3, <3>1
    <3>2. ASSUME NEW p \in Person,
                 cmd' = [cmd EXCEPT !.at = "me", !.asked = p,
                                    !.conf = [email |-> NoUser, token |-> p]]
          PROVE  \E conf \in Logins, asked \in User \union {NoUser} :
                   cmd' = [cmd EXCEPT !.at = "me", !.conf = conf, !.asked = asked]
      <4>1. p \in User \union {NoUser} /\ [email |-> NoUser, token |-> p] \in Logins
        BY <1>6, LoginsAre
      <4>2. cmd' = [cmd EXCEPT !.at = "me", !.conf = [email |-> NoUser, token |-> p], !.asked = p]
        BY <3>2
      <4>. QED
        BY <4>1, <4>2
    <3>. QED
      BY <1>7, <3>1, <3>2 DEF HandleLogin, Becomes
  <2>2. LoginTyped(cmd')
    BY <1>1, <2>1 DEF LoginTyped, LoginField
  <2>. QED
    BY <1>4, <1>6, <1>7, <2>2 DEF HandleLogin, files, home, outside, LoginsTyped
<1>8. CASE PostLogin
  <2>1. /\ cmd.conf.token \in User \union {NoUser}
        /\ \A r \in Robot : r \in User \union {NoUser}
        /\ NoUser \in User \union {NoUser}
    BY <1>1, <1>3, <1>6 DEF LoginTyped
  <2>2. \E conf \in Logins, asked \in User \union {NoUser}, mem \in Logins : \E p :
          cmd' = [cmd EXCEPT !.conf = conf, !.mem = mem, !.asked = asked, !.at = p]
    <3>. DEFINE Logs == \E conf \in Logins, asked \in User \union {NoUser}, mem \in Logins : \E p :
                          cmd' = [cmd EXCEPT !.conf = conf, !.mem = mem, !.asked = asked, !.at = p]
    <3>1. CASE cmd' = [cmd EXCEPT !.at = "flush", !.conf = As(cmd.conf.token)]
      <4>1. cmd' = [cmd EXCEPT !.conf = As(cmd.conf.token), !.mem = cmd.mem,
                               !.asked = cmd.asked, !.at = "flush"]
        BY <1>1, <3>1 DEF LoginField
      <4>2. As(cmd.conf.token) \in Logins /\ cmd.mem \in Logins
            /\ cmd.asked \in User \union {NoUser}
        BY <1>1, <1>2, <2>1 DEF LoginTyped
      <4>. QED
        BY <4>1, <4>2
    <3>2. ASSUME NEW r \in Robot,
                 \/ cmd' = [cmd EXCEPT !.conf = As(r), !.mem = As(r), !.asked = r, !.at = "flush"]
                 \/ cmd' = [cmd EXCEPT !.conf = Nobody, !.mem = As(r), !.asked = NoUser,
                                       !.at = cmd.next]
          PROVE  Logs
      <4>1. r \in User \union {NoUser} /\ As(r) \in Logins
        BY <1>2, <2>1
      <4>. QED
        BY <1>2, <2>1, <3>2, <4>1
    <3>. QED
      BY <1>8, <3>1, <3>2 DEF PostLogin, Becomes
  <2>3. LoginTyped(cmd')
    BY <1>1, <2>2 DEF LoginTyped, LoginField
  <2>. QED
    BY <1>4, <1>6, <1>8, <2>3 DEF PostLogin, files, home, outside, LoginsTyped
<1>9. CASE Flush \/ Filled
  <2>1. cmd.conf \in Logins /\ Holding(cmd.conf) \in File(Logins)
    BY <1>1, <1>3 DEF LoginTyped
  <2>2. {config', profile'} \subseteq {Absent, Torn} \union File(Logins)
    BY <1>6, <1>9, <2>1 DEF Flush, Filled
  <2>3. \/ cmd' = NoCommand
        \/ \E p : cmd' = [cmd EXCEPT !.at = p]
        \/ \E p : cmd' = [cmd EXCEPT !.at = p, !.conf = Nobody, !.asked = NoUser]
    BY <1>9, EndShape DEF Flush, Filled, Goto, Becomes
  <2>4. OfLogin(cmd') => LoginTyped(cmd')
    <3>1. ~OfLogin(NoCommand)
      BY DEF OfLogin, NoCommand, LoginField
    <3>. QED
      BY <1>1, <1>2, <2>3, <3>1 DEF LoginTyped, LoginField
  <2>. QED
    BY <1>4, <1>9, <2>2, <2>4 DEF Flush, Filled, outside, LoginsTyped
<1>10. CASE SaveProfile
  <2>1. cmd.conf \in Logins /\ Holding(cmd.conf) \in File(Logins)
    BY <1>1, <1>3 DEF LoginTyped
  <2>2. {config', profile'} \subseteq {Absent, Torn} \union File(Logins)
    BY <1>6, <1>10, <2>1 DEF SaveProfile
  <2>3. \/ cmd' = NoCommand
        \/ cmd' = [cmd EXCEPT !.at = "saving", !.conf = Import(ConfigFile)]
    BY <1>10, EndShape DEF SaveProfile, Becomes
  <2>4. OfLogin(cmd') => LoginTyped(cmd')
    <3>1. ~OfLogin(NoCommand)
      BY DEF OfLogin, NoCommand, LoginField
    <3>. QED
      BY <1>1, <1>2, <2>3, <3>1 DEF LoginTyped, LoginField
  <2>. QED
    BY <1>4, <1>10, <2>2, <2>4 DEF SaveProfile, outside, LoginsTyped
<1>11. CASE UseProfile \/ Amend \/ FromToken \/ OidcToken \/ ImportHome
  <2>1. \E conf \in Logins, asked \in User \union {NoUser} : Store(conf, asked)
    BY <1>2, <1>3, <1>11, LoginsAre DEF UseProfile, Amend, FromToken, OidcToken, ImportHome
  <2>2. UNCHANGED files
    BY <1>11 DEF UseProfile, Amend, FromToken, OidcToken, ImportHome
  <2>. QED
    BY <1>4, <1>5, <1>6, <2>1, <2>2 DEF files, home, outside, LoginsTyped
<1>. QED
  BY <1>7, <1>8, <1>9, <1>10, <1>11 DEF IdentityNext

\* Surveys, which may register a subdomain
LEMMA SurveyTyped ==
    ASSUME FilesTyped, DOMAIN cmd = LoginField, LoginTyped(cmd), Survey
    PROVE  /\ UNCHANGED <<files, clone, remote, cloud>> /\ holder' \in User \union {NoUser}
           /\ \E man \in Manifests : \E writer : Forgets("preflights", man, writer, "end")
<1>1. Read \in Logins /\ Read.token \in User \union {NoUser} /\ cmd.man \in Manifests
      /\ holder \in User \union {NoUser}
  BY ReadTyped, LoginsAre DEF LoginTyped, FilesTyped, WorkspaceTypeOK
<1>. DEFINE Goal == \E man \in Manifests : \E writer : Forgets("preflights", man, writer, "end")
<1>2. /\ \A man \in Manifests : Surveyed(man) => Goal
      /\ Unanswered => Goal
  BY <1>1, ForgetMoves
<1>. HIDE DEF Goal
<1>3. ASSUME NEW man \in Manifest, Configure(man)
      PROVE  Goal /\ UNCHANGED <<files, clone, remote, cloud>> /\ holder' \in User \union {NoUser}
  <2>1. \A b \in Bucket : [man EXCEPT !.bucket = b] \in Manifests
                          /\ [man EXCEPT !.bucket = b, !.domain = TRUE] \in Manifests
    BY ManifestsAre
  <2>2. Goal
    BY <1>2, <1>3, <2>1 DEF Configure
  <2>3. UNCHANGED <<files, clone, remote, cloud>> /\ holder' \in User \union {NoUser}
    BY <1>1, <1>3 DEF Configure, outside
  <2>. QED
    BY <2>2, <2>3
<1>4. /\ \A p \in Provider, account \in BOOLEAN : Fresh(p, account) \in Manifest
      /\ \A p \in Provider : Fresh(p, FALSE) \in Manifests
  BY <1>1, SurveysTyped
<1>5. {"aws", "gcp", "azure", "byok"} \subseteq Provider /\ DryManifest(cmd.man.prov) \in Manifests
  <2>1. cmd.man.prov \in Provider \union {NoProvider}
    BY <1>1, ManifestsAre
  <2>. QED
    BY <1>1, <2>1, SurveysTyped DEF Provider
<1>6. CASE SurveyAws \/ SurveyGcp
  BY <1>3, <1>4, <1>5, <1>6 DEF SurveyAws, SurveyGcp, Goal
<1>7. CASE SurveyAzure
  BY <1>3, <1>4, <1>5, <1>7 DEF SurveyAzure, AskAzure, Goal
<1>8. CASE SurveyByok \/ SurveyDry
  BY <1>1, <1>2, <1>4, <1>5, <1>8 DEF SurveyByok, SurveyDry, outside, Goal
<1>. QED
  BY <1>6, <1>7, <1>8 DEF Survey

\* The commands of Workspace keep these types.
LEMMA WorkspaceTyped ==
    ASSUME SessionInv, FilesTyped, LoginsTyped, FoundInv, WorkspaceNext
    PROVE  FilesTyped' /\ LoginsTyped'
<1>1. OfLogin(cmd) /\ DOMAIN cmd = LoginField /\ LoginTyped(cmd) /\ cmd.man \in Manifests
      /\ cmd.cwd \in Dir /\ ProjectDir(cmd.cwd) \in Dir
  BY OtherPlaces, ShapeAt, ProjectDirNearest, NearestIs DEF LoginPlace, SessionInv, LoginsTyped, OfLogin, LoginTyped
<1>2. /\ yaml \in [Dir -> {Absent} \union File(Manifests)] /\ Manifests \subseteq Manifest
      /\ EmptyManifest \in Manifests
      /\ \A d \in Dir : HasYaml(d) => yaml[d].has \in Manifests
      /\ HasYaml(ProjectDir(cmd.cwd)) => ProjectFile.has \in Manifests
      /\ \A man \in Manifests : Holding(man) \in File(Manifests) /\ Holding(man) \in File(Manifest)
  BY <1>1, ManifestsAre DEF FilesTyped, HasYaml, File, Holding, ProjectFile
<1>3. ASSUME UNCHANGED <<home, yaml, context, outside>> PROVE FilesTyped'
  BY <1>3 DEF FilesTyped, WorkspaceTypeOK, home, outside
<1>4. ASSUME UNCHANGED <<home, context, outside>>, NEW man \in Manifests, NEW d \in Dir,
             yaml' = [yaml EXCEPT ![d] = Holding(man)]
      PROVE  FilesTyped'
  <2>1. /\ yaml' \in [Dir -> {Absent} \union File(Manifests)]
        /\ yaml' \in [Dir -> {Absent} \union File(Manifest)]
    BY <1>2, <1>4 DEF FilesTyped, WorkspaceTypeOK
  <2>. QED
    BY <1>4, <2>1 DEF FilesTyped, WorkspaceTypeOK, home, outside
<1>5. ASSUME UNCHANGED <<home, yaml, outside>>, NEW d \in Dir,
             NEW v \in {Absent, Torn} \union File(Credentials),
             context' = [context EXCEPT ![d] = v]
      PROVE  FilesTyped'
  <2>1. context' \in [Dir -> {Absent, Torn} \union File(Credentials)]
    BY <1>5 DEF FilesTyped, WorkspaceTypeOK
  <2>. QED
    BY <1>5, <2>1 DEF FilesTyped, WorkspaceTypeOK, home, outside
<1>6. ASSUME UNCHANGED <<home, yaml, context>>, clone' \in BOOLEAN,
             remote' \in {Absent} \union File(Remote), holder' \in User \union {NoUser},
             cloud' \in [group : BOOLEAN, account : BOOLEAN, buckets : SUBSET (Bucket \union {DryBucket})]
      PROVE  FilesTyped'
  BY <1>6 DEF FilesTyped, WorkspaceTypeOK, home
<1>7. /\ clone \in BOOLEAN /\ remote \in {Absent} \union File(Remote)
      /\ holder \in User \union {NoUser}
      /\ cloud \in [group : BOOLEAN, account : BOOLEAN, buckets : SUBSET (Bucket \union {DryBucket})]
      /\ Torn \in {Absent, Torn} \union File(Credentials)
      /\ \A k \in Credentials : Holding(k) \in {Absent, Torn} \union File(Credentials)
  BY DEF FilesTyped, WorkspaceTypeOK, File, Holding
<1>8. /\ cmd' = NoCommand => LoginsTyped'
      /\ \A place : Goes(place) => LoginsTyped'
      /\ \A place, writer, next : \A man \in Manifests :
           Forgets(place, man, writer, next) => LoginsTyped'
  <2>1. ~OfLogin(NoCommand)
    BY DEF OfLogin, NoCommand, LoginField
  <2>2. \A place : Goes(place) => LoginTyped(cmd')
    BY <1>1 DEF Goes, Alike, Speaks, Holds, LoginTyped
  <2>3. \A place, writer, next : \A man \in Manifests :
           Forgets(place, man, writer, next) => LoginTyped(cmd')
    BY <1>1, LoginsAre DEF Forgets, Alike, Holds, LoginTyped
  <2>. QED
    BY <2>1, <2>2, <2>3 DEF LoginsTyped
<1>9. /\ \A place : Goto(place) => LoginsTyped'
      /\ \A place : Leave(place) => LoginsTyped'
      /\ End => LoginsTyped'
      /\ \A man \in Manifests : \A place :
           FromManifest(man, place) => LoginsTyped' /\ UNCHANGED <<files, outside>>
  <2>1. \A man \in Manifests : [man EXCEPT !.located = TRUE] \in Manifests
    BY ManifestsAre
  <2>. QED
    BY <1>1, <1>2, <1>8, <2>1, GotoMoves, ForgetMoves, EndShape
<1>10. ASSUME NEW place, NEW next, NEW writer, NEW man \in Manifests, Alike, Speaks,
              Holds(place, man, writer, next),
              cmd'.cred \in Credentials, cmd'.pick \in Console
       PROVE  LoginsTyped'
  BY <1>1, <1>10 DEF Alike, Speaks, Holds, LoginTyped, LoginsTyped
<1>11. cmd.cred \in Credentials /\ cmd.pick \in Console
  BY <1>1 DEF LoginTyped
<1>12. CASE InitPluralClient
  <2>1. Read.token \in User \union {NoUser}
    BY <1>1, ReadTyped, LoginsAre
  <2>2. cmd'.client \in User \union {NoUser} /\ cmd'.mem \in Logins
    BY <1>1, <1>12, <2>1, ClientMoves, LoginsAre DEF User, LoginTyped
  <2>3. LoginsTyped'
    BY <1>1, <1>12, <2>2, ClientMoves DEF Alike, Holds, LoginTyped, LoginsTyped
  <2>. QED
    BY <1>1, <1>3, <1>12, <2>3, ClientMoves DEF files
<1>13. CASE ChoseCluster \/ ValidateConsoleConfig
  <2>1. \A i \in Instance : i \in Console
    BY DEF Console
  <2>2. OwnConsole \in Console
    BY DEF Console
  <2>3. \E pick \in Console : \E place, next :
          /\ Alike /\ Speaks /\ Holds(place, cmd.man, cmd.writer, next)
          /\ cmd'.cred = cmd.cred /\ cmd'.pick = pick
    BY <1>1, <1>13, <2>1, <2>2, GotoMoves, Zenon DEF ChoseCluster, ValidateConsoleConfig
  <2>4. LoginsTyped'
    BY <1>1, <1>10, <1>11, <2>3
  <2>. QED
    BY <1>3, <1>13, <2>4 DEF ChoseCluster, ValidateConsoleConfig, files
<1>14. CASE Preflight
  <2>1. \/ \E place : Goto(place)
        \/ \E place, next : Becomes([cmd EXCEPT !.at = place, !.next = next])
    BY <1>14, Zenon DEF Preflight
  <2>2. \/ \E place : Goto(place)
        \/ \E place, next : /\ Alike /\ Speaks /\ Holds(place, cmd.man, cmd.writer, next)
                            /\ cmd'.cred = cmd.cred /\ cmd'.pick = cmd.pick
    BY <1>1, <2>1, GotoMoves, Zenon
  <2>3. LoginsTyped'
    BY <1>1, <1>9, <1>10, <1>11, <2>2
  <2>. QED
    BY <1>3, <1>14, <2>3 DEF Preflight, files
<1>15. CASE EnsureWorkspace
  <2>1. ProjectFile.has \in Manifests
    BY <1>1, <1>2, <1>15 DEF EnsureWorkspace, At, FoundInv
  <2>2. Forgets("write", ProjectFile.has, TRUE, "end")
    BY <1>1, <1>15, ForgetMoves, Zenon DEF EnsureWorkspace
  <2>3. LoginsTyped'
    BY <1>8, <2>1, <2>2
  <2>4. cmd.client \in User \union {NoUser}
    BY <1>1 DEF LoginTyped
  <2>5. holder' \in User \union {NoUser} /\ UNCHANGED <<files, clone, remote, cloud>>
    BY <1>7, <1>15, <2>4 DEF EnsureWorkspace
  <2>. QED
    BY <1>6, <1>7, <2>3, <2>5 DEF files
<1>16. CASE GetProvider
  <2>1. CASE ProjectFile # Absent
    <3>1. ProjectFile.has \in Manifests /\ FromManifest(ProjectFile.has, "preflights")
      BY <1>2, <1>16, <2>1 DEF GetProvider, ProjectFile, HasYaml
    <3>. QED
      BY <1>3, <1>9, <3>1 DEF files
  <2>2. CASE ProjectFile = Absent
    <3>1. PICK p \in Provider : /\ Becomes([cmd EXCEPT !.at = "survey", !.man.prov = p])
                                /\ UNCHANGED <<files, outside>>
      BY <1>16, <2>2 DEF GetProvider
    <3>2. /\ Alike /\ Speaks /\ Holds("survey", [cmd.man EXCEPT !.prov = p], cmd.writer, cmd.next)
          /\ cmd'.cred = cmd.cred /\ cmd'.pick = cmd.pick
      BY <1>1, <3>1, GotoMoves, Zenon
    <3>3. [cmd.man EXCEPT !.prov = p] \in Manifests
      BY <1>1, ManifestsAre
    <3>. QED
      BY <1>3, <1>10, <1>11, <3>1, <3>2, <3>3 DEF files
  <2>. QED
    BY <2>1, <2>2
<1>17. CASE UpgradeManifest \/ WriteManifest
  <2>1. LoginsTyped'
    BY <1>9, <1>17 DEF UpgradeManifest, WriteManifest
  <2>2. \E man \in Manifests : yaml' = [yaml EXCEPT ![ProjectDir(cmd.cwd)] = Holding(man)]
    BY <1>1, <1>2, <1>17 DEF UpgradeManifest, WriteManifest
  <2>. QED
    BY <1>1, <1>4, <1>17, <2>1, <2>2 DEF UpgradeManifest, WriteManifest
<1>18. CASE Survey
  <2>1. /\ UNCHANGED <<files, clone, remote, cloud>> /\ holder' \in User \union {NoUser}
        /\ \E man \in Manifests : \E writer : Forgets("preflights", man, writer, "end")
    BY <1>1, <1>18, SurveyTyped
  <2>. QED
    BY <1>6, <1>7, <1>8, <2>1 DEF files
<1>19. CASE RunPreflights
  <2>1. \E place : Forgets(place, cmd.man, cmd.writer, "end")
    BY <1>1, <1>19, ForgetMoves, Zenon DEF RunPreflights
  <2>. QED
    BY <1>1, <1>3, <1>8, <1>19, <2>1 DEF RunPreflights, files
<1>20. CASE GithubSetup \/ GitlabSetup \/ BitbucketSetup
  <2>1. /\ LoginsTyped' /\ UNCHANGED <<files, clone, holder, cloud>>
        /\ \/ \E commits \in BOOLEAN :
                remote' = Holding([https |-> FALSE, key |-> FALSE, commits |-> commits])
           \/ remote' = [remote EXCEPT !.has.key = TRUE]
           \/ remote' = [remote EXCEPT !.has.commits = TRUE]
    BY <1>9, <1>20 DEF GithubSetup, GitlabSetup, BitbucketSetup, CreateRepository, AddDeployKey
  <2>2. remote' \in {Absent} \union File(Remote)
    <3>1. ASSUME NEW r \in File(Remote)
          PROVE  /\ [r EXCEPT !.has.key = TRUE] \in File(Remote)
                 /\ [r EXCEPT !.has.commits = TRUE] \in File(Remote)
      <4>. DEFINE h == r.has
      <4>1. h \in Remote /\ r = Holding(h)
        BY DEF File, Holding
      <4>2. [h EXCEPT !.key = TRUE] \in Remote /\ [h EXCEPT !.commits = TRUE] \in Remote
        BY <4>1 DEF Remote
      <4>. HIDE DEF h
      <4>3. [r EXCEPT !.has = [h EXCEPT !.key = TRUE]] \in File(Remote)
            /\ [r EXCEPT !.has = [h EXCEPT !.commits = TRUE]] \in File(Remote)
        BY <4>1, <4>2 DEF File, Holding
      <4>. QED
        BY <4>3 DEF h
    <3>2. [Absent EXCEPT !.has.key = TRUE] = Absent /\ [Absent EXCEPT !.has.commits = TRUE] = Absent
      BY DEF Absent
    <3>3. \A commits \in BOOLEAN :
            Holding([https |-> FALSE, key |-> FALSE, commits |-> commits]) \in File(Remote)
      BY DEF Holding, File, Remote
    <3>. QED
      BY <1>7, <2>1, <3>1, <3>2, <3>3
  <2>. QED
    BY <1>6, <1>7, <2>1, <2>2 DEF files
<1>21. CASE Clone
  <2>1. LoginsTyped'
    BY <1>1, <1>21, CloneMoves DEF Holds, Speaks, LoginTyped, LoginsTyped, Dir
  <2>. QED
    BY <1>6, <1>7, <1>21, <2>1 DEF Clone, files
<1>22. CASE BuildContext
  <2>1. "root" \in Dir /\ "ssh" \in Credentials
    BY DEF Dir, Credentials
  <2>. QED
    BY <1>5, <1>7, <1>9, <1>22, <2>1 DEF BuildContext
<1>23. CASE FlushProvider \/ Generate \/ GetCluster \/ Backfill \/ ByokBucket \/ Deployed
  <2>1. LoginsTyped' /\ UNCHANGED <<files, outside>>
    BY <1>9, <1>23 DEF FlushProvider, Generate, GetCluster, Backfill, ByokBucket, Deployed
  <2>. QED
    BY <1>3, <2>1 DEF files
<1>24. CASE AskAppDomain
  <2>. DEFINE d == ProjectDir(cmd.cwd)
  <2>1. CASE At("domain") /\ Goto("build") /\ UNCHANGED <<files, outside>>
    BY <1>3, <1>9, <2>1 DEF files
  <2>2. CASE /\ At("domain") /\ Becomes([cmd EXCEPT !.man = yaml[d].has, !.at = "naming"])
             /\ yaml' = [yaml EXCEPT ![d] = Holding(EmptyManifest)]
             /\ UNCHANGED <<home, context, outside>>
    <3>1. yaml[d].has \in Manifests
      BY <1>1, <1>2, <2>2 DEF At, FoundInv
    <3>2. /\ Alike /\ Speaks /\ Holds("naming", yaml[d].has, cmd.writer, cmd.next)
          /\ cmd'.cred = cmd.cred /\ cmd'.pick = cmd.pick
      BY <1>1, <2>2, GotoMoves, Zenon
    <3>3. LoginsTyped'
      BY <1>10, <1>11, <3>1, <3>2
    <3>. HIDE DEF d
    <3>4. d \in Dir
      BY <1>1 DEF d
    <3>. QED
      BY <1>2, <1>4, <2>2, <3>3, <3>4
  <2>3. CASE /\ At("naming") /\ Becomes([cmd EXCEPT !.at = "build", !.man = EmptyManifest])
             /\ yaml' = [yaml EXCEPT ![d] = Holding(cmd.man)]
             /\ UNCHANGED <<home, context, outside>>
    <3>1. /\ Alike /\ Speaks /\ Holds("build", EmptyManifest, cmd.writer, cmd.next)
          /\ cmd'.cred = cmd.cred /\ cmd'.pick = cmd.pick
      BY <1>1, <2>3, GotoMoves, Zenon
    <3>2. LoginsTyped'
      BY <1>2, <1>10, <1>11, <3>1
    <3>. HIDE DEF d
    <3>3. d \in Dir
      BY <1>1 DEF d
    <3>. QED
      BY <1>1, <1>4, <2>3, <3>2, <3>3
  <2>. QED
    BY <1>24, <2>1, <2>2, <2>3 DEF AskAppDomain
<1>25. CASE Build
  <2>1. yaml[cmd.cwd].has \in Manifests
    BY <1>1, <1>2, <1>25 DEF Build
  <2>. QED
    BY <1>3, <1>9, <1>25, <2>1 DEF Build, files
<1>26. CASE BackfillHTTPS \/ BackfillSSH
  <2>1. PICK kind \in Credentials : Ask(kind)
    BY <1>26 DEF BackfillHTTPS, BackfillSSH, Credentials
  <2>2. /\ Alike /\ Speaks /\ Holds("backfilled", cmd.man, cmd.writer, cmd.next)
        /\ cmd'.cred = kind /\ cmd'.pick = cmd.pick
    BY <1>1, <2>1, GotoMoves, Zenon DEF Ask
  <2>3. LoginsTyped'
    BY <1>1, <1>10, <1>11, <2>2
  <2>. QED
    BY <1>1, <1>5, <1>7, <2>1, <2>3 DEF Ask
<1>27. CASE WriteContext
  <2>1. /\ Alike /\ Speaks /\ Holds("generate", cmd.man, cmd.writer, cmd.next)
        /\ cmd'.cred = "none" /\ cmd'.pick = cmd.pick
    BY <1>1, <1>27, GotoMoves, Zenon DEF WriteContext
  <2>2. LoginsTyped'
    BY <1>1, <1>10, <1>11, <2>1 DEF Credentials
  <2>. QED
    BY <1>1, <1>5, <1>7, <1>11, <1>27, <2>2 DEF WriteContext
<1>28. CASE CreateBucket \/ AzureGroup \/ AzureAccount \/ AzureContainer
  <2>1. LoginsTyped' /\ UNCHANGED <<files, clone, remote, holder>>
    BY <1>9, <1>28 DEF CreateBucket, AzureGroup, AzureAccount, AzureContainer, LoginsTyped
  <2>2. \/ \E b \in Bucket \union {DryBucket} : cloud' = [cloud EXCEPT !.buckets = @ \union {b}]
        \/ cloud' = [cloud EXCEPT !.group = TRUE]
        \/ cloud' = [cloud EXCEPT !.account = TRUE]
    <3>1. /\ cmd.man.bucket # NoBucket => cmd.man.bucket \in Bucket \union {DryBucket}
          /\ cmd.man.account => cmd.man.bucket \in Bucket \union {DryBucket}
      BY <1>1 DEF Manifests, Manifest
    <3>. QED
      BY <1>28, <3>1 DEF CreateBucket, AzureGroup, AzureAccount, AzureContainer
  <2>3. cloud' \in [group : BOOLEAN, account : BOOLEAN, buckets : SUBSET (Bucket \union {DryBucket})]
    BY <1>7, <2>2
  <2>. QED
    BY <1>6, <1>7, <2>1, <2>3 DEF files
<1>. QED
  BY <1>12, <1>13, <1>14, <1>15, <1>16, <1>17, <1>18, <1>19, <1>20, <1>21, <1>22, <1>23, <1>24,
     <1>25, <1>26, <1>27, <1>28 DEF WorkspaceNext
-----------------------------------------------------------------------------
(* What the other components do to the workspace and to such commands      *)

\* Only automations write workspace.yaml too, only Identity writes the login and
\* only the login to a console writes console.yml.
LEMMA OthersWritesAre ==
    /\ IdentityNext => UNCHANGED <<console, yaml, context>>
    /\ ServicesNext => UNCHANGED <<config, profile, yaml, context>>
    /\ ServicesNext /\ cmd.at \notin SharedPlace => UNCHANGED console
    /\ PullRequestNext => UNCHANGED <<home, context>>
    /\ EdgeNext => UNCHANGED files
    /\ ControlPlaneNext => UNCHANGED <<files, outside>>
<1>1. IdentityNext => UNCHANGED <<console, yaml, context>>
  BY DEF IdentityNext, HandleLogin, PostLogin, Flush, Filled, UseProfile, SaveProfile, Amend,
     FromToken, OidcToken, ImportHome, files, home
<1>2. ServicesNext => UNCHANGED <<config, profile, yaml, context>>
  BY DEF ServicesNext, HandleCdLogin, SaveConsole, InitConsoleClient, GetClusterService,
     CreateService, UpdateService, CloneService, DeleteService, KickService, OthersWrite, Put,
     files, home
<1>3. ServicesNext /\ cmd.at \notin SharedPlace => UNCHANGED console
  BY DEF ServicesNext, HandleCdLogin, SaveConsole, InitConsoleClient, GetClusterService,
     CreateService, UpdateService, CloneService, DeleteService, KickService, OthersWrite, Put,
     files, home, At, SharedPlace
<1>4. PullRequestNext => UNCHANGED <<home, context>>
  BY DEF PullRequestNext, CopyTemplates, BuildCRD, Configuration, ApplyVendoring, ApplyCreates,
     Skips, RegexReplacements, YamlOverlays, UpdateMatches, ApplyDeletes, ReplaceTo, Change, files
<1>5. EdgeNext => UNCHANGED files
  BY DEF EdgeNext, WriteCloudConfig, CreateVolume, Unpack, BuildImage, SaveImage, FailImage
<1>6. ControlPlaneNext => UNCHANGED <<files, outside>>
  BY DEF ControlPlaneNext, CreateControlPlane, ReadsWorkspace, FromManifest, ControlPlaneValues,
     EnsureInstalled, SetupOIDC, OthersBind, WriteValues
<1>. QED
  BY <1>1, <1>2, <1>3, <1>4, <1>5, <1>6

\* An automation writes an empty workspace.yaml where there is none, and removes
\* the one it wrote.
LEMMA AutomationsWrite ==
    ASSUME PrInv, PullRequestNext
    PROVE  /\ cmd.cwd \in Dir /\ cmd.wrote \in BOOLEAN /\ cmd.at \in PrPlace
           /\ \/ UNCHANGED yaml
              \/ /\ cmd.at = "automation" /\ yaml[ProjectDir(cmd.cwd)] = Absent
                 /\ yaml' = [yaml EXCEPT ![cmd.cwd] = Holding(EmptyManifest)]
                 /\ cmd'.cwd = cmd.cwd /\ cmd'.wrote /\ cmd'.at = "questions"
              \/ /\ cmd.at = "questions" /\ cmd.wrote
                 /\ yaml' = [yaml EXCEPT ![cmd.cwd] = Absent]
           /\ \/ cmd' = NoCommand
              \/ /\ cmd'.cwd = cmd.cwd
                 /\ cmd'.wrote = cmd.wrote /\ cmd.at # "questions" /\ UNCHANGED yaml
              \/ cmd'.cwd = cmd.cwd /\ ~cmd'.wrote
              \/ /\ cmd'.cwd = cmd.cwd /\ cmd.at = "automation" /\ cmd'.wrote
                 /\ cmd'.at = "questions" /\ yaml' = [yaml EXCEPT ![cmd.cwd] = Holding(EmptyManifest)]
<1>1. cmd \in PrCommands /\ Applies
  BY DEF PullRequestNext, PrInv, CommandInv
<1>2. /\ cmd.cwd \in Dir /\ cmd.wrote \in BOOLEAN /\ cmd.at \in PrPlace
      /\ DOMAIN cmd = {"name", "at", "cwd", "todo", "vendor", "asks", "wrote", "skips", "text"}
  BY <1>1 DEF PrCommands, Worktree, Dir
<1>3. ASSUME NEW place, Goto(place)
      PROVE  cmd'.cwd = cmd.cwd /\ cmd'.wrote = cmd.wrote /\ cmd'.at = place
  BY <1>2, <1>3 DEF Goto, Becomes
<1>4. ASSUME NEW place, NEW text, Becomes([cmd EXCEPT !.at = place, !.text = text])
      PROVE  cmd'.cwd = cmd.cwd /\ cmd'.wrote = cmd.wrote
  BY <1>2, <1>4 DEF Becomes
<1>5. CASE BuildCRD
  <2>1. ASSUME NEW w, Becomes([cmd EXCEPT !.at = "questions", !.wrote = w])
        PROVE  cmd'.cwd = cmd.cwd /\ cmd'.wrote = w /\ cmd'.at = "questions"
    BY <1>2, <2>1 DEF Becomes
  <2>. QED
    BY <1>2, <1>3, <1>5, <2>1 DEF BuildCRD, At
<1>6. CASE Configuration
  <2>1. Becomes([cmd EXCEPT !.at = First, !.wrote = FALSE]) => cmd'.cwd = cmd.cwd /\ ~cmd'.wrote
    BY <1>2 DEF Becomes
  <2>. QED
    BY <1>2, <1>6, <2>1, EndShape DEF Configuration, At
<1>7. CASE CopyTemplates \/ ApplyVendoring
  BY <1>2, <1>3, <1>7 DEF CopyTemplates, ApplyVendoring, Change, files, At
<1>8. CASE ApplyCreates \/ RegexReplacements \/ YamlOverlays \/ UpdateMatches
  <2>1. /\ UNCHANGED yaml /\ cmd.at # "questions"
        /\ \/ \E place : Goto(place)
           \/ \E place, text : Becomes([cmd EXCEPT !.at = place, !.text = text])
           \/ Becomes([cmd EXCEPT !.at = "replacements", !.skips = TRUE])
    BY <1>8 DEF ApplyCreates, Skips, RegexReplacements, YamlOverlays, UpdateMatches, ReplaceTo,
       Change, files, At
  <2>2. Becomes([cmd EXCEPT !.at = "replacements", !.skips = TRUE])
          => cmd'.cwd = cmd.cwd /\ cmd'.wrote = cmd.wrote
    BY <1>2 DEF Becomes
  <2>. QED
    BY <1>2, <1>3, <1>4, <2>1, <2>2
<1>9. CASE ApplyDeletes
  <2>1. Becomes([cmd EXCEPT !.at = "automation", !.todo = Tail(@), !.skips = FALSE])
          => cmd'.cwd = cmd.cwd /\ cmd'.wrote = cmd.wrote
    BY <1>2 DEF Becomes
  <2>. QED
    BY <1>2, <1>9, <2>1, EndShape DEF ApplyDeletes, files, At
<1>. QED
  BY <1>5, <1>6, <1>7, <1>8, <1>9 DEF PullRequestNext

\* A command is started without a manifest, inside of the clone if there is one.
LEMMA StartsAre ==
    ASSUME \/ StartIdentity \/ StartWorkspace \/ StartControlPlane
    PROVE  /\ ~Running /\ cmd'.cwd \in Dir /\ cmd'.pf \in BOOLEAN
           /\ cmd'.mem = Nobody /\ cmd'.conf = Nobody /\ cmd'.asked = NoUser
           /\ cmd'.client = NoUser /\ cmd'.man = EmptyManifest /\ cmd'.writer = FALSE
           /\ cmd'.cred = "none" /\ cmd'.pick = OwnConsole
           /\ started < MaxCommands /\ started' = started + 1
           /\ cmd'.cloud => cmd'.name = "up"
           /\ \/ cmd'.name = "up" /\ cmd'.at = "login" /\ cmd'.next = "client"
              \/ cmd'.name = "init" /\ cmd'.at = "client"
              \/ cmd'.name = "control-plane-values" /\ cmd'.at = "client" /\ cmd'.next = "end"
              \/ cmd'.name = "oidc" /\ cmd'.at = "client" /\ cmd'.next = "end"
              \/ /\ cmd'.next = "end"
                 /\ cmd'.name \notin {"up", "init", "control-plane-values"}
                 /\ cmd'.at \in {"login", "amend", "use", "save", "token", "import", "control plane"}
           /\ cmd'.name \in {"up", "init", "control-plane-values"} /\ ~clone
                => cmd'.cwd = "outside"
<1>. DEFINE Begins(name, place, next, d, pf) ==
              /\ ~Running /\ started < MaxCommands /\ started' = started + 1
              /\ cmd'.name = name /\ cmd'.at = place /\ cmd'.next = next
              /\ cmd'.cwd = d /\ cmd'.pf = pf
              /\ cmd'.mem = Nobody /\ cmd'.conf = Nobody /\ cmd'.asked = NoUser
              /\ cmd'.client = NoUser /\ cmd'.man = EmptyManifest /\ cmd'.writer = FALSE
              /\ cmd'.cred = "none" /\ cmd'.pick = OwnConsole
            Plain(name, place) == \E d \in Dir, pf \in BOOLEAN :
              /\ Begins(name, place, "end", d, pf) /\ cmd'.cloud = FALSE
              /\ d # "outside" => clone \/ name \notin {"up", "init", "control-plane-values"}
<1>1. ASSUME NEW name, NEW place, NEW d, NEW pf, Start(Command(name, place, d, pf))
      PROVE  Begins(name, place, "end", d, pf) /\ cmd'.cloud = FALSE
  BY <1>1 DEF Start, Command
<1>2. ASSUME NEW d, NEW pf, NEW dry, NEW cld,
             Start([Command("up", "login", d, pf) EXCEPT
                      !.next = "client", !.dry = dry, !.cloud = cld])
      PROVE  Begins("up", "login", "client", d, pf)
  BY <1>2 DEF Start, Command
<1>3. (\A pf \in ProfileFile : pf \in BOOLEAN) /\ FALSE \in BOOLEAN
      /\ {"outside", "root", "sub"} \subseteq Dir
  BY DEF ProfileFile, Dir
<1>4. ASSUME NEW name, NEW place, NEW d \in Dir, NEW pf \in BOOLEAN,
             Start(Command(name, place, d, pf)),
             d # "outside" => clone \/ name \notin {"up", "init", "control-plane-values"}
      PROVE  Plain(name, place)
  BY <1>1, <1>4
<1>. DEFINE SomePlain ==
              \/ Plain("init", "client") \/ Plain("control-plane-values", "client")
              \/ Plain("oidc", "client")
              \/ \E name, place :
                   /\ Plain(name, place)
                   /\ name \notin {"up", "init", "control-plane-values"}
                   /\ place \in {"login", "amend", "use", "save", "token", "import", "control plane"}
            Up == \E d \in Dir, pf \in BOOLEAN :
                    Begins("up", "login", "client", d, pf) /\ (d # "outside" => clone)
<1>. HIDE DEF Plain
<1>5. ASSUME StartIdentity PROVE SomePlain
  <2>1. \/ \E pf \in BOOLEAN : \/ Start(Command("login", "login", "root", pf))
                               \/ Start(Command("amend", "amend", "root", pf))
        \/ Start(Command("profile use", "use", "root", FALSE))
        \/ Start(Command("profile save", "save", "root", FALSE))
        \/ Start(Command("config import", "token", "root", FALSE))
        \/ Start(Command("import", "import", "root", FALSE))
        \/ \E d \in Dir : Start(Command("oidc", "client", d, FALSE))
    BY <1>3, <1>5 DEF StartIdentity
  <2>2. \/ Plain("login", "login") \/ Plain("amend", "amend") \/ Plain("profile use", "use")
        \/ Plain("profile save", "save") \/ Plain("config import", "token")
        \/ Plain("import", "import") \/ Plain("oidc", "client")
    BY <1>3, <1>4, <2>1
  <2>. QED
    BY <2>2
<1>6. ASSUME StartWorkspace PROVE SomePlain \/ Up
  <2>1. PICK d \in Dir, pf \in BOOLEAN :
          /\ d # "outside" => clone
          /\ \/ Start(Command("init", "client", d, pf))
             \/ \E dry, cld \in BOOLEAN :
                  Start([Command("up", "login", d, pf) EXCEPT
                            !.next = "client", !.dry = dry, !.cloud = cld])
    BY <1>3, <1>6 DEF StartWorkspace
  <2>2. Plain("init", "client") \/ Begins("up", "login", "client", d, pf)
    BY <1>2, <1>4, <2>1, Zenon
  <2>. HIDE DEF Begins
  <2>. QED
    BY <2>1, <2>2
<1>7. ASSUME StartControlPlane PROVE SomePlain
  <2>1. \/ Start(Command("control-plane", "control plane", "root", FALSE))
        \/ \E d \in Dir : /\ d # "outside" => clone
                          /\ Start(Command("control-plane-values", "client", d, FALSE))
    BY <1>7 DEF StartControlPlane, Dir
  <2>2. Plain("control-plane", "control plane") \/ Plain("control-plane-values", "client")
    BY <1>3, <1>4, <2>1
  <2>. QED
    BY <2>2
<1>8. SomePlain \/ Up
  BY <1>5, <1>6, <1>7, Zenon
<1>9. CASE Up
  <2>1. PICK d \in Dir, pf \in BOOLEAN :
          Begins("up", "login", "client", d, pf) /\ (d # "outside" => clone)
    BY <1>9
  <2>. QED
    BY <2>1
<1>10. CASE SomePlain
  <2>1. PICK name, place : /\ Plain(name, place)
          /\ \/ name \in {"init", "control-plane-values", "oidc"} /\ place = "client"
             \/ /\ name \notin {"up", "init", "control-plane-values"}
                /\ place \in {"login", "amend", "use", "save", "token", "import", "control plane"}
    BY <1>10
  <2>2. PICK d \in Dir, pf \in BOOLEAN :
          /\ Begins(name, place, "end", d, pf) /\ cmd'.cloud = FALSE
          /\ d # "outside" => clone \/ name \notin {"up", "init", "control-plane-values"}
    BY <2>1 DEF Plain
  <2>. QED
    BY <2>1, <2>2
<1>. QED
  BY <1>8, <1>9, <1>10

\* A command is of one shape.
LEMMA ShapesApart ==
    ASSUME NEW c, OfLogin(c)
    PROVE  ~OfConsole(c) /\ ~OfInstall(c) /\ "todo" \notin DOMAIN c /\ c # NoCommand
<1>1. /\ "mem" \in LoginField /\ "mem" \notin ConsoleField /\ "mem" \notin InstallField
      /\ "todo" \notin LoginField /\ "mem" \notin DOMAIN NoCommand
  BY DEF LoginField, ConsoleField, InstallField, NoCommand
<1>. QED
  BY <1>1 DEF OfLogin, OfConsole, OfInstall

\* Where the commands of Identity go
LEMMA IdentityMoves ==
    ASSUME SessionInv, IdentityNext
    PROVE  /\ OfLogin(cmd) /\ cmd.at \in IdentityPlace
           /\ \/ cmd' = NoCommand
              \/ /\ cmd'.name = cmd.name /\ cmd'.cwd = cmd.cwd /\ cmd'.dry = cmd.dry
                 /\ cmd'.cloud = cmd.cloud /\ cmd'.pf = cmd.pf /\ cmd'.client = cmd.client
                 /\ cmd'.cred = cmd.cred /\ cmd'.pick = cmd.pick
                 /\ Holds(cmd'.at, cmd.man, cmd.writer, cmd.next)
                 /\ \/ cmd.at = "login" /\ cmd'.at = "me"
                    \/ cmd.at = "save" /\ cmd'.at = "saving"
                    \/ cmd.at \in {"me", "fill"} /\ cmd'.at = cmd.next
                    \/ cmd'.at \in {"flush", "fill"}
<1>1. OfLogin(cmd) /\ DOMAIN cmd = LoginField /\ cmd.at \in IdentityPlace
  BY OtherPlaces, ShapeAt DEF LoginPlace, SessionInv, OfLogin
<1>. DEFINE Sends(place) ==
              /\ cmd'.name = cmd.name /\ cmd'.cwd = cmd.cwd /\ cmd'.dry = cmd.dry
              /\ cmd'.cloud = cmd.cloud /\ cmd'.pf = cmd.pf /\ cmd'.client = cmd.client
              /\ cmd'.cred = cmd.cred /\ cmd'.pick = cmd.pick
              /\ Holds(place, cmd.man, cmd.writer, cmd.next)
<1>2. ASSUME NEW place, NEW conf, NEW asked, NEW mem,
             \/ Becomes([cmd EXCEPT !.at = place, !.conf = conf, !.asked = asked])
             \/ Becomes([cmd EXCEPT !.at = place, !.asked = asked, !.conf = conf])
             \/ Becomes([cmd EXCEPT !.at = place, !.conf = conf])
             \/ Becomes([cmd EXCEPT !.at = place])
             \/ Becomes([cmd EXCEPT !.conf = conf, !.mem = mem, !.asked = asked, !.at = place])
      PROVE  Sends(place)
  BY <1>1, <1>2 DEF Becomes, Holds, LoginField
<1>3. \A place : Sends(place) => Sends(cmd'.at) /\ cmd'.at = place
  BY DEF Holds
<1>. HIDE DEF Sends
<1>4. CASE HandleLogin
  <2>1. cmd.at = "login" /\ Sends("me")
    BY <1>2, <1>4, Zenon DEF HandleLogin, At
  <2>. QED
    BY <1>1, <1>3, <2>1 DEF Sends
<1>5. CASE PostLogin
  <2>1. cmd.at = "me" /\ (Sends("flush") \/ Sends(cmd.next))
    BY <1>2, <1>5, Zenon DEF PostLogin, At
  <2>. QED
    BY <1>1, <1>3, <2>1 DEF Sends
<1>6. CASE Flush
  <2>1. Sends("fill")
    BY <1>2, <1>6, Zenon DEF Flush, Goto
  <2>. QED
    BY <1>1, <1>3, <2>1 DEF Sends
<1>7. CASE Filled
  <2>1. cmd.at = "fill" /\ (Sends(cmd.next) \/ End)
    BY <1>2, <1>7, Zenon DEF Filled, At
  <2>. QED
    BY <1>1, <1>3, <2>1, EndShape DEF Sends
<1>8. CASE SaveProfile
  <2>1. End \/ (cmd.at = "save" /\ Sends("saving"))
    BY <1>2, <1>8, Zenon DEF SaveProfile, At
  <2>. QED
    BY <1>1, <1>3, <2>1, EndShape DEF Sends
<1>9. CASE UseProfile \/ Amend \/ FromToken \/ OidcToken \/ ImportHome
  <2>1. \E conf, asked : Store(conf, asked)
    BY <1>9 DEF UseProfile, Amend, FromToken, OidcToken, ImportHome
  <2>2. Sends("flush")
    BY <1>2, <2>1, Zenon DEF Store
  <2>. QED
    BY <1>1, <1>3, <2>2 DEF Sends
<1>. QED
  BY <1>4, <1>5, <1>6, <1>7, <1>8, <1>9 DEF IdentityNext

\* A command of Workspace that logs in to a console
LEMMA ConsoleMoves ==
    ASSUME SessionInv, ServicesNext, OfLogin(cmd')
    PROVE  /\ OfLogin(cmd) /\ cmd.at \in SharedPlace
           /\ \/ Goes("save console") /\ cmd.at = "console login"
              \/ Goes("validate")
<1>1. HandleCdLogin \/ SaveConsole
  <2>1. cmd.at \in {"connect", "look up", "send"} => OfConsole(cmd)
    BY ShapeAt DEF ServicesPlace, SharedPlace, SessionInv
  <2>2. ASSUME OfConsole(cmd), NEW place, Goto(place) PROVE DOMAIN cmd' = ConsoleField
    BY <2>2 DEF OfConsole, Goto, Becomes
  <2>3. ASSUME OfConsole(cmd), NEW place, NEW seen, Becomes([cmd EXCEPT !.at = place, !.seen = seen])
        PROVE  DOMAIN cmd' = ConsoleField
    BY <2>3 DEF OfConsole, Becomes
  <2>4. DOMAIN cmd' # ConsoleField /\ cmd' # NoCommand
    BY ShapesApart DEF OfLogin, LoginField, ConsoleField
  <2>5. CASE InitConsoleClient
    BY <2>1, <2>2, <2>4, <2>5 DEF InitConsoleClient, At
  <2>6. CASE GetClusterService
    BY <2>1, <2>3, <2>4, <2>6, EndShape DEF GetClusterService, At
  <2>7. CASE CreateService \/ UpdateService \/ CloneService \/ DeleteService \/ KickService
    BY <2>4, <2>7, EndShape DEF CreateService, UpdateService, CloneService, DeleteService,
       KickService, Put
  <2>8. CASE OthersWrite
    BY <2>1, <2>4, <2>8 DEF OthersWrite, At, OfConsole
  <2>. QED
    BY <2>5, <2>6, <2>7, <2>8 DEF ServicesNext
<1>2. cmd.at \in SharedPlace
  BY <1>1 DEF HandleCdLogin, SaveConsole, At, SharedPlace
<1>3. OfLogin(cmd)
  <2>1. OfLogin(cmd) \/ OfConsole(cmd)
    BY <1>2, ShapeAt DEF SessionInv
  <2>2. ASSUME OfConsole(cmd) PROVE FALSE
    <3>1. cmd.next = "end" /\ DOMAIN cmd = ConsoleField
      BY <2>2 DEF OfConsole
    <3>2. DOMAIN cmd' = ConsoleField \/ cmd' = NoCommand
      BY <1>1, <3>1, EndShape DEF HandleCdLogin, SaveConsole, Proceed, Goto, Becomes
    <3>. QED
      BY <3>2, ShapesApart DEF OfLogin, LoginField, ConsoleField
  <2>. QED
    BY <2>1, <2>2
<1>4. cmd.next = "validate" /\ DOMAIN cmd = LoginField
  <2>1. \A p \in SharedPlace : p \notin LoginPlace
    BY DEF SharedPlace, LoginPlace, IdentityPlace, WorkspacePlace, NextPlace
  <2>. QED
    BY <1>2, <1>3, <2>1 DEF OfLogin
<1>5. Proceed(cmd) => Goto("validate")
  BY <1>4 DEF Proceed, Goto
<1>6. Goto("validate") \/ (cmd.at = "console login" /\ Goto("save console"))
  BY <1>1, <1>5 DEF HandleCdLogin, SaveConsole, At
<1>. QED
  BY <1>2, <1>3, <1>4, <1>6, GotoMoves

\* A command of ControlPlane that reads the workspace
LEMMA PlaneMoves ==
    ASSUME SessionInv, ControlPlaneNext, OfLogin(cmd')
    PROVE  /\ OfLogin(cmd) /\ DOMAIN cmd = LoginField
           /\ \/ /\ cmd.at = "values" /\ Read.token # NoUser
                 /\ cmd'.name = cmd.name /\ cmd'.cwd = cmd.cwd /\ cmd'.dry = cmd.dry
                 /\ cmd'.cloud = cmd.cloud /\ cmd'.conf = cmd.conf /\ cmd'.asked = Read.token
                 /\ Speaks /\ Holds("workspace", cmd.man, cmd.writer, cmd.next)
                 /\ cmd'.cred = cmd.cred /\ cmd'.pick = cmd.pick
              \/ /\ cmd.at = "workspace" /\ cmd.cwd # "outside" /\ HasYaml("root")
                 /\ FromManifest(yaml["root"].has, "render")
<1>1. ASSUME NEW text, NEW user, Installing(text, user) PROVE OfInstall(cmd')
  BY <1>1 DEF Installing, Becomes, OfInstall, InstallField, InstallPlace
<1>2. ~OfInstall(cmd') /\ cmd' # NoCommand
  BY ShapesApart
<1>3. CASE CreateControlPlane \/ ControlPlaneValues
  BY <1>1, <1>2, <1>3 DEF CreateControlPlane, ControlPlaneValues
<1>4. CASE EnsureInstalled \/ SetupOIDC \/ OthersBind \/ WriteValues
  <2>1. OfInstall(cmd)
    BY <1>4, ShapeAt DEF EnsureInstalled, SetupOIDC, OthersBind, WriteValues, At, InstallPlace,
       SessionInv
  <2>2. DOMAIN cmd' = InstallField \/ cmd' = NoCommand
    BY <1>4, <2>1, EndShape DEF EnsureInstalled, SetupOIDC, OthersBind, WriteValues, Goto,
       Becomes, OfInstall
  <2>3. DOMAIN cmd' # InstallField
    BY DEF OfLogin, LoginField, InstallField
  <2>. QED
    BY <1>2, <2>2, <2>3
<1>5. CASE ReadsWorkspace
  <2>1. OfLogin(cmd) /\ DOMAIN cmd = LoginField
    BY <1>5, ShapeAt DEF ReadsWorkspace, At, LoginPlace, SessionInv, OfLogin
  <2>2. Becomes([cmd EXCEPT !.at = "workspace", !.asked = Read.token])
          => /\ cmd'.name = cmd.name /\ cmd'.cwd = cmd.cwd /\ cmd'.dry = cmd.dry
             /\ cmd'.cloud = cmd.cloud /\ cmd'.conf = cmd.conf /\ cmd'.asked = Read.token
             /\ Speaks /\ Holds("workspace", cmd.man, cmd.writer, cmd.next)
             /\ cmd'.cred = cmd.cred /\ cmd'.pick = cmd.pick
    BY <2>1 DEF Becomes, Speaks, Holds, LoginField
  <2>. QED
    BY <1>5, <2>1, <2>2 DEF ReadsWorkspace, At
<1>. QED
  BY <1>3, <1>4, <1>5 DEF ControlPlaneNext

\* A step to a command like a login is one of these.
LEMMA LoginSteps ==
    ASSUME SessionInv, Next, OfLogin(cmd')
    PROVE  \/ /\ StartIdentity \/ StartWorkspace \/ StartControlPlane
              /\ UNCHANGED <<files, outside, side>>
           \/ IdentityNext /\ UNCHANGED <<outside, side>>
           \/ WorkspaceNext /\ UNCHANGED side
           \/ ServicesNext /\ UNCHANGED <<outside, tree, edge, plane>>
           \/ ControlPlaneNext /\ UNCHANGED <<onConsole, tree, edge>>
<1>1. ~OfConsole(cmd') /\ cmd' # NoCommand /\ ~Applies'
  BY ShapesApart DEF Applies
<1>. QED
  BY <1>1, StartsShape, AppliesStays, EdgeShape, EndShape DEF Next, Abort, SessionInv

-----------------------------------------------------------------------------
(* Which commands are where                                                *)

SetsUp == cmd.name \in {"init", "up"}

\* where the commands that set a workspace up are, and only they
SetupPlace == WorkspacePlace \ {"client", "upgrade", "upgrading"}

Forward == {"preflights", "cluster", "backfill"}

PathInv == OfLogin(cmd) =>
    /\ cmd.cloud => cmd.name = "up"
    /\ cmd.at \in {"login", "me", "flush", "fill"} =>
         \/ cmd.name = "up" /\ cmd.next = "client"
         \/ cmd.name = "init" /\ cmd.next = "provider"
         \/ ~SetsUp /\ cmd.next = "end"
    /\ cmd.at \in IdentityPlace \ {"login", "me", "flush", "fill"} => ~SetsUp /\ cmd.next = "end"
    /\ cmd.at = "client" => SetsUp \/ (cmd.name \in {"oidc", "control-plane-values"} /\ cmd.next = "end")
    /\ cmd.at \in SetupPlace \union SharedPlace => SetsUp
    /\ cmd.at \in {"upgrade", "upgrading"} =>
         \/ SetsUp /\ cmd.next \in Forward
         \/ cmd.name = "control-plane-values" /\ cmd.next = "render"
    /\ cmd.at \in {"values", "workspace", "render"} => cmd.name = "control-plane-values"
    /\ cmd.at = "values" => cmd.next = "end"

\* Setting up leads to setting up, to the one login of `init` and to the upgrade
\* of a legacy manifest.
Onward ==
    \/ cmd' = NoCommand
    \/ /\ cmd'.name = cmd.name /\ cmd'.dry = cmd.dry /\ cmd'.cloud = cmd.cloud
       /\ \/ cmd'.at \in SetupPlace
          \/ cmd'.at = "console login"
          \/ cmd'.at = "login" /\ cmd'.next = "provider" /\ cmd.name # "up"
          \/ cmd'.at = "upgrade" /\ cmd'.next \in Forward

LEMMA SetupMoves ==
    ASSUME DOMAIN cmd = LoginField, WorkspaceNext, ~InitPluralClient, ~UpgradeManifest
    PROVE  cmd.at \in SetupPlace /\ Onward
<1>1. /\ SetupPlace = {"choose", "validate", "preflight", "ensure", "provider", "survey",
                       "preflights", "repo", "github key", "gitlab key", "bitbucket key",
                       "readme", "clone", "context", "contexting", "manifest", "write",
                       "written", "domain", "naming", "build", "cluster", "backfill",
                       "credentials", "backfilled", "generate", "bucket", "deploy"}
      /\ Forward \subseteq SetupPlace
  BY DEF SetupPlace, WorkspacePlace, Forward
<1>2. cmd.at \in SetupPlace
  <2>1. CASE ChoseCluster \/ ValidateConsoleConfig \/ Preflight \/ EnsureWorkspace \/ GetProvider
    BY <1>1, <2>1 DEF ChoseCluster, ValidateConsoleConfig, Preflight, EnsureWorkspace,
       GetProvider, At
  <2>2. CASE Survey \/ RunPreflights
    BY <1>1, <2>2 DEF Survey, SurveyDry, SurveyAws, SurveyGcp, SurveyAzure, SurveyByok, Surveying,
       RunPreflights, At
  <2>3. CASE GithubSetup \/ GitlabSetup \/ BitbucketSetup \/ Clone \/ BuildContext
    BY <1>1, <2>3 DEF GithubSetup, GitlabSetup, BitbucketSetup, CreateRepository, AddDeployKey,
       Clone, BuildContext, At
  <2>4. CASE FlushProvider \/ WriteManifest \/ AskAppDomain \/ Build \/ GetCluster
    BY <1>1, <2>4 DEF FlushProvider, WriteManifest, AskAppDomain, Build, GetCluster, At
  <2>5. CASE Backfill \/ BackfillHTTPS \/ BackfillSSH \/ WriteContext \/ Generate
    BY <1>1, <2>5 DEF Backfill, BackfillHTTPS, BackfillSSH, WriteContext, Generate, At
  <2>6. CASE \/ CreateBucket \/ AzureGroup \/ AzureAccount \/ AzureContainer
             \/ ByokBucket \/ Deployed
    BY <1>1, <2>6 DEF CreateBucket, AzureGroup, AzureAccount, AzureContainer, ByokBucket,
       Deployed, At
  <2>. QED
    BY <2>1, <2>2, <2>3, <2>4, <2>5, <2>6 DEF WorkspaceNext
<1>. SUFFICES Onward
  BY <1>2
<1>3. \A place \in SetupPlace : \A man, writer, next :
        Alike /\ Holds(place, man, writer, next) => Onward
  BY DEF Alike, Holds, Onward
<1>4. \A place \in SetupPlace : \A man, writer, next : Forgets(place, man, writer, next) => Onward
  BY <1>3, Zenon DEF Forgets
<1>5. \A place \in SetupPlace : Goto(place) => Onward
  BY <1>3, GotoMoves, Zenon DEF Goes
<1>6. End => Onward
  BY EndShape DEF Onward
<1>7. ASSUME NEW place \in Forward, NEW man, FromManifest(man, place) PROVE Onward
  <2>1. \/ Forgets(place, man, cmd.writer, "end")
        \/ Forgets("upgrade", [man EXCEPT !.located = TRUE], cmd.writer, place)
    BY <1>7, ForgetMoves, Zenon
  <2>2. CASE Forgets(place, man, cmd.writer, "end")
    BY <1>1, <1>4, <2>2, Zenon
  <2>3. CASE Forgets("upgrade", [man EXCEPT !.located = TRUE], cmd.writer, place)
    BY <2>3 DEF Forgets, Alike, Holds, Onward
  <2>. QED
    BY <2>1, <2>2, <2>3
<1>8. CASE ChoseCluster
  <2>1. Alike /\ Holds("console login", cmd.man, cmd.writer, "validate")
    BY <1>8, GotoMoves, Zenon DEF ChoseCluster
  <2>. QED
    BY <2>1 DEF Alike, Holds, Onward
<1>9. CASE ValidateConsoleConfig
  <2>1. Alike /\ Holds("preflight", cmd.man, cmd.writer, "end")
    BY <1>9, GotoMoves, Zenon DEF ValidateConsoleConfig
  <2>. QED
    BY <1>1, <1>3, <2>1
<1>10. CASE Preflight
  <2>1. CASE Goto("ensure") \/ Goto("provider")
    BY <1>1, <1>5, <2>1
  <2>2. CASE cmd.name # "up" /\ Becomes([cmd EXCEPT !.at = "login", !.next = "provider"])
    <3>1. Alike /\ Holds("login", cmd.man, cmd.writer, "provider")
      BY <2>2, GotoMoves, Zenon
    <3>. QED
      BY <2>2, <3>1 DEF Alike, Holds, Onward
  <2>. QED
    BY <1>10, <2>1, <2>2 DEF Preflight
<1>11. CASE EnsureWorkspace
  <2>1. Forgets("write", ProjectFile.has, TRUE, "end")
    BY <1>11, ForgetMoves, Zenon DEF EnsureWorkspace
  <2>. QED
    BY <1>1, <1>4, <2>1
<1>12. CASE GetProvider
  <2>1. CASE FromManifest(ProjectFile.has, "preflights")
    BY <1>7, <2>1 DEF Forward
  <2>2. CASE \E p \in Provider : Becomes([cmd EXCEPT !.at = "survey", !.man.prov = p])
    <3>1. PICK p \in Provider : Becomes([cmd EXCEPT !.at = "survey", !.man.prov = p])
      BY <2>2
    <3>2. Alike /\ Holds("survey", [cmd.man EXCEPT !.prov = p], cmd.writer, cmd.next)
      BY <3>1, GotoMoves, Zenon
    <3>. QED
      BY <1>1, <1>3, <3>2
  <2>. QED
    BY <1>12, <2>1, <2>2 DEF GetProvider
<1>13. CASE Survey
  <2>1. ASSUME NEW man, Surveyed(man) \/ Unanswered PROVE Onward
    <3>1. \E m, writer : Forgets("preflights", m, writer, "end")
      BY <2>1, ForgetMoves, Zenon
    <3>. QED
      BY <1>1, <1>4, <3>1, Zenon
  <2>2. ASSUME NEW man, Configure(man) PROVE Onward
    <3>1. Unanswered \/ \E m : Surveyed(m)
      BY <2>2, Zenon DEF Configure
    <3>. QED
      BY <2>1, <3>1, Zenon
  <2>3. (\E m : Configure(m)) \/ \E m : Surveyed(m)
    BY <1>13, Zenon DEF Survey, SurveyDry, SurveyAws, SurveyGcp, SurveyAzure, SurveyByok
  <2>. QED
    BY <2>1, <2>2, <2>3, Zenon
<1>14. CASE RunPreflights
  <2>1. \E place \in {"repo", "manifest"} : Forgets(place, cmd.man, cmd.writer, "end")
    BY <1>14, ForgetMoves, Zenon DEF RunPreflights
  <2>. QED
    BY <1>1, <1>4, <2>1
<1>15. CASE GithubSetup \/ GitlabSetup \/ BitbucketSetup \/ BuildContext
  <2>1. \E place \in SetupPlace : Goto(place)
    BY <1>1, <1>15 DEF GithubSetup, GitlabSetup, BitbucketSetup, CreateRepository, AddDeployKey,
       BuildContext
  <2>. QED
    BY <1>5, <2>1
<1>16. CASE Clone
  BY <1>1, <1>16, CloneMoves DEF Holds, Onward
<1>17. CASE FlushProvider \/ WriteManifest
  <2>1. Goto("write") \/ Goto("written") \/ Leave(Configured)
    BY <1>17 DEF FlushProvider, WriteManifest
  <2>2. Leave(Configured) => Onward
    <3>1. Configured \in {"end", "domain"}
      BY DEF Configured
    <3>2. ASSUME NEW place \in {"end", "domain"}, Leave(place) PROVE Onward
      <4>1. \/ cmd' = NoCommand
            \/ place # "end" /\ Forgets(place, EmptyManifest, FALSE, "end")
        BY <3>2, ForgetMoves, Zenon
      <4>2. CASE cmd' = NoCommand
        BY <4>2 DEF Onward
      <4>3. CASE place # "end" /\ Forgets(place, EmptyManifest, FALSE, "end")
        BY <1>1, <1>4, <4>3
      <4>. QED
        BY <4>1, <4>2, <4>3
    <3>. QED
      BY <3>1, <3>2
  <2>. QED
    BY <1>1, <1>5, <2>1, <2>2
<1>18. CASE AskAppDomain
  <2>1. \/ Goto("build")
        \/ Becomes([cmd EXCEPT !.man = yaml[ProjectDir(cmd.cwd)].has, !.at = "naming"])
        \/ Becomes([cmd EXCEPT !.at = "build", !.man = EmptyManifest])
    BY <1>18, Zenon DEF AskAppDomain
  <2>2. \/ Goto("build")
        \/ Alike /\ \E man : Holds("naming", man, cmd.writer, cmd.next)
        \/ Alike /\ Holds("build", EmptyManifest, cmd.writer, cmd.next)
    BY <2>1, GotoMoves, Zenon
  <2>. QED
    BY <1>1, <1>3, <1>5, <2>2
<1>19. CASE Build
  <2>1. \E place \in Forward : \E man : FromManifest(man, place)
    BY <1>19, Zenon DEF Build, Forward
  <2>. QED
    BY <1>7, <2>1
<1>20. CASE GetCluster \/ Backfill \/ Generate \/ CreateBucket \/ ByokBucket \/ Deployed
  <2>1. End \/ \E place \in SetupPlace : Goto(place)
    BY <1>1, <1>20 DEF GetCluster, Backfill, Generate, CreateBucket, ByokBucket, Deployed
  <2>. QED
    BY <1>5, <1>6, <2>1
<1>21. CASE BackfillHTTPS \/ BackfillSSH \/ WriteContext
  <2>1. \E place \in {"backfilled", "generate"} : \E cred :
          Becomes([cmd EXCEPT !.at = place, !.cred = cred])
    BY <1>21, Zenon DEF BackfillHTTPS, BackfillSSH, Ask, WriteContext
  <2>2. \E place \in {"backfilled", "generate"} :
          Alike /\ Holds(place, cmd.man, cmd.writer, cmd.next)
    BY <2>1, GotoMoves, Zenon
  <2>. QED
    BY <1>1, <1>3, <2>2
<1>22. CASE AzureGroup \/ AzureAccount
  BY <1>2, <1>22 DEF AzureGroup, AzureAccount, Onward
<1>23. CASE AzureContainer
  BY <1>1, <1>5, <1>23 DEF AzureContainer
<1>. QED
  BY <1>2, <1>8, <1>9, <1>10, <1>11, <1>12, <1>13, <1>14, <1>15, <1>16, <1>17, <1>18, <1>19, <1>20,
     <1>21, <1>22, <1>23 DEF WorkspaceNext

LEMMA PathStays ==
    ASSUME SessionInv, PathInv, Next
    PROVE  PathInv'
<1>. SUFFICES ASSUME OfLogin(cmd') PROVE PathInv'
  BY DEF PathInv
<1>. DEFINE Lands(c) ==
       /\ c.cloud => c.name = "up"
       /\ c.at \in {"login", "me", "flush", "fill"} =>
            \/ c.name = "up" /\ c.next = "client"
            \/ c.name = "init" /\ c.next = "provider"
            \/ c.name \notin {"init", "up"} /\ c.next = "end"
       /\ c.at \in IdentityPlace \ {"login", "me", "flush", "fill"}
            => c.name \notin {"init", "up"} /\ c.next = "end"
       /\ c.at = "client" => \/ c.name \in {"init", "up"}
                             \/ c.name \in {"oidc", "control-plane-values"} /\ c.next = "end"
       /\ c.at \in SetupPlace \union SharedPlace => c.name \in {"init", "up"}
       /\ c.at \in {"upgrade", "upgrading"} =>
            \/ c.name \in {"init", "up"} /\ c.next \in Forward
            \/ c.name = "control-plane-values" /\ c.next = "render"
       /\ c.at \in {"values", "workspace", "render"} => c.name = "control-plane-values"
       /\ c.at = "values" => c.next = "end"
<1>1. (OfLogin(cmd) => Lands(cmd)) /\ (Lands(cmd') => PathInv')
  BY DEF PathInv, SetsUp
<1>. SUFFICES Lands(cmd')
  BY <1>1
<1>2. /\ SetupPlace = {"choose", "validate", "preflight", "ensure", "provider", "survey",
                       "preflights", "repo", "github key", "gitlab key", "bitbucket key",
                       "readme", "clone", "context", "contexting", "manifest", "write",
                       "written", "domain", "naming", "build", "cluster", "backfill",
                       "credentials", "backfilled", "generate", "bucket", "deploy"}
      /\ SharedPlace = {"console login", "save console"}
      /\ IdentityPlace = {"login", "me", "flush", "fill", "use", "save", "saving", "amend", "token",
                          "exchange", "import"}
      /\ Forward = {"preflights", "cluster", "backfill"}
  BY DEF SetupPlace, WorkspacePlace, SharedPlace, IdentityPlace, Forward
<1>3. OfLogin(cmd) => DOMAIN cmd = LoginField
  BY DEF OfLogin
<1>4. CASE StartIdentity \/ StartWorkspace \/ StartControlPlane
  <2>1. /\ cmd'.cloud => cmd'.name = "up"
        /\ \/ cmd'.name = "up" /\ cmd'.at = "login" /\ cmd'.next = "client"
           \/ cmd'.name = "init" /\ cmd'.at = "client"
           \/ cmd'.name = "control-plane-values" /\ cmd'.at = "client" /\ cmd'.next = "end"
           \/ cmd'.name = "oidc" /\ cmd'.at = "client" /\ cmd'.next = "end"
           \/ /\ cmd'.next = "end"
              /\ cmd'.name \notin {"up", "init", "control-plane-values"}
              /\ cmd'.at \in {"login", "amend", "use", "save", "token", "import", "control plane"}
    BY <1>4, StartsAre
  <2>. QED
    BY <1>2, <2>1
<1>5. CASE IdentityNext
  <2>1. /\ OfLogin(cmd) /\ cmd.at \in IdentityPlace
        /\ cmd'.name = cmd.name /\ cmd'.cloud = cmd.cloud /\ cmd'.next = cmd.next
        /\ \/ cmd.at = "login" /\ cmd'.at = "me"
           \/ cmd.at = "save" /\ cmd'.at = "saving"
           \/ cmd.at \in {"me", "fill"} /\ cmd'.at = cmd.next
           \/ cmd'.at \in {"flush", "fill"}
    BY <1>5, IdentityMoves, ShapesApart DEF Holds
  <2>. QED
    BY <1>1, <1>2, <2>1
<1>6. CASE WorkspaceNext
  <2>1. OfLogin(cmd) /\ Lands(cmd)
    BY <1>1, <1>6, OtherPlaces, ShapeAt DEF LoginPlace, SessionInv
  <2>2. CASE InitPluralClient
    <3>1. /\ cmd'.name = cmd.name /\ cmd'.cloud = cmd.cloud /\ cmd'.next = cmd.next
          /\ cmd'.at = ClientFor /\ cmd.at = "client"
      BY <1>3, <2>1, <2>2, ClientMoves DEF Alike, Holds
    <3>. QED
      BY <1>2, <2>1, <3>1 DEF ClientFor
  <2>3. CASE UpgradeManifest
    <3>1. \/ cmd.at = "upgrade" /\ Goes("upgrading")
          \/ cmd.at = "upgrading" /\ Goes(cmd.next)
      BY <1>3, <2>1, <2>3, GotoMoves, Zenon DEF UpgradeManifest, At
    <3>2. /\ cmd'.name = cmd.name /\ cmd'.cloud = cmd.cloud /\ cmd'.next = cmd.next
          /\ \/ cmd.at = "upgrade" /\ cmd'.at = "upgrading"
             \/ cmd.at = "upgrading" /\ cmd'.at = cmd.next
      BY <3>1 DEF Goes, Alike, Holds
    <3>. QED
      BY <1>2, <2>1, <3>2
  <2>4. CASE ~InitPluralClient /\ ~UpgradeManifest
    <3>1. cmd.at \in SetupPlace /\ Onward /\ cmd' # NoCommand
      BY <1>3, <1>6, <2>1, <2>4, SetupMoves, ShapesApart
    <3>. QED
      BY <1>2, <2>1, <3>1 DEF Onward
  <2>. QED
    BY <2>2, <2>3, <2>4
<1>7. CASE ServicesNext
  <2>1. /\ OfLogin(cmd) /\ cmd.at \in SharedPlace
        /\ cmd'.name = cmd.name /\ cmd'.cloud = cmd.cloud /\ cmd'.next = cmd.next
        /\ cmd'.at \in {"save console", "validate"}
    BY <1>7, ConsoleMoves DEF Goes, Alike, Holds
  <2>. QED
    BY <1>1, <1>2, <2>1
<1>8. CASE ControlPlaneNext
  <2>1. OfLogin(cmd) /\ DOMAIN cmd = LoginField
    BY <1>8, PlaneMoves
  <2>2. CASE /\ cmd.at = "values" /\ cmd'.name = cmd.name /\ cmd'.cloud = cmd.cloud
             /\ Holds("workspace", cmd.man, cmd.writer, cmd.next)
    BY <1>1, <1>2, <2>1, <2>2 DEF Holds
  <2>3. CASE cmd.at = "workspace" /\ FromManifest(yaml["root"].has, "render")
    <3>1. \/ Forgets("render", yaml["root"].has, cmd.writer, "end")
          \/ Forgets("upgrade", [yaml["root"].has EXCEPT !.located = TRUE], cmd.writer, "render")
      BY <2>1, <2>3, ForgetMoves, Zenon
    <3>2. /\ cmd'.name = cmd.name /\ cmd'.cloud = cmd.cloud
          /\ \/ cmd'.at = "render"
             \/ cmd'.at = "upgrade" /\ cmd'.next = "render"
      BY <3>1 DEF Forgets, Alike, Holds
    <3>. QED
      BY <1>1, <1>2, <2>1, <2>3, <3>2
  <2>. QED
    BY <1>8, <2>2, <2>3, PlaneMoves
<1>. HIDE DEF Lands
<1>. QED
  BY <1>4, <1>5, <1>6, <1>7, <1>8, LoginSteps
-----------------------------------------------------------------------------
(* Where the steps of a workspace lead                                     *)

After(places) == cmd' = NoCommand \/ cmd'.at \in places

LEMMA StepsLead ==
    ASSUME DOMAIN cmd = LoginField
    PROVE  /\ InitPluralClient => After({"exchange", "values", "choose", "preflight"})
           /\ ChoseCluster => After({"console login"})
           /\ ValidateConsoleConfig => After({"preflight"})
           /\ Preflight => After({"ensure", "provider", "login"})
           /\ EnsureWorkspace => After({"write"})
           /\ GetProvider => After({"preflights", "upgrade", "survey"})
           /\ UpgradeManifest => After({"upgrading", cmd.next})
           /\ Survey => After({"preflights"})
           /\ RunPreflights => After({"repo", "manifest"})
           /\ GithubSetup => After({"github key", "clone"})
           /\ GitlabSetup => After({"gitlab key", "clone"})
           /\ BitbucketSetup => After({"bitbucket key", "readme", "clone"})
           /\ Clone => After({"context"})
           /\ BuildContext => After({"contexting", "manifest"})
           /\ FlushProvider => After({"write", "domain"})
           /\ WriteManifest => After({"written", "domain"})
           /\ AskAppDomain => After({"build", "naming"})
           /\ Build => After({"upgrade", "cluster", "backfill"})
           /\ GetCluster => After({"backfill"})
           /\ Backfill => After({"generate", "credentials"})
           /\ BackfillHTTPS \/ BackfillSSH => After({"backfilled"})
           /\ WriteContext => After({"generate"})
           /\ Generate => After({"bucket"})
           /\ CreateBucket \/ AzureContainer \/ ByokBucket => After({"deploy"})
           /\ AzureGroup \/ AzureAccount => After({cmd.at}) /\ cmd.at = "bucket"
           /\ Deployed => After({})
<1>1. ASSUME NEW place, Goto(place) PROVE After({place})
  BY <1>1, GotoMoves DEF Goes, Holds, After
<1>2. ASSUME NEW place, NEW man, NEW writer, NEW next,
             Holds(place, man, writer, next) \/ Forgets(place, man, writer, next)
      PROVE  After({place})
  BY <1>2 DEF Forgets, Holds, After
<1>3. End => After({})
  BY EndShape DEF After
<1>4. ASSUME NEW S, NEW T, S \subseteq T, After(S) PROVE After(T)
  BY <1>4 DEF After
<1>5. ASSUME NEW man, NEW place, FromManifest(man, place) PROVE After({"upgrade", place})
  <2>1. \/ Forgets(place, man, cmd.writer, "end")
        \/ Forgets("upgrade", [man EXCEPT !.located = TRUE], cmd.writer, place)
    BY <1>5, ForgetMoves, Zenon
  <2>2. After({place}) \/ After({"upgrade"})
    BY <1>2, <2>1, Zenon
  <2>. QED
    BY <2>2 DEF After
<1>6. InitPluralClient => After({"exchange", "values", "choose", "preflight"})
  <2>1. ClientFor \in {"exchange", "values", "choose", "preflight"}
    BY DEF ClientFor
  <2>2. InitPluralClient => After({ClientFor})
    BY <1>2, ClientMoves, Zenon
  <2>. QED
    BY <2>1, <2>2 DEF After
<1>7. ChoseCluster => After({"console login"})
  <2>1. ChoseCluster => Holds("console login", cmd.man, cmd.writer, "validate")
    BY GotoMoves, Zenon DEF ChoseCluster
  <2>. QED
    BY <1>2, <2>1, Zenon
<1>8. ValidateConsoleConfig => After({"preflight"})
  <2>1. ValidateConsoleConfig => Holds("preflight", cmd.man, cmd.writer, "end")
    BY GotoMoves, Zenon DEF ValidateConsoleConfig
  <2>. QED
    BY <1>2, <2>1, Zenon
<1>9. Preflight => After({"ensure", "provider", "login"})
  <2>1. Preflight => \/ Goto("ensure") \/ Goto("provider")
                     \/ Holds("login", cmd.man, cmd.writer, "provider")
    BY GotoMoves, Zenon DEF Preflight
  <2>2. Preflight => After({"ensure"}) \/ After({"provider"}) \/ After({"login"})
    BY <1>1, <1>2, <2>1, Zenon
  <2>. QED
    BY <2>2 DEF After
<1>10. EnsureWorkspace => After({"write"})
  <2>1. EnsureWorkspace => Forgets("write", ProjectFile.has, TRUE, "end")
    BY ForgetMoves, Zenon DEF EnsureWorkspace
  <2>. QED
    BY <1>2, <2>1, Zenon
<1>11. GetProvider => After({"preflights", "upgrade", "survey"})
  <2>1. GetProvider => \/ FromManifest(ProjectFile.has, "preflights")
                       \/ \E p \in Provider : Becomes([cmd EXCEPT !.at = "survey", !.man.prov = p])
    BY DEF GetProvider
  <2>2. ASSUME NEW p, Becomes([cmd EXCEPT !.at = "survey", !.man.prov = p])
        PROVE  After({"survey"})
    <3>1. Holds("survey", [cmd.man EXCEPT !.prov = p], cmd.writer, cmd.next)
      BY <2>2, GotoMoves, Zenon
    <3>. QED
      BY <1>2, <3>1, Zenon
  <2>3. GetProvider => After({"upgrade", "preflights"}) \/ After({"survey"})
    BY <1>5, <2>1, <2>2, Zenon
  <2>. QED
    BY <2>3 DEF After
<1>12. UpgradeManifest => After({"upgrading", cmd.next})
  <2>1. UpgradeManifest => After({"upgrading"}) \/ After({cmd.next})
    BY <1>1, Zenon DEF UpgradeManifest
  <2>. QED
    BY <2>1 DEF After
<1>13. Survey => After({"preflights"})
  <2>1. ASSUME NEW man, Surveyed(man) \/ Unanswered PROVE After({"preflights"})
    BY <1>2, <2>1, ForgetMoves, Zenon
  <2>2. ASSUME NEW man, Configure(man) PROVE After({"preflights"})
    <3>1. Unanswered \/ \E m : Surveyed(m)
      BY <2>2, Zenon DEF Configure
    <3>. QED
      BY <2>1, <3>1, Zenon
  <2>3. Survey => (\E m : Configure(m)) \/ \E m : Surveyed(m)
    BY Zenon DEF Survey, SurveyDry, SurveyAws, SurveyGcp, SurveyAzure, SurveyByok
  <2>. QED
    BY <2>1, <2>2, <2>3, Zenon
<1>14. RunPreflights => After({"repo", "manifest"})
  <2>1. RunPreflights => \E place \in {"repo", "manifest"} : Forgets(place, cmd.man, cmd.writer, "end")
    BY ForgetMoves, Zenon DEF RunPreflights
  <2>2. RunPreflights => \E place \in {"repo", "manifest"} : After({place})
    BY <1>2, <2>1, Zenon
  <2>. QED
    BY <2>2 DEF After
<1>15. /\ GithubSetup => After({"github key"}) \/ After({"clone"})
       /\ GitlabSetup => After({"gitlab key"}) \/ After({"clone"})
       /\ BitbucketSetup => After({"bitbucket key"}) \/ After({"readme"}) \/ After({"clone"})
  BY <1>1, Zenon DEF GithubSetup, GitlabSetup, BitbucketSetup, CreateRepository, AddDeployKey
<1>16. /\ BuildContext => After({"contexting"}) \/ After({"manifest"})
       /\ GetCluster => After({"backfill"})
       /\ Backfill => After({"generate"}) \/ After({"credentials"})
       /\ Generate => After({}) \/ After({"bucket"})
       /\ CreateBucket \/ AzureContainer \/ ByokBucket => After({"deploy"})
       /\ Deployed => After({})
  BY <1>1, <1>3, Zenon DEF BuildContext, GetCluster, Backfill, Generate, CreateBucket,
     AzureContainer, ByokBucket, Deployed
<1>17. Clone => After({"context"})
  BY CloneMoves DEF Holds, After
<1>18. /\ FlushProvider => After({"write", "domain"})
       /\ WriteManifest => After({"written", "domain"})
  <2>1. ASSUME NEW place \in {"end", "domain"}, Leave(place) PROVE After({"domain"})
    <3>1. \/ cmd' = NoCommand
          \/ place # "end" /\ Forgets(place, EmptyManifest, FALSE, "end")
      BY <2>1, ForgetMoves, Zenon
    <3>. QED
      BY <3>1 DEF Forgets, Holds, After
  <2>2. Configured \in {"end", "domain"}
    BY DEF Configured
  <2>3. /\ FlushProvider => After({"write"}) \/ After({"domain"})
        /\ WriteManifest => After({"written"}) \/ After({"domain"})
    BY <1>1, <2>1, <2>2, Zenon DEF FlushProvider, WriteManifest
  <2>. QED
    BY <2>3 DEF After
<1>19. AskAppDomain => After({"build", "naming"})
  <2>1. AskAppDomain =>
        \/ Goto("build")
        \/ Becomes([cmd EXCEPT !.man = yaml[ProjectDir(cmd.cwd)].has, !.at = "naming"])
        \/ Becomes([cmd EXCEPT !.at = "build", !.man = EmptyManifest])
    BY Zenon DEF AskAppDomain
  <2>2. AskAppDomain => \E place \in {"build", "naming"} : \E man :
          Goto(place) \/ Holds(place, man, cmd.writer, cmd.next)
    BY <2>1, GotoMoves, Zenon
  <2>3. AskAppDomain => \E place \in {"build", "naming"} : After({place})
    BY <1>1, <1>2, <2>2, Zenon
  <2>. QED
    BY <2>3 DEF After
<1>20. Build => After({"upgrade", "cluster", "backfill"})
  <2>1. Build => \E place \in {"cluster", "backfill"} : After({"upgrade", place})
    BY <1>5, Zenon DEF Build
  <2>. QED
    BY <2>1 DEF After
<1>21. /\ BackfillHTTPS \/ BackfillSSH => After({"backfilled"})
       /\ WriteContext => After({"generate"})
  <2>1. /\ BackfillHTTPS \/ BackfillSSH => Holds("backfilled", cmd.man, cmd.writer, cmd.next)
        /\ WriteContext => Holds("generate", cmd.man, cmd.writer, cmd.next)
    BY GotoMoves, Zenon DEF BackfillHTTPS, BackfillSSH, Ask, WriteContext
  <2>. QED
    BY <1>2, <2>1, Zenon
<1>22. AzureGroup \/ AzureAccount => After({cmd.at}) /\ cmd.at = "bucket"
  BY DEF AzureGroup, AzureAccount, At, After
<1>. QED
  BY <1>6, <1>7, <1>8, <1>9, <1>10, <1>11, <1>12, <1>13, <1>14, <1>15, <1>16, <1>17, <1>18, <1>19,
     <1>20, <1>21, <1>22 DEF After

\* how the places come about that the invariants below are about
LEMMA Arrivals ==
    ASSUME DOMAIN cmd = LoginField, PathInv, OfLogin(cmd), WorkspaceNext, cmd' # NoCommand
    PROVE  /\ cmd'.at = "ensure" => Preflight
           /\ cmd'.at = "domain" => FlushProvider \/ WriteManifest
           /\ cmd'.at = "upgrade" => GetProvider \/ Build
           /\ cmd'.at = "upgrading" => UpgradeManifest
           /\ cmd'.at = "cluster" => Build \/ UpgradeManifest
           /\ cmd'.at = "backfill" => Build \/ UpgradeManifest \/ GetCluster
           /\ cmd'.at = "credentials" => Backfill
           /\ cmd'.at = "backfilled" => BackfillHTTPS \/ BackfillSSH
           /\ cmd'.at = "generate" => Backfill \/ WriteContext
           /\ cmd'.at = "bucket" => Generate \/ AzureGroup \/ AzureAccount
           /\ cmd'.at = "deploy" => CreateBucket \/ AzureContainer \/ ByokBucket
<1>1. UpgradeManifest => cmd.next \in {"preflights", "cluster", "backfill", "render"}
  BY DEF PathInv, UpgradeManifest, At, Forward
<1>. QED
  BY <1>1, StepsLead DEF WorkspaceNext, After

LEMMA FoundStays ==
    ASSUME SessionInv, PathInv, FilesTyped, LoginsTyped, Next
    PROVE  FoundInv'
<1>. SUFFICES ASSUME OfLogin(cmd'), cmd'.at \in {"ensure", "domain"}
              PROVE  HasYaml(ProjectDir(cmd.cwd))'
  BY DEF FoundInv
<1>1. HasYaml(ProjectDir(cmd.cwd))' <=> yaml'[Nearest(yaml', cmd'.cwd)] # Absent
  BY ProjectDirNearest DEF HasYaml
<1>2. CASE WorkspaceNext
  <2>1. OfLogin(cmd) /\ DOMAIN cmd = LoginField /\ cmd' # NoCommand
    BY <1>2, OtherPlaces, ShapeAt, ShapesApart DEF LoginPlace, SessionInv, OfLogin
  <2>2. cmd.cwd \in Dir /\ DOMAIN yaml = Dir
    BY <2>1 DEF LoginsTyped, LoginTyped, FilesTyped
  <2>3. CASE Preflight
    <3>1. Goto("ensure") /\ HasYaml(cmd.cwd) /\ yaml' = yaml
      <4>1. ~Goto("provider")
        BY <2>1, GotoMoves DEF Goes, Holds
      <4>2. ~Becomes([cmd EXCEPT !.at = "login", !.next = "provider"])
        <5>1. Becomes([cmd EXCEPT !.at = "login", !.next = "provider"])
                => Holds("login", cmd.man, cmd.writer, "provider")
          BY <2>1, GotoMoves, Zenon
        <5>. QED
          BY <5>1 DEF Holds
      <4>. QED
        BY <2>3, <4>1, <4>2 DEF Preflight, files
    <3>2. cmd'.cwd = cmd.cwd
      BY <2>1, <3>1, GotoMoves DEF Goes, Alike
    <3>. QED
      BY <1>1, <2>2, <3>1, <3>2, NearestIs DEF HasYaml
  <2>4. CASE FlushProvider \/ WriteManifest
    <3>1. /\ cmd'.at = "domain" /\ Leave(Configured) /\ Configured \in {"end", "domain"}
          /\ \/ ProjectFile # Absent /\ yaml' = yaml
             \/ yaml' = [yaml EXCEPT ![Nearest(yaml, cmd.cwd)] = Holding(cmd.man)]
      <4>1. ~Goto("write") /\ ~Goto("written")
        BY <2>1, GotoMoves DEF Goes, Holds
      <4>2. cmd'.at # "ensure"
        BY <2>1, <2>4, StepsLead DEF After
      <4>. QED
        BY <2>4, <4>1, <4>2, ProjectDirNearest DEF FlushProvider, WriteManifest, files, Configured
    <3>2. cmd'.cwd = cmd.cwd
      <4>1. Forgets(Configured, EmptyManifest, FALSE, "end")
        BY <2>1, <3>1, ForgetMoves, Zenon
      <4>. QED
        BY <4>1 DEF Forgets, Alike
    <3>3. CASE ProjectFile # Absent /\ yaml' = yaml
      BY <1>1, <3>2, <3>3, ProjectDirNearest
    <3>4. CASE yaml' = [yaml EXCEPT ![Nearest(yaml, cmd.cwd)] = Holding(cmd.man)]
      <4>1. /\ Nearest(yaml', cmd.cwd) = Nearest(yaml, cmd.cwd)
            /\ yaml'[Nearest(yaml, cmd.cwd)] = Holding(cmd.man)
        <5>1. Nearest(yaml, cmd.cwd) \in Dir
          BY <2>2, NearestIs
        <5>2. /\ yaml'[Nearest(yaml, cmd.cwd)] = Holding(cmd.man)
              /\ \A a \in Dir \ {Nearest(yaml, cmd.cwd)} : yaml'[a] = yaml[a]
          BY <2>2, <3>4, <5>1
        <5>3. Holding(cmd.man) # Absent
          BY DEF Holding, Absent
        <5>. QED
          BY <2>2, <5>2, <5>3, NearestStays
      <4>. QED
        BY <1>1, <3>2, <4>1 DEF Holding, Absent
    <3>. QED
      BY <3>1, <3>3, <3>4
  <2>. QED
    BY <1>2, <2>1, <2>3, <2>4, Arrivals
<1>3. CASE StartIdentity \/ StartWorkspace \/ StartControlPlane
  BY <1>3, StartsAre
<1>4. CASE IdentityNext
  <2>1. OfLogin(cmd) /\ (cmd'.at \in {"me", "saving", "flush", "fill"} \/ cmd'.at = cmd.next)
    BY <1>4, IdentityMoves, ShapesApart
  <2>. QED
    BY <2>1 DEF OfLogin, NextPlace
<1>5. CASE ServicesNext
  BY <1>5, ConsoleMoves DEF Goes, Holds
<1>6. CASE ControlPlaneNext
  <2>1. DOMAIN cmd = LoginField
    BY <1>6, PlaneMoves
  <2>2. FromManifest(yaml["root"].has, "render") => cmd'.at \in {"render", "upgrade"}
    <3>1. FromManifest(yaml["root"].has, "render") =>
          \/ Forgets("render", yaml["root"].has, cmd.writer, "end")
          \/ Forgets("upgrade", [yaml["root"].has EXCEPT !.located = TRUE], cmd.writer, "render")
      BY <2>1, ForgetMoves, Zenon
    <3>. QED
      BY <3>1 DEF Forgets, Holds
  <2>3. cmd'.at = "workspace" \/ FromManifest(yaml["root"].has, "render")
    BY <1>6, PlaneMoves DEF Holds
  <2>. QED
    BY <2>2, <2>3
<1>. QED
  BY <1>2, <1>3, <1>4, <1>5, <1>6, LoginSteps
-----------------------------------------------------------------------------
(* The types stay, whatever is run                                         *)

PickTyped == OfConsole(cmd) => cmd.pick \in Console

\* The console that a command of Services or EdgeImage names stays its own.
LEMMA PicksStay ==
    ASSUME SessionInv, PickTyped, Next
    PROVE  PickTyped'
<1>. SUFFICES ASSUME OfConsole(cmd') PROVE cmd'.pick \in Console
  BY DEF PickTyped
<1>1. ~OfLogin(cmd') /\ ~OfInstall(cmd') /\ cmd' # NoCommand /\ "todo" \notin DOMAIN cmd'
  BY ShapesApart DEF OfConsole, OfInstall, ConsoleField, InstallField, NoCommand
<1>2. CASE StartServices \/ StartEdge
  <2>1. ASSUME NEW name, NEW place, NEW pick \in Console, NEW set,
               Start(ConsoleCommand(name, place, pick, set))
        PROVE  cmd'.pick \in Console
    BY <2>1 DEF Start, ConsoleCommand
  <2>2. OwnConsole \in Console
    BY DEF Console
  <2>. QED
    BY <1>2, <2>1, <2>2 DEF StartServices, StartEdge
<1>3. CASE ServicesNext \/ EdgeNext
  <2>1. OfConsole(cmd)
    <3>1. OfLogin(cmd) \/ OfConsole(cmd)
      <4>1. EdgePlace \subseteq (ServicesPlace \union EdgePlace) \ SharedPlace
        BY DEF EdgePlace, SharedPlace
      <4>2. cmd.at \in ServicesPlace \union EdgePlace
        BY <1>3, OtherPlaces
      <4>. QED
        BY <4>1, <4>2, ShapeAt DEF SessionInv, ServicesPlace, SharedPlace
    <3>2. OfLogin(cmd) => ~OfConsole(cmd')
      <4>1. ASSUME OfLogin(cmd), ServicesNext PROVE OfLogin(cmd') \/ cmd' = NoCommand
        <5>1. cmd.at \in SharedPlace
          <6>1. cmd.at \in {"connect", "look up", "send"} => OfConsole(cmd)
            BY ShapeAt DEF ServicesPlace, SharedPlace, SessionInv
          <6>. QED
            BY <4>1, <6>1, OtherPlaces, ShapesApart DEF ServicesPlace, SharedPlace
        <5>2. HandleCdLogin \/ SaveConsole
          BY <4>1, <5>1 DEF ServicesNext, InitConsoleClient, GetClusterService, CreateService,
             UpdateService, CloneService, DeleteService, KickService, OthersWrite, Sending, At,
             SharedPlace
        <5>3. cmd.next = "validate" /\ DOMAIN cmd = LoginField
          <6>1. \A p \in SharedPlace : p \notin LoginPlace
            BY DEF SharedPlace, LoginPlace, IdentityPlace, WorkspacePlace, NextPlace
          <6>. QED
            BY <4>1, <5>1, <6>1 DEF OfLogin
        <5>4. DOMAIN cmd' = LoginField
          BY <5>2, <5>3 DEF HandleCdLogin, SaveConsole, Proceed, Goto, Becomes
        <5>5. OfLogin(cmd') \/ OfConsole(cmd') \/ cmd' = NoCommand
          BY <4>1, ServicesShape DEF SessionInv
        <5>. QED
          BY <5>4, <5>5 DEF OfConsole, LoginField, ConsoleField
      <4>2. EdgeNext => OfConsole(cmd)
        <5>1. EdgePlace \subseteq (ServicesPlace \union EdgePlace) \ SharedPlace
          BY DEF EdgePlace, SharedPlace
        <5>. QED
          BY <5>1, OtherPlaces, ShapeAt DEF SessionInv
      <4>. QED
        BY <1>1, <1>3, <4>1, <4>2, ShapesApart
    <3>. QED
      BY <3>1, <3>2
  <2>2. DOMAIN cmd = ConsoleField /\ cmd.next = "end" /\ cmd.pick \in Console
    BY <2>1 DEF OfConsole, PickTyped
  <2>3. ASSUME NEW place, NEW seen,
               \/ Goto(place) \/ Becomes([cmd EXCEPT !.at = place, !.seen = seen])
        PROVE  cmd'.pick = cmd.pick
    BY <2>2, <2>3 DEF Goto, Becomes, ConsoleField
  <2>4. Proceed(cmd) => cmd' = NoCommand
    BY <2>2, EndShape DEF Proceed
  <2>5. CASE ServicesNext
    BY <1>1, <2>2, <2>3, <2>4, <2>5, EndShape DEF ServicesNext, HandleCdLogin, SaveConsole,
       InitConsoleClient, GetClusterService, CreateService, UpdateService, CloneService,
       DeleteService, KickService, OthersWrite, Put
  <2>6. CASE EdgeNext
    BY <1>1, <2>2, <2>3, <2>6, EndShape DEF EdgeNext, WriteCloudConfig, CreateVolume, Unpack,
       BuildImage, SaveImage, FailImage, CleanUp
  <2>. QED
    BY <1>3, <2>5, <2>6
<1>4. CASE StartIdentity \/ StartWorkspace \/ StartControlPlane
  BY <1>1, <1>4, StartsShape
<1>5. CASE StartPullRequest \/ PullRequestNext
  BY <1>1, <1>5, AppliesStays DEF Applies
<1>6. CASE Abort
  BY <1>1, <1>6, EndShape DEF Abort
<1>7. CASE IdentityNext \/ WorkspaceNext
  BY <1>1, <1>7, IdentityShape, WorkspaceShape DEF SessionInv, Kept
<1>8. CASE ControlPlaneNext
  BY <1>1, <1>8, ControlPlaneShape DEF SessionInv
<1>. QED
  BY <1>2, <1>3, <1>4, <1>5, <1>6, <1>7, <1>8 DEF Next

\* The types of the files and of the commands that write them stay.
LEMMA TypesStay ==
    ASSUME SessionInv, FoundInv, FilesTyped, LoginsTyped, PickTyped, Next
    PROVE  FilesTyped' /\ LoginsTyped'
<1>1. UNCHANGED <<files, outside>> => FilesTyped'
  BY DEF FilesTyped, WorkspaceTypeOK, files, home, outside
<1>2. ~OfLogin(cmd') => LoginsTyped'
  BY DEF LoginsTyped
<1>3. EmptyManifest \in Manifests
  BY ManifestsAre
<1>4. CASE /\ StartIdentity \/ StartWorkspace \/ StartControlPlane
           /\ UNCHANGED <<files, outside, side>>
  <2>1. UNCHANGED <<files, outside>>
    BY <1>4
  <2>2. /\ cmd'.cwd \in Dir /\ cmd'.pf \in BOOLEAN
        /\ cmd'.mem = Nobody /\ cmd'.conf = Nobody /\ cmd'.asked = NoUser
        /\ cmd'.client = NoUser /\ cmd'.man = EmptyManifest
        /\ cmd'.cred = "none" /\ cmd'.pick = OwnConsole
    BY <1>4, StartsAre
  <2>3. LoginTyped(cmd')
    BY <1>3, <2>2, LoginsAre DEF LoginTyped, Credentials, Console
  <2>. QED
    BY <1>1, <2>1, <2>3 DEF LoginsTyped
<1>5. CASE (StartServices \/ StartEdge \/ StartPullRequest) /\ UNCHANGED <<files, outside, side>>
  <2>1. ~OfLogin(cmd')
    BY <1>5, StartsShape, AppliesStays, ShapesApart DEF Applies
  <2>. QED
    BY <1>1, <1>2, <1>5, <2>1
<1>6. CASE Abort
  BY <1>1, <1>2, <1>6, EndShape, ShapesApart DEF Abort
<1>7. CASE IdentityNext /\ UNCHANGED <<outside, side>>
  BY <1>7, IdentityTyped
<1>8. CASE WorkspaceNext /\ UNCHANGED side
  BY <1>8, WorkspaceTyped
<1>9. CASE ServicesNext /\ UNCHANGED <<outside, tree, edge, plane>>
  <2>1. LoginsTyped'
    <3>1. CASE OfLogin(cmd')
      <4>1. OfLogin(cmd) /\ (Goes("save console") \/ Goes("validate"))
        BY <1>9, <3>1, ConsoleMoves
      <4>. QED
        BY <4>1 DEF LoginsTyped, LoginTyped, Goes, Alike, Speaks, Holds
    <3>. QED
      BY <1>2, <3>1
  <2>2. console' \in {Absent, Torn} \union File(Console)
    <3>1. CASE cmd.at \in SharedPlace
      <4>1. cmd.pick \in Console
        BY <3>1, ShapeAt DEF SessionInv, LoginsTyped, LoginTyped, PickTyped
      <4>2. console' \in {console, Torn, Holding(cmd.pick)}
        BY <1>9 DEF ServicesNext, HandleCdLogin, SaveConsole, InitConsoleClient, GetClusterService,
           CreateService, UpdateService, CloneService, DeleteService, KickService, OthersWrite, Put,
           files, home
      <4>. QED
        BY <4>1, <4>2 DEF FilesTyped, Holding, File
    <3>. QED
      BY <1>9, <3>1, OthersWritesAre DEF FilesTyped
  <2>3. UNCHANGED <<config, profile, yaml, context, outside>>
    BY <1>9, OthersWritesAre
  <2>. QED
    BY <2>1, <2>2, <2>3 DEF FilesTyped, WorkspaceTypeOK, outside
<1>10. CASE PullRequestNext /\ UNCHANGED <<outside, onConsole, edge, plane>>
  <2>1. ~OfLogin(cmd')
    BY <1>10, AppliesStays, ShapesApart DEF Applies
  <2>2. /\ UNCHANGED <<config, profile, console, context, outside>>
    BY <1>10, OthersWritesAre DEF home
  <2>3. \/ yaml' = yaml
        \/ yaml' = [yaml EXCEPT ![cmd.cwd] = Holding(EmptyManifest)]
        \/ yaml' = [yaml EXCEPT ![cmd.cwd] = Absent]
    BY <1>10, AutomationsWrite DEF SessionInv
  <2>4. ASSUME NEW S, yaml \in [Dir -> {Absent} \union File(S)], EmptyManifest \in S
        PROVE  yaml' \in [Dir -> {Absent} \union File(S)]
    <3>1. Holding(EmptyManifest) \in {Absent} \union File(S) /\ Absent \in {Absent} \union File(S)
      BY <2>4 DEF Holding, File
    <3>. QED
      BY <2>3, <2>4, <3>1
  <2>5. EmptyManifest \in Manifest
    BY <1>3, ManifestsAre
  <2>. QED
    BY <1>2, <1>3, <2>1, <2>2, <2>4, <2>5 DEF FilesTyped, WorkspaceTypeOK, outside
<1>11. CASE EdgeNext /\ UNCHANGED <<outside, tree, plane>>
  <2>1. ~OfLogin(cmd')
    BY <1>11, EdgeShape, ShapesApart DEF SessionInv
  <2>. QED
    BY <1>1, <1>2, <1>11, <2>1, OthersWritesAre
<1>12. CASE ControlPlaneNext /\ UNCHANGED <<onConsole, tree, edge>>
  <2>1. UNCHANGED <<files, outside>>
    BY <1>12, OthersWritesAre
  <2>2. ASSUME OfLogin(cmd') PROVE LoginTyped(cmd')
    <3>1. OfLogin(cmd) /\ DOMAIN cmd = LoginField /\ LoginTyped(cmd)
      BY <1>12, <2>2, PlaneMoves DEF LoginsTyped
    <3>2. CASE /\ cmd'.cwd = cmd.cwd /\ cmd'.conf = cmd.conf /\ cmd'.asked = Read.token
               /\ Speaks /\ Holds("workspace", cmd.man, cmd.writer, cmd.next)
               /\ cmd'.cred = cmd.cred /\ cmd'.pick = cmd.pick
      <4>1. Read.token \in User \union {NoUser}
        BY <3>1, ReadTyped, LoginsAre
      <4>. QED
        BY <3>1, <3>2, <4>1 DEF LoginTyped, Speaks, Holds
    <3>3. CASE HasYaml("root") /\ FromManifest(yaml["root"].has, "render")
      <4>. DEFINE man == yaml["root"].has
      <4>1. man \in Manifests
        BY <3>3 DEF HasYaml, FilesTyped, File, Dir
      <4>2. \E m \in Manifests, place \in {"render", "upgrade"} :
              \E next : Forgets(place, m, cmd.writer, next)
        <5>1. \/ Forgets("render", man, cmd.writer, "end")
              \/ Forgets("upgrade", [man EXCEPT !.located = TRUE], cmd.writer, "render")
          BY <3>1, <3>3, ForgetMoves, Zenon
        <5>. HIDE DEF man
        <5>2. [man EXCEPT !.located = TRUE] \in Manifests
          BY <4>1, ManifestsAre
        <5>. QED
          BY <4>1, <5>1, <5>2, Zenon
      <4>. QED
        BY <3>1, <4>2, LoginsAre DEF Forgets, Alike, Holds, LoginTyped
    <3>. QED
      BY <1>12, <2>2, <3>2, <3>3, PlaneMoves
  <2>. QED
    BY <1>1, <1>2, <2>1, <2>2 DEF LoginsTyped
<1>. QED
  BY <1>4, <1>5, <1>6, <1>7, <1>8, <1>9, <1>10, <1>11, <1>12 DEF Next

Ground == SessionInv /\ PathInv /\ FoundInv /\ FilesTyped /\ LoginsTyped /\ PickTyped

\* what the four machines have
LEMMA InitGround == Init => Ground
<1>. SUFFICES ASSUME Init PROVE Ground
  OBVIOUS
<1>1. /\ ~OfLogin(cmd) /\ ~OfConsole(cmd)
  BY DEF Init, OfLogin, OfConsole, NoCommand, LoginField, ConsoleField
<1>2. \A S, x : x \in S => Holding(x) \in File(S)
  BY DEF Holding, File
<1>3. \A p \in Person \union Robot : As(p) \in Logins /\ [email |-> NoUser, token |-> p] \in Logins
  BY LoginsAre DEF User
<1>4. /\ {config, profile} \subseteq {Absent, Torn} \union File(Logins)
      /\ console \in {Absent, Torn} \union File(Console)
  <2>1. OwnConsole \in Console
    BY DEF Console
  <2>2. CASE Nothing
    BY <2>2 DEF Nothing, LoggedIn
  <2>3. CASE Token
    BY <1>2, <1>3, <2>3, TrustedPeople DEF Token, LoggedIn
  <2>4. CASE Connected
    BY <1>2, <1>3, <2>1, <2>4, TrustedPeople DEF Connected, LoggedIn
  <2>5. CASE Teammate
    <3>1. \E p \in Person : LoggedIn(Holding(As(p)), Absent, Absent)
      BY <2>5, Zenon DEF Teammate
    <3>. QED
      BY <1>2, <1>3, <3>1 DEF LoggedIn
  <2>. QED
    BY <2>2, <2>3, <2>4, <2>5 DEF Init
<1>5. /\ clone \in BOOLEAN
      /\ remote \in {Absent} \union File(Remote)
      /\ context \in [Dir -> {Absent, Torn} \union File(Credentials)]
  <2>1. ASSUME NEW https \in BOOLEAN, NEW key \in BOOLEAN,
               NEW c \in {Absent} \union File(Credentials), Cloned(https, key, c)
        PROVE  /\ clone \in BOOLEAN
               /\ remote \in {Absent} \union File(Remote)
               /\ context \in [Dir -> {Absent, Torn} \union File(Credentials)]
    <3>1. [https |-> https, key |-> key, commits |-> TRUE] \in Remote
      BY DEF Remote
    <3>2. "root" \in Dir
      BY DEF Dir
    <3>. QED
      BY <1>2, <2>1, <3>1, <3>2 DEF Cloned
  <2>2. /\ Holding("none") \in File(Credentials) /\ Holding("ssh") \in File(Credentials)
    BY <1>2 DEF Credentials
  <2>3. CASE Nothing
    BY <2>3 DEF Nothing
  <2>4. CASE Token \/ Connected \/ Teammate
    <3>1. \E https, key \in BOOLEAN, c \in {Absent} \union File(Credentials) : Cloned(https, key, c)
      BY <2>2, <2>4 DEF Token, Connected, Teammate
    <3>. QED
      BY <2>1, <3>1
  <2>. QED
    BY <2>3, <2>4 DEF Init
<1>6. /\ holder \in User \union {NoUser}
      /\ cloud \in [group : BOOLEAN, account : BOOLEAN, buckets : SUBSET (Bucket \union {DryBucket})]
      /\ yaml \in [Dir -> {Absent} \union File(Manifests)]
  <2>1. CASE Unset
    BY <2>1 DEF Unset
  <2>2. CASE Teammate
    <3>1. PICK r \in Robot, b \in Bucket :
           /\ holder = r
           /\ yaml = [[d \in Dir |-> Absent] EXCEPT !["root"] = Holding(
                [prov |-> "gcp", owner |-> r, full |-> TRUE, bucket |-> b,
                 account |-> FALSE, located |-> FALSE, domain |-> TRUE])]
           /\ cloud = [group |-> FALSE, account |-> FALSE, buckets |-> {b}]
      BY <2>2 DEF Teammate
    <3>2. [prov |-> "gcp", owner |-> r, full |-> TRUE, bucket |-> b,
           account |-> FALSE, located |-> FALSE, domain |-> TRUE] \in Manifests
      BY DEF Manifests, Manifest, Provider, User
    <3>3. "root" \in Dir
      BY DEF Dir
    <3>4. yaml \in [Dir -> {Absent} \union File(Manifests)]
      BY <1>2, <3>1, <3>2, <3>3
    <3>. QED
      BY <3>1, <3>4 DEF User
  <2>. QED
    BY <2>1, <2>2 DEF Init, Nothing, Token, Connected
<1>7. yaml \in [Dir -> {Absent} \union File(Manifest)]
  BY <1>6, ManifestsAre DEF File
<1>. QED
  BY <1>1, <1>4, <1>5, <1>6, <1>7, InitSessionInv
     DEF Ground, PathInv, FoundInv, FilesTyped, LoginsTyped, PickTyped, WorkspaceTypeOK

\* no step leaves it
LEMMA NextGround == Ground /\ [Next]_vars => Ground'
<1>. SUFFICES ASSUME Ground, [Next]_vars PROVE Ground'
  OBVIOUS
<1>1. SessionInv'
  BY NextSessionInv DEF Ground
<1>2. CASE Next
  BY <1>1, <1>2, PathStays, FoundStays, TypesStay, PicksStay DEF Ground
<1>3. CASE UNCHANGED vars
  <2>1. UNCHANGED <<config, profile, console, yaml, context, clone, remote, holder, cloud, cmd>>
    BY <1>3 DEF vars, files, home, outside
  <2>. QED
    BY <1>1, <2>1 DEF Ground, PathInv, SetsUp, FoundInv, ProjectDir, HasYaml, FilesTyped, WorkspaceTypeOK,
       LoginsTyped, PickTyped
<1>. QED
  BY <1>2, <1>3
-----------------------------------------------------------------------------
(* The login                                                               *)

\* A login in memory is the user's own choice, but in `init`, which asks for a
\* login after it has found whose workspace this is.
MemInv == OfLogin(cmd) /\ cmd.at \in {"login", "amend"} => cmd.mem = Nobody \/ cmd.name = "init"

LEMMA MemStays ==
    ASSUME Ground, PathInv', MemInv, Next
    PROVE  MemInv'
<1>. SUFFICES ASSUME OfLogin(cmd'), cmd'.at \in {"login", "amend"}
              PROVE  cmd'.mem = Nobody \/ cmd'.name = "init"
  BY DEF MemInv
<1>1. cmd' # NoCommand
  BY ShapesApart
<1>2. CASE StartIdentity \/ StartWorkspace \/ StartControlPlane
  BY <1>2, StartsAre
<1>3. CASE IdentityNext
  <2>1. /\ OfLogin(cmd)
        /\ \/ cmd'.at \in {"me", "saving", "flush", "fill"}
           \/ cmd.at \in {"me", "fill"} /\ cmd'.at = cmd.next
    BY <1>1, <1>3, IdentityMoves DEF Ground
  <2>2. cmd.at \in {"me", "fill"} => cmd.next \in {"client", "end", "provider"}
    BY <2>1 DEF Ground, PathInv
  <2>. QED
    BY <2>1, <2>2
<1>4. CASE WorkspaceNext
  <2>1. OfLogin(cmd) /\ DOMAIN cmd = LoginField /\ PathInv
    BY <1>4, OtherPlaces, ShapeAt DEF LoginPlace, Ground, SessionInv, OfLogin
  <2>2. CASE InitPluralClient
    BY <1>1, <2>1, <2>2, StepsLead DEF After
  <2>3. CASE UpgradeManifest
    <3>1. cmd'.at = "upgrading" \/ cmd'.at = cmd.next
      BY <1>1, <2>1, <2>3, StepsLead DEF After
    <3>2. cmd.next \in {"preflights", "cluster", "backfill", "render"}
      BY <2>1, <2>3 DEF PathInv, UpgradeManifest, At, Forward
    <3>. QED
      BY <3>1, <3>2
  <2>4. CASE ~InitPluralClient /\ ~UpgradeManifest
    <3>1. cmd.at \in SetupPlace /\ Onward
      BY <1>4, <2>1, <2>4, SetupMoves
    <3>2. SetsUp /\ "login" \notin SetupPlace /\ "amend" \notin SetupPlace
      BY <2>1, <3>1 DEF PathInv, SetupPlace, WorkspacePlace
    <3>. QED
      BY <1>1, <3>1, <3>2 DEF Onward, SetsUp
  <2>. QED
    BY <2>2, <2>3, <2>4
<1>5. CASE ServicesNext
  BY <1>5, ConsoleMoves DEF Goes, Holds, Ground
<1>6. CASE ControlPlaneNext
  <2>1. OfLogin(cmd) /\ DOMAIN cmd = LoginField
    BY <1>6, PlaneMoves DEF Ground
  <2>2. CASE cmd.at = "workspace" /\ FromManifest(yaml["root"].has, "render")
    <3>1. \/ Forgets("render", yaml["root"].has, cmd.writer, "end")
          \/ Forgets("upgrade", [yaml["root"].has EXCEPT !.located = TRUE], cmd.writer, "render")
      BY <2>1, <2>2, ForgetMoves, Zenon
    <3>. QED
      BY <3>1 DEF Forgets, Holds
  <2>. QED
    BY <1>6, <2>2, PlaneMoves DEF Ground, Holds
<1>. QED
  BY <1>2, <1>3, <1>4, <1>5, <1>6, LoginSteps DEF Ground

StorePlace == {"me", "flush", "fill"}

\* The login about to be stored is the one that was asked for, or the one that
\* `init` impersonates.
ToStore(c) == \/ c.conf.token = c.asked
              \/ c.name = "init" /\ c.mem # Nobody /\ c.conf.token = c.mem.token
StoreInv == cmd.at \in StorePlace => ToStore(cmd)

\* what StoredAsAsked asks of a step
Stored == config' # config /\ config'.is = "file" =>
    \/ config'.has.token = cmd.asked
    \/ cmd.name = "init" /\ cmd.mem # Nobody /\ config'.has.token = cmd.mem.token

\* The commands of Identity keep that, and store nothing else.
LEMMA IdentityStores ==
    ASSUME Ground, MemInv, StoreInv, IdentityNext
    PROVE  StoreInv' /\ Stored
<1>1. OfLogin(cmd)
  BY OtherPlaces, ShapeAt DEF LoginPlace, Ground, SessionInv
<1>2. /\ DOMAIN cmd = LoginField /\ cmd.next \notin StorePlace
      /\ {"name", "at", "conf", "asked", "mem"} \subseteq LoginField
  BY <1>1 DEF OfLogin, LoginField, NextPlace, StorePlace
<1>3. \A u : As(u).token = u
  BY DEF As
<1>4. Torn.is = "torn" /\ \A x : Holding(x).has = x
  BY DEF Torn, Holding
<1>5. NoCommand.at \notin StorePlace
  BY DEF NoCommand, StorePlace
<1>6. ASSUME NEW conf, NEW asked, conf.token = asked,
             \/ Becomes([cmd EXCEPT !.at = "me", !.conf = conf, !.asked = asked])
             \/ Becomes([cmd EXCEPT !.at = "me", !.asked = asked, !.conf = conf])
             \/ Store(conf, asked)
      PROVE  StoreInv'
  BY <1>2, <1>6 DEF Store, Becomes, StoreInv, ToStore
<1>7. CASE HandleLogin
  <2>1. config' = config /\ cmd.at = "login"
    BY <1>7 DEF HandleLogin, files, home, At
  <2>2. CASE Becomes([cmd EXCEPT !.at = "me", !.conf = Read, !.asked = Import(ConfigFile).token])
    <3>1. CASE cmd.mem = Nobody
      BY <1>6, <2>1, <2>2, <3>1 DEF Read, Stored
    <3>2. CASE cmd.mem # Nobody
      <4>1. cmd.name = "init" /\ Read = cmd.mem
        BY <1>1, <2>1, <3>2 DEF MemInv, Read
      <4>2. cmd'.name = cmd.name /\ cmd'.mem = cmd.mem /\ cmd'.conf = Read
        BY <1>2, <2>2 DEF Becomes
      <4>. QED
        BY <2>1, <3>2, <4>1, <4>2 DEF StoreInv, ToStore, Stored
    <3>. QED
      BY <3>1, <3>2
  <2>3. ASSUME NEW p \in Person,
               Becomes([cmd EXCEPT !.at = "me", !.asked = p,
                                   !.conf = [email |-> NoUser, token |-> p]])
        PROVE  StoreInv'
    BY <1>6, <2>3
  <2>. QED
    BY <1>7, <2>1, <2>2, <2>3 DEF HandleLogin, Stored
<1>8. CASE PostLogin
  <2>1. config' = config /\ ToStore(cmd)
    BY <1>8 DEF PostLogin, files, home, StoreInv, At, StorePlace
  <2>2. CASE cmd' = [cmd EXCEPT !.at = "flush", !.conf = As(cmd.conf.token)]
    <3>1. /\ cmd'.conf = As(cmd.conf.token) /\ cmd'.asked = cmd.asked
          /\ cmd'.name = cmd.name /\ cmd'.mem = cmd.mem
      BY <1>2, <2>2
    <3>. QED
      BY <1>3, <2>1, <3>1 DEF StoreInv, ToStore, Stored
  <2>3. ASSUME NEW r \in Robot,
               cmd' = [cmd EXCEPT !.conf = As(r), !.mem = As(r), !.asked = r, !.at = "flush"]
        PROVE  StoreInv' /\ Stored
    <3>1. cmd'.conf = As(r) /\ cmd'.asked = r
      BY <1>2, <2>3
    <3>. QED
      BY <1>3, <2>1, <3>1 DEF StoreInv, ToStore, Stored
  <2>4. ASSUME NEW r \in Robot,
               cmd' = [cmd EXCEPT !.conf = Nobody, !.mem = As(r), !.asked = NoUser,
                                  !.at = cmd.next]
        PROVE  StoreInv' /\ Stored
    <3>1. cmd'.at = cmd.next
      BY <1>2, <2>4
    <3>. QED
      BY <1>2, <2>1, <3>1 DEF StoreInv, Stored
  <2>. QED
    BY <1>8, <2>2, <2>3, <2>4 DEF PostLogin, Becomes
<1>9. CASE Flush
  <2>1. /\ ToStore(cmd) /\ config' = Torn
        /\ cmd'.name = cmd.name /\ cmd'.mem = cmd.mem
        /\ cmd'.conf = cmd.conf /\ cmd'.asked = cmd.asked
    BY <1>2, <1>9 DEF Flush, Goto, Becomes, StoreInv, At, StorePlace
  <2>. QED
    BY <1>4, <2>1 DEF StoreInv, ToStore, Stored
<1>10. CASE Filled
  <2>1. ToStore(cmd) /\ config' = Holding(cmd.conf)
    BY <1>10 DEF Filled, StoreInv, At, StorePlace
  <2>2. cmd'.at \notin StorePlace
    BY <1>2, <1>5, <1>10 DEF Filled, End, Becomes
  <2>. QED
    BY <1>4, <2>1, <2>2 DEF StoreInv, ToStore, Stored
<1>11. CASE UseProfile \/ Amend \/ FromToken \/ OidcToken \/ ImportHome
  <2>1. config' = config
    BY <1>11 DEF UseProfile, Amend, FromToken, OidcToken, ImportHome, files, home
  <2>2. CASE Amend
    <3>1. cmd.mem = Nobody
      <4>1. ~SetsUp
        BY <1>1, <2>2 DEF Ground, PathInv, Amend, At, IdentityPlace
      <4>. QED
        BY <1>1, <2>2, <4>1 DEF MemInv, SetsUp, Amend, At
    <3>. QED
      BY <1>6, <2>1, <2>2 DEF Amend, Stored
  <2>3. CASE UseProfile \/ FromToken \/ OidcToken \/ ImportHome
    <3>1. PICK conf, asked : Store(conf, asked) /\ conf.token = asked
      <4>1. \A u : [email |-> NoUser, token |-> u].token = u
        OBVIOUS
      <4>2. CASE UseProfile
        BY <4>2 DEF UseProfile
      <4>3. CASE FromToken
        BY <4>1, <4>3 DEF FromToken
      <4>4. CASE OidcToken
        BY <1>3, <4>4 DEF OidcToken
      <4>5. CASE ImportHome
        BY <1>3, <4>5 DEF ImportHome
      <4>. QED
        BY <2>3, <4>2, <4>3, <4>4, <4>5
    <3>. QED
      BY <1>6, <2>1, <3>1 DEF Stored
  <2>. QED
    BY <1>11, <2>2, <2>3
<1>12. CASE SaveProfile
  BY <1>2, <1>5, <1>12 DEF SaveProfile, End, Becomes, StoreInv, StorePlace, Stored
<1>. QED
  BY <1>7, <1>8, <1>9, <1>10, <1>11, <1>12 DEF IdentityNext

\* No other component writes config.yml.
LEMMA OthersKeepConfig ==
    WorkspaceNext \/ ServicesNext \/ PullRequestNext \/ EdgeNext \/ ControlPlaneNext
      => UNCHANGED config
<1>1. WorkspaceNext => UNCHANGED config
  <2>1. CASE \/ InitPluralClient \/ ChoseCluster \/ ValidateConsoleConfig \/ Preflight
             \/ EnsureWorkspace \/ GetProvider \/ UpgradeManifest \/ RunPreflights \/ Build
    BY <2>1 DEF InitPluralClient, ChoseCluster, ValidateConsoleConfig, Preflight,
       EnsureWorkspace, GetProvider, UpgradeManifest, RunPreflights, Build, FromManifest,
       files, home
  <2>2. CASE Survey
    BY <2>2 DEF Survey, SurveyDry, SurveyAws, SurveyGcp, SurveyAzure, SurveyByok, Configure,
       files, home
  <2>3. CASE \/ GithubSetup \/ GitlabSetup \/ BitbucketSetup \/ Clone \/ BuildContext
             \/ FlushProvider \/ WriteManifest \/ AskAppDomain
    BY <2>3 DEF GithubSetup, GitlabSetup, BitbucketSetup, CreateRepository, AddDeployKey, Clone,
       BuildContext, FlushProvider, WriteManifest, AskAppDomain, files, home
  <2>4. CASE \/ GetCluster \/ Backfill \/ BackfillHTTPS \/ BackfillSSH \/ WriteContext
             \/ Generate \/ CreateBucket \/ ByokBucket \/ Deployed
             \/ AzureGroup \/ AzureAccount \/ AzureContainer
    BY <2>4 DEF GetCluster, Backfill, BackfillHTTPS, BackfillSSH, WriteContext, Ask, Generate,
       CreateBucket, ByokBucket, Deployed, AzureGroup, AzureAccount, AzureContainer, files, home
  <2>. QED
    BY <2>1, <2>2, <2>3, <2>4 DEF WorkspaceNext
<1>2. ServicesNext => UNCHANGED config
  BY DEF ServicesNext, HandleCdLogin, SaveConsole, InitConsoleClient, GetClusterService,
     CreateService, UpdateService, CloneService, DeleteService, KickService, OthersWrite, Put,
     files, home
<1>3. PullRequestNext => UNCHANGED config
  BY DEF PullRequestNext, CopyTemplates, BuildCRD, Configuration, ApplyVendoring, ApplyCreates,
     Skips, RegexReplacements, YamlOverlays, UpdateMatches, ApplyDeletes, ReplaceTo, Change, files, home
<1>4. EdgeNext => UNCHANGED config
  BY DEF EdgeNext, WriteCloudConfig, CreateVolume, Unpack, BuildImage, SaveImage, FailImage,
     files, home
<1>5. ControlPlaneNext => UNCHANGED config
  BY DEF ControlPlaneNext, CreateControlPlane, ReadsWorkspace, FromManifest, ControlPlaneValues,
     EnsureInstalled, SetupOIDC, OthersBind, WriteValues, files, home
<1>. QED
  BY <1>1, <1>2, <1>3, <1>4, <1>5

\* Whoever the machine is logged in as was asked for (pkg/common/common.go
\* HandleLogin and postLogin, pkg/config), whatever commands run, fail or are
\* killed around it: of the service accounts that commands impersonate for
\* themselves only the one that `init` has shown to the user and got a yes for
\* becomes the machine's login.
THEOREM SessionStoresAsAsked == Spec => StoredAsAsked
<1>. DEFINE Inv == Ground /\ MemInv /\ StoreInv
<1>1. Init => Inv
  <2>1. Init => ~OfLogin(cmd) /\ cmd = NoCommand
    BY DEF Init, OfLogin, NoCommand, LoginField
  <2>. QED
    BY <2>1, InitGround DEF NoCommand, MemInv, StoreInv, StorePlace
<1>2. Inv /\ [Next]_vars => Inv' /\ [Stored]_config
  <2>. SUFFICES ASSUME Inv, [Next]_vars PROVE Inv' /\ [Stored]_config
    OBVIOUS
  <2>1. Ground'
    BY NextGround
  <2>2. CASE Next /\ IdentityNext
    BY <2>1, <2>2, MemStays, IdentityStores DEF Ground
  <2>3. CASE Next /\ ~IdentityNext
    <3>1. config' = config
      BY <2>3, OthersKeepConfig DEF Next, Abort, files, home
    <3>2. cmd'.at \notin StorePlace
      <4>1. NoCommand.at \notin StorePlace
        BY DEF NoCommand, StorePlace
      <4>2. ASSUME NEW p \in StorePlace
            PROVE  /\ p \notin CommonPlace /\ p \notin EdgePlace /\ p \notin InstallPlace
                   /\ p # "control plane" /\ p # "send"
        BY DEF StorePlace, CommonPlace, WorkspaceLands, WorkspacePlace, NextPlace, ServicesLands,
           ServicesPlace, EdgePlace, InstallPlace, PrPlace
      <4>. QED
        BY <2>1, <2>3, <4>1, <4>2, StepLands DEF Ground
    <3>. QED
      BY <2>1, <2>3, <3>1, <3>2, MemStays DEF StoreInv, Ground
  <2>4. CASE UNCHANGED vars
    <3>1. UNCHANGED <<cmd, config>>
      BY <2>4 DEF vars, files, home
    <3>. QED
      BY <2>1, <3>1 DEF MemInv, StoreInv
  <2>. QED
    BY <2>2, <2>3, <2>4
<1>. QED
  BY <1>1, <1>2, PTL DEF Spec, StoredAsAsked, Stored
-----------------------------------------------------------------------------
(* What `up` has prepared                                                  *)

LEMMA WorkspaceKeepsHome == WorkspaceNext => UNCHANGED home
<1>. SUFFICES ASSUME WorkspaceNext PROVE UNCHANGED home
  OBVIOUS
<1>1. CASE \/ InitPluralClient \/ ChoseCluster \/ ValidateConsoleConfig \/ Preflight
           \/ EnsureWorkspace \/ GetProvider \/ UpgradeManifest
  BY <1>1 DEF InitPluralClient, ChoseCluster, ValidateConsoleConfig, Preflight, EnsureWorkspace,
     GetProvider, FromManifest, UpgradeManifest, files
<1>2. CASE Survey \/ RunPreflights
  <2>1. \A man : Configure(man) => UNCHANGED files
    BY DEF Configure
  <2>. QED
    BY <1>2, <2>1 DEF Survey, SurveyDry, SurveyAws, SurveyGcp, SurveyAzure, SurveyByok,
       RunPreflights, files
<1>3. CASE GithubSetup \/ GitlabSetup \/ BitbucketSetup \/ Clone \/ BuildContext
  BY <1>3 DEF GithubSetup, GitlabSetup, BitbucketSetup, CreateRepository, AddDeployKey, Clone,
     BuildContext, files
<1>4. CASE FlushProvider \/ WriteManifest \/ AskAppDomain \/ Build
  BY <1>4 DEF FlushProvider, WriteManifest, AskAppDomain, Build, FromManifest, files
<1>5. CASE \/ GetCluster \/ Backfill \/ BackfillHTTPS \/ BackfillSSH \/ WriteContext \/ Generate
           \/ CreateBucket \/ AzureGroup \/ AzureAccount \/ AzureContainer \/ ByokBucket \/ Deployed
  BY <1>5 DEF GetCluster, Backfill, BackfillHTTPS, BackfillSSH, Ask, WriteContext, Generate,
     CreateBucket, AzureGroup, AzureAccount, AzureContainer, ByokBucket, Deployed, files
<1>. QED
  BY <1>1, <1>2, <1>3, <1>4, <1>5 DEF WorkspaceNext

\* past the validation of the console, if there is one
LatePlace == (SetupPlace \ {"choose", "validate"}) \union {"upgrade", "upgrading"}

CloudInv == OfLogin(cmd) /\ cmd.cloud /\ cmd.at \in LatePlace
              => console.is = "file" /\ console.has \in Instance

\* A console that is validated stays.
LEMMA CloudStays ==
    ASSUME Ground, PathInv', CloudInv, Next
    PROVE  CloudInv'
<1>. SUFFICES ASSUME OfLogin(cmd'), cmd'.cloud, cmd'.at \in LatePlace
              PROVE  (console.is = "file" /\ console.has \in Instance)'
  BY DEF CloudInv
<1>1. /\ SetupPlace = {"choose", "validate", "preflight", "ensure", "provider", "survey",
                       "preflights", "repo", "github key", "gitlab key", "bitbucket key",
                       "readme", "clone", "context", "contexting", "manifest", "write",
                       "written", "domain", "naming", "build", "cluster", "backfill",
                       "credentials", "backfilled", "generate", "bucket", "deploy"}
      /\ LatePlace = (SetupPlace \ {"choose", "validate"}) \union {"upgrade", "upgrading"}
  BY DEF SetupPlace, WorkspacePlace, LatePlace
<1>2. cmd'.name = "up" /\ cmd' # NoCommand
  BY ShapesApart DEF PathInv
<1>3. CASE WorkspaceNext
  <2>1. OfLogin(cmd) /\ DOMAIN cmd = LoginField /\ PathInv
    BY <1>3, OtherPlaces, ShapeAt DEF LoginPlace, Ground, SessionInv, OfLogin
  <2>2. UNCHANGED console
    BY <1>3, WorkspaceKeepsHome DEF home
  <2>3. CASE InitPluralClient
    <3>1. cmd'.at = ClientFor /\ cmd.cloud
      BY <2>1, <2>3, ClientMoves DEF Alike, Holds
    <3>. QED
      BY <1>1, <3>1 DEF ClientFor
  <2>4. CASE UpgradeManifest
    <3>1. cmd.at \in {"upgrade", "upgrading"}
      BY <2>4 DEF UpgradeManifest, At
    <3>2. cmd'.cloud = cmd.cloud
      BY <2>1, <2>4, GotoMoves, Zenon DEF UpgradeManifest, Goes, Alike
    <3>. QED
      BY <1>1, <2>1, <2>2, <3>1, <3>2 DEF CloudInv
  <2>5. CASE ValidateConsoleConfig
    BY <2>2, <2>5 DEF ValidateConsoleConfig
  <2>6. CASE ChoseCluster
    BY <1>1, <1>2, <2>1, <2>6, StepsLead DEF After
  <2>7. CASE /\ ~InitPluralClient /\ ~UpgradeManifest
             /\ ~ValidateConsoleConfig /\ ~ChoseCluster
    <3>1. cmd.at \in SetupPlace /\ cmd'.cloud = cmd.cloud
      BY <1>2, <1>3, <2>1, <2>7, SetupMoves DEF Onward
    <3>2. cmd.at \notin {"choose", "validate"}
      BY <1>3, <2>7 DEF WorkspaceNext, Preflight, EnsureWorkspace, GetProvider, Survey,
         SurveyDry, SurveyAws, SurveyGcp, SurveyAzure, SurveyByok, Surveying, RunPreflights,
         GithubSetup, GitlabSetup, BitbucketSetup, CreateRepository, AddDeployKey, Clone,
         BuildContext, FlushProvider, WriteManifest, AskAppDomain, Build, GetCluster, Backfill,
         BackfillHTTPS, BackfillSSH, WriteContext, Generate, CreateBucket, AzureGroup,
         AzureAccount, AzureContainer, ByokBucket, Deployed, At
    <3>. QED
      BY <1>1, <2>1, <2>2, <3>1, <3>2 DEF CloudInv
  <2>. QED
    BY <2>3, <2>4, <2>5, <2>6, <2>7
<1>4. CASE StartIdentity \/ StartWorkspace \/ StartControlPlane
  BY <1>1, <1>4, StartsAre
<1>5. CASE IdentityNext
  <2>1. /\ OfLogin(cmd) /\ cmd.at \in IdentityPlace /\ cmd.name = "up"
        /\ \/ cmd'.at \in {"me", "saving", "flush", "fill"}
           \/ cmd.at \in {"me", "fill"} /\ cmd'.at = cmd.next
    BY <1>2, <1>5, IdentityMoves DEF Ground
  <2>2. cmd.at \in {"me", "fill"} => cmd.next \in {"client", "end"}
    BY <2>1 DEF Ground, PathInv
  <2>. QED
    BY <1>1, <2>1, <2>2
<1>6. CASE ServicesNext
  BY <1>1, <1>6, ConsoleMoves DEF Goes, Holds, Ground
<1>7. CASE ControlPlaneNext
  <2>1. /\ DOMAIN cmd = LoginField /\ OfLogin(cmd) /\ cmd.at \in {"values", "workspace"}
        /\ cmd'.name = cmd.name
    <3>1. DOMAIN cmd = LoginField /\ OfLogin(cmd)
      BY <1>7, PlaneMoves DEF Ground
    <3>2. FromManifest(yaml["root"].has, "render") => Alike
      BY <3>1, ForgetMoves, Zenon DEF Forgets
    <3>. QED
      BY <1>7, <3>1, <3>2, PlaneMoves DEF Ground, Alike
  <2>. QED
    BY <1>2, <2>1 DEF Ground, PathInv
<1>. QED
  BY <1>3, <1>4, <1>5, <1>6, <1>7, LoginSteps DEF Ground

\* past the reading of workspace.yaml, and past the credentials
BuiltPlace == {"cluster", "backfill", "credentials", "backfilled", "generate", "bucket", "deploy"}

ReadyInv == OfLogin(cmd) =>
    /\ cmd.at \in {"upgrade", "upgrading"} /\ cmd.next \in {"cluster", "backfill"}
         => HasYaml(cmd.cwd) /\ cmd.man.prov # NoProvider
    /\ cmd.at \in BuiltPlace
         => yaml[cmd.cwd] = Holding(cmd.man) /\ cmd.man.prov # NoProvider
    /\ cmd.at = "backfilled" => cmd.cred # "none"
    /\ cmd.at \in {"generate", "bucket", "deploy"}
         => context[cmd.cwd].is = "file" /\ context[cmd.cwd].has # "none"
    /\ cmd.at = "deploy" =>
         /\ cmd.man.prov # "byok" => cmd.man.bucket \in cloud.buckets
         /\ cmd.man.prov = "azure" => cloud.group /\ cloud.account

\* workspace.yaml is read,
LEMMA BuildReady ==
    ASSUME Ground, OfLogin(cmd), DOMAIN cmd = LoginField, Build
    PROVE  ReadyInv'
<1>. DEFINE man == yaml[cmd.cwd].has
<1>1. HasYaml(cmd.cwd) /\ \E place \in {"cluster", "backfill"} : FromManifest(man, place)
  BY DEF Build
<1>2. yaml[cmd.cwd] = Holding(man) /\ man \in Manifests
  BY <1>1 DEF HasYaml, Ground, FilesTyped, LoginsTyped, LoginTyped, File, Holding
<1>. HIDE DEF man
<1>3. /\ man.prov # NoProvider /\ UNCHANGED <<files, outside>>
      /\ \E place \in {"cluster", "backfill"} :
           \/ Forgets(place, man, cmd.writer, "end")
           \/ Forgets("upgrade", [man EXCEPT !.located = TRUE], cmd.writer, place)
  BY <1>1, ForgetMoves, Zenon
<1>4. [man EXCEPT !.located = TRUE].prov = man.prov
  BY <1>2, ManifestsAre
<1>5. yaml' = yaml
  BY <1>3 DEF files
<1>6. CASE \E place \in {"cluster", "backfill"} : Forgets(place, man, cmd.writer, "end")
  <2>1. cmd'.cwd = cmd.cwd /\ cmd'.man = man /\ cmd'.at \in {"cluster", "backfill"}
    BY <1>6 DEF Forgets, Alike, Holds
  <2>. QED
    BY <1>2, <1>3, <1>5, <2>1 DEF ReadyInv
<1>7. CASE \E place \in {"cluster", "backfill"} :
             Forgets("upgrade", [man EXCEPT !.located = TRUE], cmd.writer, place)
  <2>1. cmd'.cwd = cmd.cwd /\ cmd'.man = [man EXCEPT !.located = TRUE] /\ cmd'.at = "upgrade"
    BY <1>7 DEF Forgets, Alike, Holds
  <2>. QED
    BY <1>1, <1>3, <1>4, <1>5, <2>1 DEF ReadyInv, BuiltPlace, HasYaml
<1>. QED
  BY <1>3, <1>6, <1>7

\* and written anew where it was read.
LEMMA UpgradeReady ==
    ASSUME Ground, ReadyInv, OfLogin(cmd), DOMAIN cmd = LoginField, UpgradeManifest
    PROVE  ReadyInv'
<1>. DEFINE d == ProjectDir(cmd.cwd)
<1>1. /\ cmd.cwd \in Dir /\ d \in Dir /\ DOMAIN yaml = Dir
      /\ HasYaml(cmd.cwd) => d = cmd.cwd
  BY ProjectDirNearest, NearestIs DEF Ground, FilesTyped, LoginsTyped, LoginTyped, HasYaml
<1>2. Holding(EmptyManifest) # Absent
  BY DEF Holding, Absent
<1>3. cmd.next \in {"preflights", "cluster", "backfill", "render"}
  BY DEF Ground, PathInv, UpgradeManifest, At, Forward
<1>. HIDE DEF d
<1>4. \/ /\ cmd.at = "upgrade" /\ Goes("upgrading")
         /\ yaml' = [yaml EXCEPT ![d] = Holding(EmptyManifest)]
      \/ /\ cmd.at = "upgrading" /\ Goes(cmd.next)
         /\ yaml' = [yaml EXCEPT ![d] = Holding(cmd.man)]
  BY GotoMoves, Zenon DEF UpgradeManifest, At, d
<1>5. CASE /\ cmd.at = "upgrade" /\ Goes("upgrading")
           /\ yaml' = [yaml EXCEPT ![d] = Holding(EmptyManifest)]
  <2>1. cmd'.at = "upgrading" /\ cmd'.next = cmd.next /\ cmd'.man = cmd.man /\ cmd'.cwd = cmd.cwd
    BY <1>5 DEF Goes, Alike, Holds
  <2>2. HasYaml(cmd.cwd) => yaml'[cmd.cwd] # Absent
    BY <1>1, <1>2, <1>5 DEF HasYaml
  <2>. QED
    BY <1>5, <2>1, <2>2 DEF ReadyInv, BuiltPlace, HasYaml
<1>6. CASE /\ cmd.at = "upgrading" /\ Goes(cmd.next)
           /\ yaml' = [yaml EXCEPT ![d] = Holding(cmd.man)]
  <2>1. cmd'.at = cmd.next /\ cmd'.man = cmd.man /\ cmd'.cwd = cmd.cwd
    BY <1>6 DEF Goes, Alike, Holds
  <2>2. cmd.next \in {"cluster", "backfill"}
          => yaml'[cmd.cwd] = Holding(cmd.man) /\ cmd.man.prov # NoProvider
    BY <1>1, <1>6 DEF ReadyInv
  <2>. QED
    BY <1>3, <2>1, <2>2 DEF ReadyInv, BuiltPlace
<1>. QED
  BY <1>4, <1>5, <1>6

\* The steps to the deployment write neither workspace.yaml nor, past the
\* credentials, context.yaml.
LEMMA PreparedStays ==
    ASSUME Ground, ReadyInv, OfLogin(cmd), DOMAIN cmd = LoginField, cmd' # NoCommand,
           \/ GetCluster \/ Backfill \/ BackfillHTTPS \/ BackfillSSH \/ WriteContext \/ Generate
           \/ CreateBucket \/ AzureGroup \/ AzureAccount \/ AzureContainer \/ ByokBucket
    PROVE  ReadyInv'
<1>1. cmd.cwd \in Dir /\ context \in [Dir -> {Absent, Torn} \union File(Credentials)]
      /\ cloud \in [group : BOOLEAN, account : BOOLEAN,
                    buckets : SUBSET (Bucket \union {DryBucket})]
  BY DEF Ground, FilesTyped, WorkspaceTypeOK, LoginsTyped, LoginTyped
<1>2. ASSUME NEW place, Goes(place)
      PROVE  cmd'.at = place /\ cmd'.man = cmd.man /\ cmd'.cwd = cmd.cwd /\ cmd'.cred = cmd.cred
  BY <1>2 DEF Goes, Alike, Holds
<1>3. CASE GetCluster
  <2>1. cmd.at = "cluster" /\ Goes("backfill") /\ yaml' = yaml
    BY <1>3, GotoMoves, Zenon DEF GetCluster, At, files
  <2>. QED
    BY <1>2, <2>1 DEF ReadyInv, BuiltPlace
<1>4. CASE Backfill
  <2>1. /\ cmd.at = "backfill" /\ context[cmd.cwd] # Torn /\ UNCHANGED <<yaml, context>>
        /\ \/ /\ context[cmd.cwd] # Absent /\ context[cmd.cwd].has # "none"
              /\ Goes("generate")
           \/ Goes("credentials")
    BY <1>4, GotoMoves, Zenon DEF Backfill, At, files
  <2>2. context[cmd.cwd] \notin {Absent, Torn} => context[cmd.cwd].is = "file"
    BY <1>1 DEF File
  <2>. QED
    BY <1>2, <2>1, <2>2 DEF ReadyInv, BuiltPlace
<1>5. CASE BackfillHTTPS \/ BackfillSSH
  <2>1. /\ cmd.at = "credentials" /\ yaml' = yaml
        /\ \E kind \in {"https", "ssh"} :
             /\ Alike /\ Holds("backfilled", cmd.man, cmd.writer, cmd.next)
             /\ cmd'.cred = kind
    BY <1>5, GotoMoves, Zenon DEF BackfillHTTPS, BackfillSSH, Ask, At
  <2>. QED
    BY <2>1 DEF Alike, Holds, ReadyInv, BuiltPlace
<1>6. CASE WriteContext
  <2>1. /\ cmd.at = "backfilled" /\ yaml' = yaml
        /\ Alike /\ Holds("generate", cmd.man, cmd.writer, cmd.next)
        /\ context' = [context EXCEPT ![cmd.cwd] = Holding(cmd.cred)]
    BY <1>6, GotoMoves, Zenon DEF WriteContext, At
  <2>2. context'[cmd.cwd] = Holding(cmd.cred)
    BY <1>1, <2>1
  <2>3. context'[cmd.cwd].is = "file" /\ context'[cmd.cwd].has = cmd.cred
    BY <2>2 DEF Holding
  <2>. QED
    BY <2>1, <2>3 DEF Alike, Holds, ReadyInv, BuiltPlace
<1>7. CASE Generate
  <2>1. cmd.at = "generate" /\ Goes("bucket") /\ UNCHANGED <<yaml, context>>
    BY <1>7, EndShape, GotoMoves, Zenon DEF Generate, At, files
  <2>. QED
    BY <1>2, <2>1 DEF ReadyInv, BuiltPlace
<1>8. CASE AzureGroup \/ AzureAccount
  <2>1. cmd.at = "bucket" /\ cmd' = cmd /\ UNCHANGED <<yaml, context>>
    BY <1>8 DEF AzureGroup, AzureAccount, At, files
  <2>. QED
    BY <2>1 DEF ReadyInv, HasYaml
<1>9. CASE CreateBucket \/ AzureContainer
  <2>1. /\ cmd.at = "bucket" /\ Goes("deploy") /\ UNCHANGED <<yaml, context>>
        /\ cmd.man.prov = "azure" => cloud.group /\ cloud.account
        /\ cloud' = [cloud EXCEPT !.buckets = cloud.buckets \union {cmd.man.bucket}]
    <3>1. Goto("deploy") => Goes("deploy")
      BY GotoMoves
    <3>. QED
      BY <1>9, <3>1 DEF CreateBucket, AzureContainer, At, files
  <2>2. /\ cmd.man.bucket \in cloud'.buckets
        /\ cloud'.group = cloud.group /\ cloud'.account = cloud.account
    BY <1>1, <2>1
  <2>. QED
    BY <1>2, <2>1, <2>2 DEF ReadyInv, BuiltPlace
<1>10. CASE ByokBucket
  <2>1. cmd.at = "bucket" /\ cmd.man.prov = "byok" /\ Goes("deploy") /\ UNCHANGED <<yaml, context>>
    BY <1>10, GotoMoves, Zenon DEF ByokBucket, At, files
  <2>. QED
    BY <1>2, <2>1 DEF ReadyInv, BuiltPlace
<1>. QED
  BY <1>3, <1>4, <1>5, <1>6, <1>7, <1>8, <1>9, <1>10

\* all of it
LEMMA ReadyStays ==
    ASSUME Ground, PathInv', ReadyInv, Next
    PROVE  ReadyInv'
<1>. DEFINE places == {"upgrade", "upgrading"} \union BuiltPlace
<1>1. places = {"upgrade", "upgrading", "cluster", "backfill", "credentials", "backfilled",
                "generate", "bucket", "deploy"}
  BY DEF BuiltPlace
<1>2. (OfLogin(cmd') /\ cmd'.at \in places) \/ ReadyInv'
  BY DEF ReadyInv, BuiltPlace
<1>. SUFFICES ASSUME OfLogin(cmd'), cmd'.at \in places PROVE ReadyInv'
  BY <1>2
<1>3. CASE WorkspaceNext
  <2>1. OfLogin(cmd) /\ DOMAIN cmd = LoginField /\ PathInv /\ cmd' # NoCommand
    BY <1>3, OtherPlaces, ShapeAt, ShapesApart DEF LoginPlace, Ground, SessionInv, OfLogin
  <2>2. CASE GetProvider
    <3>1. cmd'.at = "upgrade"
      BY <1>1, <2>1, <2>2, StepsLead DEF After
    <3>2. cmd'.next = "preflights"
      <4>1. ~\E p : Becomes([cmd EXCEPT !.at = "survey", !.man.prov = p])
        <5>1. ASSUME NEW p, Becomes([cmd EXCEPT !.at = "survey", !.man.prov = p])
              PROVE  Holds("survey", [cmd.man EXCEPT !.prov = p], cmd.writer, cmd.next)
          BY <2>1, <5>1, GotoMoves, Zenon
        <5>. QED
          BY <3>1, <5>1 DEF Holds
      <4>2. FromManifest(ProjectFile.has, "preflights")
        BY <2>2, <4>1 DEF GetProvider
      <4>3. \/ Forgets("preflights", ProjectFile.has, cmd.writer, "end")
            \/ Forgets("upgrade", [ProjectFile.has EXCEPT !.located = TRUE], cmd.writer, "preflights")
        BY <2>1, <4>2, ForgetMoves, Zenon
      <4>. QED
        BY <3>1, <4>3 DEF Forgets, Holds
    <3>. QED
      BY <3>1, <3>2 DEF ReadyInv, BuiltPlace
  <2>. QED
    BY <1>1, <1>3, <2>1, <2>2, Arrivals, BuildReady, UpgradeReady, PreparedStays
<1>4. CASE StartIdentity \/ StartWorkspace \/ StartControlPlane
  BY <1>1, <1>4, StartsAre
<1>5. CASE IdentityNext
  <2>1. /\ OfLogin(cmd) /\ cmd.at \in IdentityPlace
        /\ \/ cmd'.at \in {"me", "saving", "flush", "fill"}
           \/ cmd.at \in {"me", "fill"} /\ cmd'.at = cmd.next
    BY <1>5, IdentityMoves, ShapesApart DEF Ground
  <2>2. cmd.at \in {"me", "fill"} => cmd.next \in {"client", "end", "provider"}
    BY <2>1 DEF Ground, PathInv
  <2>. QED
    BY <1>1, <2>1, <2>2
<1>6. CASE ServicesNext
  BY <1>1, <1>6, ConsoleMoves DEF Goes, Holds, Ground
<1>7. CASE ControlPlaneNext
  <2>1. DOMAIN cmd = LoginField
    BY <1>7, PlaneMoves DEF Ground
  <2>2. FromManifest(yaml["root"].has, "render")
          => \/ Forgets("render", yaml["root"].has, cmd.writer, "end")
             \/ Forgets("upgrade", [yaml["root"].has EXCEPT !.located = TRUE], cmd.writer, "render")
    BY <2>1, ForgetMoves, Zenon
  <2>3. cmd'.at \in {"workspace", "render"} \/ (cmd'.at = "upgrade" /\ cmd'.next = "render")
    BY <1>7, <2>2, PlaneMoves DEF Ground, Forgets, Holds
  <2>. QED
    BY <1>1, <2>3 DEF ReadyInv, BuiltPlace
<1>. QED
  BY <1>3, <1>4, <1>5, <1>6, <1>7, LoginSteps DEF Ground

\* `up` deploys with what was prepared (pkg/up/generate.go, pkg/provider): in a
\* session of any length, with anything left by commands before it, a deployment
\* finds the bucket of the workspace it runs in, the storage account in its
\* group, the repository's credentials and, with --cloud, the account's console.
THEOREM SessionDeploysPrepared == Spec => []ReadyToDeploy
<1>. DEFINE Inv == Ground /\ CloudInv /\ ReadyInv
<1>1. Init => Inv
  <2>1. Init => ~OfLogin(cmd)
    BY DEF Init, OfLogin, NoCommand, LoginField
  <2>. QED
    BY <2>1, InitGround DEF CloudInv, ReadyInv
<1>2. Inv /\ [Next]_vars => Inv'
  <2>. SUFFICES ASSUME Inv, [Next]_vars PROVE Inv'
    OBVIOUS
  <2>1. Ground'
    BY NextGround
  <2>2. CASE Next
    BY <2>1, <2>2, CloudStays, ReadyStays DEF Ground
  <2>3. CASE UNCHANGED vars
    <3>1. UNCHANGED <<console, yaml, context, cloud, cmd>>
      BY <2>3 DEF vars, files, home, outside
    <3>. QED
      BY <2>1, <3>1 DEF CloudInv, ReadyInv, HasYaml
  <2>. QED
    BY <2>2, <2>3
<1>3. Inv => ReadyToDeploy
  <2>. SUFFICES ASSUME Inv, At("deploy") PROVE ReadyToDeploy
    BY DEF ReadyToDeploy
  <2>1. OfLogin(cmd) /\ cmd.at = "deploy"
    BY ShapeAt DEF At, Ground, SessionInv, LoginPlace, WorkspacePlace
  <2>2. /\ yaml[cmd.cwd] = Holding(cmd.man) /\ cmd.man.prov # NoProvider
        /\ context[cmd.cwd].is = "file" /\ context[cmd.cwd].has # "none"
        /\ cmd.man.prov # "byok" => cmd.man.bucket \in cloud.buckets
        /\ cmd.man.prov = "azure" => cloud.group /\ cloud.account
    BY <2>1 DEF ReadyInv, BuiltPlace
  <2>3. HasYaml(cmd.cwd) /\ yaml[cmd.cwd].has = cmd.man
    BY <2>2 DEF HasYaml, Holding, Absent
  <2>4. cmd.cloud => console.is = "file" /\ console.has \in Instance
    BY <2>1 DEF CloudInv, LatePlace, SetupPlace, WorkspacePlace
  <2>. QED
    BY <2>2, <2>3, <2>4 DEF ReadyToDeploy
<1>. QED
  BY <1>1, <1>2, <1>3, PTL DEF Spec
-----------------------------------------------------------------------------
(* The owner of the subdomain                                              *)

\* the subdomain of a manifest is registered for its owner
HeldBy(user, man) == man.domain /\ man.owner # NoUser => user = man.owner

HeldInv ==
    /\ \A d \in Dir : HasYaml(d) => HeldBy(holder, yaml[d].has)
    /\ OfLogin(cmd) => HeldBy(holder, cmd.man)

\* what a step of Workspace writes, and for whom it registers the subdomain
LEMMA WorkspaceWrites ==
    ASSUME WorkspaceNext
    PROVE  /\ \/ UNCHANGED yaml
              \/ \E man \in {EmptyManifest, cmd.man} :
                   yaml' = [yaml EXCEPT ![ProjectDir(cmd.cwd)] = Holding(man)]
           /\ holder' = holder \/ MayHold(holder')
<1>1. CASE \/ InitPluralClient \/ ChoseCluster \/ ValidateConsoleConfig \/ Preflight
           \/ EnsureWorkspace \/ GetProvider
  BY <1>1 DEF InitPluralClient, ChoseCluster, ValidateConsoleConfig, Preflight, EnsureWorkspace,
     GetProvider, FromManifest, files, outside
<1>2. CASE Survey \/ RunPreflights
  <2>1. \A man : Configure(man) => UNCHANGED yaml /\ (holder' = holder \/ MayHold(holder'))
    BY DEF Configure, files, outside
  <2>. QED
    BY <1>2, <2>1 DEF Survey, SurveyDry, SurveyAws, SurveyGcp, SurveyAzure, SurveyByok,
       RunPreflights, files, outside
<1>3. CASE GithubSetup \/ GitlabSetup \/ BitbucketSetup \/ Clone \/ BuildContext
  BY <1>3 DEF GithubSetup, GitlabSetup, BitbucketSetup, CreateRepository, AddDeployKey, Clone,
     BuildContext, files, outside
<1>4. CASE UpgradeManifest \/ FlushProvider \/ WriteManifest \/ AskAppDomain \/ Build
  BY <1>4 DEF UpgradeManifest, FlushProvider, WriteManifest, AskAppDomain, Build, FromManifest,
     files, outside
<1>5. CASE \/ GetCluster \/ Backfill \/ BackfillHTTPS \/ BackfillSSH \/ WriteContext \/ Generate
           \/ CreateBucket \/ AzureGroup \/ AzureAccount \/ AzureContainer \/ ByokBucket \/ Deployed
  BY <1>5 DEF GetCluster, Backfill, BackfillHTTPS, BackfillSSH, Ask, WriteContext, Generate,
     CreateBucket, AzureGroup, AzureAccount, AzureContainer, ByokBucket, Deployed, files, outside
<1>. QED
  BY <1>1, <1>2, <1>3, <1>4, <1>5 DEF WorkspaceNext

\* Who has the subdomain keeps it.
LEMMA HolderStays ==
    ASSUME holder' = holder \/ MayHold(holder'), NEW man, HeldBy(holder, man)
    PROVE  HeldBy(holder', man)
  BY DEF MayHold, HeldBy

\* What a survey finds is registered for the user who is surveyed.
LEMMA SurveyHolds ==
    ASSUME Ground, OfLogin(cmd), DOMAIN cmd = LoginField, HeldBy(holder, cmd.man), Survey
    PROVE  HeldBy(holder', cmd'.man)
<1>1. /\ LoginTyped(cmd) /\ Read \in Logins
      /\ cmd.man.prov \in Provider \union {NoProvider}
  BY ReadTyped, ManifestsAre DEF Ground, LoginsTyped, LoginTyped
<1>2. holder' = holder \/ MayHold(holder')
  BY WorkspaceWrites DEF WorkspaceNext
<1>3. ASSUME NEW man, Surveyed(man) PROVE cmd'.man = man
  BY <1>3, ForgetMoves, Zenon DEF Forgets, Holds
<1>4. Unanswered => cmd'.man = cmd.man
  BY ForgetMoves, Zenon DEF Forgets, Holds
<1>5. ASSUME NEW man \in Manifest, Configure(man), ~man.domain, man.owner = Read.email
      PROVE  HeldBy(holder', cmd'.man)
  <2>1. CASE \E b \in Bucket : Surveyed([man EXCEPT !.bucket = b])
    <3>1. PICK b \in Bucket : Surveyed([man EXCEPT !.bucket = b])
      BY <2>1
    <3>2. ~[man EXCEPT !.bucket = b].domain
      BY <1>5, ManifestsAre
    <3>. QED
      BY <1>3, <3>1, <3>2 DEF HeldBy
  <2>2. CASE holder' = Read.token
             /\ \E b \in Bucket : Surveyed([man EXCEPT !.bucket = b, !.domain = TRUE])
    <3>1. PICK b \in Bucket : Surveyed([man EXCEPT !.bucket = b, !.domain = TRUE])
      BY <2>2
    <3>2. [man EXCEPT !.bucket = b, !.domain = TRUE].owner = Read.email
      BY <1>5, ManifestsAre
    <3>3. Read.email \in {NoUser, Read.token}
      BY <1>1, LoginsAre
    <3>. QED
      BY <1>3, <2>2, <3>1, <3>2, <3>3 DEF HeldBy
  <2>3. CASE Unanswered
    BY <1>2, <1>4, <2>3, HolderStays
  <2>. QED
    BY <1>5, <2>1, <2>2, <2>3, Zenon DEF Configure
<1>6. CASE SurveyDry
  <2>1. cmd'.man = DryManifest(cmd.man.prov)
    BY <1>3, <1>6, Zenon DEF SurveyDry
  <2>. QED
    BY <1>1, <2>1, SurveysTyped DEF HeldBy
<1>7. CASE SurveyByok
  <2>1. cmd'.man = Fresh("byok", FALSE)
    BY <1>3, <1>7, Zenon DEF SurveyByok
  <2>2. ~Fresh("byok", FALSE).domain
    BY <1>1, SurveysTyped DEF Provider
  <2>. QED
    BY <2>1, <2>2 DEF HeldBy
<1>8. CASE SurveyAws \/ SurveyGcp \/ SurveyAzure
  <2>1. PICK p \in Provider, account \in BOOLEAN : Configure(Fresh(p, account))
    BY <1>8 DEF SurveyAws, SurveyGcp, SurveyAzure, AskAzure, Provider
  <2>2. /\ Fresh(p, account) \in Manifest /\ ~Fresh(p, account).domain
        /\ Fresh(p, account).owner = Read.email
    BY <1>1, SurveysTyped
  <2>. QED
    BY <1>5, <2>1, <2>2
<1>. QED
  BY <1>6, <1>7, <1>8 DEF Survey

\* The manifest that a command has is held as well, wherever it comes from.
LEMMA ManHolds ==
    ASSUME Ground, HeldInv, WorkspaceNext, OfLogin(cmd')
    PROVE  HeldBy(holder', cmd'.man)
<1>1. OfLogin(cmd) /\ DOMAIN cmd = LoginField /\ cmd' # NoCommand
  BY OtherPlaces, ShapeAt, ShapesApart DEF LoginPlace, Ground, SessionInv, OfLogin
<1>2. LoginTyped(cmd) /\ cmd.man \in Manifests /\ HeldBy(holder, cmd.man)
  BY <1>1 DEF Ground, LoginsTyped, LoginTyped, HeldInv
<1>3. holder' = holder \/ MayHold(holder')
  BY WorkspaceWrites
<1>4. /\ HeldBy(holder', EmptyManifest) /\ HeldBy(holder', cmd.man)
      /\ \A d \in Dir : HasYaml(d) => HeldBy(holder', yaml[d].has)
  BY <1>2, <1>3, HolderStays, ManifestsAre DEF HeldBy, HeldInv
<1>5. /\ ProjectDir(cmd.cwd) \in Dir /\ cmd.cwd \in Dir
      /\ \A d \in Dir : HasYaml(d) => yaml[d].has \in Manifests
  BY <1>2, NearestIs, ProjectDirNearest DEF LoginTyped, HasYaml, Ground, FilesTyped, File
<1>6. ASSUME NEW d \in Dir, HasYaml(d), NEW place, FromManifest(yaml[d].has, place)
      PROVE  HeldBy(holder', cmd'.man)
  <2>. DEFINE man == yaml[d].has
  <2>1. man \in Manifests /\ HeldBy(holder', man)
    BY <1>4, <1>5, <1>6
  <2>2. \/ Forgets(place, man, cmd.writer, "end")
        \/ Forgets("upgrade", [man EXCEPT !.located = TRUE], cmd.writer, place)
    BY <1>1, <1>6, ForgetMoves, Zenon
  <2>. HIDE DEF man
  <2>3. HeldBy(holder', [man EXCEPT !.located = TRUE])
    BY <2>1, ManifestsAre DEF HeldBy
  <2>. QED
    BY <2>1, <2>2, <2>3 DEF Forgets, Holds
<1>7. ASSUME NEW place, NEW writer, NEW next,
             \/ Holds(place, cmd.man, writer, next) \/ Forgets(place, cmd.man, writer, next)
             \/ Holds(place, EmptyManifest, writer, next)
             \/ Forgets(place, EmptyManifest, writer, next)
      PROVE  HeldBy(holder', cmd'.man)
  BY <1>4, <1>7 DEF Forgets, Holds
<1>8. ASSUME NEW place, Goto(place) PROVE HeldBy(holder', cmd'.man)
  BY <1>1, <1>7, <1>8, GotoMoves DEF Goes
<1>9. CASE InitPluralClient
  <2>1. Holds(ClientFor, cmd.man, cmd.writer, cmd.next)
    BY <1>1, <1>9, ClientMoves
  <2>. QED
    BY <1>7, <2>1
<1>10. CASE ChoseCluster \/ ValidateConsoleConfig \/ Preflight
  <2>1. \E place : Goto(place) \/ \E next : Holds(place, cmd.man, cmd.writer, next)
    BY <1>1, <1>10, GotoMoves, Zenon DEF ChoseCluster, ValidateConsoleConfig, Preflight
  <2>. QED
    BY <1>7, <1>8, <2>1, Zenon
<1>11. CASE EnsureWorkspace
  <2>1. cmd'.man = ProjectFile.has
    <3>1. Forgets("write", ProjectFile.has, TRUE, "end")
      BY <1>1, <1>11, ForgetMoves, Zenon DEF EnsureWorkspace
    <3>. QED
      BY <3>1 DEF Forgets, Holds
  <2>2. HasYaml(ProjectDir(cmd.cwd))
    BY <1>1, <1>11 DEF EnsureWorkspace, At, Ground, FoundInv
  <2>. QED
    BY <1>4, <1>5, <2>1, <2>2 DEF ProjectFile
<1>12. CASE GetProvider
  <2>1. CASE ProjectFile # Absent /\ FromManifest(ProjectFile.has, "preflights")
    BY <1>5, <1>6, <2>1 DEF ProjectFile, HasYaml
  <2>2. CASE \E p \in Provider : Becomes([cmd EXCEPT !.at = "survey", !.man.prov = p])
    <3>1. PICK p \in Provider : Becomes([cmd EXCEPT !.at = "survey", !.man.prov = p])
      BY <2>2
    <3>2. Holds("survey", [cmd.man EXCEPT !.prov = p], cmd.writer, cmd.next)
      BY <1>1, <3>1, GotoMoves, Zenon
    <3>3. HeldBy(holder', [cmd.man EXCEPT !.prov = p])
      BY <1>2, <1>4, ManifestsAre DEF HeldBy
    <3>. QED
      BY <3>2, <3>3 DEF Holds
  <2>. QED
    BY <1>12, <2>1, <2>2 DEF GetProvider
<1>13. CASE Survey
  BY <1>1, <1>2, <1>13, SurveyHolds
<1>14. CASE RunPreflights
  <2>1. \E place : Forgets(place, cmd.man, cmd.writer, "end")
    BY <1>1, <1>14, ForgetMoves, Zenon DEF RunPreflights
  <2>. QED
    BY <1>7, <2>1
<1>15. CASE UpgradeManifest \/ GithubSetup \/ GitlabSetup \/ BitbucketSetup \/ BuildContext
  BY <1>8, <1>15, Zenon DEF UpgradeManifest, GithubSetup, GitlabSetup, BitbucketSetup,
     CreateRepository, AddDeployKey, BuildContext
<1>16. CASE Clone
  BY <1>1, <1>7, <1>16, CloneMoves
<1>17. CASE FlushProvider \/ WriteManifest
  <2>1. ASSUME NEW place, Leave(place) PROVE HeldBy(holder', cmd'.man)
    <3>1. Forgets(place, EmptyManifest, FALSE, "end")
      BY <1>1, <2>1, ForgetMoves, Zenon
    <3>. QED
      BY <1>7, <3>1
  <2>. QED
    BY <1>8, <1>17, <2>1, Zenon DEF FlushProvider, WriteManifest
<1>18. CASE AskAppDomain
  <2>1. \/ Goto("build")
        \/ /\ At("domain")
           /\ Becomes([cmd EXCEPT !.man = yaml[ProjectDir(cmd.cwd)].has, !.at = "naming"])
        \/ Becomes([cmd EXCEPT !.at = "build", !.man = EmptyManifest])
    BY <1>18, Zenon DEF AskAppDomain
  <2>2. CASE /\ At("domain")
             /\ Becomes([cmd EXCEPT !.man = yaml[ProjectDir(cmd.cwd)].has, !.at = "naming"])
    <3>1. Holds("naming", yaml[ProjectDir(cmd.cwd)].has, cmd.writer, cmd.next)
      BY <1>1, <2>2, GotoMoves, Zenon
    <3>2. HasYaml(ProjectDir(cmd.cwd))
      BY <1>1, <2>2 DEF At, Ground, FoundInv
    <3>. QED
      BY <1>4, <1>5, <3>1, <3>2 DEF Holds
  <2>3. CASE Becomes([cmd EXCEPT !.at = "build", !.man = EmptyManifest])
    <3>1. Holds("build", EmptyManifest, cmd.writer, cmd.next)
      BY <1>1, <2>3, GotoMoves, Zenon
    <3>. QED
      BY <1>7, <3>1
  <2>. QED
    BY <1>8, <2>1, <2>2, <2>3
<1>19. CASE Build
  <2>1. HasYaml(cmd.cwd) /\ \E place : FromManifest(yaml[cmd.cwd].has, place)
    BY <1>19, Zenon DEF Build
  <2>. QED
    BY <1>5, <1>6, <2>1, Zenon
<1>20. CASE GetCluster \/ Backfill \/ Generate \/ CreateBucket \/ AzureContainer \/ ByokBucket
            \/ Deployed
  <2>1. End => FALSE
    BY <1>1, EndShape
  <2>. QED
    BY <1>8, <1>20, <2>1, Zenon DEF GetCluster, Backfill, Generate, CreateBucket, AzureContainer,
       ByokBucket, Deployed
<1>21. CASE BackfillHTTPS \/ BackfillSSH \/ WriteContext
  <2>1. \E place : Holds(place, cmd.man, cmd.writer, cmd.next)
    BY <1>1, <1>21, GotoMoves, Zenon DEF BackfillHTTPS, BackfillSSH, Ask, WriteContext
  <2>. QED
    BY <1>7, <2>1
<1>22. CASE AzureGroup \/ AzureAccount
  BY <1>4, <1>22 DEF AzureGroup, AzureAccount
<1>. QED
  BY <1>9, <1>10, <1>11, <1>12, <1>13, <1>14, <1>15, <1>16, <1>17, <1>18, <1>19, <1>20, <1>21,
     <1>22 DEF WorkspaceNext

\* in every step of a session
LEMMA HeldStays ==
    ASSUME Ground, HeldInv, Next
    PROVE  HeldInv'
<1>1. /\ DOMAIN yaml = Dir /\ HeldBy(holder, EmptyManifest) /\ HeldBy(holder', EmptyManifest)
      /\ Holding(EmptyManifest).has = EmptyManifest
  BY ManifestsAre DEF Ground, FilesTyped, HeldBy, Holding
<1>2. UNCHANGED <<yaml, holder>> => \A d \in Dir : HasYaml(d)' => HeldBy(holder, yaml[d].has)'
  BY DEF HeldInv, HasYaml
<1>3. CASE WorkspaceNext /\ UNCHANGED side
  <2>1. OfLogin(cmd) /\ cmd.cwd \in Dir /\ ProjectDir(cmd.cwd) \in Dir
    BY <1>3, OtherPlaces, ShapeAt, NearestIs, ProjectDirNearest
       DEF LoginPlace, Ground, SessionInv, LoginsTyped, LoginTyped
  <2>2. holder' = holder \/ MayHold(holder')
    BY <1>3, WorkspaceWrites
  <2>3. /\ HeldBy(holder', cmd.man) /\ Holding(cmd.man).has = cmd.man
        /\ \A d \in Dir : HasYaml(d) => HeldBy(holder', yaml[d].has)
    BY <2>1, <2>2, HolderStays DEF HeldInv, Holding
  <2>4. ASSUME NEW d \in Dir, HasYaml(d)' PROVE HeldBy(holder', yaml'[d].has)
    <3>1. CASE yaml' = yaml
      BY <2>3, <2>4, <3>1 DEF HasYaml
    <3>2. CASE \E man \in {EmptyManifest, cmd.man} :
                 yaml' = [yaml EXCEPT ![ProjectDir(cmd.cwd)] = Holding(man)]
      <4>1. PICK man \in {EmptyManifest, cmd.man} :
                 yaml' = [yaml EXCEPT ![ProjectDir(cmd.cwd)] = Holding(man)]
        BY <3>2
      <4>2. CASE d = ProjectDir(cmd.cwd)
        BY <1>1, <2>1, <2>3, <4>1, <4>2
      <4>3. CASE d # ProjectDir(cmd.cwd)
        <5>1. yaml'[d] = yaml[d]
          BY <1>1, <2>1, <4>1, <4>3
        <5>. QED
          BY <2>3, <2>4, <5>1 DEF HasYaml
      <4>. QED
        BY <4>2, <4>3
    <3>. QED
      BY <1>3, <3>1, <3>2, WorkspaceWrites
  <2>. QED
    BY <1>3, <2>4, ManHolds DEF HeldInv
<1>4. CASE PullRequestNext /\ UNCHANGED <<outside, onConsole, edge, plane>>
  <2>1. ~OfLogin(cmd') /\ holder' = holder
    BY <1>4, AppliesStays, ShapesApart DEF Applies, outside
  <2>2. /\ cmd.cwd \in Dir
        /\ \/ yaml' = yaml
           \/ yaml' = [yaml EXCEPT ![cmd.cwd] = Holding(EmptyManifest)]
           \/ yaml' = [yaml EXCEPT ![cmd.cwd] = Absent]
    BY <1>4, AutomationsWrite DEF Ground, SessionInv
  <2>3. ASSUME NEW d \in Dir, HasYaml(d)' PROVE HeldBy(holder, yaml'[d].has)
    <3>1. yaml'[d] \in {yaml[d], Holding(EmptyManifest), Absent}
      BY <1>1, <2>2
    <3>2. CASE yaml'[d] = yaml[d]
      BY <2>3, <3>2 DEF HasYaml, HeldInv
    <3>3. CASE yaml'[d] = Holding(EmptyManifest)
      BY <1>1, <3>3
    <3>. QED
      BY <2>3, <3>1, <3>2, <3>3 DEF HasYaml
  <2>. QED
    BY <2>1, <2>3 DEF HeldInv
<1>5. ASSUME UNCHANGED <<yaml, holder>>, OfLogin(cmd') => HeldBy(holder, cmd'.man)
      PROVE  HeldInv'
  BY <1>2, <1>5 DEF HeldInv
<1>6. CASE \/ StartServices \/ StartPullRequest \/ StartEdge \/ Abort
  <2>1. ~OfLogin(cmd')
    BY <1>6, StartsShape, AppliesStays, EndShape, ShapesApart DEF Applies, Abort
  <2>2. CASE UNCHANGED <<yaml, holder>>
    BY <1>5, <2>1, <2>2
  <2>. QED
    BY <1>3, <1>4, <1>6, <2>1, <2>2, OthersWritesAre DEF Next, Abort, files, outside
<1>7. CASE StartIdentity \/ StartWorkspace \/ StartControlPlane
  <2>1. cmd'.man = EmptyManifest
    BY <1>7, StartsAre
  <2>2. CASE UNCHANGED <<yaml, holder>>
    BY <1>1, <1>5, <2>1, <2>2
  <2>. QED
    BY <1>3, <1>4, <2>2, OthersWritesAre DEF Next, Abort, files, outside
<1>8. CASE IdentityNext /\ UNCHANGED <<outside, side>>
  <2>1. OfLogin(cmd) /\ (OfLogin(cmd') => cmd'.man = cmd.man)
    BY <1>8, IdentityMoves, ShapesApart DEF Holds, Ground
  <2>. QED
    BY <1>5, <1>8, <2>1, OthersWritesAre DEF outside, HeldInv
<1>9. CASE ServicesNext /\ UNCHANGED <<outside, tree, edge, plane>>
  <2>1. OfLogin(cmd') => OfLogin(cmd) /\ cmd'.man = cmd.man
    BY <1>9, ConsoleMoves DEF Goes, Holds, Ground
  <2>. QED
    BY <1>5, <1>9, <2>1, OthersWritesAre DEF outside, HeldInv
<1>10. CASE EdgeNext /\ UNCHANGED <<outside, tree, plane>>
  BY <1>5, <1>10, EdgeShape, ShapesApart, OthersWritesAre DEF Ground, SessionInv, outside, files
<1>11. CASE ControlPlaneNext /\ UNCHANGED <<onConsole, tree, edge>>
  <2>1. ASSUME OfLogin(cmd') PROVE HeldBy(holder, cmd'.man)
    <3>1. OfLogin(cmd) /\ DOMAIN cmd = LoginField
      BY <1>11, <2>1, PlaneMoves DEF Ground
    <3>2. CASE Holds("workspace", cmd.man, cmd.writer, cmd.next)
      BY <3>1, <3>2 DEF Holds, HeldInv
    <3>3. CASE HasYaml("root") /\ FromManifest(yaml["root"].has, "render")
      <4>. DEFINE man == yaml["root"].has
      <4>1. man \in Manifests /\ HeldBy(holder, man)
        BY <3>3 DEF HasYaml, Ground, FilesTyped, File, Dir, HeldInv
      <4>2. \/ Forgets("render", man, cmd.writer, "end")
            \/ Forgets("upgrade", [man EXCEPT !.located = TRUE], cmd.writer, "render")
        BY <3>1, <3>3, ForgetMoves, Zenon
      <4>. HIDE DEF man
      <4>3. HeldBy(holder, [man EXCEPT !.located = TRUE])
        BY <4>1, ManifestsAre DEF HeldBy
      <4>. QED
        BY <4>1, <4>2, <4>3 DEF Forgets, Holds
    <3>. QED
      BY <1>11, <2>1, <3>2, <3>3, PlaneMoves DEF Ground
  <2>. QED
    BY <1>5, <1>11, <2>1, OthersWritesAre DEF outside, files
<1>. QED
  BY <1>3, <1>4, <1>6, <1>7, <1>8, <1>9, <1>10, <1>11 DEF Next

\* between the making of the client and its use
ClientPlace == {"choose", "console login", "save console", "validate", "preflight", "ensure"}

\* The client of a command in a workspace speaks for the owner, or for nobody.
ClientInv == OfLogin(cmd) /\ cmd.at \in ClientPlace =>
    (ProjectFile # Absent /\ ConfigFile # Absent /\ ProjectFile.has.prov # NoProvider
       => \/ cmd.client \in {ProjectFile.has.owner, NoUser}
          \/ ProjectFile.has.owner = NoUser)

LEMMA ClientStays ==
    ASSUME Ground, ClientInv, Next
    PROVE  ClientInv'
<1>. SUFFICES ASSUME OfLogin(cmd'), cmd'.at \in ClientPlace PROVE ClientInv'
  BY DEF ClientInv
<1>1. /\ SetupPlace = {"choose", "validate", "preflight", "ensure", "provider", "survey",
                       "preflights", "repo", "github key", "gitlab key", "bitbucket key",
                       "readme", "clone", "context", "contexting", "manifest", "write",
                       "written", "domain", "naming", "build", "cluster", "backfill",
                       "credentials", "backfilled", "generate", "bucket", "deploy"}
  BY DEF SetupPlace, WorkspacePlace
<1>2. ASSUME OfLogin(cmd), cmd.at \in ClientPlace, UNCHANGED <<config, profile, yaml>>,
             cmd'.cwd = cmd.cwd, cmd'.pf = cmd.pf, cmd'.client = cmd.client
      PROVE  ClientInv'
  <2>1. ProjectFile' = ProjectFile
    BY <1>2 DEF ProjectFile, ProjectDir, HasYaml
  <2>2. ConfigFile' = ConfigFile
    BY <1>2 DEF ConfigFile
  <2>. QED
    BY <1>2, <2>1, <2>2 DEF ClientInv
<1>3. CASE WorkspaceNext
  <2>1. OfLogin(cmd) /\ DOMAIN cmd = LoginField /\ PathInv /\ cmd' # NoCommand
    BY <1>3, OtherPlaces, ShapeAt, ShapesApart DEF LoginPlace, Ground, SessionInv, OfLogin
  <2>2. CASE InitPluralClient
    <3>1. LoginTyped(cmd) /\ Read \in Logins
      BY <2>1, ReadTyped DEF Ground, LoginsTyped
    <3>2. /\ cmd'.cwd = cmd.cwd /\ cmd'.pf = cmd.pf /\ UNCHANGED <<config, profile, yaml>>
          /\ \/ cmd'.client = ProjectFile.has.owner
             \/ /\ cmd'.client = Read.token
                /\ ProjectFile # Absent /\ ConfigFile # Absent
                     /\ ProjectFile.has.prov # NoProvider => Read.email = ProjectFile.has.owner
      BY <2>1, <2>2, ClientMoves DEF Alike, Holds, files, home
    <3>3. ProjectFile' = ProjectFile
      BY <3>2 DEF ProjectFile, ProjectDir, HasYaml
    <3>4. ConfigFile' = ConfigFile
      BY <3>2 DEF ConfigFile
    <3>5. Read.email \in {NoUser, Read.token}
      BY <3>1, LoginsAre
    <3>. QED
      BY <3>2, <3>3, <3>4, <3>5 DEF ClientInv
  <2>3. CASE ChoseCluster \/ ValidateConsoleConfig \/ Preflight
    <3>1. cmd.at \in ClientPlace /\ UNCHANGED <<config, profile, yaml>>
      BY <2>3 DEF ChoseCluster, ValidateConsoleConfig, Preflight, At, ClientPlace, files, home
    <3>2. Alike /\ Speaks
      BY <2>1, <2>3, GotoMoves, Zenon DEF ChoseCluster, ValidateConsoleConfig, Preflight, Goes
    <3>. QED
      BY <1>2, <2>1, <3>1, <3>2 DEF Alike, Speaks
  <2>4. CASE UpgradeManifest
    <3>1. cmd.next \in {"preflights", "cluster", "backfill", "render"}
      BY <2>1, <2>4 DEF PathInv, UpgradeManifest, At, Forward
    <3>. QED
      BY <2>1, <2>4, <3>1, StepsLead DEF After, ClientPlace
  <2>5. CASE ~InitPluralClient /\ ~ChoseCluster /\ ~ValidateConsoleConfig /\ ~Preflight
             /\ ~UpgradeManifest
    BY <1>3, <2>1, <2>5, StepsLead DEF WorkspaceNext, After, ClientPlace
  <2>. QED
    BY <2>2, <2>3, <2>4, <2>5
<1>4. CASE StartIdentity \/ StartWorkspace \/ StartControlPlane
  BY <1>4, StartsAre DEF ClientPlace
<1>5. CASE IdentityNext
  <2>1. /\ OfLogin(cmd) /\ cmd.at \in IdentityPlace
        /\ \/ cmd'.at \in {"me", "saving", "flush", "fill"}
           \/ cmd.at \in {"me", "fill"} /\ cmd'.at = cmd.next
    BY <1>5, IdentityMoves, ShapesApart DEF Ground
  <2>2. cmd.at \in {"me", "fill"} => cmd.next \in {"client", "end", "provider"}
    BY <2>1 DEF Ground, PathInv
  <2>. QED
    BY <2>1, <2>2 DEF ClientPlace
<1>6. CASE ServicesNext
  <2>1. /\ OfLogin(cmd) /\ cmd.at \in ClientPlace
        /\ cmd'.cwd = cmd.cwd /\ cmd'.pf = cmd.pf /\ cmd'.client = cmd.client
    BY <1>6, ConsoleMoves DEF Ground, Goes, Alike, Speaks, SharedPlace, ClientPlace
  <2>. QED
    BY <1>2, <1>6, <2>1, OthersWritesAre
<1>7. CASE ControlPlaneNext
  <2>1. DOMAIN cmd = LoginField
    BY <1>7, PlaneMoves DEF Ground
  <2>2. FromManifest(yaml["root"].has, "render")
          => \/ Forgets("render", yaml["root"].has, cmd.writer, "end")
             \/ Forgets("upgrade", [yaml["root"].has EXCEPT !.located = TRUE], cmd.writer, "render")
    BY <2>1, ForgetMoves, Zenon
  <2>3. cmd'.at \in {"workspace", "render", "upgrade"}
    BY <1>7, <2>2, PlaneMoves DEF Ground, Forgets, Holds
  <2>. QED
    BY <2>3 DEF ClientPlace
<1>. QED
  BY <1>3, <1>4, <1>5, <1>6, <1>7, LoginSteps DEF Ground

\* The subdomain of a workspace is registered for its owner
\* (pkg/provider/provider.go, pkg/config/profile.go, cmd/command/init): in sessions
\* of any length and of any users, it never passes to another user, and whoever
\* sets the workspace up again registers it as its owner.
THEOREM SessionDomainIsOwners == Spec => []DomainIsOwners
<1>. DEFINE Inv == Ground /\ HeldInv /\ ClientInv
<1>1. Init => Inv
  <2>. SUFFICES ASSUME Init PROVE Inv
    OBVIOUS
  <2>1. ~OfLogin(cmd)
    BY DEF Init, OfLogin, NoCommand, LoginField
  <2>2. \A d \in Dir : HasYaml(d) => HeldBy(holder, yaml[d].has)
    <3>1. CASE Unset
      BY <3>1 DEF Unset, HasYaml
    <3>2. CASE Teammate
      <4>1. PICK r \in Robot, b \in Bucket :
             /\ holder = r
             /\ yaml = [[d \in Dir |-> Absent] EXCEPT !["root"] = Holding(
                  [prov |-> "gcp", owner |-> r, full |-> TRUE, bucket |-> b,
                   account |-> FALSE, located |-> FALSE, domain |-> TRUE])]
        BY <3>2 DEF Teammate
      <4>2. \A d \in Dir : HasYaml(d) => yaml[d].has.owner = r
        BY <4>1 DEF HasYaml, Holding
      <4>. QED
        BY <4>1, <4>2 DEF HeldBy
    <3>. QED
      BY <3>1, <3>2 DEF Init, Nothing, Token, Connected
  <2>. QED
    BY <2>1, <2>2, InitGround DEF HeldInv, ClientInv
<1>2. Inv /\ [Next]_vars => Inv'
  <2>. SUFFICES ASSUME Inv, [Next]_vars PROVE Inv'
    OBVIOUS
  <2>1. Ground'
    BY NextGround
  <2>2. CASE Next
    BY <2>1, <2>2, HeldStays, ClientStays
  <2>3. CASE UNCHANGED vars
    <3>1. UNCHANGED <<config, profile, yaml, holder, cmd>>
      BY <2>3 DEF vars, files, home, outside
    <3>2. ProjectFile' = ProjectFile /\ ConfigFile' = ConfigFile
      BY <3>1 DEF ProjectFile, ProjectDir, HasYaml, ConfigFile
    <3>. QED
      BY <2>1, <3>1, <3>2 DEF HeldInv, ClientInv, HasYaml
  <2>. QED
    BY <2>2, <2>3
<1>3. Inv => DomainIsOwners
  <2>. SUFFICES ASSUME Inv PROVE DomainIsOwners
    OBVIOUS
  <2>1. \A d \in Dir : HasYaml(d) /\ yaml[d].has.domain /\ yaml[d].has.owner # NoUser
          => holder = yaml[d].has.owner
    BY DEF HeldInv, HeldBy
  <2>2. ASSUME At("ensure"), ProjectFile.has.prov # NoProvider, ConfigFile # Absent
        PROVE  \/ cmd.client \in {ProjectFile.has.owner, NoUser}
               \/ ProjectFile.has.owner = NoUser
    <3>1. OfLogin(cmd) /\ cmd.at = "ensure"
      BY <2>2, ShapeAt DEF At, Ground, SessionInv, LoginPlace, WorkspacePlace
    <3>2. ProjectFile # Absent
      BY <3>1 DEF Ground, FoundInv, HasYaml, ProjectFile
    <3>. QED
      BY <2>2, <3>1, <3>2 DEF ClientInv, ClientPlace
  <2>. QED
    BY <2>1, <2>2 DEF DomainIsOwners
<1>. QED
  BY <1>1, <1>2, <1>3, PTL DEF Spec
-----------------------------------------------------------------------------
(* The types of everything                                                 *)

\* Commands are counted when they are started.
CountInv == started \in 0..MaxCommands /\ (Running => started \in Run)

\* A command that goes on does not count.
LEMMA CountStays ==
    /\ IdentityNext \/ WorkspaceNext \/ ServicesNext => UNCHANGED started
    /\ PullRequestNext \/ EdgeNext \/ ControlPlaneNext \/ Abort => UNCHANGED started
<1>1. /\ \A c : Becomes(c) => UNCHANGED started
      /\ \A place : Goto(place) => UNCHANGED started
      /\ End => UNCHANGED started
  BY DEF Becomes, Goto, End
<1>2. CASE IdentityNext
  BY <1>1, <1>2 DEF IdentityNext, HandleLogin, PostLogin, Flush, Filled, UseProfile, SaveProfile,
     Amend, FromToken, OidcToken, ImportHome, Store
<1>3. CASE ServicesNext
  BY <1>1, <1>3 DEF ServicesNext, HandleCdLogin, SaveConsole, InitConsoleClient,
     GetClusterService, CreateService, UpdateService, CloneService, DeleteService, KickService,
     OthersWrite, Put, Proceed
<1>4. CASE PullRequestNext
  BY <1>1, <1>4 DEF PullRequestNext, CopyTemplates, BuildCRD, Configuration, ApplyVendoring,
     ApplyCreates, Skips, RegexReplacements, YamlOverlays, UpdateMatches, ApplyDeletes, ReplaceTo
<1>5. CASE EdgeNext
  BY <1>1, <1>5 DEF EdgeNext, WriteCloudConfig, CreateVolume, Unpack, BuildImage, SaveImage,
     FailImage, CleanUp
<1>6. CASE ControlPlaneNext
  BY <1>1, <1>6 DEF ControlPlaneNext, CreateControlPlane, ReadsWorkspace, FromManifest,
     ControlPlaneValues, EnsureInstalled, SetupOIDC, OthersBind, WriteValues, Installing
<1>7. CASE Abort
  BY <1>1, <1>7 DEF Abort
<1>8. CASE WorkspaceNext
  <2>1. /\ \A man : Surveyed(man) => UNCHANGED started
        /\ \A man : Configure(man) => UNCHANGED started
        /\ \A man, place : FromManifest(man, place) => UNCHANGED started
        /\ \A place : Leave(place) => UNCHANGED started
    BY <1>1 DEF Surveyed, Unanswered, Configure, FromManifest, Leave
  <2>2. CASE \/ InitPluralClient \/ ChoseCluster \/ ValidateConsoleConfig \/ Preflight
             \/ EnsureWorkspace \/ GetProvider \/ UpgradeManifest
    BY <1>1, <2>1, <2>2 DEF InitPluralClient, ChoseCluster, ValidateConsoleConfig, Preflight,
       EnsureWorkspace, GetProvider, UpgradeManifest
  <2>3. CASE Survey \/ RunPreflights
    BY <1>1, <2>1, <2>3 DEF Survey, SurveyDry, SurveyAws, SurveyGcp, SurveyAzure, AskAzure,
       SurveyByok, RunPreflights
  <2>4. CASE GithubSetup \/ GitlabSetup \/ BitbucketSetup \/ Clone \/ BuildContext
    BY <1>1, <2>4 DEF GithubSetup, GitlabSetup, BitbucketSetup, CreateRepository, AddDeployKey,
       Clone, BuildContext
  <2>5. CASE FlushProvider \/ WriteManifest \/ AskAppDomain \/ Build
    BY <1>1, <2>1, <2>5 DEF FlushProvider, WriteManifest, AskAppDomain, Build
  <2>6. CASE \/ GetCluster \/ Backfill \/ BackfillHTTPS \/ BackfillSSH \/ WriteContext \/ Generate
             \/ CreateBucket \/ AzureGroup \/ AzureAccount \/ AzureContainer \/ ByokBucket \/ Deployed
    BY <1>1, <2>1, <2>6 DEF GetCluster, Backfill, BackfillHTTPS, BackfillSSH, Ask, WriteContext,
       Generate, CreateBucket, AzureGroup, AzureAccount, AzureContainer, ByokBucket, Deployed
  <2>. QED
    BY <1>8, <2>2, <2>3, <2>4, <2>5, <2>6 DEF WorkspaceNext
<1>. QED
  BY <1>2, <1>3, <1>4, <1>5, <1>6, <1>7, <1>8

\* A step is one of a command that runs, or starts one.
LEMMA StepsCount ==
    ASSUME SessionInv, Next
    PROVE  \/ Running /\ UNCHANGED started
           \/ started < MaxCommands /\ started' = started + 1
<1>1. ~Running => cmd.at = "none" /\ "todo" \notin DOMAIN cmd
  BY DEF Running, NoCommand
<1>2. "none" \notin OtherPlace
  BY DEF OtherPlace, IdentityPlace, WorkspacePlace, ServicesPlace, EdgePlace, PlanePlace
<1>3. CASE IdentityNext \/ WorkspaceNext \/ ServicesNext \/ EdgeNext \/ ControlPlaneNext
  BY <1>1, <1>2, <1>3, OtherPlaces, CountStays DEF OtherPlace
<1>4. CASE PullRequestNext \/ Abort
  BY <1>1, <1>4, CountStays DEF PullRequestNext, Applies, Abort
<1>5. \A c : Start(c) => started < MaxCommands /\ started' = started + 1
  BY DEF Start
<1>6. CASE StartServices \/ StartPullRequest \/ StartEdge
  BY <1>5, <1>6 DEF StartServices, StartPullRequest, StartEdge
<1>7. CASE StartIdentity \/ StartWorkspace \/ StartControlPlane
  BY <1>7, StartsAre
<1>. QED
  BY <1>3, <1>4, <1>6, <1>7 DEF Next

LEMMA CountKept ==
    ASSUME SessionInv, CountInv, Next
    PROVE  CountInv'
<1>1. MaxCommands \in Nat
  BY CommandBound
<1>. QED
  BY <1>1, StepsCount DEF CountInv, Run

\* What a run of `edge image` writes is a configuration, a volume and an image.
LEMMA EdgeTyped ==
    ASSUME SessionInv, EdgeInv, CountInv, EdgeTypeOK, EdgeNext
    PROVE  EdgeTypeOK'
<1>1. /\ Absent \in {Absent} \union File(SUBSET Run) /\ Torn \in {Absent, Torn} \union File(Image)
      /\ \A S, x : x \in S => Holding(x) \in File(S)
  BY DEF Holding, File
<1>2. started \in Run /\ Written \in {0} \union Run
  <2>1. NoCommand.at = "none" /\ "none" \notin EdgePlace
    BY DEF NoCommand, EdgePlace
  <2>. QED
    BY <2>1, OtherPlaces DEF CountInv, Running, Written
<1>3. volume # Absent => volume.has \subseteq Run /\ volume = Holding(volume.has)
  BY DEF EdgeTypeOK, EdgeInv, File
<1>4. ASSUME CleanUp PROVE /\ build' = Absent /\ volume' \in {Absent, volume}
  BY <1>4 DEF CleanUp
<1>5. CASE WriteCloudConfig
  BY <1>1, <1>2, <1>5 DEF WriteCloudConfig, EdgeTypeOK
<1>6. CASE CreateVolume
  <2>1. Holding({}) \in File(SUBSET Run)
    BY <1>1
  <2>. QED
    BY <1>6, <2>1 DEF CreateVolume, EdgeTypeOK
<1>7. CASE Unpack
  <2>1. volume # Absent /\ volume' = [volume EXCEPT !.has = volume.has \union {started}]
    BY <1>7 DEF Unpack, At, EdgeInv
  <2>2. [Holding(volume.has) EXCEPT !.has = volume.has \union {started}]
          = Holding(volume.has \union {started})
    BY DEF Holding
  <2>3. volume' = Holding(volume.has \union {started})
    BY <1>3, <2>1, <2>2
  <2>4. volume.has \union {started} \in SUBSET Run
    BY <1>2, <1>3, <2>1
  <2>5. volume' \in File(SUBSET Run)
    BY <1>1, <2>3, <2>4
  <2>. QED
    BY <1>7, <2>5 DEF Unpack, EdgeTypeOK
<1>8. CASE BuildImage
  <2>1. CASE build' = Torn
    BY <1>1, <1>8, <2>1 DEF BuildImage, EdgeTypeOK
  <2>2. CASE At("building") /\ build' = Holding([config |-> cloudConfig.has, root |-> volume.has])
    <3>1. cloudConfig = Holding(Written) /\ volume # Absent
      BY <2>2 DEF EdgeInv, At
    <3>2. cloudConfig.has \in {0} \union Run /\ volume.has \in SUBSET Run
      BY <1>2, <1>3, <3>1 DEF Holding
    <3>3. build' \in File(Image)
      BY <1>1, <2>2, <3>2 DEF Image
    <3>. QED
      BY <1>8, <3>3 DEF BuildImage, EdgeTypeOK
  <2>. QED
    BY <1>8, <2>1, <2>2 DEF BuildImage
<1>9. CASE SaveImage
  BY <1>1, <1>4, <1>9 DEF SaveImage, EdgeTypeOK
<1>10. CASE FailImage
  BY <1>4, <1>10 DEF FailImage, EdgeTypeOK
<1>. QED
  BY <1>5, <1>6, <1>7, <1>8, <1>9, <1>10 DEF EdgeNext

\* Who the user is has been asked before values are made anew.
AskedInv == OfLogin(cmd) =>
    \/ cmd.at \notin {"workspace", "render", "upgrade", "upgrading"}
    \/ cmd.at \in {"upgrade", "upgrading"} /\ cmd.next # "render"
    \/ cmd.asked \in User

LEMMA AskedStays ==
    ASSUME Ground, AskedInv, Next
    PROVE  AskedInv'
<1>. SUFFICES ASSUME OfLogin(cmd'), cmd'.at \in {"workspace", "render", "upgrade", "upgrading"},
                     cmd'.at \in {"upgrade", "upgrading"} => cmd'.next = "render"
              PROVE  cmd'.asked \in User
  BY DEF AskedInv
<1>1. cmd' # NoCommand
  BY ShapesApart
<1>2. CASE StartIdentity \/ StartWorkspace \/ StartControlPlane
  BY <1>2, StartsAre
<1>3. CASE IdentityNext
  <2>1. /\ OfLogin(cmd) /\ cmd.at \in IdentityPlace
        /\ \/ cmd'.at \in {"me", "saving", "flush", "fill"}
           \/ cmd.at \in {"me", "fill"} /\ cmd'.at = cmd.next
    BY <1>1, <1>3, IdentityMoves DEF Ground
  <2>2. cmd.at \in {"me", "fill"} => cmd.next \in {"client", "end", "provider"}
    BY <2>1 DEF Ground, PathInv
  <2>. QED
    BY <2>1, <2>2
<1>4. CASE WorkspaceNext
  <2>1. OfLogin(cmd) /\ DOMAIN cmd = LoginField
    BY <1>4, OtherPlaces, ShapeAt DEF LoginPlace, Ground, SessionInv, OfLogin
  <2>2. CASE InitPluralClient
    BY <1>1, <2>1, <2>2, StepsLead DEF After
  <2>3. CASE UpgradeManifest
    <3>1. \/ cmd.at = "upgrade" /\ Goto("upgrading")
          \/ cmd.at = "upgrading" /\ Goto(cmd.next)
      BY <2>3 DEF UpgradeManifest, At
    <3>2. \/ cmd.at = "upgrade" /\ Goes("upgrading")
          \/ cmd.at = "upgrading" /\ Goes(cmd.next)
      BY <2>1, <3>1, GotoMoves, Zenon
    <3>3. cmd.next \in {"preflights", "cluster", "backfill", "render"}
      BY <2>1, <3>2 DEF Ground, PathInv, Forward
    <3>4. /\ cmd'.asked = cmd.asked
          /\ \/ cmd.at = "upgrade" /\ cmd'.at = "upgrading" /\ cmd'.next = cmd.next
             \/ cmd.at = "upgrading" /\ cmd'.at = cmd.next
      BY <3>2 DEF Goes, Alike, Holds
    <3>. QED
      BY <2>1, <3>3, <3>4 DEF AskedInv
  <2>4. CASE ~InitPluralClient /\ ~UpgradeManifest
    <3>1. Onward
      BY <1>4, <2>1, <2>4, SetupMoves
    <3>2. "workspace" \notin SetupPlace /\ "render" \notin SetupPlace
          /\ "upgrade" \notin SetupPlace /\ "upgrading" \notin SetupPlace /\ "render" \notin Forward
      BY DEF SetupPlace, WorkspacePlace, Forward
    <3>. QED
      BY <1>1, <3>1, <3>2 DEF Onward
  <2>. QED
    BY <2>2, <2>3, <2>4
<1>5. CASE ServicesNext
  BY <1>5, ConsoleMoves DEF Goes, Holds, Ground
<1>6. CASE ControlPlaneNext
  <2>1. OfLogin(cmd) /\ DOMAIN cmd = LoginField
    BY <1>6, PlaneMoves DEF Ground
  <2>2. CASE cmd.at = "values" /\ Read.token # NoUser /\ cmd'.asked = Read.token
    <3>1. Read \in Logins
      BY <2>1, ReadTyped DEF Ground, LoginsTyped
    <3>. QED
      BY <2>2, <3>1, LoginsAre
  <2>3. CASE cmd.at = "workspace" /\ FromManifest(yaml["root"].has, "render")
    <3>1. \/ Forgets("render", yaml["root"].has, cmd.writer, "end")
          \/ Forgets("upgrade", [yaml["root"].has EXCEPT !.located = TRUE], cmd.writer, "render")
      BY <2>1, <2>3, ForgetMoves, Zenon
    <3>2. cmd'.asked = cmd.asked
      BY <3>1 DEF Forgets, Alike
    <3>. QED
      BY <2>1, <2>3, <3>2 DEF AskedInv
  <2>. QED
    BY <1>6, <2>2, <2>3, PlaneMoves DEF Ground
<1>. QED
  BY <1>2, <1>3, <1>4, <1>5, <1>6, LoginSteps DEF Ground

\* What a command of ControlPlane holds, and the client it has read.
PlaneTyped ==
    /\ ControlPlaneTypeOK
    /\ OfInstall(cmd) =>
         /\ cmd.text \in Secrets /\ cmd.me \in User /\ cmd.had \in {Absent} \union File(Client)
         /\ cmd.at = "oidc" => oidc # Absent
         /\ cmd.at = "merge" => cmd.had # Absent

LEMMA PlaneStays ==
    ASSUME Ground, AskedInv, CountInv, PlaneInv, PlaneTyped, ControlPlaneNext
    PROVE  PlaneTyped'
<1>1. /\ \A S, x : x \in S => Holding(x) \in File(S)
      /\ \A x : Holding(x) # Absent /\ Holding(x).has = x
  BY DEF Holding, File, Absent
<1>2. started \in Run
  <2>1. NoCommand.at = "none" /\ "none" \notin PlanePlace
    BY DEF NoCommand, PlanePlace
  <2>. QED
    BY <2>1, OtherPlaces DEF CountInv, Running
<1>3. /\ \A dns \in Dns : Drawn(dns) \in Secrets
      /\ \A s \in Secrets, t \in Secrets : [s EXCEPT !.aes = t.aes] \in Secrets /\ s.dns \in Dns
  BY <1>2 DEF Drawn, Secrets, Run
<1>4. /\ OfLogin(cmd) => ~OfInstall(cmd) /\ DOMAIN cmd = LoginField
      /\ cmd.at \in InstallPlace => OfInstall(cmd)
      /\ cmd.at \in {"control plane", "values", "workspace", "render"} => OfLogin(cmd)
  BY ShapesApart, ShapeAt DEF OfLogin, LoginPlace, NextPlace, Ground, SessionInv
<1>5. ASSUME NEW text \in Secrets, NEW user \in User, Installing(text, user), UNCHANGED plane
      PROVE  PlaneTyped'
  <2>1. /\ cmd'.at = "install" /\ cmd'.text = text /\ cmd'.me = user /\ cmd'.had = Absent
    BY <1>5 DEF Installing, Becomes
  <2>. QED
    BY <1>5, <2>1 DEF PlaneTyped, ControlPlaneTypeOK, plane
<1>6. ASSUME OfInstall(cmd), NEW place, Goto(place)
      PROVE  cmd'.at = place /\ cmd'.text = cmd.text /\ cmd'.me = cmd.me /\ cmd'.had = cmd.had
  BY <1>6 DEF OfInstall, InstallField, Goto, Becomes
<1>7. CASE CreateControlPlane
  <2>1. cmd.at = "control plane" /\ Read.token # NoUser /\ UNCHANGED plane
        /\ \E dns \in Dns : Installing(Drawn(dns), Read.token)
    BY <1>7 DEF CreateControlPlane, At
  <2>2. Read.token \in User
    BY <1>4, <2>1, ReadTyped, LoginsAre DEF Ground, LoginsTyped
  <2>. QED
    BY <1>3, <1>5, <2>1, <2>2
<1>8. CASE ReadsWorkspace
  <2>1. OfLogin(cmd') \/ OfInstall(cmd') \/ cmd' = NoCommand
    BY ControlPlaneShape DEF Ground, SessionInv
  <2>2. UNCHANGED plane
    BY <1>8 DEF ReadsWorkspace
  <2>3. cmd'.at \notin InstallPlace
    <3>1. cmd.at \in {"values", "workspace"}
      BY <1>8 DEF ReadsWorkspace, At
    <3>2. Becomes([cmd EXCEPT !.at = "workspace", !.asked = Read.token]) => cmd'.at = "workspace"
      BY <1>4, <3>1 DEF Becomes, LoginField
    <3>3. FromManifest(yaml["root"].has, "render")
            => \/ Forgets("render", yaml["root"].has, cmd.writer, "end")
               \/ Forgets("upgrade", [yaml["root"].has EXCEPT !.located = TRUE], cmd.writer, "render")
      BY <1>4, <3>1, ForgetMoves, Zenon
    <3>. QED
      BY <1>8, <3>2, <3>3 DEF ReadsWorkspace, InstallPlace, Forgets, Holds
  <2>. QED
    BY <2>2, <2>3 DEF PlaneTyped, ControlPlaneTypeOK, plane, OfInstall
<1>9. CASE ControlPlaneValues
  <2>1. cmd.at = "render" /\ UNCHANGED plane /\ cmd.asked \in User
    BY <1>4, <1>9 DEF ControlPlaneValues, At, AskedInv
  <2>2. CASE values.is = "file"
    <3>1. values.has \in Secrets
      BY <2>2 DEF PlaneTyped, ControlPlaneTypeOK, File, Absent, Torn
    <3>2. Installing([Drawn(values.has.dns) EXCEPT !.aes = values.has.aes], cmd.asked)
      BY <1>9, <2>2 DEF ControlPlaneValues
    <3>. QED
      BY <1>3, <1>5, <2>1, <3>1, <3>2
  <2>3. CASE values.is # "file"
    BY <1>3, <1>5, <1>9, <2>1, <2>3 DEF ControlPlaneValues
  <2>. QED
    BY <2>2, <2>3
<1>10. ASSUME OfInstall(cmd)
       PROVE  /\ cmd.text \in Secrets /\ cmd.me \in User /\ cmd.had \in {Absent} \union File(Client)
              /\ cmd.at = "oidc" => oidc # Absent
              /\ cmd.at = "merge" => cmd.had # Absent
  BY <1>10 DEF PlaneTyped
<1>11. /\ values \in {Absent, Torn} \union File(Secrets) /\ oidc \in {Absent} \union File(Client)
       /\ \A u \in SUBSET Dns, b \in SUBSET (User \union {Team}) :
            Holding([uris |-> u, bindings |-> b]) \in File(Client)
       /\ \A c \in {Absent} \union File(Client) : c # Absent =>
            c.has.uris \in SUBSET Dns /\ c.has.bindings \in SUBSET (User \union {Team})
  BY DEF PlaneTyped, ControlPlaneTypeOK, File, Client, Holding
<1>12. CASE EnsureInstalled
  <2>1. OfInstall(cmd) /\ Goto("oidc") /\ values' = values
        /\ ((oidc' = oidc /\ oidc # Absent) \/ oidc' = Holding([uris |-> {}, bindings |-> {}]))
    BY <1>4, <1>12 DEF EnsureInstalled, At, InstallPlace
  <2>2. oidc' \in {Absent} \union File(Client) /\ oidc' # Absent
    BY <1>1, <1>11, <2>1
  <2>. QED
    BY <1>6, <1>10, <1>11, <2>1, <2>2 DEF PlaneTyped, ControlPlaneTypeOK
<1>13. CASE SetupOIDC /\ At("oidc")
  <2>1. OfInstall(cmd) /\ oidc' = oidc /\ values' = values /\ cmd.at = "oidc"
        /\ Becomes([cmd EXCEPT !.at = "merge", !.had = oidc])
    BY <1>4, <1>13 DEF SetupOIDC, At, InstallPlace
  <2>2. cmd'.at = "merge" /\ cmd'.text = cmd.text /\ cmd'.me = cmd.me /\ cmd'.had = oidc
    BY <2>1 DEF OfInstall, InstallField, Becomes
  <2>. QED
    BY <1>10, <1>11, <2>1, <2>2 DEF PlaneTyped, ControlPlaneTypeOK
<1>14. CASE SetupOIDC /\ At("merge")
  <2>1. OfInstall(cmd) /\ values' = values /\ cmd.at = "merge" /\ Goto("write values")
        /\ oidc' = Holding([uris     |-> cmd.had.has.uris \union {cmd.text.dns},
                            bindings |-> cmd.had.has.bindings \union {cmd.me}])
    BY <1>4, <1>14 DEF SetupOIDC, At, InstallPlace
  <2>2. /\ cmd.had.has.uris \union {cmd.text.dns} \in SUBSET Dns
        /\ cmd.had.has.bindings \union {cmd.me} \in SUBSET (User \union {Team})
    BY <1>3, <1>10, <1>11, <2>1
  <2>3. oidc' \in {Absent} \union File(Client)
    BY <1>11, <2>1, <2>2
  <2>4. /\ cmd'.at = "write values" /\ cmd'.text = cmd.text /\ cmd'.me = cmd.me
        /\ cmd'.had = cmd.had
    BY <1>6, <2>1
  <2>5. cmd'.text \in Secrets /\ cmd'.me \in User /\ cmd'.had \in {Absent} \union File(Client)
    BY <1>10, <2>1, <2>4
  <2>. QED
    BY <1>11, <2>1, <2>3, <2>4, <2>5 DEF PlaneTyped, ControlPlaneTypeOK
<1>15. CASE OthersBind
  <2>1. OfInstall(cmd) /\ values' = values /\ cmd' = cmd
        /\ oidc' = [oidc EXCEPT !.has.bindings = @ \union {Team}]
    BY <1>4, <1>15 DEF OthersBind, At, InstallPlace
  <2>2. oidc = Absent => oidc' = Absent
    BY <2>1 DEF Absent
  <2>3. oidc # Absent => oidc' = Holding([uris |-> oidc.has.uris, bindings |-> oidc.has.bindings \union {Team}])
    <3>1. oidc # Absent => oidc = Holding([uris |-> oidc.has.uris, bindings |-> oidc.has.bindings])
      BY DEF PlaneInv
    <3>. QED
      BY <2>1, <3>1 DEF Holding
  <2>4. oidc' \in {Absent} \union File(Client) /\ (oidc # Absent => oidc' # Absent)
    BY <1>1, <1>11, <2>2, <2>3
  <2>5. /\ cmd'.text \in Secrets /\ cmd'.me \in User /\ cmd'.had \in {Absent} \union File(Client)
        /\ cmd'.at = "oidc" => oidc' # Absent
        /\ cmd'.at = "merge" => cmd'.had # Absent
    BY <1>10, <2>1, <2>4
  <2>. QED
    BY <1>11, <2>1, <2>4, <2>5 DEF PlaneTyped, ControlPlaneTypeOK
<1>16. CASE WriteValues
  <2>1. OfInstall(cmd) /\ oidc' = oidc
    BY <1>4, <1>16 DEF WriteValues, At, InstallPlace
  <2>2. CASE values' = Torn /\ Goto("fill values")
    <3>1. /\ cmd'.at = "fill values" /\ cmd'.text = cmd.text /\ cmd'.me = cmd.me
          /\ cmd'.had = cmd.had
      BY <1>6, <2>1, <2>2
    <3>2. cmd'.text \in Secrets /\ cmd'.me \in User /\ cmd'.had \in {Absent} \union File(Client)
      BY <1>10, <2>1, <3>1
    <3>. QED
      BY <1>11, <2>1, <2>2, <3>1, <3>2 DEF PlaneTyped, ControlPlaneTypeOK
  <2>3. CASE values' = Holding(cmd.text) /\ End
    <3>1. ~OfInstall(cmd')
      BY <2>3, EndShape DEF OfInstall, NoCommand, InstallField
    <3>2. values' \in File(Secrets)
      BY <1>1, <1>10, <2>1, <2>3
    <3>. QED
      BY <1>11, <2>1, <3>1, <3>2 DEF PlaneTyped, ControlPlaneTypeOK
  <2>. QED
    BY <1>16, <2>2, <2>3 DEF WriteValues
<1>. QED
  BY <1>7, <1>8, <1>9, <1>12, <1>13, <1>14, <1>15, <1>16 DEF ControlPlaneNext, SetupOIDC

AllTyped == /\ Ground /\ EdgeInv /\ PlaneInv /\ ServInv
            /\ CountInv /\ AskedInv /\ EdgeTypeOK /\ PlaneTyped

LEMMA InitTyped == Init => AllTyped
<1>. SUFFICES ASSUME Init PROVE AllTyped
  OBVIOUS
<1>1. cmd = NoCommand /\ cmd.at = "none" /\ ~OfLogin(cmd) /\ ~OfInstall(cmd)
  BY DEF Init, NoCommand, OfLogin, LoginField, OfInstall, InstallField
<1>2. Ground /\ ServicesTypeOK
  BY InitGround, InitServices
<1>3. EdgeInv /\ PlaneInv /\ ServInv /\ AskedInv
  BY <1>1, <1>2 DEF Init, EdgeInv, PlaneInv, ServInv, AskedInv
<1>4. CountInv
  BY <1>1, CommandBound DEF Init, CountInv, Running
<1>5. EdgeTypeOK /\ PlaneTyped
  BY <1>1 DEF Init, EdgeTypeOK, PlaneTyped, ControlPlaneTypeOK
<1>. QED
  BY <1>2, <1>3, <1>4, <1>5 DEF AllTyped

\* no step leaves it
LEMMA NextTyped == AllTyped /\ [Next]_vars => AllTyped'
<1>. SUFFICES ASSUME AllTyped, [Next]_vars PROVE AllTyped'
  OBVIOUS
<1>1. Ground' /\ SessionInv' /\ SessionInv
  BY NextGround DEF AllTyped, Ground
<1>2. CASE UNCHANGED vars
  <2>1. UNCHANGED <<cmd, started, onConsole, edge, plane, values, oidc>>
    BY <1>2 DEF vars, side, plane
  <2>2. EdgeInv' /\ EdgeTypeOK'
    BY <2>1 DEF AllTyped, edge, EdgeInv, Written, EdgeTypeOK
  <2>3. PlaneInv' /\ PlaneTyped'
    BY <2>1 DEF AllTyped, PlaneInv, PlaneTyped, ControlPlaneTypeOK
  <2>4. ServInv' /\ CountInv' /\ AskedInv'
    BY <2>1 DEF AllTyped, onConsole, ServInv, ServicesTypeOK, CountInv, Running, AskedInv
  <2>. QED
    BY <1>1, <2>2, <2>3, <2>4 DEF AllTyped
<1>3. CASE Next
  <2>1. CountInv' /\ AskedInv'
    BY <1>1, <1>3, CountKept, AskedStays DEF AllTyped
  <2>2. EdgeInv' /\ EdgeTypeOK'
    <3>1. CASE EdgeNext
      BY <1>1, <3>1, EdgeKeeps, EdgeTyped DEF AllTyped
    <3>2. CASE ~EdgeNext
      BY <1>1, <1>3, <3>2, EdgeElsewhere DEF AllTyped, EdgeTypeOK, edge
    <3>. QED
      BY <3>1, <3>2
  <2>3. PlaneInv' /\ PlaneTyped'
    <3>1. CASE ControlPlaneNext
      BY <1>1, <3>1, PlaneKeeps, PlaneStays DEF AllTyped
    <3>2. CASE ~ControlPlaneNext
      <4>1. PlaneInv' /\ UNCHANGED plane /\ cmd'.at \notin InstallPlace
        BY <1>1, <1>3, <3>2, PlaneElsewhere DEF AllTyped
      <4>. QED
        BY <4>1 DEF AllTyped, PlaneTyped, ControlPlaneTypeOK, plane, OfInstall
    <3>. QED
      BY <3>1, <3>2
  <2>4. ServInv'
    <3>1. CASE ServicesNext
      BY <1>1, <3>1, ServicesKeep DEF AllTyped
    <3>2. CASE ~ServicesNext
      BY <1>1, <1>3, <3>2, ServicesElsewhere DEF AllTyped
    <3>. QED
      BY <3>1, <3>2
  <2>. QED
    BY <1>1, <2>1, <2>2, <2>3, <2>4 DEF AllTyped
<1>. QED
  BY <1>2, <1>3

\* Everything that outlives a command keeps its type, and so does what a command
\* holds: no file is written with what another kind of file has, a client is
\* merged only with a client that was read, and nothing is built without a
\* configuration and a volume, in sessions of any length.
THEOREM SessionTypeCorrect == Spec => []TypeOK
<1>1. AllTyped => TypeOK
  <2>. SUFFICES ASSUME AllTyped PROVE TypeOK
    OBVIOUS
  <2>1. /\ {config, profile} \subseteq {Absent, Torn} \union File(Login)
        /\ console \in {Absent, Torn} \union File(Console) /\ WorkspaceTypeOK
    BY DEF AllTyped, Ground, FilesTyped, Logins, File
  <2>2. ServicesTypeOK /\ PullRequestTypeOK /\ EdgeTypeOK /\ ControlPlaneTypeOK
        /\ started \in 0..MaxCommands
    BY DEF AllTyped, Ground, SessionInv, PrInv, ServInv, PlaneTyped, CountInv
  <2>3. Running /\ "mem" \in DOMAIN cmd => OfLogin(cmd)
    <3>1. "mem" \notin ConsoleField /\ "mem" \notin InstallField
      BY DEF ConsoleField, InstallField
    <3>2. "todo" \in DOMAIN cmd => "mem" \notin DOMAIN cmd
      BY DEF AllTyped, Ground, SessionInv, PrInv, CommandInv, PrCommands, Applies
    <3>. QED
      BY <3>1, <3>2 DEF AllTyped, Ground, SessionInv, Shape, Running, OfConsole, OfInstall, OfPr
  <2>4. OfLogin(cmd) => {cmd.mem, cmd.conf} \subseteq Login /\ cmd.man \in Manifest
    BY DEF AllTyped, Ground, LoginsTyped, LoginTyped, Logins, Manifests
  <2>. QED
    BY <2>1, <2>2, <2>3, <2>4 DEF TypeOK
<1>. QED
  BY <1>1, InitTyped, NextTyped, PTL DEF Spec
=============================================================================
