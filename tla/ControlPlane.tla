----------------------------- MODULE ControlPlane -----------------------------
(***************************************************************************)
(* The helm values of a console of one's own: `plural cd control-plane`    *)
(* makes them up, `plural cd control-plane-values` makes them anew from    *)
(* the file that is there and from the workspace.  Both install the        *)
(* console for the account, if it is not, and add the new console's        *)
(* address and the user to the OIDC client of that one installation.       *)
(***************************************************************************)
EXTENDS Workspace

\* the addresses that consoles are given
Dns == {"console", "another"}

VARIABLES
    values, \* the values file: which command drew which of its secrets
    oidc    \* the installation's OIDC client: the addresses it redirects to
            \* and whom it lets in

plane == <<values, oidc>>

\* aes: the key that the console's database is encrypted with, and the erlang
\* secret; others: the passwords and the keys of the agent server
Secrets == [dns : Dns, aes : 1..MaxCommands, others : 1..MaxCommands]

Team   == "team"
Client == [uris : SUBSET Dns, bindings : SUBSET (User \union {Team})]

ControlPlaneTypeOK ==
    /\ values \in {Absent, Torn} \union File(Secrets)
    /\ oidc \in {Absent} \union File(Client)

Drawn(dns) == [dns |-> dns, aes |-> started, others |-> started]

\* what is left of a command once it knows what to write, and for whom
Installing(text, user) ==
    Becomes([name |-> cmd.name, at |-> "install", cwd |-> cmd.cwd, text |-> text,
             me |-> user, had |-> Absent])

\* CreateControlPlane: every secret is new
CreateControlPlane ==
    /\ At("control plane") /\ Read.token # NoUser
    /\ \E dns \in Dns : Installing(Drawn(dns), Read.token)
    /\ UNCHANGED <<files, outside, plane>>

\* mutant: what was drawn overrides what was read
DrawnLast ==
    /\ At("render")
    /\ \E dns \in Dns : Installing(Drawn(dns), cmd.asked)
    /\ UNCHANGED <<files, outside, plane>>

\* ControlPlaneValues asks who the user is and reads the workspace of the
\* repository's root.
ReadsWorkspace ==
    \/ /\ At("values") /\ Read.token # NoUser
       /\ Becomes([cmd EXCEPT !.at = "workspace", !.asked = Read.token])
       /\ UNCHANGED <<files, outside, plane>>
    \/ /\ At("workspace") /\ cmd.cwd # "outside" /\ HasYaml("root")
       /\ FromManifest(yaml["root"].has, "render")
       /\ UNCHANGED plane

\* The address and the key of a file that can be parsed are kept, everything
\* else is new.
ControlPlaneValues ==
    /\ At("render") /\ UNCHANGED <<files, outside, plane>>
    /\ IF values.is = "file"
       THEN Installing([Drawn(values.has.dns) EXCEPT !.aes = values.has.aes], cmd.asked)
       ELSE \E dns \in Dns : Installing(Drawn(dns), cmd.asked)

\* ensureInstalledAndOidc; bound: the console is never uninstalled
EnsureInstalled ==
    /\ At("install") /\ Goto("oidc")
    /\ oidc' = IF oidc = Absent THEN Holding([uris |-> {}, bindings |-> {}]) ELSE oidc
    /\ UNCHANGED <<files, outside, values>>

\* SetupOIDC: the client is read, and replaced by what was read and the
\* command's own
SetupOIDC ==
    /\ UNCHANGED <<files, outside, values>>
    /\ \/ /\ At("oidc") /\ UNCHANGED oidc
          /\ Becomes([cmd EXCEPT !.at = "merge", !.had = oidc])
       \/ /\ At("merge") /\ Goto("write values")
          /\ oidc' = Holding([uris     |-> cmd.had.has.uris \union {cmd.text.dns},
                              bindings |-> cmd.had.has.bindings \union {cmd.me}])

\* The account's administrators let a group in, at any time after the
\* installation; also between the reading and the replacement.
OthersBind ==
    /\ At("oidc") \/ At("merge")
    /\ oidc' = [oidc EXCEPT !.has.bindings = @ \union {Team}]
    /\ UNCHANGED <<files, outside, values, cmd, started>>

WriteValues ==
    /\ UNCHANGED <<files, outside, oidc>>
    /\ \/ At("write values") /\ values' = Torn /\ Goto("fill values")
       \/ At("fill values") /\ values' = Holding(cmd.text) /\ End

StartControlPlane ==
    \/ Start(Command("control-plane", "control plane", "root", FALSE))
    \/ \E d \in {"outside"} \union {r \in {"root", "sub"} : clone} :
         Start(Command("control-plane-values", "client", d, FALSE))

ControlPlaneNext ==
    \/ CreateControlPlane \/ ReadsWorkspace \/ ControlPlaneValues
    \/ EnsureInstalled \/ SetupOIDC \/ OthersBind \/ WriteValues

-----------------------------------------------------------------------------
(* Properties                                                              *)

\* A console that was deployed with earlier values goes on working.  To make
\* the values anew keeps its address and the key its database is encrypted
\* with, although every other secret is drawn again, and no command takes an
\* address or a user from the OIDC client that all consoles share, unless they
\* came between its reading and its writing.  (`control-plane` overwrites a
\* file it made before, key and all, and a command that was killed while it
\* wrote leaves no key to keep.)
EarlierConsolesWork ==
    [][/\ values.is = "file" /\ values' # values /\ cmd.name = "control-plane-values"
          => cmd.text.aes = values.has.aes /\ cmd.text.dns = values.has.dns
       /\ oidc # Absent /\ oidc' # oidc /\ (At("merge") => oidc = cmd.had)
          => /\ oidc.has.uris \subseteq oidc'.has.uris
             /\ oidc.has.bindings \subseteq oidc'.has.bindings]_plane
=============================================================================
