---------------------------- MODULE AgentSession ----------------------------
(***************************************************************************)
(* `plural agents resume`: the archive of an agent run is downloaded and   *)
(* checked, the user's clone is put on the branch of the run, the session  *)
(* files are restored under the provider's directory, and the provider's   *)
(* command is launched.  Any step may fail, and the command may be killed  *)
(* between two of them and run again.  The user works in the clone and the *)
(* agent pushes to its pull request between commands.                      *)
(***************************************************************************)
EXTENDS Naturals

CONSTANTS
    Provider,   \* the runtimes that take part
    MaxPushes   \* bound: pushes to the pull request

ASSUME ProviderKnown == Provider \subseteq {"CLAUDE", "CODEX", "GEMINI", "OPENCODE"}
ASSUME PushesBounded == MaxPushes \in Nat

\* Files under the provider's directory: the session's own file, a file of
\* the same session under another name, and another file of the archive.
Slot == {"session", "twin", "other"}

VARIABLES
    run,      \* the agent run: its provider, how its work is published, and
              \* the branch its manifest names
    head,     \* commits pushed to the pull request
    branch,   \* the branch the clone is on
    local,    \* the clone's copy of the pull request branch
    dirty,    \* the clone has uncommitted changes
    archive,  \* agent-session.tar.gz in the session directory
    partial,  \* agent-session.tar.gz.partial is there
    files,    \* [slot] the provider's local files
    cmd       \* the running resume

clone == <<branch, local, dirty>>
cache == <<archive, partial>>
vars  == <<run, head, clone, cache, files, cmd>>

Run == [provider : Provider, work : {"pr", "patch", "none"}, names : {"", "main"}]

\* upto: how many of the commits of the pull request it has; own: it also
\* has commits of the user
Copy == [upto : 0..(MaxPushes + 1), own : BOOLEAN]
NoCopy == [upto |-> 0, own |-> FALSE]

Place == {"fetch", "store", "check", "prepare", "clean", "switch", "forward",
          "patch", "validate", "extract", "match", "remove", "copy", "launch"}

NoCommand == [at |-> "none"]
Running   == cmd # NoCommand

\* Type invariant; a file is only open while it is still to be copied.
TypeOK ==
    /\ run \in Run
    /\ head \in 1..(MaxPushes + 1)
    /\ branch \in {"main", "pr", "agent"}
    /\ local \in Copy
    /\ dirty \in BOOLEAN
    /\ archive \in {"none", "bad", "good"}
    /\ partial \in BOOLEAN
    /\ files \in [Slot -> {"none", "mine", "torn", "archived"}]
    /\ cmd \in {NoCommand} \union
         [at : Place, right : BOOLEAN, want : {"", "main", "pr", "agent"},
          agreed : BOOLEAN, say : {"unasked", "yes", "no"}, todo : SUBSET Slot,
          writing : BOOLEAN]
    /\ Running /\ cmd.writing => cmd.at = "copy" /\ cmd.todo # {}

Init ==
    /\ run \in Run
    /\ head = 1
    /\ branch = "main" /\ local = NoCopy /\ dirty \in BOOLEAN
    /\ archive = "none" /\ partial = FALSE
    /\ files \in [Slot -> {"none", "mine"}]
    /\ cmd = NoCommand

-----------------------------------------------------------------------------
(* How the command moves                                                   *)

At(place)   == Running /\ cmd.at = place
Goto(place) == cmd' = [cmd EXCEPT !.at = place]
End         == cmd' = NoCommand
Abort       == End /\ UNCHANGED <<run, head, clone, cache, files>>
OnlyGoto(place) == Goto(place) /\ UNCHANGED <<run, head, clone, cache, files>>

\* the user picks a run and a directory, which may be another repository's
StartResume ==
    /\ ~Running
    /\ \E right \in BOOLEAN :
        cmd' = [at |-> "fetch", right |-> right, want |-> run.names,
                agreed |-> FALSE, say |-> "unasked", todo |-> {}, writing |-> FALSE]
    /\ UNCHANGED <<run, head, clone, cache, files>>

Kill == Running /\ Abort

-----------------------------------------------------------------------------
(* The archive                                                             *)

\* mutant: the response is written under the final name
FetchInPlace ==
    /\ At("fetch")
    /\ \/ Abort
       \/ /\ archive' = "torn" /\ UNCHANGED partial
          /\ Goto("store")
          /\ UNCHANGED <<run, head, clone, files>>

Fetch ==
    /\ At("fetch")
    /\ \/ Abort
       \/ /\ partial' = TRUE /\ UNCHANGED archive
          /\ Goto("store")
          /\ UNCHANGED <<run, head, clone, files>>

\* a response cut short removes the partial file, a whole one is renamed
Store ==
    /\ At("store")
    /\ partial' = FALSE
    /\ \/ End /\ UNCHANGED archive
       \/ /\ archive' \in {"good", "bad"}
          /\ Goto("check")
    /\ UNCHANGED <<run, head, clone, files>>

\* the manifest is of this run and this version, and names a repository
ManifestValid == archive = "good"

Check == /\ At("check")
         /\ IF ManifestValid THEN OnlyGoto("prepare") ELSE Abort

-----------------------------------------------------------------------------
(* GitRepository.Prepare and Validate                                      *)

\* the selected directory must be a clone of the run's repository before git
\* touches it; a clone that is on the branch already is taken as it is, and
\* a user who declines resumes where the clone is
Prepare ==
    /\ At("prepare")
    /\ \/ run.work = "none" /\ OnlyGoto("validate")
       \/ run.work # "none" /\ ~cmd.right /\ Abort
       \/ /\ run.work = "pr" /\ cmd.right /\ branch = "pr"
          /\ cmd' = [cmd EXCEPT !.at = "validate", !.want = "pr", !.agreed = TRUE]
          /\ UNCHANGED <<run, head, clone, cache, files>>
       \/ /\ run.work # "none" /\ cmd.right
          /\ ~(run.work = "pr" /\ branch = "pr")
          /\ \/ Abort
             \/ OnlyGoto("validate")
             \/ /\ cmd' = [cmd EXCEPT !.at = "clean", !.agreed = TRUE]
                /\ UNCHANGED <<run, head, clone, cache, files>>

\* mutant: uncommitted changes do not stop the checkout
CleanUnchecked == At("clean") /\ (Abort \/ OnlyGoto("switch"))

\* ensureClean, then git fetch, which may fail
Clean ==
    /\ At("clean")
    /\ \/ Abort
       \/ ~dirty /\ OnlyGoto("switch")

Switch ==
    /\ At("switch")
    /\ \/ Abort
       \/ /\ run.work = "pr" /\ local = NoCopy
          /\ branch' = "pr" /\ local' = [upto |-> head, own |-> FALSE]
          /\ cmd' = [cmd EXCEPT !.at = "validate", !.want = "pr"]
          /\ UNCHANGED <<run, head, dirty, cache, files>>
       \/ /\ run.work = "pr" /\ local # NoCopy
          /\ branch' = "pr" /\ Goto("forward")
          /\ UNCHANGED <<run, head, local, dirty, cache, files>>
       \/ /\ run.work = "patch"
          /\ branch' = "agent" /\ Goto("patch")
          /\ UNCHANGED <<run, head, local, dirty, cache, files>>

\* merge --ff-only refuses a branch that has gone its own way
Forward ==
    /\ At("forward")
    /\ \/ Abort
       \/ /\ ~local.own \/ local.upto = head
          /\ local' = [local EXCEPT !.upto = head]
          /\ cmd' = [cmd EXCEPT !.at = "validate", !.want = "pr"]
          /\ UNCHANGED <<run, head, branch, dirty, cache, files>>

\* the patch is downloaded and applied whole or not at all
ApplyPatch ==
    /\ At("patch")
    /\ \/ Abort
       \/ /\ dirty' = TRUE
          /\ cmd' = [cmd EXCEPT !.at = "validate", !.want = "agent"]
          /\ UNCHANGED <<run, head, branch, local, cache, files>>

\* mutant: the branch is not compared with the manifest's
ValidateOriginOnly ==
    /\ At("validate")
    /\ IF cmd.right THEN OnlyGoto("extract") ELSE Abort

Validate ==
    /\ At("validate")
    /\ IF cmd.right /\ (cmd.want = "" \/ cmd.want = branch)
       THEN OnlyGoto("extract") ELSE Abort

-----------------------------------------------------------------------------
(* The provider's restorer                                                 *)

\* Codex copies the file of the session, Claude and Gemini the directory it
\* is in; Opencode copies nothing and imports the file when it resumes
CodexCopies    == {"session"}
ClaudeCopies   == {"session", "other"}
GeminiCopies   == {"session", "other"}
OpencodeCopies == {}

Copies ==
    CASE run.provider = "CODEX"    -> CodexCopies
      [] run.provider = "CLAUDE"   -> ClaudeCopies
      [] run.provider = "GEMINI"   -> GeminiCopies
      [] run.provider = "OPENCODE" -> OpencodeCopies

\* the archive's subtree is unpacked into the session directory
Extract ==
    /\ At("extract")
    /\ \/ Abort
       \/ /\ cmd' = [cmd EXCEPT !.at = IF run.provider \in {"CODEX", "GEMINI"}
                                       THEN "match" ELSE "copy",
                                !.todo = Copies]
          /\ UNCHANGED <<run, head, clone, cache, files>>

\* Codex and Gemini look for the session's files by the id inside them; a
\* truncated file has none
Matches == {s \in {"session", "twin"} : files[s] \in {"mine", "archived"}}

\* mutant: the files are removed without asking
MatchSilently ==
    /\ At("match")
    /\ IF Matches = {} THEN OnlyGoto("copy") ELSE OnlyGoto("remove")

\* a "no" here resumes with the local session
Match ==
    /\ At("match")
    /\ \/ Matches = {} /\ OnlyGoto("copy")
       \/ Matches # {} /\ Abort
       \/ /\ Matches # {}
          /\ \E answer \in {"yes", "no"} :
               cmd' = [cmd EXCEPT !.say = answer,
                           !.at = IF answer = "yes" THEN "remove" ELSE "launch"]
          /\ UNCHANGED <<run, head, clone, cache, files>>

Remove ==
    /\ At("remove")
    /\ \/ Matches # {} /\ Abort
       \/ \E s \in Matches :
            /\ files' = [files EXCEPT ![s] = "none"]
            /\ UNCHANGED <<run, head, clone, cache, cmd>>
       \/ Matches = {} /\ OnlyGoto("copy")

\* the answer to the first question is the answer to all of them
Ask(s, answer) ==
    /\ files[s] # "none" /\ cmd.say = "unasked"
    /\ cmd' = [cmd EXCEPT !.say = answer]
    /\ UNCHANGED <<run, head, clone, cache, files>>

\* copyFile truncates its target and then fills it
OpenFile(s) ==
    /\ files[s] = "none" \/ cmd.say = "yes"
    /\ files' = [files EXCEPT ![s] = "torn"]
    /\ cmd' = [cmd EXCEPT !.writing = TRUE]
    /\ UNCHANGED <<run, head, clone, cache>>

Skip(s) ==
    /\ files[s] # "none" /\ cmd.say = "no"
    /\ cmd' = [cmd EXCEPT !.todo = @ \ {s}]
    /\ UNCHANGED <<run, head, clone, cache, files>>

\* files are taken in the order of their names: "other" is one that sorts
\* before the session's file
Turn == IF "other" \in cmd.todo THEN "other" ELSE "session"

Copying ==
    /\ At("copy") /\ cmd.todo # {} /\ ~cmd.writing
    /\ \/ Abort
       \/ \E answer \in {"yes", "no"} : Ask(Turn, answer)
       \/ OpenFile(Turn)
       \/ Skip(Turn)

\* mutant: the file is not closed
FillFileStays ==
    /\ At("copy") /\ cmd.writing
    /\ files' = [files EXCEPT ![Turn] = "archived"]
    /\ cmd' = [cmd EXCEPT !.todo = @ \ {Turn}]
    /\ UNCHANGED <<run, head, clone, cache>>

FillFile ==
    /\ At("copy") /\ cmd.writing
    /\ \/ Abort
       \/ /\ files' = [files EXCEPT ![Turn] = "archived"]
          /\ cmd' = [cmd EXCEPT !.writing = FALSE, !.todo = @ \ {Turn}]
          /\ UNCHANGED <<run, head, clone, cache>>

Copied == At("copy") /\ cmd.todo = {} /\ OnlyGoto("launch")

Launch == At("launch") /\ Abort

-----------------------------------------------------------------------------
(* Between commands                                                        *)

UserEdits ==
    /\ ~Running /\ dirty' = TRUE
    /\ UNCHANGED <<run, head, branch, local, cache, files, cmd>>

UserCommits ==
    /\ ~Running /\ dirty /\ dirty' = FALSE
    /\ local' = IF branch = "pr" THEN [local EXCEPT !.own = TRUE] ELSE local
    /\ UNCHANGED <<run, head, branch, cache, files, cmd>>

UserSwitches ==
    /\ ~Running /\ ~dirty
    /\ \/ branch' = "main"
       \/ branch' = "pr" /\ local # NoCopy
    /\ UNCHANGED <<run, head, local, dirty, cache, files, cmd>>

AgentPushes ==
    /\ ~Running /\ run.work = "pr" /\ head <= MaxPushes
    /\ head' = head + 1
    /\ UNCHANGED <<run, clone, cache, files, cmd>>

Next ==
    \/ StartResume \/ Kill
    \/ Fetch \/ Store \/ Check
    \/ Prepare \/ Clean \/ Switch \/ Forward \/ ApplyPatch \/ Validate
    \/ Extract \/ Match \/ Remove \/ Copying \/ FillFile \/ Copied \/ Launch
    \/ UserEdits \/ UserCommits \/ UserSwitches \/ AgentPushes

Spec == Init /\ [][Next]_vars

-----------------------------------------------------------------------------
(* Properties                                                              *)

\* Uncommitted work is never carried from one branch to another.
WorkStaysOnItsBranch == [][Running /\ branch' # branch => ~dirty]_vars

\* A local session file is replaced or removed only after the user agreed,
\* in this command, to overwrite the session.
OverwritesOnlyAfterYes ==
    [][\A s \in Slot :
        files[s] \in {"mine", "archived"} /\ files'[s] # files[s]
            => Running /\ cmd.say = "yes"]_vars

\* A provider is launched on the branch that was prepared or the manifest
\* names, and, unless the user kept the local session, on a session file
\* that is whole and comes from the archive, whatever earlier commands that
\* were killed left behind.
LaunchedAsPrepared ==
    At("launch") =>
        /\ cmd.want # "" => branch = cmd.want
        /\ cmd.say # "no" /\ run.provider # "OPENCODE" => files["session"] = "archived"

\* "Prepare checks out a PR ref when present" (repository.go:43): when the
\* user did not decline the checkout, the clone has the pull request.
LaunchedOnPullRequest ==
    At("launch") /\ run.work = "pr" /\ cmd.agreed => branch = "pr" /\ local.upto = head
=============================================================================
