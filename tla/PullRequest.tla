----------------------------- MODULE PullRequest -----------------------------
(***************************************************************************)
(* `plural pr test`, `template` and `contracts`: a pull request automation *)
(* is applied to the worktree, phase after phase, in place, and stops at   *)
(* the first error.  To ask for its configuration it needs a workspace,    *)
(* and makes an empty one where there is none.                             *)
(***************************************************************************)
EXTENDS Machine, Sequences

\* bound: the directories that automations are applied in
Worktree == {"outside", "root"}

VARIABLE tree \* [dir][file] of a worktree there: how often it was updated

\* The automations of the model.  "move" makes "made" out of "source", updates
\* it and "old", and deletes "source"; its creation may have a condition.
\* "append" updates "old" again, and "list" by an overlay.  bound: every update
\* finds what it changes, also in its own result.
PrFile     == {"source", "made", "old", "list", "chart"}
Automation == {"move", "append"}

MaxUpdates == 2 \* bound: how often a file was updated

PullRequestTypeOK ==
    tree \in [Worktree -> [PrFile -> {Absent, Torn} \union File(0..MaxUpdates)]]

Tree == tree[cmd.cwd]

\* todo: the automations to apply; vendor: a chart and a lua script come with
\* them (only `template` reads those); asks: there is a configuration to ask
\* for; wrote: workspace.yaml is the command's own; skips: the condition of a
\* creation was not met; text: what was read
PrCommand(name, at, d, todo, asks) ==
    [name |-> name, at |-> at, cwd |-> d, todo |-> todo,
     vendor |-> name = "template", asks |-> asks, wrote |-> FALSE,
     skips |-> FALSE, text |-> Absent]

Applying(a) == "todo" \in DOMAIN cmd /\ Head(cmd.todo) = a

First == IF cmd.vendor THEN "vendoring" ELSE "creates"

Change(f, c) == tree' = [tree EXCEPT ![cmd.cwd][f] = c] /\ UNCHANGED files

-----------------------------------------------------------------------------
(* The automation and its configuration                                    *)

\* CopyDir of the contracts' templates, "source" among them, over what is in
\* the worktree: an error of a file is printed, and the command goes on
CopyTemplates ==
    \/ At("templates") /\ Goto("copy templates") /\ Change("source", Torn)
    \/ At("copy templates") /\ Goto("automation") /\ Change("source", Holding(0))
    \/ /\ At("templates") \/ At("copy templates")
       /\ Goto("automation") /\ UNCHANGED <<files, tree>>

\* BuildCRD, and configuration up to its questions
BuildCRD ==
    /\ At("automation") /\ UNCHANGED <<home, context, tree>>
    /\ IF cmd.asks /\ yaml[ProjectDir(cmd.cwd)] = Absent
       THEN /\ yaml' = [yaml EXCEPT ![cmd.cwd] = Holding(EmptyManifest)]
            /\ Becomes([cmd EXCEPT !.at = "questions", !.wrote = TRUE])
       ELSE /\ UNCHANGED yaml
            /\ Goto(IF cmd.asks THEN "questions" ELSE First)

\* the deferred os.Remove, whether the questions are answered or not
Configuration ==
    /\ At("questions") /\ UNCHANGED <<home, context, tree>>
    /\ yaml' = IF cmd.wrote THEN [yaml EXCEPT ![cmd.cwd] = Absent] ELSE yaml
    /\ End \/ Becomes([cmd EXCEPT !.at = First, !.wrote = FALSE])

-----------------------------------------------------------------------------
(* The phases of Apply                                                     *)

\* replaceTo: "to" is truncated, then holds what was made of the text of "from"
ReplaceTo(from, to, place, filling, next, Made(_)) ==
    \/ /\ At(place) /\ Tree[from] # Absent
       /\ Becomes([cmd EXCEPT !.at = filling, !.text = Tree[from]])
       /\ Change(to, Torn)
    \/ /\ At(filling)
       /\ Becomes([cmd EXCEPT !.at = next, !.text = Absent])
       /\ Change(to, Made(cmd.text))

\* An update of a torn file finds none of the text that it is for.
Updated(text) ==
    IF text \in File(0..MaxUpdates - 1) THEN Holding(text.has + 1) ELSE text
Rendered(text) == text

\* applyVendoring: the chart is pulled to a temporary directory and copied
\* over what is there
ApplyVendoring ==
    \/ At("vendoring") /\ Goto("copy chart") /\ Change("chart", Torn)
    \/ At("copy chart") /\ Goto("creates") /\ Change("chart", Holding(0))

\* a template whose condition is not met is left out, and updates and deletes
\* go on; one that cannot be evaluated is an error
Skips ==
    /\ At("creates") /\ Applying("move")
    /\ Becomes([cmd EXCEPT !.at = "replacements", !.skips = TRUE])
    /\ UNCHANGED <<files, tree>>

\* mutant: a destination that exists is taken as it is
CreatesMissing ==
    \/ At("creates") /\ (~Applying("move") \/ Tree["made"] # Absent)
         /\ Goto("replacements") /\ UNCHANGED <<files, tree>>
    \/ /\ Applying("move") /\ (Tree["made"] = Absent \/ At("create"))
       /\ ReplaceTo("source", "made", "creates", "create", "replacements", Rendered)

\* applyCreates: a template that is missing is an error
ApplyCreates ==
    \/ At("creates") /\ ~Applying("move") /\ Goto("replacements") /\ UNCHANGED <<files, tree>>
    \/ Skips
    \/ /\ Applying("move")
       /\ ReplaceTo("source", "made", "creates", "create", "replacements", Rendered)

\* processRegexReplacements of the file that is named
RegexReplacements ==
    ReplaceTo("old", "old", "replacements", "replace", "overlays", Updated)

\* processYamlOverlays, with lists appended (mergeYaml)
YamlOverlays ==
    \/ At("overlays") /\ ~Applying("append") /\ Goto("walk") /\ UNCHANGED <<files, tree>>
    \/ /\ Applying("append")
       /\ ReplaceTo("list", "list", "overlays", "overlay", "walk", Updated)

\* applyUpdates walks the worktree for files that match: also one that was
\* just created
UpdateMatches ==
    \/ At("walk") /\ (~Applying("move") \/ Tree["made"] = Absent)
         /\ Goto("deletes") /\ UNCHANGED <<files, tree>>
    \/ /\ Applying("move")
       /\ ReplaceTo("made", "made", "walk", "update", "deletes", Updated)

\* applyDeletes: nothing to delete is no error; then the next automation
ApplyDeletes ==
    /\ At("deletes")
    /\ tree' = IF Applying("move") THEN [tree EXCEPT ![cmd.cwd]["source"] = Absent] ELSE tree
    /\ IF Len(cmd.todo) = 1 THEN End
       ELSE Becomes([cmd EXCEPT !.at = "automation", !.todo = Tail(@), !.skips = FALSE])
    /\ UNCHANGED files

\* handlePrTemplate and handleTestPrAutomation apply one automation,
\* handlePrContracts several, in its working directory; to validate them it
\* only looks at what git says has changed.
StartPullRequest ==
    \E d \in {r \in Worktree : r = "root" => clone}, asks \in BOOLEAN :
        \/ \E a \in Automation : Start(PrCommand("test", "automation", d, <<a>>, asks))
        \/ \E at \in {"templates", "automation"} :
              Start(PrCommand("contracts", at, d, <<"move", "append">>, asks))
        \/ Start(PrCommand("template", "automation", d, <<"move">>, FALSE))

Applies == "todo" \in DOMAIN cmd

PullRequestNext ==
    /\ Applies
    /\ \/ CopyTemplates \/ BuildCRD \/ Configuration \/ ApplyVendoring \/ ApplyCreates
       \/ RegexReplacements \/ YamlOverlays \/ UpdateMatches \/ ApplyDeletes

-----------------------------------------------------------------------------
(* The worktree by itself                                                  *)

PrInit ==
    /\ tree \in [Worktree -> [PrFile -> {Absent} \union File({0})]]
    /\ \A d \in Worktree : tree[d]["source"] # Absent
    /\ cmd = NoCommand

\* beside the commands of this module anything that leaves the worktree alone:
\* a kill, and every other command
PrNext ==
    \/ StartPullRequest /\ UNCHANGED tree
    \/ PullRequestNext
    \/ UNCHANGED tree /\ "todo" \notin DOMAIN cmd'

PrSpec == PrInit /\ [][PrNext]_<<cmd, tree>>

-----------------------------------------------------------------------------
(* Properties                                                              *)

\* What an automation moves is not lost, however often commands were killed or
\* failed before it: a source is deleted only when the file it was made into
\* is whole and has had its updates exactly once.  Two cases are the code's own:
\* a condition left the creation out, or the source was a template's copy that
\* was cut short.
MovedWhole ==
    [][\A d \in Worktree :
        tree[d]["source"] = Holding(0) /\ tree'[d]["source"] = Absent
            => tree'[d]["made"] = Holding(1) \/ cmd.skips]_tree
=============================================================================
