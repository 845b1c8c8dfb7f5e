---------------------------- MODULE Session_proofs ----------------------------
(***************************************************************************)
(* What is proved of sessions, however many commands they have.  First,    *)
(* what is proved of one component holds in the whole session: no command  *)
(* of another component is taken for one of its commands.  Then the shapes *)
(* of commands: which fields a command has is known from where it is.      *)
(* With these, what holds of the images, the consoles and the services.    *)
(***************************************************************************)
EXTENDS Session, SequenceTheorems, TLAPS

(* What an automation moves is never lost, whatever happens in between.    *)

Content == {Absent, Torn} \union File(0..MaxUpdates)

PrPlace == {"templates", "copy templates", "automation", "questions", "vendoring",
            "copy chart", "creates", "create", "replacements", "replace", "overlays",
            "overlay", "walk", "update", "deletes"}

PrName == {"test", "contracts", "template"}

PrCommands == [name : PrName, at : PrPlace, cwd : Worktree, todo : Seq(Automation),
               vendor : BOOLEAN, asks : BOOLEAN, wrote : BOOLEAN, skips : BOOLEAN,
               text : Content]

\* How far "made" is at place p, with the text t read, as long as a whole source
\* is there and its creation was not left out.
Ready(p, t, skips, source, made) ==
    source = Holding(0) /\ ~skips =>
        /\ p = "create" => t = Holding(0)
        /\ p \in {"replacements", "replace", "overlays", "overlay", "walk"} => made = Holding(0)
        /\ p = "update" => t = Holding(0)
        /\ p = "deletes" => made = Holding(1)

MoveInv == Ready(cmd.at, cmd.text, cmd.skips, Tree["source"], Tree["made"])

CommandInv ==
    Applies => /\ cmd \in PrCommands /\ Len(cmd.todo) > 0
               /\ Applying("move") => MoveInv

PrInv == PullRequestTypeOK /\ CommandInv

\* what MovedWhole asks of a step
Moved == \A d \in Worktree :
    tree[d]["source"] = Holding(0) /\ tree'[d]["source"] = Absent
        => tree'[d]["made"] = Holding(1) \/ cmd.skips

-----------------------------------------------------------------------------

\* A worktree as it was checked out
LEMMA InitPrInv == PrInit => PrInv
  BY SMT DEF PrInit, PrInv, PullRequestTypeOK, CommandInv, Applies,
     NoCommand, Worktree, PrFile, MaxUpdates, File, Holding, Absent, Torn

\* A step that leaves the worktree alone moves nothing.
LEMMA NothingMoved == UNCHANGED tree => Moved
  BY DEF Moved, Holding, Absent

\* A command that is started applies something.
LEMMA StartOnePrInv ==
    ASSUME PrInv, UNCHANGED tree, NEW name \in PrName, NEW at \in {"templates", "automation"},
           NEW d \in Worktree, NEW todo \in Seq(Automation), Len(todo) > 0, NEW asks \in BOOLEAN,
           Start(PrCommand(name, at, d, todo, asks))
    PROVE  PrInv'
<1>1. cmd' = PrCommand(name, at, d, todo, asks)
  BY DEF Start
<1>2. Absent \in Content /\ at \in PrPlace /\ (name = "template") \in BOOLEAN
  BY DEF Content, PrPlace
<1>3. PrCommand(name, at, d, todo, asks) \in PrCommands
  BY <1>2 DEF PrCommand, PrCommands
<1>4. cmd'.at = at /\ cmd'.todo = todo
  BY <1>1 DEF PrCommand
<1>5. CommandInv'
  BY <1>1, <1>3, <1>4 DEF CommandInv, MoveInv, Ready
<1>. QED
  BY <1>5 DEF PrInv, PullRequestTypeOK

\* The same of every command of the module.
LEMMA StartPrInv ==
    PrInv /\ StartPullRequest /\ UNCHANGED tree => PrInv'
<1> SUFFICES ASSUME PrInv, StartPullRequest, UNCHANGED tree PROVE PrInv'
  OBVIOUS
<1>1. PICK d \in Worktree, asks \in BOOLEAN :
        \/ \E a \in Automation : Start(PrCommand("test", "automation", d, <<a>>, asks))
        \/ \E at \in {"templates", "automation"} :
              Start(PrCommand("contracts", at, d, <<"move", "append">>, asks))
        \/ Start(PrCommand("template", "automation", d, <<"move">>, FALSE))
  BY DEF StartPullRequest
<1>2. /\ \A a \in Automation : <<a>> \in Seq(Automation) /\ Len(<<a>>) > 0
      /\ <<"move", "append">> \in Seq(Automation) /\ Len(<<"move", "append">>) > 0
      /\ <<"move">> \in Seq(Automation) /\ Len(<<"move">>) > 0
  BY SMT DEF Automation
<1>3. "test" \in PrName /\ "contracts" \in PrName /\ "template" \in PrName
  BY DEF PrName
<1>4. CASE \E a \in Automation : Start(PrCommand("test", "automation", d, <<a>>, asks))
  <2>1. PICK a \in Automation : Start(PrCommand("test", "automation", d, <<a>>, asks))
    BY <1>4
  <2>2. <<a>> \in Seq(Automation) /\ Len(<<a>>) > 0
    BY <1>2
  <2>. QED
    BY <2>1, <2>2, <1>3, StartOnePrInv
<1>5. ASSUME NEW at \in {"templates", "automation"},
             Start(PrCommand("contracts", at, d, <<"move", "append">>, asks))
      PROVE  PrInv'
  BY <1>2, <1>3, <1>5, StartOnePrInv
<1>6. CASE Start(PrCommand("template", "automation", d, <<"move">>, FALSE))
  BY <1>2, <1>3, <1>6, StartOnePrInv
<1>. QED
  BY <1>1, <1>4, <1>5, <1>6

\* Other commands need nothing of the worktree.
LEMMA OthersPrInv ==
    PrInv /\ UNCHANGED tree /\ "todo" \notin DOMAIN cmd' => PrInv'
  BY DEF PrInv, PullRequestTypeOK, CommandInv, Applies

-----------------------------------------------------------------------------

\* to be at p with the text t, whether or not the creation was left out
Moves(p, t, skips) ==
    \/ skips = cmd.skips /\ cmd' = [cmd EXCEPT !.at = p, !.text = t]
    \/ t = cmd.text /\ cmd' = [cmd EXCEPT !.at = p, !.skips = skips]
    \/ /\ t = cmd.text /\ skips = cmd.skips
       /\ \/ cmd' = [cmd EXCEPT !.at = p]
          \/ \E w \in BOOLEAN : cmd' = [cmd EXCEPT !.at = p, !.wrote = w]

\* A step within a phase, or to the next one, changes little of a command.
LEMMA CommandMoves ==
    ASSUME PrInv, Applies, NEW p \in PrPlace, NEW t \in Content, NEW skips \in BOOLEAN,
           Moves(p, t, skips)
    PROVE  /\ cmd' \in PrCommands /\ Len(cmd'.todo) > 0
           /\ cmd'.at = p /\ cmd'.text = t /\ cmd'.skips = skips
           /\ cmd'.cwd = cmd.cwd /\ cmd'.todo = cmd.todo
           /\ Applying("move")' => Applying("move")
<1>1. cmd \in PrCommands /\ Len(cmd.todo) > 0
  BY DEF PrInv, CommandInv
<1>. DEFINE m == [cmd EXCEPT !.at = p]
            Same(c) == /\ c \in PrCommands /\ c.at = p /\ c.cwd = cmd.cwd /\ c.todo = cmd.todo
<1>2. Same(m) /\ m.text = cmd.text /\ m.skips = cmd.skips
  BY <1>1, SMT DEF PrCommands
<1>3. /\ [cmd EXCEPT !.at = p, !.text = t] = [m EXCEPT !.text = t]
      /\ [cmd EXCEPT !.at = p, !.skips = skips] = [m EXCEPT !.skips = skips]
      /\ \A w : [cmd EXCEPT !.at = p, !.wrote = w] = [m EXCEPT !.wrote = w]
  OBVIOUS
<1>. HIDE DEF m
<1>4. Same([m EXCEPT !.text = t]) /\ [m EXCEPT !.text = t].text = t
      /\ [m EXCEPT !.text = t].skips = m.skips
  BY <1>2, SMT DEF PrCommands
<1>5. Same([m EXCEPT !.skips = skips]) /\ [m EXCEPT !.skips = skips].skips = skips
      /\ [m EXCEPT !.skips = skips].text = m.text
  BY <1>2, SMT DEF PrCommands
<1>6. ASSUME NEW w \in BOOLEAN
      PROVE  Same([m EXCEPT !.wrote = w]) /\ [m EXCEPT !.wrote = w].text = m.text
             /\ [m EXCEPT !.wrote = w].skips = m.skips
  BY <1>2, SMT DEF PrCommands
<1>7. Same(cmd') /\ cmd'.text = t /\ cmd'.skips = skips
  <2>1. CASE skips = cmd.skips /\ cmd' = [m EXCEPT !.text = t]
    BY <1>2, <1>4, <2>1
  <2>2. CASE t = cmd.text /\ cmd' = [m EXCEPT !.skips = skips]
    BY <1>2, <1>5, <2>2
  <2>3. CASE t = cmd.text /\ skips = cmd.skips /\ cmd' = m
    BY <1>2, <2>3
  <2>4. CASE /\ t = cmd.text /\ skips = cmd.skips
             /\ \E w \in BOOLEAN : cmd' = [m EXCEPT !.wrote = w]
    BY <1>2, <1>6, <2>4
  <2>5. m = [cmd EXCEPT !.at = p]
    BY DEF m
  <2>. QED
    BY <1>3, <2>1, <2>2, <2>3, <2>4, <2>5 DEF Moves
<1>. QED
  BY <1>1, <1>7 DEF Applying, Applies

\* It keeps the invariant if what its place asks for is there,
LEMMA CommandInvMoves ==
    ASSUME PrInv, Applies, NEW p \in PrPlace, NEW t \in Content, NEW skips \in BOOLEAN,
           Moves(p, t, skips),
           Applying("move") => Ready(p, t, skips, Tree["source"]', Tree["made"]')
    PROVE  CommandInv'
  BY CommandMoves DEF CommandInv, MoveInv

\* also when it changes no file,
LEMMA StaysInv ==
    ASSUME PrInv, Applies, NEW p \in PrPlace, NEW t \in Content, NEW skips \in BOOLEAN,
           Moves(p, t, skips), UNCHANGED tree,
           Applying("move") => Ready(p, t, skips, Tree["source"], Tree["made"])
    PROVE  PrInv' /\ Moved
<1>1. Tree' = Tree
  BY CommandMoves DEF Tree
<1>. QED
  BY <1>1, CommandInvMoves, NothingMoved DEF PrInv, PullRequestTypeOK

\* (to write one file leaves all others alone)
LEMMA ChangeOne ==
    ASSUME PrInv, Applies, NEW f \in PrFile, NEW c \in Content, Change(f, c)
    PROVE  /\ PullRequestTypeOK'
           /\ \A d \in Worktree, g \in PrFile :
                tree'[d][g] = IF d = cmd.cwd /\ g = f THEN c ELSE tree[d][g]
<1>1. cmd.cwd \in Worktree /\ tree \in [Worktree -> [PrFile -> Content]]
  BY DEF PrInv, CommandInv, PrCommands, PullRequestTypeOK, Content
<1>2. tree' \in [Worktree -> [PrFile -> Content]]
  BY <1>1 DEF Change
<1>. QED
  BY <1>1, <1>2 DEF Change, PullRequestTypeOK, Content

\* or one that it does not delete.
LEMMA ChangesInv ==
    ASSUME PrInv, Applies, NEW p \in PrPlace, NEW t \in Content, NEW skips \in BOOLEAN,
           Moves(p, t, skips),
           NEW f \in PrFile, NEW c \in Content, Change(f, c), f = "source" => c # Absent,
           Applying("move") => Ready(p, t, skips, IF f = "source" THEN c ELSE Tree["source"],
                                     IF f = "made" THEN c ELSE Tree["made"])
    PROVE  PrInv' /\ Moved
<1>1. cmd.cwd \in Worktree
  BY DEF PrInv, CommandInv, PrCommands
<1>2. "source" \in PrFile /\ "made" \in PrFile
  BY DEF PrFile
<1>3. /\ Tree["source"]' = IF f = "source" THEN c ELSE Tree["source"]
      /\ Tree["made"]' = IF f = "made" THEN c ELSE Tree["made"]
  BY <1>1, <1>2, ChangeOne, CommandMoves DEF Tree
<1>4. CommandInv'
  BY <1>3, CommandInvMoves
<1>5. Moved
  BY <1>1, <1>2, ChangeOne DEF Moved, Holding, Absent
<1>. QED
  BY <1>4, <1>5, ChangeOne DEF PrInv
-----------------------------------------------------------------------------
(* The actions                                                             *)

\* what is known while a command applies its automations
LEMMA WhileApplying ==
    ASSUME PrInv, Applies
    PROVE  /\ cmd \in PrCommands /\ cmd.cwd \in Worktree /\ cmd.text \in Content
           /\ cmd.skips \in BOOLEAN
           /\ \A f \in PrFile : Tree[f] \in Content
           /\ Applying("move") => MoveInv
<1>1. cmd \in PrCommands /\ cmd.cwd \in Worktree /\ cmd.text \in Content /\ cmd.skips \in BOOLEAN
  BY DEF PrInv, CommandInv, PrCommands
<1>. QED
  BY <1>1 DEF PrInv, CommandInv, Tree, PullRequestTypeOK, Content

\* the contents that are written
LEMMA ContentsAre ==
    /\ {Absent, Torn, Holding(0), Holding(1)} \subseteq Content
    /\ Torn # Absent /\ \A x : Holding(x) # Absent /\ Holding(x) # Torn
    /\ Holding(0) # Holding(1)
<1>1. Torn # Absent /\ \A x : Holding(x) # Absent /\ Holding(x) # Torn
  BY DEF Torn, Absent, Holding
<1>2. Holding(0).has = 0 /\ Holding(1).has = 1
  BY DEF Holding
<1>3. {Absent, Torn, Holding(0), Holding(1)} \subseteq Content
  BY SMT DEF Content, File, Holding, MaxUpdates
<1>. QED
  BY <1>1, <1>2, <1>3

\* A command that ends needs nothing of the worktree.
LEMMA EndPrInv ==
    ASSUME PrInv, UNCHANGED tree, End
    PROVE  PrInv' /\ Moved
  BY OthersPrInv, NothingMoved DEF End, Becomes, NoCommand

\* Before the phases nothing is asked of "made".
LEMMA EarlyReady ==
    ASSUME NEW p \in {"copy templates", "automation", "questions", "vendoring", "copy chart",
                      "creates"}
    PROVE  p \in PrPlace /\ \A t, skips, source, made : Ready(p, t, skips, source, made)
  BY DEF PrPlace, Ready

\* The copy of the templates leads to the first automation, whatever it leaves.
LEMMA CopyTemplatesPrInv ==
    ASSUME PrInv, Applies, CopyTemplates
    PROVE  PrInv' /\ Moved
<1>1. "source" \in PrFile /\ "source" # "made"
  BY DEF PrFile
<1>2. ASSUME NEW p \in {"copy templates", "automation"}, Goto(p),
             UNCHANGED tree \/ \E c \in {Torn, Holding(0)} : Change("source", c)
      PROVE  PrInv' /\ Moved
  <2>1. Moves(p, cmd.text, cmd.skips)
    BY <1>2 DEF Goto, Becomes, Moves
  <2>2. CASE UNCHANGED tree
    BY <1>2, <2>1, <2>2, WhileApplying, EarlyReady, StaysInv
  <2>3. ASSUME NEW c \in {Torn, Holding(0)}, Change("source", c) PROVE PrInv' /\ Moved
    <3>1. c \in Content /\ c # Absent
      BY ContentsAre
    <3>2. p \in PrPlace /\ Ready(p, cmd.text, cmd.skips, c, Tree["made"])
      BY <1>2, EarlyReady
    <3>. QED
      BY <1>1, <2>1, <2>3, <3>1, <3>2, WhileApplying, ChangesInv
  <2>. QED
    BY <1>2, <2>2, <2>3
<1>. QED
  BY <1>2 DEF CopyTemplates

\* The configuration touches only workspace.yaml.
LEMMA ConfigurationPrInv ==
    ASSUME PrInv, Applies, BuildCRD \/ Configuration
    PROVE  PrInv' /\ Moved
<1>1. ASSUME NEW p \in {"questions", "vendoring", "creates"}, UNCHANGED tree,
             Moves(p, cmd.text, cmd.skips)
      PROVE  PrInv' /\ Moved
  BY <1>1, WhileApplying, EarlyReady, StaysInv
<1>2. First \in {"vendoring", "creates"}
  BY DEF First
<1>3. CASE BuildCRD
  BY <1>1, <1>2, <1>3 DEF BuildCRD, Becomes, Goto, Moves
<1>4. CASE Configuration
  BY <1>1, <1>2, <1>4, EndPrInv DEF Configuration, Becomes, Moves
<1>. QED
  BY <1>3, <1>4

\* replaceTo leads from a place that is ready to one that is, if the text it
\* holds suits the second place and what it makes of the text suits the third.
LEMMA ReplaceReady ==
    ASSUME PrInv, Applies, NEW next \in PrPlace, NEW filling \in PrPlace,
           NEW from \in PrFile, NEW f \in PrFile \ {"source"}, NEW c \in Content,
           \/ /\ Becomes([cmd EXCEPT !.at = filling, !.text = Tree[from]])
              /\ Change(f, Torn)
              /\ Applying("move") => Ready(filling, Tree[from], cmd.skips, Tree["source"],
                                           IF f = "made" THEN Torn ELSE Tree["made"])
           \/ /\ Becomes([cmd EXCEPT !.at = next, !.text = Absent])
              /\ Change(f, c)
              /\ Applying("move") => Ready(next, Absent, cmd.skips, Tree["source"],
                                           IF f = "made" THEN c ELSE Tree["made"])
    PROVE  PrInv' /\ Moved
<1>1. /\ Tree[from] \in Content /\ Absent \in Content /\ Torn \in Content
      /\ cmd.skips \in BOOLEAN
  BY WhileApplying, ContentsAre
<1>2. CASE /\ Becomes([cmd EXCEPT !.at = filling, !.text = Tree[from]])
           /\ Change(f, Torn)
           /\ Applying("move") => Ready(filling, Tree[from], cmd.skips, Tree["source"],
                                        IF f = "made" THEN Torn ELSE Tree["made"])
  <2>1. Moves(filling, Tree[from], cmd.skips)
    BY <1>2 DEF Becomes, Moves
  <2>. QED
    BY <1>1, <1>2, <2>1, ChangesInv
<1>3. CASE /\ Becomes([cmd EXCEPT !.at = next, !.text = Absent])
           /\ Change(f, c)
           /\ Applying("move") => Ready(next, Absent, cmd.skips, Tree["source"],
                                        IF f = "made" THEN c ELSE Tree["made"])
  <2>1. Moves(next, Absent, cmd.skips)
    BY <1>3 DEF Becomes, Moves
  <2>. QED
    BY <1>1, <1>3, <2>1, ChangesInv
<1>. QED
  BY <1>2, <1>3

\* The chart of a template is copied beside what the automation names.
LEMMA ApplyVendoringPrInv ==
    ASSUME PrInv, Applies, ApplyVendoring
    PROVE  PrInv' /\ Moved
<1>1. "chart" \in PrFile \ {"source", "made"} /\ Torn \in Content /\ Holding(0) \in Content
  BY ContentsAre DEF PrFile
<1>2. ASSUME NEW p \in {"copy chart", "creates"}, Goto(p),
             NEW c \in Content, Change("chart", c)
      PROVE  PrInv' /\ Moved
  <2>1. Moves(p, cmd.text, cmd.skips)
    BY <1>2 DEF Goto, Becomes, Moves
  <2>2. p \in PrPlace /\ Ready(p, cmd.text, cmd.skips, Tree["source"], Tree["made"])
    BY EarlyReady
  <2>. QED
    BY <1>1, <1>2, <2>1, <2>2, WhileApplying, ChangesInv
<1>. QED
  BY <1>1, <1>2 DEF ApplyVendoring

\* "made" is what the source is, unless a condition leaves its creation out.
LEMMA ApplyCreatesPrInv ==
    ASSUME PrInv, Applies, ApplyCreates
    PROVE  PrInv' /\ Moved
<1>1. /\ "made" \in PrFile \ {"source"} /\ "source" \in PrFile
      /\ "create" \in PrPlace /\ "replacements" \in PrPlace
  BY DEF PrFile, PrPlace
<1>2. CASE At("creates") /\ ~Applying("move") /\ Goto("replacements") /\ UNCHANGED <<files, tree>>
  <2>1. Moves("replacements", cmd.text, cmd.skips)
    BY <1>2 DEF Goto, Becomes, Moves
  <2>. QED
    BY <1>1, <1>2, <2>1, WhileApplying, StaysInv
<1>3. CASE Skips
  <2>1. Moves("replacements", cmd.text, TRUE)
    BY <1>3 DEF Skips, Becomes, Moves
  <2>2. Ready("replacements", cmd.text, TRUE, Tree["source"], Tree["made"])
    BY DEF Ready
  <2>. QED
    BY <1>1, <1>3, <2>1, <2>2, WhileApplying, StaysInv DEF Skips
<1>4. CASE /\ Applying("move") /\ At("creates") /\ Tree["source"] # Absent
           /\ Becomes([cmd EXCEPT !.at = "create", !.text = Tree["source"]])
           /\ Change("made", Torn)
  <2>1. Ready("create", Tree["source"], cmd.skips, Tree["source"], Torn)
    BY DEF Ready
  <2>. QED
    BY <1>1, <1>4, <2>1, ContentsAre, ReplaceReady
<1>5. CASE /\ Applying("move") /\ At("create")
           /\ Becomes([cmd EXCEPT !.at = "replacements", !.text = Absent])
           /\ Change("made", cmd.text)
  <2>1. Ready("replacements", Absent, cmd.skips, Tree["source"], cmd.text)
    BY <1>5, WhileApplying DEF MoveInv, Ready, At
  <2>. QED
    BY <1>1, <1>5, <2>1, WhileApplying, ReplaceReady
<1>. QED
  BY <1>2, <1>3, <1>4, <1>5 DEF ApplyCreates, ReplaceTo, Rendered

\* What an update makes of a content is a content.
LEMMA UpdatesAreContents ==
    ASSUME NEW t \in Content
    PROVE  /\ Updated(t) \in Content
           /\ t = Holding(0) => Updated(t) = Holding(1)
<1>1. ASSUME t \in File(0..MaxUpdates - 1)
      PROVE  t.has + 1 \in 0..MaxUpdates /\ t = Holding(t.has)
  BY <1>1, SMT DEF File, Holding, MaxUpdates
<1>2. \A n \in 0..MaxUpdates : Holding(n) \in Content
  BY DEF Content, File, Holding
<1>3. Holding(0) \in File(0..MaxUpdates - 1) /\ Holding(0).has = 0
  BY SMT DEF File, Holding, MaxUpdates
<1>. QED
  BY <1>1, <1>2, <1>3, ContentsAre, SMT DEF Updated

\* The replacements change "old" only.
LEMMA RegexReplacementsPrInv ==
    ASSUME PrInv, Applies, RegexReplacements
    PROVE  PrInv' /\ Moved
<1>1. /\ "old" \in PrFile \ {"source"} /\ "old" \in PrFile /\ "old" # "made"
      /\ "replace" \in PrPlace /\ "overlays" \in PrPlace
  BY DEF PrFile, PrPlace
<1>2. CASE /\ At("replacements") /\ Tree["old"] # Absent
           /\ Becomes([cmd EXCEPT !.at = "replace", !.text = Tree["old"]])
           /\ Change("old", Torn)
  <2>1. Applying("move") =>
          Ready("replace", Tree["old"], cmd.skips, Tree["source"], Tree["made"])
    BY <1>2, WhileApplying DEF Ready, MoveInv, At
  <2>. QED
    BY <1>1, <1>2, <2>1, ContentsAre, ReplaceReady
<1>3. CASE /\ At("replace")
           /\ Becomes([cmd EXCEPT !.at = "overlays", !.text = Absent])
           /\ Change("old", Updated(cmd.text))
  <2>1. Applying("move") => Ready("overlays", Absent, cmd.skips, Tree["source"], Tree["made"])
    BY <1>3, WhileApplying DEF Ready, MoveInv, At
  <2>. QED
    BY <1>1, <1>3, <2>1, WhileApplying, UpdatesAreContents, ReplaceReady
<1>. QED
  BY <1>2, <1>3 DEF RegexReplacements, ReplaceTo

\* The overlay changes "list" only.
LEMMA YamlOverlaysPrInv ==
    ASSUME PrInv, Applies, YamlOverlays
    PROVE  PrInv' /\ Moved
<1>1. /\ "list" \in PrFile \ {"source"} /\ "list" \in PrFile /\ "list" # "made"
      /\ "overlay" \in PrPlace /\ "walk" \in PrPlace
  BY DEF PrFile, PrPlace
<1>2. CASE At("overlays") /\ ~Applying("append") /\ Goto("walk") /\ UNCHANGED <<files, tree>>
  <2>1. Moves("walk", cmd.text, cmd.skips)
    BY <1>2 DEF Goto, Becomes, Moves
  <2>2. Applying("move") => Ready("walk", cmd.text, cmd.skips, Tree["source"], Tree["made"])
    BY <1>2, WhileApplying DEF Ready, MoveInv, At
  <2>. QED
    BY <1>1, <1>2, <2>1, <2>2, WhileApplying, StaysInv
<1>3. CASE /\ At("overlays") /\ Tree["list"] # Absent
           /\ Becomes([cmd EXCEPT !.at = "overlay", !.text = Tree["list"]])
           /\ Change("list", Torn)
  <2>1. Applying("move") =>
          Ready("overlay", Tree["list"], cmd.skips, Tree["source"], Tree["made"])
    BY <1>3, WhileApplying DEF Ready, MoveInv, At
  <2>. QED
    BY <1>1, <1>3, <2>1, ContentsAre, ReplaceReady
<1>4. CASE /\ At("overlay")
           /\ Becomes([cmd EXCEPT !.at = "walk", !.text = Absent])
           /\ Change("list", Updated(cmd.text))
  <2>1. Applying("move") => Ready("walk", Absent, cmd.skips, Tree["source"], Tree["made"])
    BY <1>4, WhileApplying DEF Ready, MoveInv, At
  <2>. QED
    BY <1>1, <1>4, <2>1, WhileApplying, UpdatesAreContents, ReplaceReady
<1>. QED
  BY <1>2, <1>3, <1>4 DEF YamlOverlays, ReplaceTo

\* The walk finds "made" as it was created, so what it makes of it is updated.
LEMMA UpdateMatchesPrInv ==
    ASSUME PrInv, Applies, UpdateMatches
    PROVE  PrInv' /\ Moved
<1>1. /\ "made" \in PrFile \ {"source"} /\ "made" \in PrFile
      /\ "update" \in PrPlace /\ "deletes" \in PrPlace
  BY DEF PrFile, PrPlace
<1>2. CASE /\ At("walk") /\ (~Applying("move") \/ Tree["made"] = Absent)
           /\ Goto("deletes") /\ UNCHANGED <<files, tree>>
  <2>1. Moves("deletes", cmd.text, cmd.skips)
    BY <1>2 DEF Goto, Becomes, Moves
  <2>2. Applying("move") => Ready("deletes", cmd.text, cmd.skips, Tree["source"], Tree["made"])
    BY <1>2, WhileApplying, ContentsAre DEF Ready, MoveInv, At
  <2>. QED
    BY <1>1, <1>2, <2>1, <2>2, WhileApplying, StaysInv
<1>3. CASE /\ Applying("move") /\ At("walk") /\ Tree["made"] # Absent
           /\ Becomes([cmd EXCEPT !.at = "update", !.text = Tree["made"]])
           /\ Change("made", Torn)
  <2>1. Ready("update", Tree["made"], cmd.skips, Tree["source"], Torn)
    BY <1>3, WhileApplying DEF Ready, MoveInv, At
  <2>. QED
    BY <1>1, <1>3, <2>1, ContentsAre, ReplaceReady
<1>4. CASE /\ Applying("move") /\ At("update")
           /\ Becomes([cmd EXCEPT !.at = "deletes", !.text = Absent])
           /\ Change("made", Updated(cmd.text))
  <2>1. Ready("deletes", Absent, cmd.skips, Tree["source"], Updated(cmd.text))
    BY <1>4, WhileApplying, UpdatesAreContents DEF Ready, MoveInv, At
  <2>. QED
    BY <1>1, <1>4, <2>1, WhileApplying, UpdatesAreContents, ReplaceReady
<1>. QED
  BY <1>2, <1>3, <1>4 DEF UpdateMatches, ReplaceTo

\* of several automations something is left to apply after the first
LEMMA TailIsLeft ==
    ASSUME NEW s \in Seq(Automation), Len(s) > 0, Len(s) # 1
    PROVE  Tail(s) \in Seq(Automation) /\ Len(Tail(s)) > 0
<1>1. s # <<>> /\ Len(s) \in Nat
  BY LenProperties, EmptySeq
<1>2. Tail(s) \in Seq(Automation) /\ Len(Tail(s)) = Len(s) - 1
  BY <1>1, HeadTailProperties
<1>. QED
  BY <1>1, <1>2

\* A command that goes on to other automations is a command.
LEMMA OtherTodo ==
    ASSUME NEW m \in PrCommands, NEW s \in Seq(Automation)
    PROVE  /\ [m EXCEPT !.todo = s] \in PrCommands
           /\ [m EXCEPT !.todo = s].at = m.at /\ [m EXCEPT !.todo = s].todo = s
  BY SMT DEF PrCommands

\* Whether a creation was left out is no part of what is to do.
LEMMA Unskipped ==
    ASSUME NEW m \in PrCommands, NEW skips \in BOOLEAN
    PROVE  /\ [m EXCEPT !.skips = skips] \in PrCommands
           /\ [m EXCEPT !.skips = skips].at = m.at /\ [m EXCEPT !.skips = skips].todo = m.todo
  BY SMT DEF PrCommands

\* "source" is deleted when "made" is whole and updated.
LEMMA ApplyDeletesPrInv ==
    ASSUME PrInv, Applies, ApplyDeletes
    PROVE  PrInv' /\ Moved
<1>1. /\ cmd \in PrCommands /\ Len(cmd.todo) > 0 /\ cmd.cwd \in Worktree
      /\ tree \in [Worktree -> [PrFile -> Content]]
      /\ "source" \in PrFile /\ "made" \in PrFile /\ "source" # "made" /\ Absent \in Content
  BY DEF PrInv, CommandInv, PrCommands, PullRequestTypeOK, Content, PrFile
<1>2. PullRequestTypeOK' /\ Moved
  <2>1. CASE Applying("move")
    <3>1. tree' = [tree EXCEPT ![cmd.cwd]["source"] = Absent]
      BY <2>1 DEF ApplyDeletes
    <3>2. tree[cmd.cwd]["source"] = Holding(0) => tree[cmd.cwd]["made"] = Holding(1) \/ cmd.skips
      BY <2>1, WhileApplying DEF MoveInv, Ready, ApplyDeletes, At, Tree
    <3>3. tree' \in [Worktree -> [PrFile -> Content]]
      BY <1>1, <3>1
    <3>4. \A d \in Worktree : /\ tree'[d]["made"] = tree[d]["made"]
                              /\ d # cmd.cwd => tree'[d]["source"] = tree[d]["source"]
      BY <1>1, <3>1
    <3>5. Moved
      BY <3>2, <3>4, ContentsAre DEF Moved
    <3>. QED
      BY <3>3, <3>5 DEF PullRequestTypeOK, Content
  <2>2. CASE ~Applying("move")
    <3>1. UNCHANGED tree
      BY <2>2 DEF ApplyDeletes
    <3>. QED
      BY <3>1, NothingMoved DEF PrInv, PullRequestTypeOK
  <2>. QED
    BY <2>1, <2>2
<1>3. CommandInv'
  <2>1. CASE End
    BY <2>1 DEF End, Becomes, NoCommand, CommandInv, Applies
  <2>2. CASE /\ Len(cmd.todo) # 1
             /\ cmd' = [cmd EXCEPT !.at = "automation", !.todo = Tail(@), !.skips = FALSE]
    <3>. DEFINE n == [cmd EXCEPT !.at = "automation"]
                m == [n EXCEPT !.todo = Tail(cmd.todo)]
    <3>1. n \in PrCommands /\ n.at = "automation"
      <4>1. "automation" \in PrPlace
        BY DEF PrPlace
      <4>. QED
        BY <1>1, <4>1, SMT DEF PrCommands
    <3>2. cmd' = [m EXCEPT !.skips = FALSE]
      BY <2>2
    <3>3. cmd.todo \in Seq(Automation)
      BY <1>1 DEF PrCommands
    <3>4. Tail(cmd.todo) \in Seq(Automation) /\ Len(Tail(cmd.todo)) > 0
      BY <1>1, <2>2, <3>3, TailIsLeft
    <3>. HIDE DEF n
    <3>5. m \in PrCommands /\ m.at = "automation" /\ Len(m.todo) > 0
      BY <3>1, <3>4, OtherTodo
    <3>. HIDE DEF m
    <3>6. cmd' \in PrCommands /\ cmd'.at = m.at /\ cmd'.todo = m.todo
      BY <3>2, <3>5, Unskipped
    <3>. QED
      BY <3>5, <3>6 DEF CommandInv, MoveInv, Ready
  <2>. QED
    BY <2>1, <2>2 DEF ApplyDeletes, Becomes
<1>. QED
  BY <1>2, <1>3 DEF PrInv

\* Whatever happens on the machine keeps the invariant, and moves nothing that
\* is not whole.
LEMMA NextPrInv ==
    PrInv /\ [PrNext]_<<cmd, tree>> => PrInv' /\ Moved
<1> SUFFICES ASSUME PrInv, [PrNext]_<<cmd, tree>> PROVE PrInv' /\ Moved
  OBVIOUS
<1>1. CASE StartPullRequest /\ UNCHANGED tree
  BY <1>1, StartPrInv, NothingMoved
<1>2. CASE PullRequestNext
  BY <1>2, CopyTemplatesPrInv, ConfigurationPrInv, ApplyVendoringPrInv, ApplyCreatesPrInv,
     RegexReplacementsPrInv, YamlOverlaysPrInv, UpdateMatchesPrInv, ApplyDeletesPrInv
     DEF PullRequestNext
<1>3. CASE UNCHANGED tree /\ "todo" \notin DOMAIN cmd'
  BY <1>3, OthersPrInv, NothingMoved
<1>4. CASE UNCHANGED <<cmd, tree>>
  BY <1>4, NothingMoved DEF PrInv, PullRequestTypeOK, CommandInv, MoveInv, Ready, Applies,
     Applying, Tree
<1>. QED
  BY <1>1, <1>2, <1>3, <1>4 DEF PrNext

-----------------------------------------------------------------------------

\* What an automation moves is never lost (pkg/pr/apply.go, no way back), however
\* often commands are killed and run again and whatever runs in between: a whole
\* source is deleted only when what was made of it is whole and updated exactly
\* once, or when a condition had left that out.
THEOREM MovesAreWhole == PrSpec => MovedWhole
<1>1. PrInv /\ [PrNext]_<<cmd, tree>> => PrInv' /\ [Moved]_tree
  BY NextPrInv
<1>. QED
  BY <1>1, InitPrInv, PTL DEF PrSpec, MovedWhole, Moved

(* Which command is which                                                  *)

\* not the command of an automation
Elsewhere(c) == "todo" \notin DOMAIN c

\* where the commands of the other components are
IdentityPlace  == {"login", "me", "flush", "fill", "use", "save", "saving", "amend",
                   "token", "exchange", "import"}
WorkspacePlace == {"client", "choose", "validate", "preflight", "ensure", "provider",
                   "upgrade", "upgrading", "survey", "preflights", "repo", "github key",
                   "gitlab key", "bitbucket key", "readme", "clone", "context",
                   "contexting", "manifest", "write", "written", "domain", "naming",
                   "build", "cluster", "backfill", "credentials", "backfilled",
                   "generate", "bucket", "deploy"}
ServicesPlace  == {"console login", "save console", "connect", "look up", "send"}
EdgePlace      == {"cloud config", "configuring", "volume", "unpack", "build image",
                   "building", "save image", "copy image"}
PlanePlace     == {"control plane", "values", "workspace", "render", "install", "oidc",
                   "merge", "write values", "fill values"}
OtherPlace     == IdentityPlace \union WorkspacePlace \union ServicesPlace
                    \union EdgePlace \union PlanePlace

-----------------------------------------------------------------------------
(* No step turns another command into that of an automation.               *)

\* a command that ends
LEMMA EndElsewhere == End => Elsewhere(cmd')
  BY DEF End, Becomes, NoCommand, Elsewhere

\* one that goes on at another place
LEMMA GotoElsewhere ==
    ASSUME NEW place, Elsewhere(cmd), Goto(place)
    PROVE  Elsewhere(cmd')
  BY DEF Goto, Becomes, Elsewhere

\* The commands of Identity stay what they are.
LEMMA IdentityStays ==
    ASSUME Elsewhere(cmd), IdentityNext
    PROVE  Elsewhere(cmd')
<1>1. CASE HandleLogin
  BY <1>1 DEF HandleLogin, Becomes, Elsewhere
<1>2. CASE PostLogin
  BY <1>2 DEF PostLogin, Becomes, Elsewhere
<1>3. CASE Flush \/ Filled
  BY <1>3, EndElsewhere, GotoElsewhere DEF Flush, Filled, Becomes, Elsewhere
<1>4. CASE UseProfile \/ SaveProfile \/ Amend \/ FromToken \/ OidcToken \/ ImportHome
  BY <1>4, EndElsewhere DEF UseProfile, SaveProfile, Amend, FromToken, OidcToken,
     ImportHome, Store, Becomes, Elsewhere
<1>. QED
  BY <1>1, <1>2, <1>3, <1>4 DEF IdentityNext

\* What is forgotten of a command does not make it another.
LEMMA ForgetElsewhere ==
    ASSUME Elsewhere(cmd)
    PROVE  Elsewhere(Forget(cmd))
  BY DEF Forget, Elsewhere

\* a provider that workspace.yaml names
LEMMA FromManifestElsewhere ==
    ASSUME Elsewhere(cmd), NEW man, NEW place, FromManifest(man, place)
    PROVE  Elsewhere(cmd')
  BY ForgetElsewhere DEF FromManifest, Becomes, Elsewhere

\* The surveys stay what they are.
LEMMA SurveyElsewhere ==
    ASSUME Elsewhere(cmd), Survey
    PROVE  Elsewhere(cmd')
<1>1. ASSUME NEW man, Surveyed(man) PROVE Elsewhere(cmd')
  BY <1>1, ForgetElsewhere DEF Surveyed, Becomes, Elsewhere
<1>2. ASSUME Unanswered PROVE Elsewhere(cmd')
  BY <1>2, ForgetElsewhere DEF Unanswered, Becomes, Elsewhere
<1>3. ASSUME NEW man, Configure(man) PROVE Elsewhere(cmd')
  BY <1>1, <1>2, <1>3 DEF Configure
<1>. QED
  BY <1>1, <1>3 DEF Survey, SurveyDry, SurveyAws, SurveyGcp, SurveyAzure, SurveyByok

\* The commands of Workspace stay what they are.
LEMMA WorkspaceStays ==
    ASSUME Elsewhere(cmd), WorkspaceNext
    PROVE  Elsewhere(cmd')
<1>1. CASE InitPluralClient \/ ChoseCluster \/ ValidateConsoleConfig
  BY <1>1 DEF InitPluralClient, ChoseCluster, ValidateConsoleConfig, At, Becomes, Elsewhere
<1>2. CASE Preflight \/ EnsureWorkspace
  BY <1>2, ForgetElsewhere, GotoElsewhere DEF Preflight, EnsureWorkspace, Becomes, Elsewhere
<1>3. CASE GetProvider
  BY <1>3, FromManifestElsewhere DEF GetProvider, Becomes, Elsewhere
<1>4. CASE UpgradeManifest
  BY <1>4, GotoElsewhere DEF UpgradeManifest
<1>5. CASE Survey
  BY <1>5, SurveyElsewhere
<1>6. CASE RunPreflights
  BY <1>6, ForgetElsewhere DEF RunPreflights, Becomes, Elsewhere
<1>7. CASE GithubSetup \/ GitlabSetup \/ BitbucketSetup
  BY <1>7, GotoElsewhere DEF GithubSetup, GitlabSetup, BitbucketSetup, CreateRepository,
     AddDeployKey
<1>8. CASE Clone \/ BuildContext
  BY <1>8, GotoElsewhere DEF Clone, BuildContext, Becomes, Elsewhere
<1>9. CASE FlushProvider \/ WriteManifest
  BY <1>9, EndElsewhere, GotoElsewhere, ForgetElsewhere
     DEF FlushProvider, WriteManifest, Leave, Becomes, Elsewhere
<1>10. CASE AskAppDomain
  BY <1>10, GotoElsewhere DEF AskAppDomain, Becomes, Elsewhere
<1>11. CASE Build
  BY <1>11, FromManifestElsewhere DEF Build
<1>12. CASE GetCluster \/ Backfill \/ BackfillHTTPS \/ BackfillSSH \/ WriteContext
  BY <1>12, GotoElsewhere DEF GetCluster, Backfill, BackfillHTTPS, BackfillSSH,
     WriteContext, Ask, Becomes, Elsewhere
<1>13. CASE Generate \/ CreateBucket \/ ByokBucket \/ Deployed
  BY <1>13, EndElsewhere, GotoElsewhere DEF Generate, CreateBucket, ByokBucket, Deployed
<1>14. CASE AzureGroup \/ AzureAccount \/ AzureContainer
  BY <1>14, GotoElsewhere DEF AzureGroup, AzureAccount, AzureContainer, Elsewhere
<1>. QED
  BY <1>1, <1>2, <1>3, <1>4, <1>5, <1>6, <1>7, <1>8, <1>9, <1>10, <1>11, <1>12, <1>13, <1>14
     DEF WorkspaceNext

\* The commands that talk to a console stay what they are.
LEMMA ServicesStay ==
    ASSUME Elsewhere(cmd), ServicesNext
    PROVE  Elsewhere(cmd')
<1>1. CASE HandleCdLogin \/ SaveConsole
  BY <1>1, EndElsewhere, GotoElsewhere DEF HandleCdLogin, SaveConsole, Proceed, Becomes, Elsewhere
<1>2. CASE InitConsoleClient \/ GetClusterService
  BY <1>2, EndElsewhere, GotoElsewhere DEF InitConsoleClient, GetClusterService, Becomes, Elsewhere
<1>3. CASE CreateService \/ UpdateService \/ CloneService \/ DeleteService \/ KickService
  BY <1>3, EndElsewhere DEF CreateService, UpdateService, CloneService, DeleteService,
     KickService, Put
<1>4. CASE OthersWrite
  BY <1>4 DEF OthersWrite, Elsewhere
<1>. QED
  BY <1>1, <1>2, <1>3, <1>4 DEF ServicesNext

\* `edge image` stays what it is.
LEMMA EdgeStays ==
    ASSUME Elsewhere(cmd), EdgeNext
    PROVE  Elsewhere(cmd')
  BY EndElsewhere, GotoElsewhere DEF EdgeNext, WriteCloudConfig, CreateVolume, Unpack,
     BuildImage, SaveImage, FailImage, CleanUp

\* `cd control-plane` and `control-plane-values` stay what they are.
LEMMA ControlPlaneStays ==
    ASSUME Elsewhere(cmd), ControlPlaneNext
    PROVE  Elsewhere(cmd')
<1>1. ASSUME NEW text, NEW user, Installing(text, user) PROVE Elsewhere(cmd')
  BY <1>1 DEF Installing, Becomes, Elsewhere
<1>2. CASE CreateControlPlane \/ ControlPlaneValues
  BY <1>1, <1>2 DEF CreateControlPlane, ControlPlaneValues
<1>3. CASE ReadsWorkspace
  BY <1>3, FromManifestElsewhere DEF ReadsWorkspace, Becomes, Elsewhere
<1>4. CASE EnsureInstalled \/ SetupOIDC \/ WriteValues
  BY <1>4, EndElsewhere, GotoElsewhere DEF EnsureInstalled, SetupOIDC, WriteValues,
     Becomes, Elsewhere
<1>5. CASE OthersBind
  BY <1>5 DEF OthersBind, Elsewhere
<1>. QED
  BY <1>2, <1>3, <1>4, <1>5 DEF ControlPlaneNext

\* Nor does a command of another component begin as one of an automation.
LEMMA StartsElsewhere ==
    ASSUME \/ StartIdentity \/ StartWorkspace \/ StartServices
           \/ StartEdge \/ StartControlPlane
    PROVE  Elsewhere(cmd')
<1>1. ASSUME NEW name, NEW place, NEW d, NEW pf, Start(Command(name, place, d, pf))
      PROVE  Elsewhere(cmd')
  BY <1>1 DEF Start, Command, Elsewhere
<1>2. ASSUME NEW name, NEW place, NEW pick, NEW set, Start(ConsoleCommand(name, place, pick, set))
      PROVE  Elsewhere(cmd')
  BY <1>2 DEF Start, ConsoleCommand, Elsewhere
<1>3. ASSUME NEW d, NEW pf, NEW dry, NEW cld,
             Start([Command("up", "login", d, pf) EXCEPT
                      !.next = "client", !.dry = dry, !.cloud = cld])
      PROVE  Elsewhere(cmd')
  BY <1>3 DEF Start, Command, Elsewhere
<1>4. CASE StartIdentity
  BY <1>1, <1>4 DEF StartIdentity
<1>5. CASE StartWorkspace
  BY <1>1, <1>3, <1>5 DEF StartWorkspace
<1>6. CASE StartServices \/ StartEdge
  BY <1>2, <1>6 DEF StartServices, StartEdge
<1>7. CASE StartControlPlane
  BY <1>1, <1>7 DEF StartControlPlane
<1>. QED
  BY <1>4, <1>5, <1>6, <1>7
-----------------------------------------------------------------------------
(* No step of another component is one of an automation's command.         *)

\* where the commands of the other components are
LEMMA OtherPlaces ==
    /\ IdentityNext => cmd.at \in IdentityPlace
    /\ WorkspaceNext => cmd.at \in WorkspacePlace
    /\ ServicesNext => cmd.at \in ServicesPlace
    /\ EdgeNext => cmd.at \in EdgePlace
    /\ ControlPlaneNext => cmd.at \in PlanePlace
<1>1. IdentityNext => cmd.at \in IdentityPlace
  BY DEF IdentityNext, HandleLogin, PostLogin, Flush, Filled, UseProfile, SaveProfile, Amend,
     FromToken, OidcToken, ImportHome, At, IdentityPlace
<1>2. WorkspaceNext => cmd.at \in WorkspacePlace
  <2>1. CASE \/ InitPluralClient \/ ChoseCluster \/ ValidateConsoleConfig
             \/ Preflight \/ EnsureWorkspace \/ GetProvider \/ UpgradeManifest
    BY <2>1 DEF InitPluralClient, ChoseCluster, ValidateConsoleConfig, Preflight,
       EnsureWorkspace, GetProvider, UpgradeManifest, At, WorkspacePlace
  <2>2. CASE Survey \/ RunPreflights
    BY <2>2 DEF Survey, SurveyDry, SurveyAws, SurveyGcp, SurveyAzure, SurveyByok, Surveying,
       RunPreflights, At, WorkspacePlace
  <2>3. CASE GithubSetup \/ GitlabSetup \/ BitbucketSetup \/ Clone \/ BuildContext
    BY <2>3 DEF GithubSetup, GitlabSetup, BitbucketSetup, CreateRepository, AddDeployKey,
       Clone, BuildContext, At, WorkspacePlace
  <2>4. CASE FlushProvider \/ WriteManifest \/ AskAppDomain \/ Build \/ GetCluster
    BY <2>4 DEF FlushProvider, WriteManifest, AskAppDomain, Build, GetCluster, At,
       WorkspacePlace
  <2>5. CASE Backfill \/ BackfillHTTPS \/ BackfillSSH \/ WriteContext \/ Generate
    BY <2>5 DEF Backfill, BackfillHTTPS, BackfillSSH, WriteContext, Generate, At,
       WorkspacePlace
  <2>6. CASE \/ CreateBucket \/ AzureGroup \/ AzureAccount \/ AzureContainer
             \/ ByokBucket \/ Deployed
    BY <2>6 DEF CreateBucket, AzureGroup, AzureAccount, AzureContainer, ByokBucket, Deployed,
       At, WorkspacePlace
  <2>. QED
    BY <2>1, <2>2, <2>3, <2>4, <2>5, <2>6 DEF WorkspaceNext
<1>3. ServicesNext => cmd.at \in ServicesPlace
  BY DEF ServicesNext, HandleCdLogin, SaveConsole, InitConsoleClient, GetClusterService,
     CreateService, UpdateService, CloneService, DeleteService, KickService, Sending,
     OthersWrite, At, ServicesPlace
<1>4. EdgeNext => cmd.at \in EdgePlace
  BY DEF EdgeNext, WriteCloudConfig, CreateVolume, Unpack, BuildImage, SaveImage, FailImage,
     At, EdgePlace
<1>5. ControlPlaneNext => cmd.at \in PlanePlace
  BY DEF ControlPlaneNext, CreateControlPlane, ReadsWorkspace, ControlPlaneValues,
     EnsureInstalled, SetupOIDC, OthersBind, WriteValues, At, PlanePlace
<1>. QED
  BY <1>1, <1>2, <1>3, <1>4, <1>5

\* An automation's command is at none of these.
LEMMA PlacesApart ==
    ASSUME PrInv, cmd.at \in OtherPlace
    PROVE  Elsewhere(cmd)
<1>1. Applies => cmd.at \in PrPlace
  BY DEF PrInv, CommandInv, PrCommands
<1>2. ASSUME NEW p \in PrPlace PROVE p \notin OtherPlace
  <2>1. p \notin IdentityPlace
    BY DEF PrPlace, IdentityPlace
  <2>2. p \notin WorkspacePlace
    BY DEF PrPlace, WorkspacePlace
  <2>3. p \notin ServicesPlace /\ p \notin EdgePlace
    BY DEF PrPlace, ServicesPlace, EdgePlace
  <2>4. p \notin PlanePlace
    BY DEF PrPlace, PlanePlace
  <2>. QED
    BY <2>1, <2>2, <2>3, <2>4 DEF OtherPlace
<1>. QED
  BY <1>1, <1>2 DEF Applies, Elsewhere

-----------------------------------------------------------------------------

\* A session begins as one of automations.
LEMMA SessionInit == Init => PrInit
<1>1. Checkout \in [Worktree -> [PrFile -> {Absent} \union File({0})]]
  BY SMT DEF Checkout, PrFile, Absent, Holding, File
<1>2. \A d \in Worktree : Checkout[d]["source"] # Absent
  BY SMT DEF Checkout, PrFile, Absent, Holding
<1>. QED
  BY <1>1, <1>2 DEF Init, PrInit

\* Every step of a session is one of the automations, or leaves them alone.
LEMMA SessionNext ==
    ASSUME PrInv, [Next]_vars
    PROVE  [PrNext]_<<cmd, tree>>
<1>1. ASSUME UNCHANGED tree, Elsewhere(cmd') PROVE PrNext
  BY <1>1 DEF PrNext, Elsewhere
<1>2. ASSUME UNCHANGED <<files, outside, side>>,
             \/ StartIdentity \/ StartWorkspace \/ StartServices
             \/ StartPullRequest \/ StartEdge \/ StartControlPlane
      PROVE  PrNext
  <2>1. UNCHANGED tree
    BY <1>2 DEF side
  <2>2. CASE StartPullRequest
    BY <2>1, <2>2 DEF PrNext
  <2>. QED
    BY <1>1, <1>2, <2>1, <2>2, StartsElsewhere
<1>3. CASE Abort
  BY <1>1, <1>3, EndElsewhere DEF Abort, side
<1>4. CASE IdentityNext /\ UNCHANGED <<outside, side>>
  <2>1. cmd.at \in OtherPlace
    BY <1>4, OtherPlaces DEF OtherPlace
  <2>. QED
    BY <1>1, <1>4, <2>1, PlacesApart, IdentityStays DEF side
<1>5. CASE WorkspaceNext /\ UNCHANGED side
  <2>1. cmd.at \in OtherPlace
    BY <1>5, OtherPlaces DEF OtherPlace
  <2>. QED
    BY <1>1, <1>5, <2>1, PlacesApart, WorkspaceStays DEF side
<1>6. CASE ServicesNext /\ UNCHANGED <<outside, tree, edge, plane>>
  <2>1. cmd.at \in OtherPlace
    BY <1>6, OtherPlaces DEF OtherPlace
  <2>. QED
    BY <1>1, <1>6, <2>1, PlacesApart, ServicesStay
<1>7. CASE PullRequestNext
  BY <1>7 DEF PrNext
<1>8. CASE EdgeNext /\ UNCHANGED <<outside, tree, plane>>
  <2>1. cmd.at \in OtherPlace
    BY <1>8, OtherPlaces DEF OtherPlace
  <2>. QED
    BY <1>1, <1>8, <2>1, PlacesApart, EdgeStays
<1>9. CASE ControlPlaneNext /\ UNCHANGED <<onConsole, tree, edge>>
  <2>1. cmd.at \in OtherPlace
    BY <1>9, OtherPlaces DEF OtherPlace
  <2>. QED
    BY <1>1, <1>9, <2>1, PlacesApart, ControlPlaneStays
<1>10. CASE UNCHANGED vars
  BY <1>10 DEF vars, side
<1>. QED
  BY <1>2, <1>3, <1>4, <1>5, <1>6, <1>7, <1>8, <1>9, <1>10 DEF Next

\* What automations move is never lost on a machine that runs every command of
\* the session between and around them, any number of times and killed anywhere
\* (pkg/pr/apply.go has no way back).
THEOREM SessionMovesAreWhole == Spec => MovedWhole
<1>1. PrInit => PrInv
  BY InitPrInv
<1>2. PrInv /\ [Next]_vars => PrInv' /\ [Moved]_tree
  BY SessionNext, NextPrInv
<1>. QED
  BY <1>1, <1>2, SessionInit, PTL DEF Spec, MovedWhole, Moved

-----------------------------------------------------------------------------
(***************************************************************************)
(* The shapes of commands: which fields a command has is known from where  *)
(* it is, in every session.                                                *)
(***************************************************************************)

\* where a command of Identity or Workspace goes on after a detour
NextPlace == {"end", "client", "provider", "validate", "preflights", "cluster",
              "backfill", "render"}

LoginPlace   == IdentityPlace \union WorkspacePlace \union NextPlace
                  \union {"control plane", "values", "workspace"}
InstallPlace == {"install", "oidc", "merge", "write values", "fill values"}
SharedPlace  == {"console login", "save console"}

LoginField   == {"name", "at", "next", "cwd", "pf", "dry", "cloud", "mem", "conf", "asked",
                 "client", "man", "writer", "cred", "pick"}
ConsoleField == {"name", "at", "next", "cwd", "pick", "set", "seen"}
InstallField == {"name", "at", "cwd", "text", "me", "had"}

OfLogin(c) ==
    /\ DOMAIN c = LoginField /\ c.next \in NextPlace
    /\ \/ c.at \in LoginPlace
       \/ c.at \in SharedPlace /\ c.next = "validate"
OfConsole(c) ==
    /\ DOMAIN c = ConsoleField /\ c.next = "end"
    /\ c.at \in ServicesPlace \union EdgePlace
OfInstall(c) == DOMAIN c = InstallField /\ c.at \in InstallPlace
OfPr(c)      == "todo" \in DOMAIN c /\ c.at \in PrPlace

Shape(c) == c = NoCommand \/ OfLogin(c) \/ OfConsole(c) \/ OfInstall(c) \/ OfPr(c)

\* A place tells the shape.
LEMMA ShapeAt ==
    ASSUME NEW c, Shape(c)
    PROVE  /\ c.at \in LoginPlace => OfLogin(c)
           /\ c.at \in SharedPlace => OfLogin(c) \/ OfConsole(c)
           /\ c.at \in (ServicesPlace \union EdgePlace) \ SharedPlace => OfConsole(c)
           /\ c.at \in InstallPlace => OfInstall(c)
<1>1. ASSUME NEW p \in LoginPlace
      PROVE  p \notin SharedPlace /\ p \notin ServicesPlace \union EdgePlace
             /\ p \notin InstallPlace /\ p \notin PrPlace /\ p # "none"
  <2>1. p \notin SharedPlace /\ p \notin ServicesPlace /\ p # "none"
    BY DEF LoginPlace, IdentityPlace, WorkspacePlace, NextPlace, SharedPlace, ServicesPlace
  <2>2. p \notin EdgePlace /\ p \notin InstallPlace
    BY DEF LoginPlace, IdentityPlace, WorkspacePlace, NextPlace, EdgePlace, InstallPlace
  <2>3. p \notin PrPlace
    BY DEF LoginPlace, IdentityPlace, WorkspacePlace, NextPlace, PrPlace
  <2>. QED
    BY <2>1, <2>2, <2>3
<1>2. ASSUME NEW p \in ServicesPlace \union EdgePlace
      PROVE  p \notin InstallPlace /\ p \notin PrPlace /\ p # "none"
  BY DEF ServicesPlace, EdgePlace, InstallPlace, PrPlace
<1>3. ASSUME NEW p \in InstallPlace
      PROVE  p \notin SharedPlace /\ p \notin PrPlace /\ p # "none"
  BY DEF InstallPlace, SharedPlace, PrPlace
<1>4. SharedPlace \subseteq ServicesPlace
  BY DEF SharedPlace, ServicesPlace
<1>5. NoCommand.at = "none"
  BY DEF NoCommand
<1>. QED
  BY <1>1, <1>2, <1>3, <1>4, <1>5 DEF Shape, OfLogin, OfConsole, OfInstall, OfPr
-----------------------------------------------------------------------------
(* A command that goes on keeps its shape.                                 *)

\* a command that ends
LEMMA EndShape == End => Shape(cmd') /\ cmd' = NoCommand
  BY DEF End, Becomes, Shape

\* one that is shaped like a login and goes on to a place
LEMMA LoginGoto ==
    ASSUME OfLogin(cmd), NEW place \in LoginPlace, Goto(place)
    PROVE  OfLogin(cmd') /\ cmd'.at = place
  BY DEF OfLogin, LoginField, Goto, Becomes

\* after the login it goes on at a place of such commands
LEMMA LoginNext ==
    ASSUME OfLogin(cmd)
    PROVE  cmd.next \in LoginPlace
  BY DEF OfLogin, LoginPlace

\* The commands of Identity keep theirs.
LEMMA IdentityShape ==
    ASSUME Shape(cmd), IdentityNext
    PROVE  \/ OfLogin(cmd') /\ cmd'.at \in IdentityPlace \union NextPlace
           \/ cmd' = NoCommand
<1>1. OfLogin(cmd)
  BY OtherPlaces, ShapeAt DEF LoginPlace
<1>2. /\ DOMAIN cmd = LoginField /\ "at" \in LoginField /\ "next" \in LoginField
      /\ cmd.next \in NextPlace
  BY <1>1 DEF OfLogin, LoginField
<1>3. ASSUME DOMAIN cmd' = DOMAIN cmd, cmd'.next = cmd.next,
             cmd'.at \in IdentityPlace \/ cmd'.at = cmd.next
      PROVE  OfLogin(cmd') /\ cmd'.at \in IdentityPlace \union NextPlace
  BY <1>2, <1>3 DEF OfLogin, LoginPlace
<1>4. {"me", "flush", "fill", "saving"} \subseteq IdentityPlace
  BY DEF IdentityPlace
<1>5. CASE HandleLogin
  BY <1>2, <1>3, <1>4, <1>5 DEF HandleLogin, Becomes
<1>6. CASE PostLogin
  BY <1>2, <1>3, <1>4, <1>6 DEF PostLogin, Becomes
<1>7. CASE Flush
  BY <1>2, <1>3, <1>4, <1>7 DEF Flush, Goto, Becomes
<1>8. CASE Filled
  BY <1>2, <1>3, <1>4, <1>8, EndShape DEF Filled, Becomes
<1>9. ASSUME NEW conf, NEW asked, Store(conf, asked)
      PROVE  OfLogin(cmd') /\ cmd'.at \in IdentityPlace \union NextPlace
  BY <1>2, <1>3, <1>4, <1>9 DEF Store, Becomes
<1>10. CASE UseProfile \/ Amend \/ FromToken \/ OidcToken \/ ImportHome
  BY <1>9, <1>10 DEF UseProfile, Amend, FromToken, OidcToken, ImportHome
<1>11. CASE SaveProfile
  BY <1>2, <1>3, <1>4, <1>11, EndShape DEF SaveProfile, Becomes
<1>. QED
  BY <1>5, <1>6, <1>7, <1>8, <1>10, <1>11 DEF IdentityNext
\* where those of Workspace go, but for the login to a console
WorkspaceLands == WorkspacePlace \union NextPlace \union {"exchange", "values", "login"}

\* a command like a login still, at one of these places
Kept(places) == OfLogin(cmd') /\ cmd'.at \in places

\* What a command forgets is not part of its shape.
LEMMA ForgetShape ==
    ASSUME DOMAIN cmd = LoginField
    PROVE  /\ DOMAIN Forget(cmd) = LoginField
           /\ Forget(cmd).next = "end" /\ Forget(cmd).at = cmd.at
  BY DEF Forget, LoginField

\* The commands of Workspace keep theirs.
LEMMA WorkspaceShape ==
    ASSUME Shape(cmd), WorkspaceNext
    PROVE  \/ Kept(WorkspaceLands)
           \/ OfLogin(cmd') /\ cmd'.at = "console login"
           \/ cmd' = NoCommand
<1>1. OfLogin(cmd) /\ cmd.at \in WorkspacePlace
  BY OtherPlaces, ShapeAt DEF LoginPlace
<1>2. /\ DOMAIN cmd = LoginField /\ "at" \in LoginField /\ "next" \in LoginField
      /\ cmd.next \in NextPlace
      /\ DOMAIN Forget(cmd) = LoginField
      /\ Forget(cmd).next = "end" /\ "end" \in NextPlace
  BY <1>1, ForgetShape DEF OfLogin, LoginField, NextPlace
<1>3. WorkspaceLands \subseteq LoginPlace
  BY DEF WorkspaceLands, LoginPlace, IdentityPlace
<1>4. ASSUME DOMAIN cmd' = LoginField, cmd'.next \in NextPlace, cmd'.at \in WorkspaceLands
      PROVE  Kept(WorkspaceLands)
  BY <1>3, <1>4 DEF OfLogin, Kept
<1>5. ASSUME NEW place \in WorkspaceLands, Goto(place) PROVE Kept(WorkspaceLands)
  BY <1>2, <1>4, <1>5 DEF Goto, Becomes
<1>6. ASSUME NEW man, NEW place \in NextPlace, FromManifest(man, place) PROVE Kept(WorkspaceLands)
  <2>1. "upgrade" \in WorkspaceLands /\ place \in WorkspaceLands
    BY DEF WorkspaceLands, WorkspacePlace
  <2>. QED
    BY <1>2, <1>4, <1>6, <2>1 DEF FromManifest, Becomes
<1>7. /\ {"exchange", "values", "choose", "preflight", "ensure", "provider", "write", "survey",
          "preflights", "repo", "manifest", "github key", "gitlab key", "bitbucket key",
          "clone", "readme", "context", "contexting"} \subseteq WorkspaceLands
      /\ {"written", "domain", "build", "naming", "backfill", "generate", "credentials",
          "backfilled", "bucket", "deploy", "upgrading", "login"} \subseteq WorkspaceLands
      /\ {"provider", "preflights", "cluster", "backfill", "validate"} \subseteq NextPlace
  BY DEF WorkspaceLands, WorkspacePlace, NextPlace
<1>8. CASE InitPluralClient
  BY <1>2, <1>4, <1>7, <1>8 DEF InitPluralClient, ClientFor, Becomes
<1>9. CASE ChoseCluster
  <2>1. /\ DOMAIN cmd' = LoginField
        /\ cmd'.at = "console login" /\ cmd'.next = "validate"
    BY <1>2, <1>9 DEF ChoseCluster, Becomes
  <2>. QED
    BY <1>7, <2>1 DEF OfLogin, SharedPlace
<1>10. CASE ValidateConsoleConfig
  BY <1>2, <1>4, <1>7, <1>10 DEF ValidateConsoleConfig, Becomes
<1>11. CASE Preflight \/ EnsureWorkspace
  BY <1>2, <1>4, <1>5, <1>7, <1>11 DEF Preflight, EnsureWorkspace, Becomes
<1>12. CASE GetProvider \/ Build
  <2>1. ASSUME NEW p PROVE Becomes([cmd EXCEPT !.at = "survey", !.man.prov = p]) => Kept(WorkspaceLands)
    BY <1>2, <1>4, <1>7 DEF Becomes
  <2>. QED
    BY <1>6, <1>7, <1>12, <2>1 DEF GetProvider, Build
<1>13. CASE UpgradeManifest
  <2>1. cmd.next \in WorkspaceLands
    BY <1>2 DEF WorkspaceLands
  <2>. QED
    BY <1>5, <1>7, <1>13, <2>1 DEF UpgradeManifest
<1>14. CASE Survey \/ RunPreflights
  <2>1. ASSUME NEW man PROVE (Surveyed(man) => Kept(WorkspaceLands)) /\ (Unanswered => Kept(WorkspaceLands))
    BY <1>2, <1>4, <1>7 DEF Surveyed, Unanswered, Becomes
  <2>2. ASSUME NEW man PROVE Configure(man) => Kept(WorkspaceLands)
    BY <2>1 DEF Configure
  <2>3. RunPreflights => Kept(WorkspaceLands)
    BY <1>2, <1>4, <1>7 DEF RunPreflights, Becomes
  <2>. QED
    BY <1>14, <2>1, <2>2, <2>3 DEF Survey, SurveyDry, SurveyAws, SurveyGcp, SurveyAzure, SurveyByok
<1>15. CASE GithubSetup \/ GitlabSetup \/ BitbucketSetup
  BY <1>5, <1>7, <1>15 DEF GithubSetup, GitlabSetup, BitbucketSetup, CreateRepository,
     AddDeployKey
<1>16. CASE Clone \/ BuildContext
  BY <1>2, <1>4, <1>5, <1>7, <1>16 DEF Clone, BuildContext, Becomes
<1>17. CASE FlushProvider \/ WriteManifest
  <2>1. Leave(Configured) => Kept(WorkspaceLands) \/ cmd' = NoCommand
    BY <1>2, <1>4, <1>7, EndShape DEF Leave, Configured, Becomes
  <2>. QED
    BY <1>5, <1>7, <1>17, <2>1 DEF FlushProvider, WriteManifest
<1>18. CASE AskAppDomain
  BY <1>2, <1>4, <1>5, <1>7, <1>18 DEF AskAppDomain, Becomes
<1>19. CASE GetCluster \/ Backfill \/ BackfillHTTPS \/ BackfillSSH \/ WriteContext
  BY <1>2, <1>4, <1>5, <1>7, <1>19 DEF GetCluster, Backfill, BackfillHTTPS, BackfillSSH,
     WriteContext, Ask, Becomes
<1>20. CASE Generate \/ CreateBucket \/ ByokBucket \/ Deployed
  BY <1>5, <1>7, <1>20, EndShape DEF Generate, CreateBucket, ByokBucket, Deployed
<1>21. CASE AzureGroup \/ AzureAccount \/ AzureContainer
  <2>1. "deploy" \in WorkspaceLands /\ WorkspacePlace \subseteq WorkspaceLands
    BY <1>7 DEF WorkspaceLands
  <2>2. cmd' = cmd \/ Goto("deploy")
    BY <1>21 DEF AzureGroup, AzureAccount, AzureContainer
  <2>. QED
    BY <1>1, <1>5, <2>1, <2>2 DEF Kept
<1>. QED
  BY <1>8, <1>9, <1>10, <1>11, <1>12, <1>13, <1>14, <1>15, <1>16, <1>17, <1>18, <1>19, <1>20,
     <1>21 DEF WorkspaceNext
\* where those that talk to a console go
ServicesLands == ServicesPlace \union {"validate", "cloud config"}

\* The commands that log in to a console keep their shape.
LEMMA ConsoleLoginShape ==
    ASSUME Shape(cmd), HandleCdLogin \/ SaveConsole
    PROVE  \/ /\ OfLogin(cmd') \/ OfConsole(cmd')
              /\ cmd'.at \in {"save console", "validate"}
           \/ cmd' = NoCommand
<1>1. (OfLogin(cmd) \/ OfConsole(cmd)) /\ cmd.at \in SharedPlace
  BY ShapeAt DEF HandleCdLogin, SaveConsole, At, SharedPlace
<1>2. /\ SharedPlace \intersect LoginPlace = {}
      /\ "save console" \in SharedPlace
      /\ "save console" \in ServicesPlace
      /\ "validate" \in LoginPlace
      /\ "validate" \in NextPlace /\ "validate" # "end"
      /\ "at" \in LoginField /\ "next" \in LoginField
      /\ "at" \in ConsoleField /\ "next" \in ConsoleField
  BY DEF SharedPlace, LoginPlace, IdentityPlace, WorkspacePlace, NextPlace, ServicesPlace,
     LoginField, ConsoleField
<1>3. CASE OfLogin(cmd)
  <2>1. cmd.next = "validate" /\ DOMAIN cmd = LoginField
    BY <1>1, <1>2, <1>3 DEF OfLogin
  <2>2. cmd' = [cmd EXCEPT !.at = "save console"] \/ cmd' = [cmd EXCEPT !.at = "validate"]
    BY <1>2, <2>1 DEF HandleCdLogin, SaveConsole, Proceed, Goto, Becomes
  <2>. QED
    BY <1>2, <2>1, <2>2 DEF OfLogin
<1>4. CASE OfConsole(cmd)
  <2>1. cmd.next = "end" /\ DOMAIN cmd = ConsoleField
    BY <1>4 DEF OfConsole
  <2>2. cmd' = [cmd EXCEPT !.at = "save console"] \/ cmd' = NoCommand
    BY <2>1, EndShape DEF HandleCdLogin, SaveConsole, Proceed, Goto, Becomes
  <2>. QED
    BY <1>2, <2>1, <2>2 DEF OfConsole
<1>. QED
  BY <1>1, <1>3, <1>4

\* Those that change services keep theirs.
LEMMA ServicesShape ==
    ASSUME Shape(cmd), ServicesNext
    PROVE  \/ (OfLogin(cmd') \/ OfConsole(cmd')) /\ cmd'.at \in ServicesLands
           \/ cmd' = NoCommand
<1>1. CASE HandleCdLogin \/ SaveConsole
  BY <1>1, ConsoleLoginShape DEF ServicesLands, ServicesPlace
<1>2. CASE /\ cmd.at \in {"connect", "look up", "send"}
           /\ \/ InitConsoleClient \/ GetClusterService \/ CreateService \/ UpdateService
              \/ CloneService \/ DeleteService \/ KickService \/ OthersWrite
  <2>1. OfConsole(cmd)
    BY <1>2, ShapeAt DEF ServicesPlace, SharedPlace
  <2>2. /\ DOMAIN cmd = ConsoleField /\ cmd.next = "end"
        /\ "at" \in ConsoleField /\ "next" \in ConsoleField
    BY <2>1 DEF OfConsole, ConsoleField
  <2>3. /\ {"send", "look up", "cloud config", "connect"} \subseteq ServicesLands
        /\ ServicesLands \ {"validate"} \subseteq ServicesPlace \union EdgePlace
    BY DEF ServicesLands, ServicesPlace, EdgePlace
  <2>4. ASSUME DOMAIN cmd' = ConsoleField, cmd'.next = "end",
               cmd'.at \in {"send", "look up", "cloud config", "connect"}
        PROVE  OfConsole(cmd') /\ cmd'.at \in ServicesLands
    BY <2>3, <2>4 DEF OfConsole
  <2>5. CASE InitConsoleClient \/ GetClusterService
    BY <2>2, <2>4, <2>5, EndShape DEF InitConsoleClient, GetClusterService, Goto, Becomes
  <2>6. CASE CreateService \/ UpdateService \/ CloneService \/ DeleteService \/ KickService
    BY <2>6, EndShape DEF CreateService, UpdateService, CloneService, DeleteService,
       KickService, Put
  <2>7. CASE OthersWrite
    BY <1>2, <2>2, <2>4, <2>7 DEF OthersWrite
  <2>. QED
    BY <1>2, <2>5, <2>6, <2>7
<1>. QED
  BY <1>1, <1>2 DEF ServicesNext, InitConsoleClient, GetClusterService, CreateService,
     UpdateService, CloneService, DeleteService, KickService, OthersWrite, Sending, At

\* `edge image` keeps its shape and goes on in its own places.
LEMMA EdgeShape ==
    ASSUME Shape(cmd), EdgeNext
    PROVE  \/ OfConsole(cmd') /\ cmd'.at \in EdgePlace
           \/ cmd' = NoCommand
<1>1. OfConsole(cmd)
  <2>1. EdgePlace \subseteq (ServicesPlace \union EdgePlace) \ SharedPlace
    BY DEF EdgePlace, SharedPlace
  <2>. QED
    BY <2>1, OtherPlaces, ShapeAt
<1>2. /\ DOMAIN cmd = ConsoleField /\ cmd.next = "end"
      /\ "at" \in ConsoleField /\ "next" \in ConsoleField
  BY <1>1 DEF OfConsole, ConsoleField
<1>3. ASSUME NEW place \in EdgePlace, Goto(place)
      PROVE  OfConsole(cmd') /\ cmd'.at \in EdgePlace
  BY <1>2, <1>3 DEF OfConsole, Goto, Becomes
<1>4. CASE WriteCloudConfig \/ CreateVolume \/ Unpack
  BY <1>3, <1>4 DEF WriteCloudConfig, CreateVolume, Unpack, EdgePlace
<1>5. CASE BuildImage \/ SaveImage \/ FailImage
  BY <1>3, <1>5, EndShape DEF BuildImage, SaveImage, FailImage, CleanUp, EdgePlace
<1>. QED
  BY <1>4, <1>5 DEF EdgeNext

\* The commands of ControlPlane look around as a login does, then install.
LEMMA ControlPlaneShape ==
    ASSUME Shape(cmd), ControlPlaneNext
    PROVE  \/ OfLogin(cmd') /\ cmd'.at \in {"workspace", "render", "upgrade"}
           \/ OfInstall(cmd')
           \/ cmd' = NoCommand
<1>1. ASSUME NEW text, NEW user, Installing(text, user) PROVE OfInstall(cmd')
  BY <1>1 DEF Installing, Becomes, OfInstall, InstallField, InstallPlace
<1>2. CASE CreateControlPlane \/ ControlPlaneValues
  BY <1>1, <1>2 DEF CreateControlPlane, ControlPlaneValues
<1>3. CASE ReadsWorkspace
  <2>1. OfLogin(cmd)
    BY <1>3, ShapeAt DEF ReadsWorkspace, At, LoginPlace
  <2>2. /\ DOMAIN cmd = LoginField /\ "at" \in LoginField /\ "next" \in LoginField
        /\ DOMAIN Forget(cmd) = LoginField /\ Forget(cmd).next = "end"
        /\ cmd.next \in NextPlace /\ "end" \in NextPlace /\ "render" \in NextPlace
        /\ {"workspace", "render", "upgrade"} \subseteq LoginPlace
    BY <2>1, ForgetShape DEF OfLogin, LoginField, NextPlace, LoginPlace, WorkspacePlace
  <2>3. ASSUME DOMAIN cmd' = LoginField, cmd'.next \in NextPlace,
               cmd'.at \in {"workspace", "render", "upgrade"}
        PROVE  OfLogin(cmd')
    BY <2>2, <2>3 DEF OfLogin
  <2>. QED
    BY <1>3, <2>2, <2>3 DEF ReadsWorkspace, FromManifest, Becomes
<1>4. CASE EnsureInstalled \/ SetupOIDC \/ OthersBind \/ WriteValues
  <2>1. OfInstall(cmd)
    BY <1>4, ShapeAt DEF EnsureInstalled, SetupOIDC, OthersBind, WriteValues, At, InstallPlace
  <2>2. DOMAIN cmd = InstallField /\ "at" \in InstallField
    BY <2>1 DEF OfInstall, InstallField
  <2>3. {"oidc", "merge", "write values", "fill values"} \subseteq InstallPlace
    BY DEF InstallPlace
  <2>. QED
    BY <1>4, <2>1, <2>2, <2>3, EndShape DEF EnsureInstalled, SetupOIDC, OthersBind,
       WriteValues, Goto, Becomes, OfInstall
<1>. QED
  BY <1>2, <1>3, <1>4 DEF ControlPlaneNext

\* what every command starts as
LEMMA StartsShape ==
    /\ StartIdentity \/ StartWorkspace \/ StartControlPlane =>
         /\ OfLogin(cmd')
         /\ \/ cmd'.at \in {"login", "amend", "use", "save", "token", "import", "client"}
            \/ cmd'.at = "control plane" /\ cmd'.name = "control-plane"
    /\ StartServices \/ StartEdge => OfConsole(cmd') /\ cmd'.at \in {"console login", "connect"}
<1>1. ASSUME NEW name, NEW d, NEW pf,
             NEW place \in {"login", "amend", "use", "save", "token", "import", "client",
                            "control plane"},
             Start(Command(name, place, d, pf))
      PROVE  OfLogin(cmd') /\ cmd'.at = place /\ cmd'.name = name
  BY <1>1 DEF Start, Command, OfLogin, LoginField, NextPlace, LoginPlace, IdentityPlace,
     WorkspacePlace
<1>2. ASSUME NEW name, NEW place \in {"console login", "connect"}, NEW pick, NEW set,
             Start(ConsoleCommand(name, place, pick, set))
      PROVE  OfConsole(cmd') /\ cmd'.at = place
  BY <1>2 DEF Start, ConsoleCommand, OfConsole, ConsoleField, ServicesPlace
<1>3. ASSUME NEW d, NEW pf, NEW dry, NEW cld,
             Start([Command("up", "login", d, pf) EXCEPT
                      !.next = "client", !.dry = dry, !.cloud = cld])
      PROVE  OfLogin(cmd') /\ cmd'.at = "login"
  BY <1>3 DEF Start, Command, OfLogin, LoginField, NextPlace, LoginPlace, IdentityPlace
<1>. DEFINE AsLogin ==
              /\ OfLogin(cmd')
              /\ \/ cmd'.at \in {"login", "amend", "use", "save", "token", "import", "client"}
                 \/ cmd'.at = "control plane" /\ cmd'.name = "control-plane"
            AsConsole == OfConsole(cmd') /\ cmd'.at \in {"console login", "connect"}
<1>4. ASSUME StartIdentity PROVE AsLogin
  BY <1>1, <1>4 DEF StartIdentity
<1>5. ASSUME StartWorkspace PROVE AsLogin
  BY <1>1, <1>3, <1>5 DEF StartWorkspace
<1>6. ASSUME StartControlPlane PROVE AsLogin
  BY <1>1, <1>6 DEF StartControlPlane
<1>7. ASSUME StartServices \/ StartEdge PROVE AsConsole
  BY <1>2, <1>7 DEF StartServices, StartEdge
<1>. QED
  BY <1>4, <1>5, <1>6, <1>7

\* The command of an automation stays one, or ends.
LEMMA AppliesStays ==
    /\ StartPullRequest => Applies'
    /\ PullRequestNext => Applies' \/ cmd' = NoCommand
<1>1. StartPullRequest => Applies'
  BY DEF StartPullRequest, Start, PrCommand, Applies
<1>2. PullRequestNext => Applies' \/ cmd' = NoCommand
  <2>1. CASE CopyTemplates \/ BuildCRD \/ Configuration \/ ApplyVendoring \/ ApplyDeletes
    BY <2>1, EndShape DEF PullRequestNext, CopyTemplates, BuildCRD, Configuration, ApplyVendoring, ApplyDeletes,
       Goto, Becomes, Applies
  <2>2. CASE ApplyCreates \/ RegexReplacements \/ YamlOverlays \/ UpdateMatches
    BY <2>2 DEF PullRequestNext, ApplyCreates, Skips, RegexReplacements, YamlOverlays,
       UpdateMatches, ReplaceTo, Goto, Becomes, Applies
  <2>. QED
    BY <2>1, <2>2 DEF PullRequestNext
<1>. QED
  BY <1>1, <1>2

-----------------------------------------------------------------------------
(* The session                                                             *)

SessionInv == PrInv /\ Shape(cmd)

\* Every command has one of the shapes, wherever it is.
LEMMA InitSessionInv == Init => SessionInv
  BY SessionInit, InitPrInv DEF Init, SessionInv, Shape

\* no step leaves them
LEMMA NextSessionInv == SessionInv /\ [Next]_vars => SessionInv'
<1> SUFFICES ASSUME SessionInv, [Next]_vars PROVE SessionInv'
  OBVIOUS
<1>1. PrInv'
  BY SessionNext, NextPrInv DEF SessionInv
<1>2. Applies' => Shape(cmd')
  BY <1>1 DEF PrInv, CommandInv, PrCommands, Applies, OfPr, Shape
<1>3. Shape(cmd')
  <2>1. CASE \/ StartIdentity \/ StartWorkspace \/ StartServices
             \/ StartEdge \/ StartControlPlane
    BY <2>1, StartsShape DEF Shape
  <2>2. CASE StartPullRequest \/ PullRequestNext
    BY <1>2, <2>2, AppliesStays DEF Shape
  <2>3. CASE Abort
    BY <2>3, EndShape DEF Abort
  <2>4. CASE IdentityNext \/ WorkspaceNext \/ ServicesNext
    BY <2>4, IdentityShape, WorkspaceShape, ServicesShape DEF SessionInv, Shape, Kept
  <2>5. CASE EdgeNext \/ ControlPlaneNext
    BY <2>5, EdgeShape, ControlPlaneShape DEF SessionInv, Shape
  <2>6. CASE UNCHANGED vars
    BY <2>6 DEF vars, SessionInv
  <2>. QED
    BY <2>1, <2>2, <2>3, <2>4, <2>5, <2>6 DEF Next
<1>. QED
  BY <1>1, <1>3 DEF SessionInv

-----------------------------------------------------------------------------
(***************************************************************************)
(* What holds of the images, the consoles and the services in              *)
(* every session, however many commands it has.                            *)
(***************************************************************************)

(* Where steps lead                                                        *)

\* where commands start, and where several components' commands pass
CommonPlace == WorkspaceLands \union (ServicesLands \ {"send"}) \union PrPlace
                 \union {"amend", "use", "save", "token", "import", "workspace"}

\* Places of its own are reached by steps of the component only.
LEMMA StepLands ==
    ASSUME SessionInv, SessionInv', Next
    PROVE  \/ cmd' = NoCommand \/ cmd'.at \in CommonPlace
           \/ IdentityNext /\ cmd'.at \in IdentityPlace \union NextPlace
           \/ ServicesNext /\ cmd'.at = "send"
           \/ EdgeNext /\ cmd'.at \in EdgePlace
           \/ ControlPlaneNext /\ cmd'.at \in InstallPlace
           \/ cmd'.at = "control plane" /\ cmd'.name = "control-plane"
<1>1. CASE StartPullRequest \/ PullRequestNext
  BY <1>1, AppliesStays DEF SessionInv, PrInv, CommandInv, PrCommands, CommonPlace
<1>2. CASE \/ StartIdentity \/ StartWorkspace \/ StartServices
           \/ StartEdge \/ StartControlPlane
  <2>1. {"login", "amend", "use", "save", "token", "import", "client",
         "console login", "connect"} \subseteq CommonPlace
    BY DEF CommonPlace, WorkspaceLands, WorkspacePlace, ServicesLands, ServicesPlace
  <2>. QED
    BY <1>2, <2>1, StartsShape
<1>3. CASE Abort
  BY <1>3, EndShape DEF Abort
<1>4. CASE IdentityNext
  BY <1>4, IdentityShape DEF SessionInv
<1>5. CASE WorkspaceNext \/ ServicesNext
  <2>1. "console login" \in ServicesLands
    BY DEF ServicesLands, ServicesPlace
  <2>. QED
    BY <1>5, <2>1, WorkspaceShape, ServicesShape DEF SessionInv, Kept, CommonPlace
<1>6. CASE EdgeNext
  BY <1>6, EdgeShape DEF SessionInv
<1>7. CASE ControlPlaneNext
  <2>1. {"workspace", "render", "upgrade"} \subseteq CommonPlace
    BY DEF CommonPlace, WorkspaceLands, WorkspacePlace, NextPlace
  <2>. QED
    BY <1>7, <2>1, ControlPlaneShape DEF SessionInv, OfInstall
<1>. QED
  BY <1>1, <1>2, <1>3, <1>4, <1>5, <1>6, <1>7 DEF Next

-----------------------------------------------------------------------------
(* The edge images                                                         *)

\* What the run has made so far is its own, whatever was there before.
EdgeInv ==
    /\ volume = Absent \/ volume = Holding(volume.has)
    /\ cmd.at \in {"volume", "unpack", "build image", "building"}
         => cloudConfig = Holding(Written)
    /\ cmd.at \in {"unpack", "build image", "building"} => volume # Absent
    /\ cmd.at \in {"build image", "building"} => started \in volume.has
    /\ cmd.at \in {"save image", "copy image"} =>
         /\ build.has.config = Written
         /\ started \in build.has.root

\* Each step of `edge image` keeps that, and saves what is the run's.
LEMMA EdgeKeeps ==
    ASSUME SessionInv, EdgeInv, EdgeNext
    PROVE  /\ EdgeInv'
           /\ image' # image /\ image'.is = "file" =>
                image'.has.config = Written /\ started \in image'.has.root
<1>1. OfConsole(cmd)
  <2>1. EdgePlace \subseteq (ServicesPlace \union EdgePlace) \ SharedPlace
    BY DEF EdgePlace, SharedPlace
  <2>. QED
    BY <2>1, OtherPlaces, ShapeAt DEF SessionInv
<1>2. /\ DOMAIN cmd = ConsoleField /\ "at" \in ConsoleField /\ "set" \in ConsoleField
  BY <1>1 DEF OfConsole, ConsoleField
<1>3. ASSUME NEW place, Goto(place)
      PROVE  cmd'.at = place /\ started' = started /\ Written' = Written
  BY <1>2, <1>3 DEF Goto, Becomes, Written
<1>4. \A x : Holding(x).has = x /\ Holding(x) # Absent
  BY DEF Holding, Absent
<1>5. CASE WriteCloudConfig
  BY <1>3, <1>4, <1>5 DEF WriteCloudConfig, EdgeInv, At
<1>6. CASE CreateVolume
  BY <1>3, <1>4, <1>6 DEF CreateVolume, EdgeInv, At
<1>7. CASE Unpack
  <2>1. ASSUME NEW v, NEW w PROVE [Holding(v) EXCEPT !.has = w] = Holding(w)
    BY DEF Holding
  <2>2. volume = Holding(volume.has)
    BY <1>7 DEF Unpack, EdgeInv, At
  <2>3. volume' = [volume EXCEPT !.has = volume.has \union {started}]
    BY <1>7 DEF Unpack
  <2>4. volume' = Holding(volume.has \union {started})
    BY <2>1, <2>2, <2>3
  <2>. QED
    BY <1>3, <1>4, <1>7, <2>4 DEF Unpack, EdgeInv, At
<1>8. CASE BuildImage
  <2>1. CASE At("build image") /\ Goto("building")
    <3>1. /\ cmd.at = "build image" /\ cmd'.at = "building"
          /\ started' = started /\ Written' = Written
      BY <1>3, <2>1 DEF At
    <3>2. cloudConfig' = cloudConfig /\ volume' = volume /\ image' = image
      BY <1>8 DEF BuildImage
    <3>. QED
      BY <3>1, <3>2 DEF EdgeInv
  <2>2. CASE /\ At("building") /\ Goto("save image")
             /\ build' = Holding([config |-> cloudConfig.has, root |-> volume.has])
    <3>1. build'.has.config = cloudConfig.has /\ build'.has.root = volume.has
      BY <2>2 DEF Holding
    <3>2. cloudConfig.has = Written /\ started \in volume.has
      BY <1>4, <2>2 DEF EdgeInv, At
    <3>3. cmd'.at = "save image" /\ started' = started /\ Written' = Written
      BY <1>3, <2>2
    <3>4. volume' = volume /\ image' = image
      BY <1>8 DEF BuildImage
    <3>. QED
      BY <3>1, <3>2, <3>3, <3>4 DEF EdgeInv
  <2>. QED
    BY <1>8, <2>1, <2>2 DEF BuildImage
<1>9. ASSUME CleanUp PROVE EdgeInv'
  <2>1. cmd'.at = "none"
    BY <1>9 DEF CleanUp, End, Becomes, NoCommand
  <2>. QED
    BY <1>4, <1>9, <2>1 DEF CleanUp, EdgeInv
<1>10. CASE SaveImage
  <2>1. Torn.is # "file"
    BY DEF Torn
  <2>2. CASE At("save image") /\ Goto("copy image")
    <3>1. UNCHANGED <<cloudConfig, volume, build>> /\ image' = Torn
      BY <1>10, <2>2, EndShape DEF SaveImage, CleanUp, Goto, Becomes, End, At, NoCommand
    <3>2. /\ cmd.at = "save image" /\ cmd'.at = "copy image"
          /\ started' = started /\ Written' = Written
      BY <1>3, <2>2 DEF At
    <3>3. cloudConfig' = cloudConfig /\ volume' = volume /\ build' = build /\ image'.is # "file"
      BY <2>1, <3>1
    <3>. QED
      BY <3>2, <3>3 DEF EdgeInv
  <2>3. CASE At("save image") /\ CleanUp /\ UNCHANGED image
    BY <1>9, <2>3
  <2>4. CASE At("copy image") /\ CleanUp /\ image' \in {build, image}
    BY <1>9, <2>4 DEF EdgeInv, At
  <2>. QED
    BY <1>10, <2>2, <2>3, <2>4 DEF SaveImage
<1>11. CASE FailImage
  BY <1>9, <1>11 DEF FailImage
<1>. QED
  BY <1>5, <1>6, <1>7, <1>8, <1>10, <1>11 DEF EdgeNext

\* No other command is at its places or writes what it writes.
LEMMA EdgeElsewhere ==
    ASSUME SessionInv, SessionInv', EdgeInv, Next, ~EdgeNext
    PROVE  EdgeInv' /\ UNCHANGED edge
<1>1. UNCHANGED edge
  BY DEF Next, Abort, side
<1>2. cmd'.at \notin EdgePlace \ {"cloud config"}
  <2>1. ASSUME NEW p \in EdgePlace \ {"cloud config"}
        PROVE  /\ p \notin CommonPlace /\ p \notin InstallPlace
               /\ p # "none" /\ p # "control plane" /\ p # "send"
               /\ p \notin IdentityPlace \union NextPlace
    BY DEF EdgePlace, CommonPlace, WorkspaceLands, WorkspacePlace, NextPlace, ServicesLands,
       ServicesPlace, PrPlace, InstallPlace, IdentityPlace
  <2>2. NoCommand.at = "none"
    BY DEF NoCommand
  <2>. QED
    BY <2>1, <2>2, StepLands
<1>. QED
  BY <1>1, <1>2 DEF EdgeInv, EdgePlace, edge

\* An image that `edge image` saves is of the run that saves it
\* (cmd/command/edge/image.go): whatever earlier runs, killed or failed, left in
\* the output directory and in the volume that all runs share, it has that run's
\* cloud configuration, and with it its token, and what that run unpacked.
THEOREM SessionImagesAreOfTheirRun == Spec => ImageIsOfItsRun
<1>1. Init => SessionInv /\ EdgeInv
  BY InitSessionInv DEF Init, NoCommand, EdgeInv
<1>2. SessionInv /\ EdgeInv /\ [Next]_vars
        => /\ SessionInv' /\ EdgeInv'
           /\ [image' # image /\ image'.is = "file" =>
                 /\ image'.has.config = Written
                 /\ started \in image'.has.root]_image
  <2>. SUFFICES ASSUME SessionInv, EdgeInv, [Next]_vars
                PROVE  /\ SessionInv' /\ EdgeInv'
                       /\ [image' # image /\ image'.is = "file" =>
                             /\ image'.has.config = Written
                             /\ started \in image'.has.root]_image
    OBVIOUS
  <2>1. SessionInv'
    BY NextSessionInv
  <2>2. CASE EdgeNext
    BY <2>1, <2>2, EdgeKeeps
  <2>3. CASE Next /\ ~EdgeNext
    BY <2>1, <2>3, EdgeElsewhere DEF edge
  <2>4. CASE UNCHANGED vars
    BY <2>1, <2>4 DEF vars, side, edge, EdgeInv, Written
  <2>. QED
    BY <2>2, <2>3, <2>4
<1>. QED
  BY <1>1, <1>2, PTL DEF Spec, ImageIsOfItsRun
-----------------------------------------------------------------------------
(* The consoles of one's own                                               *)

\* A command that makes values anew has the key and the address of the file that
\* it is to replace.
PlaneInv ==
    /\ oidc = Absent
         \/ oidc = Holding([uris |-> oidc.has.uris, bindings |-> oidc.has.bindings])
    /\ cmd.at = "control plane" => cmd.name = "control-plane"
    /\ cmd.at \in {"install", "oidc", "merge", "write values"}
         /\ cmd.name = "control-plane-values" /\ values.is = "file"
         => cmd.text.aes = values.has.aes /\ cmd.text.dns = values.has.dns
    /\ cmd.at = "fill values" => values = Torn

EarlierWork ==
    /\ values.is = "file" /\ values' # values /\ cmd.name = "control-plane-values"
         => cmd.text.aes = values.has.aes /\ cmd.text.dns = values.has.dns
    /\ oidc # Absent /\ oidc' # oidc /\ (At("merge") => oidc = cmd.had)
         => /\ oidc.has.uris \subseteq oidc'.has.uris
            /\ oidc.has.bindings \subseteq oidc'.has.bindings

\* Each step of these commands keeps that.
LEMMA PlaneKeeps ==
    ASSUME SessionInv, PlaneInv, ControlPlaneNext
    PROVE  PlaneInv' /\ EarlierWork
<1>1. \A x : Holding(x).has = x /\ Holding(x) # Absent
  BY DEF Holding, Absent
<1>2. cmd' = NoCommand => cmd'.at = "none"
  BY DEF NoCommand
<1>3. ASSUME NEW text, NEW user, Installing(text, user)
      PROVE  cmd'.at = "install" /\ cmd'.name = cmd.name /\ cmd'.text = text
  BY <1>3 DEF Installing, Becomes
<1>4. ASSUME OfInstall(cmd), NEW place, Goto(place)
      PROVE  cmd'.at = place /\ cmd'.name = cmd.name /\ cmd'.text = cmd.text
  BY <1>4 DEF OfInstall, InstallField, Goto, Becomes
<1>5. CASE CreateControlPlane
  <2>1. cmd.name = "control-plane" /\ UNCHANGED plane
    BY <1>5 DEF CreateControlPlane, PlaneInv, At
  <2>2. cmd'.at = "install" /\ cmd'.name = cmd.name
    BY <1>3, <1>5 DEF CreateControlPlane
  <2>. QED
    BY <2>1, <2>2 DEF PlaneInv, EarlierWork, plane
<1>6. CASE ReadsWorkspace
  <2>1. UNCHANGED plane
    BY <1>6 DEF ReadsWorkspace
  <2>2. cmd'.at \in {"workspace", "render", "upgrade"}
    <3>1. OfLogin(cmd') \/ OfInstall(cmd') \/ cmd' = NoCommand
      BY ControlPlaneShape DEF SessionInv
    <3>2. OfLogin(cmd)
      BY <1>6, ShapeAt DEF ReadsWorkspace, At, LoginPlace, SessionInv
    <3>3. DOMAIN cmd = LoginField /\ "at" \in LoginField /\ DOMAIN Forget(cmd) = LoginField
      BY <3>2, ForgetShape DEF OfLogin, LoginField
    <3>. QED
      BY <1>6, <3>3 DEF ReadsWorkspace, FromManifest, Becomes
  <2>. QED
    BY <2>1, <2>2 DEF PlaneInv, EarlierWork, plane
<1>7. CASE ControlPlaneValues
  <2>1. UNCHANGED plane
    BY <1>7 DEF ControlPlaneValues
  <2>2. cmd'.at = "install"
    BY <1>3, <1>7 DEF ControlPlaneValues
  <2>3. values.is = "file" =>
          cmd'.text = [Drawn(values.has.dns) EXCEPT !.aes = values.has.aes]
    BY <1>3, <1>7 DEF ControlPlaneValues
  <2>4. values.is = "file" => cmd'.text.aes = values.has.aes /\ cmd'.text.dns = values.has.dns
    BY <2>3 DEF Drawn
  <2>. QED
    BY <2>1, <2>2, <2>4 DEF PlaneInv, EarlierWork, plane
<1>8. CASE EnsureInstalled \/ SetupOIDC \/ OthersBind \/ WriteValues
  <2>1. OfInstall(cmd)
    BY <1>8, ShapeAt DEF EnsureInstalled, SetupOIDC, OthersBind, WriteValues, At, InstallPlace,
       SessionInv
  <2>2. CASE EnsureInstalled
    <3>1. oidc' = oidc \/ (oidc = Absent /\ oidc' = Holding([uris |-> {}, bindings |-> {}]))
      BY <2>2 DEF EnsureInstalled
    <3>2. cmd.at = "install" /\ cmd'.at = "oidc" /\ values' = values
          /\ cmd'.name = cmd.name /\ cmd'.text = cmd.text
      BY <1>4, <2>1, <2>2 DEF EnsureInstalled, At
    <3>3. LET h == Holding([uris |-> {}, bindings |-> {}])
          IN  h = Holding([uris |-> h.has.uris, bindings |-> h.has.bindings])
      BY DEF Holding
    <3>. QED
      BY <3>1, <3>2, <3>3 DEF PlaneInv, EarlierWork
  <2>3. CASE SetupOIDC /\ At("oidc")
    <3>1. /\ cmd.at = "oidc" /\ cmd'.at = "merge" /\ values' = values /\ oidc' = oidc
          /\ cmd'.name = cmd.name /\ cmd'.text = cmd.text
      BY <2>1, <2>3 DEF SetupOIDC, At, OfInstall, InstallField, Becomes
    <3>. QED
      BY <3>1 DEF PlaneInv, EarlierWork
  <2>4. CASE SetupOIDC /\ At("merge")
    <3>. DEFINE u == cmd.had.has.uris \union {cmd.text.dns}
                b == cmd.had.has.bindings \union {cmd.me}
    <3>1. /\ cmd.at = "merge" /\ cmd'.at = "write values" /\ values' = values
          /\ cmd'.name = cmd.name /\ cmd'.text = cmd.text
          /\ oidc' = Holding([uris |-> u, bindings |-> b])
      BY <1>4, <2>1, <2>4 DEF SetupOIDC, At
    <3>2. cmd.had.has.uris \subseteq u /\ cmd.had.has.bindings \subseteq b
      OBVIOUS
    <3>. HIDE DEF u, b
    <3>3. oidc'.has.uris = u /\ oidc'.has.bindings = b
      BY <3>1 DEF Holding
    <3>. QED
      BY <3>1, <3>2, <3>3 DEF PlaneInv, EarlierWork, At
  <2>5. CASE OthersBind
    <3>. DEFINE u == oidc.has.uris
                b == oidc.has.bindings
    <3>1. cmd' = cmd /\ values' = values /\ cmd.at \in {"oidc", "merge"}
          /\ oidc' = [oidc EXCEPT !.has.bindings = b \union {Team}]
      BY <2>5 DEF OthersBind, At
    <3>2. oidc = Absent \/ oidc = Holding([uris |-> u, bindings |-> b])
      BY DEF PlaneInv
    <3>. HIDE DEF u, b
    <3>3. \/ oidc = Absent /\ oidc' = Absent
          \/ oidc' = Holding([uris |-> u, bindings |-> b \union {Team}])
      BY <3>1, <3>2 DEF Holding, Absent
    <3>4. /\ oidc # Absent => oidc'.has.uris = u /\ oidc'.has.bindings = b \union {Team}
          /\ oidc' = Absent
               \/ oidc' = Holding([uris |-> oidc'.has.uris, bindings |-> oidc'.has.bindings])
      BY <3>3 DEF Holding
    <3>. USE DEF u, b
    <3>. QED
      BY <3>1, <3>4 DEF PlaneInv, EarlierWork
  <2>6. CASE WriteValues /\ At("write values")
    <3>1. cmd.at = "write values" /\ cmd'.at = "fill values" /\ oidc' = oidc /\ values' = Torn
      BY <1>4, <2>1, <2>6 DEF WriteValues, At
    <3>. QED
      BY <3>1 DEF PlaneInv, EarlierWork
  <2>7. CASE WriteValues /\ At("fill values")
    <3>1. End /\ oidc' = oidc
      BY <2>7 DEF WriteValues, At
    <3>2. values.is # "file"
      <4>1. values = Torn
        BY <2>7 DEF At, PlaneInv
      <4>2. Torn.is # "file"
        BY DEF Torn
      <4>. QED
        BY <4>1, <4>2
    <3>3. cmd'.at = "none"
      BY <1>2, <3>1, EndShape
    <3>. QED
      BY <3>1, <3>2, <3>3 DEF PlaneInv, EarlierWork
  <2>. QED
    BY <1>8, <2>2, <2>3, <2>4, <2>5, <2>6, <2>7 DEF SetupOIDC, WriteValues
<1>. QED
  BY <1>5, <1>6, <1>7, <1>8 DEF ControlPlaneNext

\* No other command is at their places or writes what they write.
LEMMA PlaneElsewhere ==
    ASSUME SessionInv, SessionInv', PlaneInv, Next, ~ControlPlaneNext
    PROVE  PlaneInv' /\ UNCHANGED plane /\ cmd'.at \notin InstallPlace
<1>1. UNCHANGED plane
  BY DEF Next, Abort, side
<1>2. /\ cmd'.at \notin InstallPlace
      /\ cmd'.at = "control plane" => cmd'.name = "control-plane"
  <2>1. ASSUME NEW p \in InstallPlace \union {"control plane"}
        PROVE  /\ p \notin CommonPlace /\ p \notin EdgePlace /\ p # "none" /\ p # "send"
               /\ p \notin IdentityPlace \union NextPlace
    BY DEF EdgePlace, CommonPlace, WorkspaceLands, WorkspacePlace, NextPlace, ServicesLands,
       ServicesPlace, PrPlace, InstallPlace, IdentityPlace
  <2>2. NoCommand.at = "none" /\ "control plane" \notin InstallPlace
    BY DEF NoCommand, InstallPlace
  <2>. QED
    BY <2>1, <2>2, StepLands
<1>. QED
  BY <1>1, <1>2 DEF PlaneInv, InstallPlace, plane

\* A console that was deployed with earlier values goes on working
\* (cmd/command/cd/control_plane_install.go, pkg/bundle/oidc.go): the values made
\* anew keep its key and its address, and no command takes an address or a user
\* from the OIDC client, in sessions of any length.
THEOREM SessionKeepsConsoles == Spec => EarlierConsolesWork
<1>1. Init => SessionInv /\ PlaneInv
  BY InitSessionInv DEF Init, NoCommand, PlaneInv
<1>2. SessionInv /\ PlaneInv /\ [Next]_vars
        => /\ SessionInv' /\ PlaneInv'
           /\ [EarlierWork]_plane
  <2>. SUFFICES ASSUME SessionInv, PlaneInv, [Next]_vars
                PROVE  SessionInv' /\ PlaneInv' /\ [EarlierWork]_plane
    OBVIOUS
  <2>1. SessionInv'
    BY NextSessionInv
  <2>2. CASE ControlPlaneNext
    BY <2>1, <2>2, PlaneKeeps
  <2>3. CASE Next /\ ~ControlPlaneNext
    BY <2>1, <2>3, PlaneElsewhere
  <2>4. CASE UNCHANGED vars
    BY <2>1, <2>4 DEF vars, side, plane, PlaneInv
  <2>. QED
    BY <2>2, <2>3, <2>4
<1>. QED
  BY <1>1, <1>2, PTL DEF Spec, EarlierConsolesWork, EarlierWork
-----------------------------------------------------------------------------
(* The services                                                            *)

\* What a command looked up is a service.
ServInv ==
    /\ ServicesTypeOK
    /\ cmd.at = "send" /\ cmd.name \in {"update", "delete"} => cmd.seen \in File(Service)

\* services of the right type, with some of their fields overwritten
LEMMA ServiceFields ==
    ASSUME NEW s \in Service, NEW i \in 1..MaxServices, NEW g \in {"old", "new"},
           NEW f \in [Key -> Value], NEW x \in SUBSET Context
    PROVE  /\ [id |-> i, git |-> g, contexts |-> x, conf |-> f] \in Service
           /\ [s EXCEPT !.conf = f] \in Service
           /\ [s EXCEPT !.contexts = x] \in Service
           /\ [s EXCEPT !.id = i, !.conf = f] \in Service
<1>1. [id |-> i, git |-> g, contexts |-> x, conf |-> f] \in Service
  BY DEF Service
<1>2. [s EXCEPT !.conf = f] \in Service
  BY DEF Service
<1>3. [s EXCEPT !.contexts = x] \in Service
  BY DEF Service
<1>4. [s EXCEPT !.id = i, !.conf = f] \in Service
  BY DEF Service
<1>. QED
  BY <1>1, <1>2, <1>3, <1>4

\* A configuration with those of the flags on top
LEMMA OverlaidConf ==
    ASSUME NEW f \in [Key -> Value]
    PROVE  /\ Overlaid(f) \in [Key -> Value]
           /\ Overlaid(f)["theirs"] = f["theirs"]
           /\ "conf" \notin cmd.set => Overlaid(f) = f
  BY DEF Overlaid, Key, Value

\* to store a service, or none
LEMMA ServiceStored ==
    ASSUME ServicesTypeOK, NEW n \in Name, NEW v \in {Absent} \union File(Service),
           services' = [services EXCEPT ![n] = v], created' \in 0..MaxServices
    PROVE  ServicesTypeOK' /\ services'[n] = v
  BY DEF ServicesTypeOK
UpdateStep ==
    LET old == services["app"].has  new == services'["app"].has IN
    Sending("update") /\ cmd' = NoCommand /\ services' # services /\ services["app"] = cmd.seen
    => /\ new.id = old.id
       /\ new.conf["theirs"] = old.conf["theirs"]
       /\ old.contexts \subseteq new.contexts
       /\ "conf" \notin cmd.set => new.conf = old.conf
       /\ "git" \notin cmd.set => new.git = old.git

\* An update sends back what was read.
LEMMA UpdateServiceKeeps ==
    ASSUME ServInv, UpdateService
    PROVE  ServInv' /\ UpdateStep
<1>. DEFINE old == services["app"].has
            seen == cmd.seen.has
            sent == IF "context" \in cmd.set THEN seen.contexts \union {"flag"} ELSE seen.contexts
            g == IF "git" \in cmd.set THEN "new" ELSE seen.git
            f == Overlaid(seen.conf)
            x == IF sent = {} THEN old.contexts ELSE sent
            new == [old EXCEPT !.git = g, !.conf = f, !.contexts = x]
<1>1. /\ services' = [services EXCEPT !["app"] = Holding(new)]
      /\ created' = created /\ cmd' = NoCommand
  BY EndShape DEF UpdateService, Put
<1>2. services["app"] \in File(Service) /\ cmd.seen \in File(Service)
  BY DEF UpdateService, Sending, At, Exists, ServInv, ServicesTypeOK, Name
<1>3. old \in Service /\ seen \in Service
  BY <1>2 DEF File
<1>4. /\ g \in {"old", "new"} /\ seen.conf \in [Key -> Value] /\ f \in [Key -> Value]
      /\ f["theirs"] = seen.conf["theirs"] /\ ("conf" \notin cmd.set => f = seen.conf)
  BY <1>3, OverlaidConf DEF Service
<1>5. x \in SUBSET Context /\ sent \subseteq x /\ seen.contexts \subseteq sent
      /\ (sent = {} => x = old.contexts)
  BY <1>3 DEF Service, Context
<1>6. /\ new \in Service /\ new.id = old.id /\ new.git = g /\ new.conf = f /\ new.contexts = x
  <2>1. new = [old EXCEPT !.git = g, !.conf = f, !.contexts = x]
    OBVIOUS
  <2>2. \A u : u = [old EXCEPT !.git = g, !.conf = f, !.contexts = x]
              => u \in Service /\ u.id = old.id /\ u.git = g /\ u.conf = f /\ u.contexts = x
    <3>. HIDE DEF old, seen, sent, g, f, x, new
    <3>1. old \in Service /\ g \in {"old", "new"} /\ f \in [Key -> Value] /\ x \in SUBSET Context
      BY <1>3, <1>4, <1>5
    <3>. QED
      BY <3>1 DEF Service
  <2>. HIDE DEF old, seen, g, f, x, new
  <2>. QED
    BY <2>1, <2>2
<1>. HIDE DEF new
<1>7. Holding(new) \in File(Service) /\ Holding(new).has = new /\ "app" \in Name
  BY <1>6 DEF Holding, File, Name
<1>8. ServicesTypeOK' /\ services'["app"] = Holding(new)
  BY <1>1, <1>7, ServiceStored DEF ServInv, ServicesTypeOK
<1>9. services'["app"].has = new /\ cmd'.at # "send"
  BY <1>1, <1>7, <1>8 DEF NoCommand
<1>10. ServInv'
  BY <1>8, <1>9 DEF ServInv
<1>11. services["app"] = cmd.seen => old = seen
  OBVIOUS
<1>12. UpdateStep
  <2>. HIDE DEF f, x
  <2>. QED
    BY <1>4, <1>5, <1>6, <1>9, <1>11 DEF UpdateStep
<1>. QED
  BY <1>10, <1>12
\* Every other step that concerns services leaves services behind, and looks up
\* services.
LEMMA ServicesKeep ==
    ASSUME SessionInv, ServInv, ServicesNext
    PROVE  ServInv' /\ UpdateStep
<1>1. NoCommand.at # "send" /\ (End => cmd' = NoCommand)
  BY EndShape DEF NoCommand
<1>2. ASSUME NEW n \in Name, NEW v \in {Absent} \union File(Service),
             services' = [services EXCEPT ![n] = v], created' \in 0..MaxServices
      PROVE  ServicesTypeOK'
  BY <1>2, ServiceStored DEF ServInv
<1>3. /\ "app" \in Name /\ "copy" \in Name
      /\ \A s \in Service : Holding(s) \in File(Service) /\ Holding(s).has = s
      /\ Exists("app") => /\ services["app"] \in File(Service)
                          /\ services["app"].has \in Service
                          /\ services["app"] = Holding(services["app"].has)
  BY DEF Name, File, Holding, Exists, ServInv, ServicesTypeOK
<1>4. created \in 0..MaxServices /\ created \in Nat
  BY ServiceBound DEF ServInv, ServicesTypeOK
<1>5. created < MaxServices => created + 1 \in 0..MaxServices /\ created + 1 \in 1..MaxServices
  BY <1>4, ServiceBound, SMT
<1>6. CASE (HandleCdLogin \/ SaveConsole) /\ UNCHANGED onConsole
  <2>1. cmd.at # "send" /\ UNCHANGED <<services, created>>
    BY <1>6 DEF HandleCdLogin, SaveConsole, At, onConsole
  <2>2. cmd'.at # "send"
    BY <1>1, <1>6, ConsoleLoginShape DEF SessionInv
  <2>. QED
    BY <2>1, <2>2 DEF ServInv, ServicesTypeOK, UpdateStep, Sending, At
<1>7. CASE InitConsoleClient \/ GetClusterService
  <2>1. OfConsole(cmd)
    BY <1>7, ShapeAt DEF InitConsoleClient, GetClusterService, At, ServicesPlace, SharedPlace,
       SessionInv
  <2>2. DOMAIN cmd = ConsoleField /\ {"at", "name", "seen"} \subseteq ConsoleField
    BY <2>1 DEF OfConsole, ConsoleField
  <2>3. UNCHANGED <<services, created>> /\ cmd.at # "send"
    BY <1>7 DEF InitConsoleClient, GetClusterService, At, onConsole
  <2>4. CASE InitConsoleClient
    BY <2>2, <2>3, <2>4 DEF InitConsoleClient, Goto, Becomes, ServInv, ServicesTypeOK, UpdateStep
  <2>5. CASE GetClusterService
    <3>1. services["app"] \in File(Service)
      BY <1>3, <2>5 DEF GetClusterService
    <3>2. cmd' = NoCommand \/ cmd'.seen = services["app"]
      BY <1>1, <2>2, <2>5 DEF GetClusterService, Becomes
    <3>. QED
      BY <1>1, <2>3, <3>1, <3>2 DEF ServInv, ServicesTypeOK, UpdateStep
  <2>. QED
    BY <1>7, <2>4, <2>5
<1>8. CASE UpdateService
  BY <1>8, UpdateServiceKeeps
<1>9. CASE CreateService \/ CloneService \/ DeleteService \/ KickService
  <2>1. cmd' = NoCommand /\ ~Sending("update")
    BY <1>1, <1>9 DEF CreateService, CloneService, DeleteService, KickService, Sending, Put
  <2>2. CASE CreateService
    <3>1. PICK theirs \in {"unset", "new"} :
            Put("app", [id |-> created', git |-> "new", contexts |-> {},
                        conf |-> Overlaid([k \in Key |-> IF k = "theirs" THEN theirs ELSE "unset"])])
      BY <2>2 DEF CreateService
    <3>. DEFINE f == [k \in Key |-> IF k = "theirs" THEN theirs ELSE "unset"]
                s == [id |-> created', git |-> "new", contexts |-> {}, conf |-> Overlaid(f)]
    <3>2. f \in [Key -> Value]
      BY DEF Value
    <3>3. created' \in 1..MaxServices /\ created' \in 0..MaxServices
      BY <1>5, <2>2 DEF CreateService
    <3>4. s \in Service
      <4>. HIDE DEF f
      <4>1. Overlaid(f) \in [Key -> Value]
        BY <3>2, OverlaidConf
      <4>. QED
        BY <3>3, <4>1 DEF Service
    <3>5. services' = [services EXCEPT !["app"] = Holding(s)]
      BY <3>1 DEF Put
    <3>. HIDE DEF s
    <3>6. ServicesTypeOK'
      BY <1>2, <1>3, <3>3, <3>4, <3>5
    <3>. QED
      BY <1>1, <2>1, <3>6 DEF ServInv, UpdateStep
  <2>3. CASE CloneService
    <3>. DEFINE o == services["app"].has
                s == [o EXCEPT !.id = created', !.conf = Overlaid(o.conf)]
    <3>1. services' = [services EXCEPT !["copy"] = Holding(s)]
      BY <2>3 DEF CloneService, Put
    <3>2. created' \in 1..MaxServices /\ created' \in 0..MaxServices
      BY <1>5, <2>3 DEF CloneService
    <3>3. o \in Service
      BY <1>3, <2>3 DEF CloneService
    <3>4. s \in Service
      <4>. HIDE DEF o
      <4>1. Overlaid(o.conf) \in [Key -> Value]
        BY <3>3, OverlaidConf DEF Service
      <4>. QED
        BY <3>2, <3>3, <4>1 DEF Service
    <3>. HIDE DEF s
    <3>5. ServicesTypeOK'
      BY <1>2, <1>3, <3>1, <3>2, <3>4
    <3>. QED
      BY <1>1, <2>1, <3>5 DEF ServInv, UpdateStep
  <2>4. CASE DeleteService
    <3>1. ServicesTypeOK'
      BY <1>2, <1>3, <1>4, <2>4 DEF DeleteService
    <3>. QED
      BY <1>1, <2>1, <3>1 DEF ServInv, UpdateStep
  <2>5. CASE KickService
    BY <1>1, <2>1, <2>5 DEF KickService, onConsole, ServInv, ServicesTypeOK, UpdateStep
  <2>. QED
    BY <1>9, <2>2, <2>3, <2>4, <2>5
<1>10. CASE OthersWrite
  <2>1. cmd' = cmd /\ cmd # NoCommand
    BY <1>1, <1>10 DEF OthersWrite, At
  <2>2. ServicesTypeOK'
    <3>. DEFINE o == services["app"].has
    <3>1. ASSUME Exists("app"), NEW v \in Value, created' = created,
                 services' = [services EXCEPT !["app"].has.conf["theirs"] = v]
          PROVE  ServicesTypeOK'
      <4>. DEFINE f == [o.conf EXCEPT !["theirs"] = v]
      <4>1. services' = [services EXCEPT !["app"] = Holding([o EXCEPT !.conf = f])]
        <5>1. services' = [services EXCEPT !["app"] = [services["app"] EXCEPT !.has = [o EXCEPT !.conf = f]]]
          BY <3>1
        <5>2. services["app"] = Holding(o)
          BY <1>3, <3>1
        <5>. HIDE DEF o, f
        <5>3. [services["app"] EXCEPT !.has = [o EXCEPT !.conf = f]] = Holding([o EXCEPT !.conf = f])
          BY <5>2 DEF Holding
        <5>. QED
          BY <5>1, <5>3
      <4>2. o \in Service /\ f \in [Key -> Value]
        BY <1>3, <3>1 DEF Service, Key
      <4>3. [o EXCEPT !.conf = f] \in Service
        <5>. HIDE DEF o, f
        <5>. QED
          BY <4>2 DEF Service
      <4>. HIDE DEF o, f
      <4>. QED
        BY <1>2, <1>3, <1>4, <3>1, <4>1, <4>3
    <3>2. ASSUME Exists("app"), NEW c \in SUBSET {"bound"}, created' = created,
                 services' = [services EXCEPT !["app"].has.contexts = c]
          PROVE  ServicesTypeOK'
      <4>1. services' = [services EXCEPT !["app"] = Holding([o EXCEPT !.contexts = c])]
        <5>1. services' = [services EXCEPT !["app"] = [services["app"] EXCEPT !.has = [o EXCEPT !.contexts = c]]]
          BY <3>2
        <5>2. services["app"] = Holding(o)
          BY <1>3, <3>2
        <5>. HIDE DEF o
        <5>3. [services["app"] EXCEPT !.has = [o EXCEPT !.contexts = c]] = Holding([o EXCEPT !.contexts = c])
          BY <5>2 DEF Holding
        <5>. QED
          BY <5>1, <5>3
      <4>2. o \in Service /\ c \in SUBSET Context
        BY <1>3, <3>2 DEF Context
      <4>3. [o EXCEPT !.contexts = c] \in Service
        <5>. HIDE DEF o
        <5>. QED
          BY <4>2 DEF Service
      <4>. HIDE DEF o
      <4>. QED
        BY <1>2, <1>3, <1>4, <3>2, <4>1, <4>3
    <3>3. ASSUME created' = created, services' = [services EXCEPT !["app"] = Absent]
          PROVE  ServicesTypeOK'
      BY <1>2, <1>3, <1>4, <3>3
    <3>4. ASSUME created < MaxServices, created' = created + 1,
                 services' = [services EXCEPT !["app"] = Holding(
                    [id |-> created', git |-> "old", contexts |-> {},
                     conf |-> [k \in Key |-> "old"]])]
          PROVE  ServicesTypeOK'
      <4>. DEFINE s == [id |-> created', git |-> "old", contexts |-> {},
                        conf |-> [k \in Key |-> "old"]]
      <4>1. s \in Service
        BY <1>5, <3>4 DEF Service, Value
      <4>. HIDE DEF s
      <4>2. services' = [services EXCEPT !["app"] = Holding(s)]
        BY <3>4 DEF s
      <4>. QED
        BY <1>2, <1>3, <1>5, <3>4, <4>1, <4>2
    <3>. QED
      BY <1>10, <3>1, <3>2, <3>3, <3>4 DEF OthersWrite
  <2>. QED
    BY <2>1, <2>2 DEF ServInv, UpdateStep
<1>. QED
  BY <1>6, <1>7, <1>8, <1>9, <1>10 DEF ServicesNext

\* A session begins with one service.
LEMMA InitServices == Init => ServicesTypeOK
<1>. DEFINE s == [id |-> 1, git |-> "old", contexts |-> {"bound"}, conf |-> [k \in Key |-> "old"]]
            nothing == [n \in Name |-> Absent]
<1>1. 1 \in 1..MaxServices /\ 1 \in 0..MaxServices
  BY ServiceBound, SMT
<1>2. s \in Service
  BY <1>1 DEF Service, Key, Value, Context
<1>3. Init => services = [nothing EXCEPT !["app"] = Holding(s)] /\ created = 1
  BY DEF Init, OneService
<1>. HIDE DEF s
<1>4. Holding(s) \in File(Service)
  BY <1>2 DEF Holding, File
<1>5. nothing \in [Name -> {Absent} \union File(Service)]
  OBVIOUS
<1>. HIDE DEF nothing
<1>. QED
  BY <1>1, <1>3, <1>4, <1>5 DEF ServicesTypeOK

\* An edge image is made from what the console already has.
LEMMA EdgeKeepsServices == EdgeNext => UNCHANGED <<services, created>>
  BY DEF EdgeNext, WriteCloudConfig, CreateVolume, Unpack, BuildImage, SaveImage, FailImage, onConsole

\* No other command is about to send a service.
LEMMA ServicesElsewhere ==
    ASSUME SessionInv, SessionInv', ServInv, Next, ~ServicesNext
    PROVE  ServInv' /\ UNCHANGED services
<1>1. UNCHANGED <<services, created>>
  BY EdgeKeepsServices DEF Next, Abort, side, onConsole
<1>2. cmd'.at # "send"
  <2>1. /\ "send" \notin CommonPlace /\ "send" \notin EdgePlace /\ "send" \notin InstallPlace
        /\ "send" \notin IdentityPlace \union NextPlace
    BY DEF EdgePlace, CommonPlace, WorkspaceLands, WorkspacePlace, NextPlace, ServicesLands,
       ServicesPlace, PrPlace, InstallPlace, IdentityPlace
  <2>2. NoCommand.at # "send"
    BY DEF NoCommand
  <2>. QED
    BY <2>1, <2>2, StepLands
<1>. QED
  BY <1>1, <1>2 DEF ServInv, ServicesTypeOK

\* `cd services update` changes what its flags name and nothing else
\* (cmd/command/cd/cd_services.go handleUpdateClusterService), although it sends
\* back the whole configuration, unless others wrote in between.
THEOREM SessionUpdatesKeepTheRest == Spec => UpdateKeepsTheRest
<1>1. Init => SessionInv /\ ServInv
  BY InitSessionInv, InitServices DEF Init, NoCommand, ServInv
<1>2. SessionInv /\ ServInv /\ [Next]_vars
        => SessionInv' /\ ServInv' /\ [UpdateStep]_services
  <2>. SUFFICES ASSUME SessionInv, ServInv, [Next]_vars
                PROVE  SessionInv' /\ ServInv' /\ [UpdateStep]_services
    OBVIOUS
  <2>1. SessionInv'
    BY NextSessionInv
  <2>2. CASE ServicesNext
    BY <2>1, <2>2, ServicesKeep
  <2>3. CASE Next /\ ~ServicesNext
    BY <2>1, <2>3, ServicesElsewhere
  <2>4. CASE UNCHANGED vars
    BY <2>1, <2>4 DEF vars, side, onConsole, ServInv, ServicesTypeOK
  <2>. QED
    BY <2>2, <2>3, <2>4
<1>. QED
  BY <1>1, <1>2, PTL DEF Spec, UpdateKeepsTheRest, UpdateStep
=============================================================================
