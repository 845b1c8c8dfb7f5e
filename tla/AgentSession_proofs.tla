-------------------------- MODULE AgentSession_proofs --------------------------
(***************************************************************************)
(* Theorems about AgentSession, for every set of providers and any number  *)
(* of pushes: any number of commands, each of which may fail or be killed  *)
(* anywhere, with the user and the agent at work between them.             *)
(***************************************************************************)
EXTENDS AgentSession, TLAPS

-----------------------------------------------------------------------------
(* The inductive invariant                                                 *)

Command ==
    [at : Place, right : BOOLEAN, want : {"", "main", "pr", "agent"},
     agreed : BOOLEAN, say : {"unasked", "yes", "no"}, todo : SUBSET Slot,
     writing : BOOLEAN]

\* The places a command can only be at after the branch was validated, and
\* those of them where the files are still to be restored or are being so.
RestorePlace == {"match", "remove", "copy"}
ValidPlace   == {"extract", "launch"} \union RestorePlace

\* The session file comes from the archive, is still to be copied, or is
\* not to be replaced.
SessionInv ==
    \/ "session" \in cmd.todo
    \/ files["session"] = "archived"
    \/ cmd.say = "no"
    \/ run.provider = "OPENCODE"

\* Where a command stands: it changes branches only in a clean clone, stays
\* on the branch that was validated, asks before it removes or replaces, and
\* fills only the file it has truncated.
CommandInv ==
    /\ cmd.at = "switch" => ~dirty
    /\ cmd.at \in ValidPlace => cmd.want \in {"", branch}
    /\ cmd.at \notin {"remove", "copy", "launch"} => cmd.say = "unasked"
    /\ cmd.at = "remove" => cmd.say = "yes"
    /\ cmd.at \in {"match", "remove"} => "session" \in cmd.todo
    /\ cmd.at \in RestorePlace => cmd.todo \subseteq {"session", "other"}
    /\ cmd.at = "copy" => SessionInv
    /\ cmd.at = "launch" =>
         files["session"] = "archived" \/ cmd.say = "no" \/ run.provider = "OPENCODE"
    /\ cmd.writing => cmd.at = "copy" /\ cmd.todo # {} /\ files[Turn] = "torn"

AgentInv ==
    /\ TypeOK
    /\ Running => CommandInv

-----------------------------------------------------------------------------
(* Every step keeps it                                                     *)

LEMMA InitAgentInv == Init => AgentInv
  <1> SUFFICES ASSUME Init PROVE AgentInv
    OBVIOUS
  <1>1. head \in 1..(MaxPushes + 1) /\ local \in Copy
    BY PushesBounded, SMT DEF Init, Copy, NoCopy
  <1>2. files \in [Slot -> {"none", "mine", "torn", "archived"}]
    BY DEF Init
  <1>3. ~Running
    BY DEF Init, Running
  <1> QED
    BY <1>1, <1>2, <1>3 DEF Init, AgentInv, TypeOK, Running

\* The running command is a command, of which CommandInv holds.
LEMMA RunningCommand ==
    ASSUME AgentInv, Running
    PROVE  cmd \in Command /\ CommandInv
  BY DEF AgentInv, TypeOK, Command, Running

\* The commits of the pull request are counted from one.
LEMMA HeadIsPositive ==
    ASSUME AgentInv
    PROVE  head \in 1..(MaxPushes + 1) /\ head \in 0..(MaxPushes + 1)
  <1>1. head \in 1..(MaxPushes + 1)
    BY DEF AgentInv, TypeOK
  <1> QED
    BY <1>1, PushesBounded

\* A command that ends leaves nothing to say of it.
LEMMA EndAgentInv ==
    ASSUME AgentInv, End, UNCHANGED <<run, head, clone, files>>,
           archive' \in {"none", "bad", "good"}, partial' \in BOOLEAN
    PROVE  AgentInv'
  BY DEF AgentInv, TypeOK, End, Running, clone

LEMMA AbortAgentInv ==
    ASSUME AgentInv, Abort
    PROVE  AgentInv'
  BY EndAgentInv DEF AgentInv, TypeOK, Abort, cache

\* A command that goes on has to be one of which CommandInv holds.
LEMMA OnAgentInv ==
    ASSUME AgentInv, cmd' \in Command, (CommandInv)', UNCHANGED <<run, head>>,
           branch' \in {"main", "pr", "agent"}, local' \in Copy, dirty' \in BOOLEAN,
           archive' \in {"none", "bad", "good"}, partial' \in BOOLEAN,
           files' \in [Slot -> {"none", "mine", "torn", "archived"}]
    PROVE  AgentInv'
  BY DEF AgentInv, TypeOK, Command, CommandInv

\* A step of which only the place is said.
LEMMA GotoFields ==
    ASSUME cmd \in Command, NEW place \in Place, Goto(place)
    PROVE  /\ cmd' \in Command /\ cmd'.at = place
           /\ cmd'.right = cmd.right /\ cmd'.want = cmd.want /\ cmd'.agreed = cmd.agreed
           /\ cmd'.say = cmd.say /\ cmd'.todo = cmd.todo /\ cmd'.writing = cmd.writing
  BY DEF Command, Goto

\* From place to place, with nothing else changed.
LEMMA OnlyGotoAgentInv ==
    ASSUME AgentInv, Running, NEW place \in Place, OnlyGoto(place), ~cmd.writing,
           \/ place \in {"store", "check", "prepare", "clean", "forward", "patch", "validate"}
              /\ cmd.say = "unasked"
           \/ place = "switch" /\ ~dirty /\ cmd.say = "unasked"
           \/ place = "extract" /\ cmd.want \in {"", branch} /\ cmd.say = "unasked"
           \/ cmd.at = "match" /\ place = "copy"
           \/ cmd.at = "remove" /\ place = "copy"
           \/ cmd.at = "copy" /\ place = "launch" /\ cmd.todo = {}
    PROVE  AgentInv'
  <1>1. cmd \in Command /\ CommandInv
    BY RunningCommand
  <1>2. UNCHANGED <<run, head, clone, cache, files>> /\ Goto(place)
    BY DEF OnlyGoto
  <1>3. /\ cmd' \in Command /\ cmd'.at = place
        /\ cmd'.right = cmd.right /\ cmd'.want = cmd.want /\ cmd'.agreed = cmd.agreed
        /\ cmd'.say = cmd.say /\ cmd'.todo = cmd.todo /\ cmd'.writing = cmd.writing
    BY <1>1, <1>2, GotoFields
  <1>4. (CommandInv)'
    BY <1>1, <1>2, <1>3 DEF CommandInv, SessionInv, ValidPlace, RestorePlace, clone
  <1> QED
    BY <1>2, <1>3, <1>4, OnAgentInv DEF AgentInv, TypeOK, clone, cache

LEMMA StartResumeAgentInv ==
    ASSUME AgentInv, StartResume
    PROVE  AgentInv'
  <1>1. PICK right \in BOOLEAN :
          cmd' = [at |-> "fetch", right |-> right, want |-> run.names,
                  agreed |-> FALSE, say |-> "unasked", todo |-> {}, writing |-> FALSE]
    BY DEF StartResume
  <1>2. UNCHANGED <<run, head, clone, cache, files>>
    BY DEF StartResume
  <1>3. cmd' \in Command
    BY <1>1 DEF AgentInv, TypeOK, Run, Command, Place
  <1>4. (CommandInv)'
    BY <1>1 DEF CommandInv, ValidPlace, RestorePlace
  <1> QED
    BY <1>2, <1>3, <1>4, OnAgentInv DEF AgentInv, TypeOK, clone, cache

\* The archive is fetched and checked before anything else is touched.
LEMMA ArchiveAgentInv ==
    ASSUME AgentInv, Fetch \/ Store \/ Check
    PROVE  AgentInv'
  <1>1. Running /\ cmd \in Command /\ CommandInv
    BY RunningCommand DEF Fetch, Store, Check, At
  <1>2. CASE Abort
    BY <1>2, AbortAgentInv
  <1>3. CASE Store /\ End
    BY <1>3, EndAgentInv DEF Store, AgentInv, TypeOK
  <1>4. CASE Check /\ ManifestValid
    BY <1>1, <1>4, OnlyGotoAgentInv DEF Check, At, CommandInv, Place
  <1>5. ASSUME NEW place \in {"store", "check"}, Goto(place),
               cmd.at \in {"fetch", "store"}, UNCHANGED <<run, head, clone, files>>,
               archive' \in {"none", "bad", "good"}, partial' \in BOOLEAN
        PROVE  AgentInv'
    <2>1. /\ cmd' \in Command /\ cmd'.at = place
          /\ cmd'.say = cmd.say /\ cmd'.writing = cmd.writing
      BY <1>1, <1>5, GotoFields DEF Place
    <2>2. (CommandInv)'
      BY <1>1, <1>5, <2>1 DEF CommandInv, ValidPlace, RestorePlace
    <2> QED
      BY <1>5, <2>1, <2>2, OnAgentInv DEF AgentInv, TypeOK, clone
  <1>6. CASE Fetch /\ ~Abort
    BY <1>5, <1>6 DEF Fetch, At, AgentInv, TypeOK
  <1>7. CASE Store /\ ~End
    BY <1>5, <1>7 DEF Store, At, AgentInv, TypeOK
  <1> QED
    BY <1>2, <1>3, <1>4, <1>6, <1>7 DEF Check

\* A step on the way to "validate", or to the merge or the patch before it.
LEMMA CloneAgentInv ==
    ASSUME AgentInv, Running, UNCHANGED <<run, head, cache, files>>,
           branch' \in {"main", "pr", "agent"}, local' \in Copy, dirty' \in BOOLEAN,
           cmd' \in Command, cmd'.at \in {"validate", "clean", "forward", "patch"},
           cmd'.say = "unasked", ~cmd'.writing
    PROVE  AgentInv'
  <1>1. (CommandInv)'
    BY DEF CommandInv, ValidPlace, RestorePlace
  <1> QED
    BY <1>1, OnAgentInv DEF AgentInv, TypeOK, cache

LEMMA PrepareAgentInv ==
    ASSUME AgentInv, Prepare
    PROVE  AgentInv'
  <1>1. /\ Running /\ cmd \in Command /\ cmd.at = "prepare" /\ cmd.say = "unasked"
        /\ ~cmd.writing
    BY RunningCommand DEF Prepare, At, CommandInv
  <1>2. CASE Abort
    BY <1>2, AbortAgentInv
  <1>3. CASE OnlyGoto("validate")
    BY <1>1, <1>3, OnlyGotoAgentInv DEF Place
  <1>4. ASSUME NEW place \in {"validate", "clean"}, NEW want \in {"pr", cmd.want},
               cmd' = [cmd EXCEPT !.at = place, !.want = want, !.agreed = TRUE],
               UNCHANGED <<run, head, clone, cache, files>>
        PROVE  AgentInv'
    <2>1. /\ cmd' \in Command /\ cmd'.at = place
          /\ cmd'.say = cmd.say /\ cmd'.writing = cmd.writing
      BY <1>1, <1>4 DEF Command, Place
    <2> QED
      BY <1>1, <1>4, <2>1, CloneAgentInv DEF AgentInv, TypeOK, clone
  <1>5. CASE cmd' = [cmd EXCEPT !.at = "clean", !.agreed = TRUE]
             /\ UNCHANGED <<run, head, clone, cache, files>>
    <2>1. cmd' = [cmd EXCEPT !.at = "clean", !.want = cmd.want, !.agreed = TRUE]
      BY <1>1, <1>5 DEF Command
    <2> QED
      BY <1>4, <1>5, <2>1
  <1> QED
    BY <1>2, <1>3, <1>4, <1>5 DEF Prepare

LEMMA CleanAgentInv ==
    ASSUME AgentInv, Clean
    PROVE  AgentInv'
  <1>1. Running /\ ~cmd.writing /\ cmd.say = "unasked"
    BY RunningCommand DEF Clean, At, CommandInv
  <1> QED
    BY <1>1, AbortAgentInv, OnlyGotoAgentInv DEF Clean, Place

LEMMA SwitchAgentInv ==
    ASSUME AgentInv, Switch
    PROVE  AgentInv'
  <1>1. /\ Running /\ cmd \in Command /\ cmd.at = "switch" /\ cmd.say = "unasked"
        /\ ~cmd.writing
    BY RunningCommand DEF Switch, At, CommandInv
  <1>2. CASE Abort
    BY <1>2, AbortAgentInv
  <1>3. CASE /\ branch' = "pr" /\ local' = [upto |-> head, own |-> FALSE]
             /\ cmd' = [cmd EXCEPT !.at = "validate", !.want = "pr"]
             /\ UNCHANGED <<run, head, dirty, cache, files>>
    <2>1. /\ cmd' \in Command /\ cmd'.at = "validate"
          /\ cmd'.say = cmd.say /\ cmd'.writing = cmd.writing
      BY <1>1, <1>3 DEF Command, Place
    <2>2. local' \in Copy
      BY <1>3, HeadIsPositive DEF Copy
    <2> QED
      BY <1>1, <1>3, <2>1, <2>2, CloneAgentInv DEF AgentInv, TypeOK, cache
  <1>4. ASSUME NEW place \in {"forward", "patch"}, Goto(place),
               branch' \in {"pr", "agent"}, UNCHANGED <<run, head, local, dirty, cache, files>>
        PROVE  AgentInv'
    <2>1. /\ cmd' \in Command /\ cmd'.at = place
          /\ cmd'.say = cmd.say /\ cmd'.writing = cmd.writing
      BY <1>1, <1>4, GotoFields DEF Place
    <2> QED
      BY <1>1, <1>4, <2>1, CloneAgentInv DEF AgentInv, TypeOK, cache
  <1> QED
    BY <1>2, <1>3, <1>4 DEF Switch

LEMMA ForwardAgentInv ==
    ASSUME AgentInv, Forward
    PROVE  AgentInv'
  <1>1. /\ Running /\ cmd \in Command /\ cmd.say = "unasked" /\ ~cmd.writing
    BY RunningCommand DEF Forward, At, CommandInv
  <1>2. CASE Abort
    BY <1>2, AbortAgentInv
  <1>3. CASE ~Abort
    <2>1. cmd' = [cmd EXCEPT !.at = "validate", !.want = "pr"]
      BY <1>3 DEF Forward
    <2>2. /\ cmd' \in Command /\ cmd'.at = "validate"
          /\ cmd'.say = cmd.say /\ cmd'.writing = cmd.writing
      BY <1>1, <2>1 DEF Command, Place
    <2>3. local' \in Copy
      <3>1. local \in Copy /\ local' = [local EXCEPT !.upto = head]
        BY <1>3 DEF Forward, AgentInv, TypeOK
      <3> QED
        BY <3>1, HeadIsPositive DEF Copy
    <2> QED
      BY <1>1, <1>3, <2>2, <2>3, CloneAgentInv DEF Forward, AgentInv, TypeOK, cache
  <1> QED
    BY <1>2, <1>3

LEMMA ApplyPatchAgentInv ==
    ASSUME AgentInv, ApplyPatch
    PROVE  AgentInv'
  <1>1. /\ Running /\ cmd \in Command /\ cmd.say = "unasked" /\ ~cmd.writing
    BY RunningCommand DEF ApplyPatch, At, CommandInv
  <1>2. CASE Abort
    BY <1>2, AbortAgentInv
  <1>3. CASE ~Abort
    <2>1. cmd' = [cmd EXCEPT !.at = "validate", !.want = "agent"]
      BY <1>3 DEF ApplyPatch
    <2>2. /\ cmd' \in Command /\ cmd'.at = "validate"
          /\ cmd'.say = cmd.say /\ cmd'.writing = cmd.writing
      BY <1>1, <2>1 DEF Command, Place
    <2> QED
      BY <1>1, <1>3, <2>2, CloneAgentInv DEF ApplyPatch, AgentInv, TypeOK, cache
  <1> QED
    BY <1>2, <1>3

LEMMA ValidateAgentInv ==
    ASSUME AgentInv, Validate
    PROVE  AgentInv'
  <1>1. Running /\ ~cmd.writing /\ cmd.say = "unasked"
    BY RunningCommand DEF Validate, At, CommandInv
  <1> QED
    BY <1>1, AbortAgentInv, OnlyGotoAgentInv DEF Validate, Place

\* What is to be copied includes the session file, except for Opencode.
LEMMA CopiesTheSession ==
    ASSUME run \in Run
    PROVE  /\ Copies \subseteq {"session", "other"}
           /\ run.provider # "OPENCODE" => "session" \in Copies
  <1>1. run.provider \in {"CLAUDE", "CODEX", "GEMINI", "OPENCODE"}
    BY ProviderKnown DEF Run
  <1> QED
    BY <1>1 DEF Copies, CodexCopies, ClaudeCopies, GeminiCopies, OpencodeCopies

LEMMA ExtractAgentInv ==
    ASSUME AgentInv, Extract
    PROVE  AgentInv'
  <1>1. /\ Running /\ cmd \in Command /\ cmd.at = "extract" /\ CommandInv
    BY RunningCommand DEF Extract, At
  <1>2. CASE Abort
    BY <1>2, AbortAgentInv
  <1>3. CASE ~Abort
    <2>1. PICK place \in {"match", "copy"} :
            /\ cmd' = [cmd EXCEPT !.at = place, !.todo = Copies]
            /\ place = "match" => run.provider # "OPENCODE"
      BY <1>3 DEF Extract
    <2>2. UNCHANGED <<run, head, clone, cache, files>>
      BY <1>3 DEF Extract
    <2>3. /\ Copies \subseteq {"session", "other"}
          /\ run.provider # "OPENCODE" => "session" \in Copies
      BY CopiesTheSession DEF AgentInv, TypeOK
    <2>4. /\ cmd' \in Command /\ cmd'.at = place /\ cmd'.todo = Copies
          /\ cmd'.want = cmd.want /\ cmd'.say = cmd.say /\ cmd'.writing = cmd.writing
      BY <1>1, <2>1, <2>3 DEF Command, Place, Slot
    <2>5. (CommandInv)'
      BY <1>1, <2>1, <2>2, <2>3, <2>4
         DEF CommandInv, SessionInv, ValidPlace, RestorePlace, clone
    <2> QED
      BY <2>2, <2>4, <2>5, OnAgentInv DEF AgentInv, TypeOK, clone, cache
  <1> QED
    BY <1>2, <1>3

LEMMA MatchAgentInv ==
    ASSUME AgentInv, Match
    PROVE  AgentInv'
  <1>1. /\ Running /\ cmd \in Command /\ cmd.at = "match" /\ CommandInv /\ ~cmd.writing
    BY RunningCommand DEF Match, At, CommandInv
  <1>2. CASE Abort
    BY <1>2, AbortAgentInv
  <1>3. CASE OnlyGoto("copy")
    BY <1>1, <1>3, OnlyGotoAgentInv DEF Place
  <1>4. ASSUME NEW answer \in {"yes", "no"}, NEW place \in {"remove", "launch"},
               place = (IF answer = "yes" THEN "remove" ELSE "launch"),
               cmd' = [cmd EXCEPT !.say = answer, !.at = place],
               UNCHANGED <<run, head, clone, cache, files>>
        PROVE  AgentInv'
    <2>1. /\ cmd' \in Command /\ cmd'.at = place /\ cmd'.say = answer
          /\ cmd'.want = cmd.want /\ cmd'.todo = cmd.todo /\ cmd'.writing = cmd.writing
      BY <1>1, <1>4 DEF Command, Place
    <2>2. (CommandInv)'
      BY <1>1, <1>4, <2>1 DEF CommandInv, ValidPlace, RestorePlace, clone
    <2> QED
      BY <1>4, <2>1, <2>2, OnAgentInv DEF AgentInv, TypeOK, clone, cache
  <1> QED
    BY <1>2, <1>3, <1>4 DEF Match

LEMMA RemoveAgentInv ==
    ASSUME AgentInv, Remove
    PROVE  AgentInv'
  <1>1. /\ Running /\ cmd \in Command /\ cmd.at = "remove" /\ CommandInv /\ ~cmd.writing
    BY RunningCommand DEF Remove, At, CommandInv
  <1>2. CASE Abort
    BY <1>2, AbortAgentInv
  <1>3. CASE OnlyGoto("copy")
    BY <1>1, <1>3, OnlyGotoAgentInv DEF Place
  <1>4. ASSUME NEW s \in Matches, files' = [files EXCEPT ![s] = "none"],
               UNCHANGED <<run, head, clone, cache, cmd>>
        PROVE  AgentInv'
    <2>1. (CommandInv)'
      BY <1>1, <1>4 DEF CommandInv, RestorePlace, ValidPlace, clone
    <2> QED
      BY <1>1, <1>4, <2>1, OnAgentInv DEF AgentInv, TypeOK, Matches, Slot, clone, cache
  <1> QED
    BY <1>2, <1>3, <1>4 DEF Remove

\* The file that is copied next is one of those to be copied.
LEMMA TurnIsNext ==
    ASSUME cmd.todo # {}, cmd.todo \subseteq {"session", "other"}
    PROVE  Turn \in cmd.todo
  BY DEF Turn

LEMMA CopyingAgentInv ==
    ASSUME AgentInv, Copying
    PROVE  AgentInv'
  <1>1. /\ Running /\ cmd \in Command /\ cmd.at = "copy" /\ CommandInv
        /\ ~cmd.writing /\ cmd.todo # {}
    BY RunningCommand DEF Copying, At
  <1>2. Turn \in cmd.todo /\ cmd.todo \subseteq {"session", "other"}
    BY <1>1, TurnIsNext DEF CommandInv, RestorePlace
  <1>3. CASE Abort
    BY <1>3, AbortAgentInv
  <1>4. ASSUME NEW answer \in {"yes", "no"}, Ask(Turn, answer)
        PROVE  AgentInv'
    <2>1. /\ cmd' \in Command /\ cmd'.say = answer /\ cmd'.at = cmd.at
          /\ cmd'.want = cmd.want /\ cmd'.todo = cmd.todo /\ cmd'.writing = cmd.writing
      BY <1>1, <1>4 DEF Ask, Command
    <2>2. UNCHANGED <<run, head, clone, cache, files>> /\ cmd.say = "unasked"
      BY <1>4 DEF Ask
    <2>3. (CommandInv)'
      BY <1>1, <2>1, <2>2 DEF CommandInv, SessionInv, ValidPlace, RestorePlace, clone
    <2> QED
      BY <2>1, <2>2, <2>3, OnAgentInv DEF AgentInv, TypeOK, clone, cache
  <1>5. CASE OpenFile(Turn)
    <2>1. /\ cmd' \in Command /\ cmd'.writing = TRUE /\ cmd'.say = cmd.say
          /\ cmd'.at = cmd.at /\ cmd'.want = cmd.want /\ cmd'.todo = cmd.todo
      BY <1>1, <1>5 DEF OpenFile, Command
    <2>2. /\ UNCHANGED <<run, head, clone, cache>>
          /\ files' = [files EXCEPT ![Turn] = "torn"]
      BY <1>5 DEF OpenFile
    <2>3. /\ files' \in [Slot -> {"none", "mine", "torn", "archived"}]
          /\ files'[Turn] = "torn"
          /\ "session" \notin cmd.todo => files'["session"] = files["session"]
      BY <1>2, <2>2 DEF AgentInv, TypeOK, Slot
    <2>4. (Turn)' = Turn
      BY <2>1 DEF Turn
    <2>5. (CommandInv)'
      BY <1>1, <2>1, <2>2, <2>3, <2>4
         DEF CommandInv, SessionInv, ValidPlace, RestorePlace, clone
    <2> QED
      BY <2>1, <2>2, <2>3, <2>5, OnAgentInv DEF AgentInv, TypeOK, clone, cache
  <1>6. CASE Skip(Turn)
    <2>1. /\ cmd' \in Command /\ cmd'.writing = cmd.writing /\ cmd'.say = cmd.say
          /\ cmd'.at = cmd.at /\ cmd'.want = cmd.want /\ cmd'.todo = cmd.todo \ {Turn}
      BY <1>1, <1>6 DEF Skip, Command
    <2>2. UNCHANGED <<run, head, clone, cache, files>> /\ cmd.say = "no"
      BY <1>6 DEF Skip
    <2>3. (CommandInv)'
      BY <1>1, <2>1, <2>2 DEF CommandInv, SessionInv, ValidPlace, RestorePlace, clone
    <2> QED
      BY <2>1, <2>2, <2>3, OnAgentInv DEF AgentInv, TypeOK, clone, cache
  <1> QED
    BY <1>3, <1>4, <1>5, <1>6 DEF Copying

LEMMA FillFileAgentInv ==
    ASSUME AgentInv, FillFile
    PROVE  AgentInv'
  <1>1. /\ Running /\ cmd \in Command /\ cmd.at = "copy" /\ CommandInv
        /\ cmd.writing /\ cmd.todo # {}
    BY RunningCommand DEF FillFile, At, CommandInv
  <1>2. CASE Abort
    BY <1>2, AbortAgentInv
  <1>3. CASE ~Abort
    <2>1. /\ UNCHANGED <<run, head, clone, cache>>
          /\ files' = [files EXCEPT ![Turn] = "archived"]
      BY <1>3 DEF FillFile
    <2>2. /\ cmd' \in Command /\ cmd'.writing = FALSE /\ cmd'.say = cmd.say
          /\ cmd'.at = cmd.at /\ cmd'.want = cmd.want /\ cmd'.todo = cmd.todo \ {Turn}
      BY <1>1, <1>3 DEF FillFile, Command
    <2>3. Turn \in {"session", "other"}
      BY DEF Turn
    <2>4. /\ files' \in [Slot -> {"none", "mine", "torn", "archived"}]
          /\ files'[Turn] = "archived"
          /\ Turn # "session" => files'["session"] = files["session"]
      BY <2>1, <2>3 DEF AgentInv, TypeOK, Slot
    <2>5. (CommandInv)'
      BY <1>1, <2>1, <2>2, <2>3, <2>4
         DEF CommandInv, SessionInv, ValidPlace, RestorePlace, clone
    <2> QED
      BY <2>1, <2>2, <2>4, <2>5, OnAgentInv DEF AgentInv, TypeOK, clone, cache
  <1> QED
    BY <1>2, <1>3

LEMMA CopiedAgentInv ==
    ASSUME AgentInv, Copied
    PROVE  AgentInv'
  <1>1. Running /\ ~cmd.writing /\ cmd.at = "copy" /\ cmd.todo = {}
    BY RunningCommand DEF Copied, At, CommandInv
  <1> QED
    BY <1>1, OnlyGotoAgentInv DEF Copied, Place

\* Between commands there is nothing to say of one.
LEMMA BetweenAgentInv ==
    ASSUME AgentInv, UserEdits \/ UserCommits \/ UserSwitches \/ AgentPushes
    PROVE  AgentInv'
  <1>1. /\ ~Running /\ UNCHANGED <<run, cache, files, cmd>>
    BY DEF UserEdits, UserCommits, UserSwitches, AgentPushes
  <1>2. head' \in 1..(MaxPushes + 1)
    <2>1. head' = head \/ (head <= MaxPushes /\ head' = head + 1)
      BY DEF UserEdits, UserCommits, UserSwitches, AgentPushes
    <2> QED
      BY <2>1, HeadIsPositive, PushesBounded
  <1>3. /\ branch' \in {"main", "pr", "agent"} /\ local' \in Copy
        /\ dirty' \in BOOLEAN
    BY DEF UserEdits, UserCommits, UserSwitches, AgentPushes, clone, AgentInv, TypeOK, Copy
  <1> QED
    BY <1>1, <1>2, <1>3 DEF AgentInv, TypeOK, Running, cache

LEMMA NextAgentInv == AgentInv /\ [Next]_vars => AgentInv'
  <1> SUFFICES ASSUME AgentInv, [Next]_vars PROVE AgentInv'
    OBVIOUS
  <1>1. CASE StartResume
    BY <1>1, StartResumeAgentInv
  <1>2. CASE Kill \/ Launch
    BY <1>2, AbortAgentInv DEF Kill, Launch
  <1>3. CASE Fetch \/ Store \/ Check
    BY <1>3, ArchiveAgentInv
  <1>4. CASE Prepare \/ Clean \/ Switch \/ Forward \/ ApplyPatch \/ Validate
    BY <1>4, PrepareAgentInv, CleanAgentInv, SwitchAgentInv, ForwardAgentInv,
       ApplyPatchAgentInv, ValidateAgentInv
  <1>5. CASE Extract \/ Match \/ Remove
    BY <1>5, ExtractAgentInv, MatchAgentInv, RemoveAgentInv
  <1>6. CASE Copying \/ FillFile \/ Copied
    BY <1>6, CopyingAgentInv, FillFileAgentInv, CopiedAgentInv
  <1>7. CASE UserEdits \/ UserCommits \/ UserSwitches \/ AgentPushes
    BY <1>7, BetweenAgentInv
  <1>8. CASE UNCHANGED vars
    <2>1. /\ run' = run /\ head' = head /\ branch' = branch /\ local' = local
          /\ dirty' = dirty /\ archive' = archive /\ partial' = partial
          /\ files' = files /\ cmd' = cmd
      BY <1>8 DEF vars, clone, cache
    <2>2. CASE Running
      <3>1. cmd' \in Command
        BY <2>1, <2>2, RunningCommand
      <3>2. (CommandInv)'
        BY <2>1, <2>2, RunningCommand DEF CommandInv, SessionInv, Turn
      <3> QED
        BY <2>1, <3>1, <3>2, OnAgentInv DEF AgentInv, TypeOK
    <2>3. CASE ~Running
      BY <2>1, <2>3 DEF AgentInv, TypeOK, Running
    <2> QED
      BY <2>2, <2>3
  <1> QED
    BY <1>1, <1>2, <1>3, <1>4, <1>5, <1>6, <1>7, <1>8 DEF Next

\* The inductive invariant holds throughout.
THEOREM AgentInvHolds == Spec => []AgentInv
  BY InitAgentInv, NextAgentInv, PTL DEF Spec

-----------------------------------------------------------------------------
(* What follows from it                                                    *)

\* The run, the clone, the cached archive and the provider's files keep
\* their types, and a file is open only while it is to be copied.
THEOREM AgentTypeCorrect == Spec => []TypeOK
  <1>1. AgentInv => TypeOK
    BY DEF AgentInv
  <1> QED
    BY <1>1, AgentInvHolds, PTL

\* Validate compares the clone with the prepared branch before anything is
\* restored, and the provider is launched on that branch and on a session
\* file that is whole and the archive's, unless the user kept the local one.
THEOREM ProvidersAreLaunchedAsPrepared == Spec => []LaunchedAsPrepared
  <1>1. AgentInv => LaunchedAsPrepared
    BY RunningCommand DEF LaunchedAsPrepared, At, CommandInv, ValidPlace
  <1> QED
    BY <1>1, AgentInvHolds, PTL

\* A command leaves a branch only in Switch, after ensureClean.
THEOREM UncommittedWorkStays == Spec => WorkStaysOnItsBranch
  <1>1. AgentInv /\ [Next]_vars => [Running /\ branch' # branch => ~dirty]_vars
    <2> SUFFICES ASSUME AgentInv, Next, Running, branch' # branch PROVE ~dirty
      OBVIOUS
    <2>1. Switch
      BY DEF Next, StartResume, Kill, Fetch, Store, Check, Prepare, Clean, Forward,
             ApplyPatch, Validate, Extract, Match, Remove, Copying, Ask, OpenFile, Skip,
             FillFile, Copied, Launch, UserEdits, UserCommits, UserSwitches, AgentPushes,
             Abort, OnlyGoto, clone
    <2> QED
      BY <2>1, RunningCommand DEF Switch, At, CommandInv
  <1> QED
    BY <1>1, AgentInvHolds, PTL DEF Spec, WorkStaysOnItsBranch

\* A file of the session is removed or truncated only after the user's yes,
\* and one that is filled was truncated by this command.
THEOREM OverwritesAreAgreedTo == Spec => OverwritesOnlyAfterYes
  <1>1. AgentInv /\ [Next]_vars =>
          [\A s \in Slot :
             files[s] \in {"mine", "archived"} /\ files'[s] # files[s]
                 => Running /\ cmd.say = "yes"]_vars
    <2> SUFFICES ASSUME AgentInv, Next, NEW s \in Slot,
                        files[s] \in {"mine", "archived"}, files'[s] # files[s]
                 PROVE  Running /\ cmd.say = "yes"
      OBVIOUS
    <2>1. Remove \/ FillFile \/ Copying
      BY DEF Next, StartResume, Kill, Fetch, Store, Check, Prepare, Clean, Switch, Forward,
             ApplyPatch, Validate, Extract, Match, Copied, Launch, UserEdits, UserCommits,
             UserSwitches, AgentPushes, Abort, OnlyGoto
    <2>2. Running /\ CommandInv
      BY <2>1, RunningCommand DEF Remove, FillFile, Copying, At
    <2>3. CASE Remove
      BY <2>2, <2>3 DEF Remove, At, CommandInv
    <2>4. CASE FillFile
      BY <2>2, <2>4 DEF FillFile, Abort, CommandInv, AgentInv, TypeOK
    <2>5. CASE Copying
      BY <2>2, <2>5 DEF Copying, Abort, Ask, OpenFile, Skip, AgentInv, TypeOK
    <2> QED
      BY <2>1, <2>3, <2>4, <2>5
  <1> QED
    BY <1>1, AgentInvHolds, PTL DEF Spec, OverwritesOnlyAfterYes
=============================================================================
