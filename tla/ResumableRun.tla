---------------------------- MODULE ResumableRun ----------------------------
(***************************************************************************)
(* What checkpoints promise: a job made of ordered stages that may stop at *)
(* any point and be resumed, without losing or reordering the work that    *)
(* its notes say was done.  A note is taken in memory after each stage and *)
(* made durable now and then; work resumes from a note that is true.       *)
(***************************************************************************)
EXTENDS Integers

CONSTANTS Stage,   \* all stages
          Rank,    \* their order
          None     \* the note of a job that noted nothing yet

VARIABLES plan,       \* the stages of this job
          performed,  \* stages performed so far, in any run
          volatile,   \* the note of the current run
          durable     \* the note that survives it

vars == <<plan, performed, volatile, durable>>

Note == Stage \union {None}

Notes(n, c) == n # None /\ Rank[c] <= Rank[n]

TypeOK ==
    /\ plan \subseteq Stage
    /\ performed \subseteq Stage
    /\ volatile \in Note /\ durable \in Note

Init ==
    /\ plan \subseteq Stage
    /\ performed = {}
    /\ volatile = None /\ durable = None

\* a stage the note does not cover, once the stages before it are done
Perform(c) ==
    /\ c \in plan /\ ~Notes(volatile, c)
    /\ {d \in plan : Rank[d] < Rank[c]} \subseteq performed
    /\ performed' = performed \union {c}
    /\ volatile' = c
    /\ UNCHANGED <<plan, durable>>

Save ==
    /\ durable' = volatile
    /\ UNCHANGED <<plan, performed, volatile>>

\* the job goes on from a note that claims nothing that was not performed:
\* the durable one, an older copy of it, or none at all when it was lost
Resume(n) ==
    /\ \A c \in plan : Notes(n, c) => c \in performed
    /\ volatile' = n /\ durable' = n
    /\ UNCHANGED <<plan, performed>>

Next ==
    \/ \E c \in plan : Perform(c)
    \/ Save
    \/ \E n \in Note : Resume(n)

Spec == Init /\ [][Next]_vars

\* A durable or volatile note covers only stages that were performed.
NotedIsPerformed ==
    \A c \in plan : Notes(volatile, c) \/ Notes(durable, c) => c \in performed
=============================================================================
