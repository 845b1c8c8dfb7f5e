------------------------------ MODULE Readiness ------------------------------
(***************************************************************************)
(* The readiness checks of pkg/up/ping.go: testDns and then ping for a     *)
(* self-hosted console, waitForConsole for a BYOK one.  Each goes through  *)
(* retrier, which starts a goroutine that calls the check again and again  *)
(* and waits for it or for a timeout of five minutes.                      *)
(*                                                                         *)
(* Time advances in units of the ten seconds retrier sleeps between two    *)
(* calls.                                                                  *)
(***************************************************************************)
EXTENDS Integers, Sequences

CONSTANTS
    Checks,    \* the checks of one run, in order
    CanHang,   \* checks whose call may take arbitrarily long
    Deadline,  \* units until the context of a retrier expires
    MaxClock   \* bound on the clock: every retrier has expired by then

ASSUME DeadlineAssumption == Deadline \in Nat \ {0}
ASSUME ChecksAssumption == Checks \in Seq(STRING) /\ Checks # <<>>
ASSUME ClockAssumption == MaxClock = Len(Checks) * Deadline

VARIABLES
    clock,
    cur,      \* check the command waits for
    started,  \* when its retrier was called
    worker,   \* state of the goroutine of each check
    wake,     \* when a sleeping goroutine calls the check again
    resErr,   \* the variable resErr of each retrier
    answers,  \* how many calls of each check came back: none, one, or more
    passed,   \* checks one of whose calls has returned nil
    ret       \* how the sequence of checks ended

vars == <<clock, cur, started, worker, wake, resErr, answers, passed, ret>>

C == 1..Len(Checks)
Hangs(c) == Checks[c] \in CanHang

TypeOK ==
    /\ clock \in 0..MaxClock
    /\ cur \in C /\ started \in 0..MaxClock
    /\ worker \in [C -> {"unborn", "call", "failed", "sleep", "send", "gone"}]
    /\ wake \in [C -> 0..MaxClock + 1]
    /\ resErr \in [C -> {"nil", "err"}]
    /\ answers \in [C -> 0..2] /\ passed \subseteq C
    /\ ret \in {"running", "ok", "err"}

Init ==
    /\ clock = 0 /\ cur = 1 /\ started = 0
    /\ worker = [c \in C |-> IF c = 1 THEN "call" ELSE "unborn"]
    /\ wake = [c \in C |-> 0]
    /\ resErr = [c \in C |-> "nil"]
    /\ answers = [c \in C |-> 0] /\ passed = {}
    /\ ret = "running"

ComesBack(c) == answers' = [answers EXCEPT ![c] = IF @ = 2 THEN 2 ELSE @ + 1]

\* the check says yes: the goroutine is about to send on `done`, which is
\* unbuffered
Succeeds(c) ==
    /\ worker[c] = "call"
    /\ worker' = [worker EXCEPT ![c] = "send"]
    /\ ComesBack(c) /\ passed' = passed \union {c}
    /\ UNCHANGED <<clock, cur, started, wake, resErr, ret>>

\* f returned an error, which only the goroutine knows of so far
Fails(c) ==
    /\ worker[c] = "call"
    /\ worker' = [worker EXCEPT ![c] = "failed"]
    /\ ComesBack(c)
    /\ UNCHANGED <<clock, cur, started, wake, resErr, passed, ret>>

\* mutant: the result of a failed call is not kept
StoresNothing(c) ==
    /\ worker[c] = "failed"
    /\ worker' = [worker EXCEPT ![c] = "sleep"]
    /\ wake' = [wake EXCEPT ![c] = clock + 1]
    /\ UNCHANGED <<clock, cur, started, resErr, answers, passed, ret>>

\* the error is assigned to resErr, which the command may be reading: no lock
\* and no channel orders the two
Stores(c) ==
    /\ worker[c] = "failed"
    /\ worker' = [worker EXCEPT ![c] = "sleep"]
    /\ wake' = [wake EXCEPT ![c] = clock + 1]
    /\ resErr' = [resErr EXCEPT ![c] = "err"]
    /\ UNCHANGED <<clock, cur, started, answers, passed, ret>>

CallsAgain(c) ==
    /\ worker[c] = "sleep" /\ clock >= wake[c]
    /\ worker' = [worker EXCEPT ![c] = "call"]
    /\ UNCHANGED <<clock, cur, started, wake, resErr, answers, passed, ret>>

\* mutant: the next retrier is called after the last one too
ProceedPast(w) ==
    /\ cur' = cur + 1 /\ started' = clock
    /\ worker' = [w EXCEPT ![cur + 1] = "call"]
    /\ UNCHANGED ret

\* retrier returned nil: the next one is called, if there is one
Proceed(w) ==
    IF cur = Len(Checks)
    THEN ret' = "ok" /\ worker' = w /\ UNCHANGED <<cur, started>>
    ELSE /\ cur' = cur + 1 /\ started' = clock
         /\ worker' = [w EXCEPT ![cur + 1] = "call"]
         /\ UNCHANGED ret

\* case <-done
ReceiveDone ==
    /\ ret = "running" /\ worker[cur] = "send"
    /\ Proceed([worker EXCEPT ![cur] = "gone"])
    /\ UNCHANGED <<clock, wake, resErr, answers, passed>>

\* mutant: a context without a deadline
ExpiredNever == FALSE

Expired == clock - started >= Deadline

\* case <-ctx.Done(): whatever resErr holds is returned
ReturnResErr ==
    /\ ret = "running" /\ Expired
    /\ IF resErr[cur] = "nil" THEN Proceed(worker)
       ELSE ret' = "err" /\ UNCHANGED <<cur, started, worker>>
    /\ UNCHANGED <<clock, wake, resErr, answers, passed>>

\* a call that cannot hang is over within a unit (doTestDns has a timeout of
\* ten seconds); an expired context is noticed before more time passes
Tick ==
    /\ ret = "running" /\ clock < MaxClock /\ ~Expired
    /\ \A c \in C : worker[c] = "call" => Hangs(c)
    /\ clock' = clock + 1
    /\ UNCHANGED <<cur, started, worker, wake, resErr, answers, passed, ret>>

Command == ReceiveDone \/ ReturnResErr

Worker(c) == Succeeds(c) \/ Fails(c) \/ Stores(c) \/ CallsAgain(c)

Next == Command \/ Tick \/ \E c \in C : Worker(c)

\* time passes, the command is scheduled, and a call that cannot hang
\* returns; nothing is assumed of the other calls
Fairness ==
    /\ WF_vars(Command) /\ WF_vars(Tick)
    /\ \A c \in C : WF_vars(~Hangs(c) /\ Worker(c))

Spec == Init /\ [][Next]_vars /\ Fairness

-----------------------------------------------------------------------------
\* A failure is lost in one window only: when the command goes past a check
\* with no yes from it, no call of it has come back, or its first one has and
\* the goroutine is between the return of f and the assignment to resErr.
NoFailureLost ==
    [][cur \notin passed /\ (cur' # cur \/ (ret' = "ok" /\ ret # "ok"))
         => answers[cur] = 0 \/ (answers[cur] = 1 /\ worker[cur] = "failed")]_vars

\* With a hanging endpoint or without, the command gets past its checks or
\* fails: nothing waits for a call that never returns.
Terminates == <>(ret # "running")

=============================================================================
