--------------------------- MODULE Readiness_proofs ---------------------------
(***************************************************************************)
(* Theorems about Readiness, for every list of checks, whichever of them   *)
(* may hang, and every deadline.                                           *)
(***************************************************************************)
EXTENDS Readiness, TLAPS

-----------------------------------------------------------------------------
(* The inductive invariant                                                 *)

\* A goroutine sends on `done` only after a yes, none is started before its
\* turn, and a retrier that has had neither a yes nor an error in resErr has
\* had no answer, or has one whose error is about to be stored.
AnswerInv ==
    /\ \A c \in C : worker[c] = "send" => c \in passed
    /\ \A c \in C : c > cur => worker[c] = "unborn" /\ answers[c] = 0
    /\ \A c \in C \ passed :
          \/ answers[c] = 0
          \/ answers[c] = 1 /\ worker[c] = "failed"
          \/ resErr[c] = "err"

\* No retrier waits longer than its deadline, nor do those before it together
\* longer than theirs.
TimeInv ==
    /\ started <= clock /\ clock - started <= Deadline
    /\ started <= (cur - 1) * Deadline

ReadyInv == TypeOK /\ AnswerInv /\ TimeInv

LEMMA ConstantsType ==
    /\ Len(Checks) \in Nat \ {0}
    /\ Deadline \in Nat \ {0}
    /\ MaxClock \in Nat
    /\ 1 \in C
  <1>1. Len(Checks) \in Nat \ {0}
    BY ChecksAssumption
  <1> DEFINE n == Len(Checks)
  <1>2. MaxClock = n * Deadline /\ Deadline \in Nat \ {0}
    BY ClockAssumption, DeadlineAssumption
  <1> HIDE DEF n
  <1>3. n * Deadline \in Nat
    BY <1>1, <1>2 DEF n
  <1>4. 1 \in 1..n
    BY <1>1 DEF n
  <1> QED
    BY <1>1, <1>2, <1>3, <1>4 DEF n, C

LEMMA InitReadyInv == Init => ReadyInv
  <1> SUFFICES ASSUME Init PROVE ReadyInv
    OBVIOUS
  <1>1. TypeOK
    <2>1. 0 \in 0..MaxClock /\ 0 \in 0..MaxClock + 1
      BY ConstantsType
    <2> QED
      BY <2>1, ConstantsType DEF Init, TypeOK
  <1>2. AnswerInv
    BY DEF Init, AnswerInv
  <1>3. TimeInv
    <2>1. (1 - 1) * Deadline = 0
      BY ConstantsType
    <2> QED
      BY <2>1, ConstantsType DEF Init, TimeInv
  <1> QED
    BY <1>1, <1>2, <1>3 DEF ReadyInv

-----------------------------------------------------------------------------
(* Steps of a goroutine                                                    *)

LEMMA WorkerKeeps ==
    ASSUME ReadyInv, NEW c \in C, Worker(c)
    PROVE  ReadyInv'
  <1> USE DEF ReadyInv
  <1>1. UNCHANGED <<clock, cur, started, ret>>
    BY DEF Worker, Succeeds, Fails, Stores, CallsAgain
  <1>2. TimeInv'
    BY <1>1 DEF TimeInv
  <1>3. clock + 1 \in 0..MaxClock + 1
    BY ConstantsType DEF TypeOK
  <1>4. TypeOK'
    <2>0. ComesBack(c) => answers' \in [C -> 0..2]
      BY DEF ComesBack, TypeOK
    <2>1. CASE Succeeds(c)
      BY <2>0, <2>1 DEF Succeeds, TypeOK
    <2>2. CASE Fails(c)
      BY <2>0, <2>2 DEF Fails, TypeOK
    <2>3. CASE Stores(c)
      BY <2>3, <1>3 DEF Stores, TypeOK
    <2>4. CASE CallsAgain(c)
      BY <2>4 DEF CallsAgain, TypeOK
    <2> QED
      BY <2>1, <2>2, <2>3, <2>4 DEF Worker
  <1>5. AnswerInv'
    <2>1. CASE Succeeds(c)
      BY <1>1, <2>1 DEF Succeeds, ComesBack, TypeOK, AnswerInv
    <2>2. CASE Fails(c)
      BY <1>1, <2>2 DEF Fails, ComesBack, TypeOK, AnswerInv
    <2>3. CASE Stores(c)
      BY <1>1, <2>3 DEF Stores, TypeOK, AnswerInv
    <2>4. CASE CallsAgain(c)
      BY <1>1, <2>4 DEF CallsAgain, TypeOK, AnswerInv
    <2> QED
      BY <2>1, <2>2, <2>3, <2>4 DEF Worker
  <1> QED
    BY <1>2, <1>4, <1>5

-----------------------------------------------------------------------------
(* Steps of the command                                                    *)

\* one retrier is over and the next one is called
LEMMA ProceedKeeps ==
    ASSUME ReadyInv, ret = "running",
           NEW w \in {worker, [worker EXCEPT ![cur] = "gone"]}, Proceed(w),
           w = worker \/ worker[cur] = "send",
           UNCHANGED <<clock, wake, resErr, answers, passed>>
    PROVE  ReadyInv'
  <1> USE DEF ReadyInv
  <1> DEFINE n == Len(Checks)
  <1>1. w \in [C -> {"unborn", "call", "failed", "sleep", "send", "gone"}]
    BY DEF TypeOK
  <1>2. \A c \in C : w[c] = worker[c] \/ (w[c] = "gone" /\ c = cur /\ c \in passed)
    BY DEF TypeOK, AnswerInv
  <1>3. CASE cur = n
    <2>1. ret' = "ok" /\ worker' = w /\ UNCHANGED <<cur, started>>
      BY <1>3 DEF Proceed
    <2>2. TypeOK'
      BY <1>1, <2>1 DEF TypeOK
    <2>3. TimeInv'
      BY <2>1 DEF TimeInv
    <2>4. AnswerInv'
      BY <1>2, <2>1 DEF TypeOK, AnswerInv
    <2> QED
      BY <2>2, <2>3, <2>4
  <1>4. CASE cur # n
    <2>1. /\ cur' = cur + 1 /\ started' = clock
          /\ worker' = [w EXCEPT ![cur + 1] = "call"]
          /\ ret' = ret
      BY <1>4 DEF Proceed
    <2>2. cur \in 1..n /\ n \in Nat
      BY ConstantsType DEF TypeOK, C
    <2> HIDE DEF n
    <2>3. cur + 1 \in 1..n /\ cur \in Nat
      BY <1>4, <2>2
    <2>4. cur' \in C
      BY <2>1, <2>3 DEF n, C
    <2>5. worker' \in [C -> {"unborn", "call", "failed", "sleep", "send", "gone"}]
      BY <1>1, <2>1
    <2>6. TypeOK'
      BY <2>1, <2>4, <2>5 DEF TypeOK, C
    <2>7. AnswerInv'
      <3>1. cur \in Int /\ C \subseteq Int /\ cur + 1 \in C
        BY <2>1, <2>3, <2>4 DEF C
      <3>2. ASSUME NEW c \in C
            PROVE  worker'[c] = IF c = cur + 1 THEN "call" ELSE w[c]
        BY <1>1, <2>1
      <3>3. answers[cur + 1] = 0
        BY <3>1 DEF AnswerInv
      <3> QED
        BY <1>2, <2>1, <3>1, <3>2, <3>3 DEF AnswerInv
    <2>8. TimeInv'
      <3>1. clock \in Nat /\ started \in Nat /\ Deadline \in Nat
        BY ConstantsType DEF TypeOK
      <3>2. clock <= (cur - 1) * Deadline + Deadline
        <4>1. started <= (cur - 1) * Deadline /\ clock - started <= Deadline
          BY DEF TimeInv
        <4>2. (cur - 1) * Deadline \in Int
          BY <2>3, <3>1
        <4> DEFINE p == (cur - 1) * Deadline
        <4> HIDE DEF p
        <4>3. p \in Int /\ started <= p /\ clock - started <= Deadline
          BY <4>1, <4>2 DEF p
        <4>4. clock <= p + Deadline
          BY <3>1, <4>3
        <4> QED
          BY <4>4 DEF p
      <3>3. (cur - 1) * Deadline + Deadline = (cur + 1 - 1) * Deadline
        BY <2>3, <3>1
      <3>4. clock <= (cur' - 1) * Deadline
        <4> DEFINE before(c) == (c - 1) * Deadline
        <4>1. clock <= before(cur + 1)
          <5> DEFINE p == (cur - 1) * Deadline + Deadline
          <5>1. clock <= p /\ p = before(cur + 1)
            BY <2>3, <3>1, <3>2, <3>3
          <5> HIDE DEF p, before
          <5> QED
            BY <5>1
        <4>2. cur' = cur + 1
          BY <2>1
        <4> HIDE DEF before
        <4>3. clock <= before(cur')
          BY <4>1, <4>2
        <4> QED
          BY <4>3 DEF before
      <3>5. clock' = clock /\ started' = clock /\ Deadline' = Deadline
        BY <2>1
      <3>6. started' <= clock' /\ clock' - started' <= Deadline
        BY <3>1, <3>5
      <3> QED
        BY <3>4, <3>5, <3>6, Zenon DEF TimeInv
    <2> QED
      BY <2>6, <2>7, <2>8
  <1> QED
    BY <1>3, <1>4

LEMMA CommandKeeps ==
    ASSUME ReadyInv, Command
    PROVE  ReadyInv'
  <1>1. CASE ReceiveDone
    BY <1>1, ProceedKeeps DEF ReceiveDone
  <1>2. CASE ReturnResErr /\ resErr[cur] = "nil"
    BY <1>2, ProceedKeeps DEF ReturnResErr
  <1>3. CASE ReturnResErr /\ resErr[cur] # "nil"
    BY <1>3 DEF ReturnResErr, ReadyInv, TypeOK, AnswerInv, TimeInv
  <1> QED
    BY <1>1, <1>2, <1>3 DEF Command

LEMMA TickKeeps ==
    ASSUME ReadyInv, Tick
    PROVE  ReadyInv'
  <1> USE DEF ReadyInv
  <1>1. /\ clock' = clock + 1 /\ clock < MaxClock /\ clock - started < Deadline
        /\ UNCHANGED <<cur, started, worker, wake, resErr, answers, passed, ret>>
    <2>1. clock \in Nat /\ started \in Nat /\ Deadline \in Nat
      BY ConstantsType DEF TypeOK
    <2> QED
      BY <2>1 DEF Tick, Expired
  <1>2. TypeOK'
    <2>1. clock' \in 0..MaxClock
      BY <1>1, ConstantsType DEF TypeOK
    <2> QED
      BY <1>1, <2>1 DEF TypeOK
  <1>3. AnswerInv'
    BY <1>1 DEF AnswerInv
  <1>4. TimeInv'
    <2>1. clock \in Nat /\ started \in Nat /\ Deadline \in Nat
      BY ConstantsType DEF TypeOK
    <2>2. started <= clock' /\ clock' - started <= Deadline
      BY <1>1, <2>1 DEF TimeInv
    <2> QED
      BY <1>1, <2>2 DEF TimeInv
  <1> QED
    BY <1>2, <1>3, <1>4

LEMMA ReadyInvStutters ==
    ASSUME ReadyInv, UNCHANGED vars
    PROVE  ReadyInv'
  BY DEF ReadyInv, TypeOK, AnswerInv, TimeInv, vars

\* The inductive invariant holds in every reachable state.
THEOREM ReadyInvHolds == Spec => []ReadyInv
  <1>1. Init => ReadyInv
    BY InitReadyInv
  <1>2. ReadyInv /\ [Next]_vars => ReadyInv'
    BY WorkerKeeps, CommandKeeps, TickKeeps, ReadyInvStutters DEF Next
  <1> QED
    BY <1>1, <1>2, PTL DEF Spec

-----------------------------------------------------------------------------
(* The results                                                             *)

\* The variables of Readiness keep their types, for any list of checks.
THEOREM ReadinessTypeCorrect == Spec => []TypeOK
  <1>1. ReadyInv => TypeOK
    BY DEF ReadyInv
  <1> QED
    BY <1>1, ReadyInvHolds, PTL

\* retrier, which shares resErr with its goroutine without a lock, loses a
\* failure in one window only: the first call is back and its error not yet
\* stored when the deadline passes.  From the second call on, and whether
\* `done` or the deadline is found first, nil means that a call said yes.
THEOREM FailuresAreSeen == Spec => NoFailureLost
  <1> DEFINE Window == answers[cur] = 0 \/ (answers[cur] = 1 /\ worker[cur] = "failed")
             Past == cur' # cur \/ (ret' = "ok" /\ ret # "ok")
  <1>1. ReadyInv /\ [Next]_vars => [cur \notin passed /\ Past => Window]_vars
    <2> SUFFICES ASSUME ReadyInv, Next, Past, cur \notin passed
                 PROVE  Window
      OBVIOUS
    <2>1. ~Tick /\ \A c \in C : ~Worker(c)
      BY DEF Tick, Worker, Succeeds, Fails, Stores, CallsAgain
    <2>2. CASE ReceiveDone
      BY <2>2 DEF ReceiveDone, ReadyInv, AnswerInv, TypeOK
    <2>3. CASE ReturnResErr
      <3>1. resErr[cur] = "nil"
        BY <2>3 DEF ReturnResErr
      <3> QED
        BY <3>1 DEF ReadyInv, AnswerInv, TypeOK
    <2> QED
      BY <2>1, <2>2, <2>3 DEF Next, Command
  <1> QED
    BY <1>1, ReadyInvHolds, PTL DEF Spec, NoFailureLost

\* `clock` is within the deadlines of the checks called so far, and reaches
\* its bound only when the last of them has expired.
DeadlinesKept ==
    /\ clock <= cur * Deadline
    /\ clock = MaxClock => Expired

\* The command never waits longer than the deadlines of the checks it has
\* called, whatever hangs: each retrier gives up at its own deadline.  So the
\* bound on the clock cuts no behaviour off.
THEOREM WaitsAreBounded == Spec => []DeadlinesKept
  <1>1. ReadyInv => DeadlinesKept
    <2> SUFFICES ASSUME ReadyInv PROVE DeadlinesKept
      OBVIOUS
    <2>1. /\ clock \in Nat /\ started \in Nat /\ Deadline \in Nat /\ cur \in Nat
          /\ started <= (cur - 1) * Deadline /\ clock - started <= Deadline
      BY ConstantsType DEF ReadyInv, TypeOK, C, TimeInv
    <2>2. (cur - 1) * Deadline + Deadline = cur * Deadline
      BY <2>1
    <2> DEFINE p == (cur - 1) * Deadline
    <2>3. p \in Int
      BY <2>1
    <2> HIDE DEF p
    <2>4. started <= p /\ clock <= p + Deadline
      BY <2>1, <2>3 DEF p
    <2>5. clock <= cur * Deadline
      BY <2>2, <2>4 DEF p
    <2>6. ASSUME clock = MaxClock PROVE clock - started >= Deadline
      <3> DEFINE n == Len(Checks)
      <3>1. n \in Nat /\ cur <= n /\ MaxClock = n * Deadline
        BY ConstantsType, ClockAssumption DEF ReadyInv, TypeOK, C
      <3> HIDE DEF n
      <3>2. (n - cur) * Deadline \in Nat
        BY <2>1, <3>1
      <3>3. n * Deadline = (n - cur) * Deadline + cur * Deadline
        BY <2>1, <3>1
      <3> DEFINE q == (n - cur) * Deadline
      <3>4. q \in Nat /\ clock = q + (p + Deadline)
        BY <2>2, <2>6, <3>1, <3>2, <3>3 DEF p
      <3> HIDE DEF q
      <3> QED
        BY <2>1, <2>3, <2>4, <3>4
    <2> QED
      BY <2>5, <2>6 DEF DeadlinesKept, Expired
  <1> QED
    BY <1>1, ReadyInvHolds, PTL
=============================================================================
