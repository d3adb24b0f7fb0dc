--------------------------- MODULE TaskPool_proofs ---------------------------
(***************************************************************************)
(* The task pool for any number of workers, any rate and any limits.       *)
(* Every invariant of the run is about counters; what ties them together   *)
(* is how many workers hold a task, Cardinality(Busy), so the first lemmas *)
(* say how each step of a worker changes that set.                         *)
(***************************************************************************)
EXTENDS TaskPool, FiniteSetTheorems, TLAPS

(* A worker that takes a task is one more busy worker.                     *)
LEMMA BusyGrows ==
  ASSUME NEW w \in Workers, TypeOK, Step(w, "select", "replay")
  PROVE  Cardinality(Busy') = Cardinality(Busy) + 1
<1>1. Busy' = Busy \cup {w} /\ w \notin Busy
  BY DEF Busy, Step, TypeOK
<1>2. IsFiniteSet(Busy)
  BY FS_Subset, PoolAssumption DEF Busy
<1> QED
  BY <1>1, <1>2, FS_AddElement

(* A worker that gives its task up or counts it is one busy worker less.   *)
LEMMA BusyShrinks ==
  ASSUME NEW w \in Workers, TypeOK,
         Step(w, "replay", "select") \/ Step(w, "count", "select")
  PROVE  Cardinality(Busy') = Cardinality(Busy) - 1
<1>1. Busy' = Busy \ {w} /\ w \in Busy
  BY DEF Busy, Step, TypeOK
<1>2. IsFiniteSet(Busy)
  BY FS_Subset, PoolAssumption DEF Busy
<1> QED
  BY <1>1, <1>2, FS_RemoveElement

(* The other steps of a worker leave the set of busy workers as it is.     *)
LEMMA BusyStays ==
  ASSUME NEW w \in Workers, TypeOK,
         Step(w, "replay", "count") \/ Step(w, "select", "gone")
  PROVE  Busy' = Busy
BY DEF Busy, Step, TypeOK

(* The set of busy workers has a size.                                     *)
LEMMA BusyNat == Cardinality(Busy) \in Nat /\ Cardinality(Workers) \in Nat
<1>1. IsFiniteSet(Busy)
  BY FS_Subset, PoolAssumption DEF Busy
<1> QED
  BY <1>1, FS_CardinalityType, PoolAssumption

-----------------------------------------------------------------------------
(* Types.                                                                  *)

LEMMA TypeStep == TypeOK /\ [Next]_vars => TypeOK'
<1> SUFFICES ASSUME TypeOK, [Next]_vars PROVE TypeOK'
  OBVIOUS
<1> USE BusyNat, PoolAssumption DEF TypeOK
<1>1. CASE CheckLimits
  BY <1>1 DEF CheckLimits, CloseChannel, poolVars, runVars, Capacity
<1>2. CASE CheckDeadline
  BY <1>2 DEF CheckDeadline, CloseChannel, poolVars, runVars, Capacity
<1>3. CASE Acquire
  <2>1. UNCHANGED <<closed, sent, late>> \/ CloseChannel
    BY <1>3 DEF Acquire
  <2>2. tokens' \in 0..Rps /\ gen' \in {"send", "done"}
    BY <1>3 DEF Acquire, CloseChannel
  <2> QED
    BY <1>3, <2>1, <2>2 DEF Acquire, CloseChannel, poolVars, runVars, Capacity
<1>4. CASE Send
  <2>1. sent' \in Nat /\ received' \in 0..sent' /\ sent' - received' <= Capacity
    BY <1>4 DEF Send, CloseChannel, poolVars, Capacity
  <2>2. closed' \in BOOLEAN /\ gen' \in {"check", "done"}
    BY <1>4 DEF Send, CloseChannel
  <2>3. late' = late \/ late' = late + 1
    BY <1>4 DEF Send, CloseChannel
  <2> QED
    BY <1>4, <2>1, <2>2, <2>3 DEF Send, CloseChannel, poolVars, runVars, Capacity
<1>5. ASSUME NEW w \in Workers, WorkerStep(w) PROVE TypeOK'
  <2>1. CASE Receive(w)
    BY <2>1 DEF Receive, Step, genVars, runVars, Capacity
  <2>2. CASE Leave(w)
    BY <2>2 DEF Leave, Step, genVars, runVars, Capacity
  <2>3. CASE Replay(w)
    BY <2>3 DEF Replay, Step, genVars, runVars, Capacity
  <2>4. CASE Count(w)
    BY <2>4 DEF Count, Step, genVars, runVars, Capacity
  <2> QED
    BY <1>5, <2>1, <2>2, <2>3, <2>4 DEF WorkerStep
<1>6. CASE Refill
  BY <1>6 DEF Refill, poolVars, runVars, Capacity
<1>7. CASE TimerFires
  BY <1>7 DEF TimerFires, genVars, poolVars, Capacity
<1>8. CASE Cancel
  BY <1>8 DEF Cancel, genVars, poolVars, Capacity
<1>9. CASE Finish
  BY <1>9 DEF Finish, genVars, poolVars, Capacity
<1>10. CASE UNCHANGED vars
  BY <1>10 DEF vars, genVars, poolVars, runVars, Capacity
<1> QED
  BY <1>1, <1>2, <1>3, <1>4, <1>5, <1>6, <1>7, <1>8, <1>9, <1>10
  DEF Next, GenStep, Ended

(* TypeOK holds for any number of workers, any rate and any limits: the    *)
(* channel never holds more than two tasks per worker, the bucket never    *)
(* more than limits.rps tokens.                                            *)
THEOREM TypeCorrect == Spec => []TypeOK
<1>1. Init => TypeOK
  <2> SUFFICES ASSUME Init PROVE TypeOK
    OBVIOUS
  <2>1. received \in 0..sent /\ sent - received <= Capacity /\ tokens \in 0..Rps
    BY BusyNat, PoolAssumption DEF Init, Capacity
  <2> QED
    BY <2>1, PoolAssumption DEF Init, TypeOK
<1> QED
  BY <1>1, TypeStep, PTL DEF Spec

-----------------------------------------------------------------------------
(* Counting.                                                               *)

(* Tasks taken are counted, lost or in a worker's hands; a stop only makes *)
(* some of them disappear.                                                 *)
Accounted ==
  /\ testsDone + lost + Cardinality(Busy) <= received
  /\ ~cancelled => testsDone + lost + Cardinality(Busy) = received

(* The generator is inside its loop only below the limit, so that Send     *)
(* cannot pass it.                                                         *)
BelowLimit ==
  /\ maxTests > 0 => sent <= maxTests
  /\ maxTests > 0 /\ gen \in {"deadline", "acquire", "send"} => sent < maxTests

(* Why a run that nobody stopped is where it is.                           *)
Unstopped ==
  /\ closed <=> gen = "done"
  /\ gen = "done" /\ ~cancelled => sent = maxTests \/ timer = "fired"
  /\ \A w \in Workers : worker[w] = "gone" /\ ~cancelled => closed /\ received = sent

(* After a cancellation the generator passes the head of its loop no more. *)
Late ==
  /\ ~cancelled => late = 0
  /\ late <= 1
  /\ late = 1 => gen \in {"check", "done"}

(* FinishedIsComplete survives a cancellation after the end only because   *)
(* nothing moves any more.                                                 *)
Quiet == final # "none" => gen = "done" /\ \A w \in Workers : worker[w] = "gone"

PoolInv == Accounted /\ BelowLimit /\ Unstopped /\ Late /\ Quiet /\ FinishedIsComplete

LEMMA InitPoolInv == Init => PoolInv
<1> SUFFICES ASSUME Init PROVE PoolInv
  OBVIOUS
<1>1. Busy = {}
  BY DEF Init, Busy
<1>2. Cardinality(Busy) = 0
  BY <1>1, FS_EmptySet
<1> QED
  BY <1>2, PoolAssumption
  DEF Init, PoolInv, Accounted, BelowLimit, Unstopped, Late, Quiet, FinishedIsComplete

(* Steps of the generator.                                                 *)
LEMMA GenStepInv == TypeOK /\ PoolInv /\ GenStep => PoolInv'
<1> SUFFICES ASSUME TypeOK, PoolInv, GenStep PROVE PoolInv'
  OBVIOUS
<1> USE PoolAssumption DEF poolVars, runVars
<1>1. UNCHANGED <<poolVars, runVars>> /\ Busy' = Busy
  BY DEF GenStep, CheckLimits, CheckDeadline, Acquire, Send, Busy
<1>2. Accounted'
  BY <1>1 DEF PoolInv, Accounted
<1>3. BelowLimit'
  BY <1>1 DEF GenStep, CheckLimits, LimitReached, CheckDeadline, Acquire, Send,
              CloseChannel, PoolInv, BelowLimit, TypeOK
<1>4. Unstopped'
  <2>1. CASE CheckLimits
    BY <2>1 DEF CheckLimits, LimitReached, CloseChannel, PoolInv, Unstopped,
                BelowLimit, TypeOK
  <2>2. CASE CheckDeadline
    BY <2>2 DEF CheckDeadline, CloseChannel, PoolInv, Unstopped, TypeOK
  <2>3. CASE Acquire
    BY <2>3 DEF Acquire, CloseChannel, PoolInv, Unstopped, TypeOK
  <2>4. CASE Send
    BY <2>4 DEF Send, CloseChannel, PoolInv, Unstopped, TypeOK
  <2> QED
    BY <2>1, <2>2, <2>3, <2>4 DEF GenStep
<1>5. Late'
  BY <1>1 DEF GenStep, CheckLimits, CheckDeadline, Acquire, Send,
              CloseChannel, PoolInv, Late, TypeOK
<1>6. final = "none"
  BY DEF GenStep, CheckLimits, CheckDeadline, Acquire, Send, PoolInv, Quiet
<1> QED
  BY <1>1, <1>2, <1>3, <1>4, <1>5, <1>6 DEF PoolInv, Quiet, FinishedIsComplete

(* Steps of a worker.                                                      *)
LEMMA WorkerStepInv ==
  ASSUME NEW w \in Workers, TypeOK, PoolInv, WorkerStep(w)
  PROVE  PoolInv'
<1> USE BusyNat DEF genVars, runVars
<1>1. UNCHANGED <<genVars, runVars>>
  BY DEF WorkerStep, Receive, Leave, Replay, Count
<1>2. final = "none"
  BY DEF WorkerStep, Receive, Leave, Replay, Count, Step, PoolInv, Quiet
<1>3. Accounted'
  <2>1. CASE Receive(w)
    BY <2>1, BusyGrows DEF Receive, PoolInv, Accounted, TypeOK
  <2>2. CASE Leave(w)
    BY <2>2, BusyStays DEF Leave, PoolInv, Accounted, TypeOK
  <2>3. CASE Replay(w)
    BY <2>3, BusyStays, BusyShrinks DEF Replay, PoolInv, Accounted, TypeOK
  <2>4. CASE Count(w)
    BY <2>4, BusyShrinks DEF Count, PoolInv, Accounted, TypeOK
  <2> QED
    BY <2>1, <2>2, <2>3, <2>4 DEF WorkerStep
<1>4. Unstopped'
  <2>1. CASE Receive(w)
    BY <2>1 DEF Receive, Step, PoolInv, Unstopped, TypeOK
  <2>2. CASE Leave(w)
    BY <2>2 DEF Leave, Step, PoolInv, Unstopped, TypeOK
  <2>3. CASE Replay(w)
    BY <2>3 DEF Replay, Step, PoolInv, Unstopped, TypeOK
  <2>4. CASE Count(w)
    BY <2>4 DEF Count, Step, PoolInv, Unstopped, TypeOK
  <2> QED
    BY <2>1, <2>2, <2>3, <2>4 DEF WorkerStep
<1>5. BelowLimit' /\ Late'
  BY <1>1 DEF PoolInv, BelowLimit, Late
<1> QED
  BY <1>1, <1>2, <1>3, <1>4, <1>5 DEF PoolInv, Quiet, FinishedIsComplete

(* A run ends with every worker gone, so nobody is busy.                   *)
LEMMA FinishInv == TypeOK /\ PoolInv /\ Finish => PoolInv'
<1> SUFFICES ASSUME TypeOK, PoolInv, Finish PROVE PoolInv'
  OBVIOUS
<1>1. UNCHANGED <<genVars, poolVars, maxTests, timer, cancelled>> /\ Busy' = Busy
  BY DEF Finish, Busy, poolVars
<1>2. Accounted' /\ BelowLimit' /\ Unstopped' /\ Late' /\ Quiet'
  BY <1>1 DEF Finish, PoolInv, Accounted, BelowLimit, Unstopped, Late, Quiet,
              genVars, poolVars
<1>3. ASSUME ~cancelled
      PROVE  (sent = maxTests \/ timer = "fired") /\ received = sent /\ testsDone + lost = sent
  <2>1. Busy = {}
    BY DEF Finish, Busy
  <2>2. Cardinality(Busy) = 0
    BY <2>1, FS_EmptySet
  <2>3. PICK w \in Workers : TRUE
    BY PoolAssumption
  <2> QED
    BY <1>3, <2>2, <2>3 DEF Finish, PoolInv, Accounted, Unstopped, TypeOK
<1>4. FinishedIsComplete'
  BY <1>1, <1>3 DEF Finish, FinishedIsComplete, genVars, poolVars
<1> QED
  BY <1>2, <1>4 DEF PoolInv

LEMMA PoolStep == TypeOK /\ PoolInv /\ [Next]_vars => PoolInv'
<1> SUFFICES ASSUME TypeOK, PoolInv, [Next]_vars PROVE PoolInv'
  OBVIOUS
<1> USE DEF PoolInv, Accounted, BelowLimit, Unstopped, Late, Quiet, FinishedIsComplete,
            Busy, genVars, poolVars, runVars
<1>1. CASE Refill
  BY <1>1 DEF Refill
<1>2. CASE TimerFires
  BY <1>2 DEF TimerFires
<1>3. CASE Cancel
  BY <1>3 DEF Cancel
<1>4. CASE UNCHANGED vars
  BY <1>4 DEF vars
<1> QED
  BY <1>1, <1>2, <1>3, <1>4, GenStepInv, WorkerStepInv, FinishInv DEF Next, Ended

(* PoolInv is inductive together with the types.                           *)
LEMMA PoolInvariant == Spec => []PoolInv
BY InitPoolInv, PoolStep, TypeCorrect, PTL DEF Spec

(* TestsWithinLimit: tests_done and the tasks in the workers' hands stay   *)
(* within the tasks handed out, and these within limits.max_tests.         *)
THEOREM TestsWithinLimitHolds == Spec => []TestsWithinLimit
<1>1. PoolInv => TestsWithinLimit
  BY DEF PoolInv, Accounted, BelowLimit, TestsWithinLimit
<1> QED
  BY <1>1, PoolInvariant, PTL

(* FinishedIsComplete: a run that reports FINISHED has reached a limit and *)
(* has counted every task of the channel but for failed statements.        *)
THEOREM FinishedIsCompleteHolds == Spec => []FinishedIsComplete
<1>1. PoolInv => FinishedIsComplete
  BY DEF PoolInv
<1> QED
  BY <1>1, PoolInvariant, PTL

(* AtMostOneLate: a stop lets at most one more task into the channel.      *)
THEOREM AtMostOneLateHolds == Spec => []AtMostOneLate
<1>1. PoolInv => AtMostOneLate
  BY DEF PoolInv, Late, AtMostOneLate
<1> QED
  BY <1>1, PoolInvariant, PTL
=============================================================================
