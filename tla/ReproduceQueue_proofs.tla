------------------------ MODULE ReproduceQueue_proofs ------------------------
(***************************************************************************)
(* Theorems about ReproduceQueue for every set of findings and of requests *)
(* and any number of replays.                                              *)
(***************************************************************************)
EXTENDS ReproduceQueue, TLAPS

\* The worker has a job exactly while it works on one, no process has no worker,
\* and a request that is about to enqueue names a finding.
JobOK ==
  /\ job # NoFinding <=> worker \in {"load", "replay", "fail"}
  /\ proc = "down" => worker = "stopped"
  /\ \A r \in Reqs : pc[r] = "enqueue" => target[r] \in Findings

\* What shows RUNNING is being worked on, or nobody will come back to it.
RunningHeld == \A f \in Findings : rs[f] = "RUNNING" => f = job \/ f \in abandoned

IInv == TypeOK /\ JobOK /\ NoEarlyVerdict /\ RunningHeld

USE ReproduceAssumption DEF ReproduceAssumption

\* Initially nothing waits and the worker has no job.
LEMMA InitIInv == Init => IInv
<1> SUFFICES ASSUME Init PROVE IInv
  OBVIOUS
<1>1. rs \in [Findings -> Statuses] /\ older \in SUBSET (Waiting \X Waiting)
  BY DEF Init, Statuses
<1>2. left \in 0..MaxRuns
  BY DEF Init
<1>3. TypeOK
  BY <1>1, <1>2 DEF Init, TypeOK
<1>4. JobOK /\ NoEarlyVerdict /\ RunningHeld
  BY DEF Init, JobOK, NoEarlyVerdict, RunningHeld
<1> QED BY <1>3, <1>4 DEF IInv

\* A finding that leaves the queue leaves its order, and the others stay in it.
LEMMA LeaveOrder ==
  ASSUME TypeOK, NEW f \in Findings, NEW v \in Statuses,
         rs' = [rs EXCEPT ![f] = v], older' = OrderWithout(f)
  PROVE  rs' \in [Findings -> Statuses] /\ older' \in SUBSET (Waiting' \X Waiting')
<1>1. rs' \in [Findings -> Statuses]
  BY DEF TypeOK
<1>2. ASSUME NEW p \in older' PROVE p \in Waiting' \X Waiting'
  <2>1. p \in Waiting \X Waiting /\ p[1] # f /\ p[2] # f
    BY <1>2 DEF OrderWithout, TypeOK
  <2>2. \A g \in Waiting : g # f => g \in Waiting'
    BY DEF Waiting, TypeOK
  <2> QED BY <2>1, <2>2
<1> QED BY <1>1, <1>2

\* SetReproduceStatus with a verdict: the column and its order stay well typed.
LEMMA SetStatusTypes ==
  ASSUME IInv, NEW f \in Findings, NEW v \in Verdicts, SetReproduceStatus(f, v)
  PROVE  rs' \in [Findings -> Statuses] /\ older' \in SUBSET (Waiting' \X Waiting')
<1>1. CASE rs' = [rs EXCEPT ![f] = v] /\ older' = OrderWithout(f)
  BY <1>1, LeaveOrder DEF IInv, Statuses
<1>2. CASE UNCHANGED <<rs, older>>
  BY <1>2 DEF IInv, TypeOK, Waiting
<1> QED BY <1>1, <1>2 DEF SetReproduceStatus

\* Every step of handlers, worker and process preserves the invariant.
LEMMA NextIInv == IInv /\ [Next]_vars => IInv'
<1> SUFFICES ASSUME IInv, [Next]_vars PROVE IInv'
  OBVIOUS
<1> USE DEF IInv
<1>1. ASSUME NEW r \in Reqs, NEW f \in Findings, ReadFinding(r, f) PROVE IInv'
  BY <1>1 DEF ReadFinding, TypeOK, JobOK, NoEarlyVerdict, RunningHeld, Waiting, workerVars, queueVars
<1>2. ASSUME NEW r \in Reqs, Enqueue(r) PROVE IInv'
  <2> DEFINE f == target[r]
  <2>1. f \in Findings /\ pc[r] = "enqueue"
    BY <1>2 DEF Enqueue, JobOK
  <2>2. rs' = [rs EXCEPT ![f] = "ENQUEUED"] /\ f \in Waiting'
    BY <1>2, <2>1 DEF Enqueue, Waiting, TypeOK
  <2>3. \A g \in Waiting : g \in Waiting'
    BY <2>2, <2>1 DEF Waiting, TypeOK
  <2>4. older' = OrderWithout(f) \cup {<<g, f>> : g \in Waiting \ {f}}
    BY <1>2 DEF Enqueue
  <2>5. older' \in SUBSET (Waiting' \X Waiting')
    BY <2>2, <2>3, <2>4 DEF OrderWithout, TypeOK
  <2>6. TypeOK'
    BY <1>2, <2>2, <2>5, <2>1 DEF Enqueue, TypeOK, workerVars, Statuses
  <2>7. JobOK'
    BY <1>2 DEF Enqueue, JobOK, TypeOK, workerVars
  <2>8. NoEarlyVerdict'
    BY <1>2, <2>1, <2>2 DEF Enqueue, NoEarlyVerdict, TypeOK, workerVars
  <2>9. RunningHeld'
    BY <1>2, <2>1, <2>2 DEF Enqueue, RunningHeld, TypeOK, workerVars
  <2> QED BY <2>6, <2>7, <2>8, <2>9
<1>3. ASSUME NEW r \in Reqs, EnqueueFails(r) PROVE IInv'
  BY <1>3 DEF EnqueueFails, TypeOK, JobOK, NoEarlyVerdict, RunningHeld, Waiting, workerVars, queueVars
<1>4. CASE ClaimJob
  <2>1. PICK f \in Findings :
          /\ Oldest(f)
          /\ rs' = [rs EXCEPT ![f] = "RUNNING"]
          /\ older' = OrderWithout(f)
          /\ \/ /\ worker' = "load" /\ job' = f /\ left' \in 1..MaxRuns
                /\ abandoned' = abandoned \ {f}
             \/ /\ UNCHANGED workerVars
                /\ abandoned' = abandoned \cup {f}
    BY <1>4 DEF ClaimJob
  <2>2. rs' \in [Findings -> Statuses] /\ older' \in SUBSET (Waiting' \X Waiting')
    BY <2>1, LeaveOrder DEF Statuses
  <2>3. worker = "wait" /\ UNCHANGED <<pc, target, cancelled, proc>>
    BY <1>4 DEF ClaimJob, reqVars
  <2>4. job = NoFinding
    BY <2>3 DEF JobOK
  <2>5. 1..MaxRuns \subseteq 0..MaxRuns
    OBVIOUS
  <2>6. TypeOK'
    BY <2>1, <2>2, <2>3, <2>5 DEF TypeOK, workerVars
  <2>7. JobOK' /\ NoEarlyVerdict'
    BY <2>1, <2>3, <2>4 DEF JobOK, NoEarlyVerdict, TypeOK, workerVars
  <2>8. RunningHeld'
    BY <2>1, <2>3, <2>4 DEF RunningHeld, TypeOK, workerVars
  <2> QED BY <2>6, <2>7, <2>8
<1>5. CASE LoadArtifact
  BY <1>5 DEF LoadArtifact, TypeOK, JobOK, NoEarlyVerdict, RunningHeld, Waiting, reqVars, queueVars
<1>6. CASE ReplayOnce
  <2>1. left' \in 0..MaxRuns
    BY <1>6 DEF ReplayOnce, TypeOK
  <2> QED BY <1>6, <2>1 DEF ReplayOnce, TypeOK, JobOK, NoEarlyVerdict, RunningHeld, Waiting, reqVars, queueVars
<1>7. CASE WriteVerdict
  <2>1. job \in Findings
    BY <1>7 DEF WriteVerdict, JobOK, TypeOK
  <2>2. rs' \in [Findings -> Statuses] /\ older' \in SUBSET (Waiting' \X Waiting')
    BY <1>7, <2>1, SetStatusTypes DEF WriteVerdict, Verdicts
  <2> QED BY <1>7, <2>1, <2>2 DEF WriteVerdict, SetReproduceStatus, Verdicts, TypeOK, JobOK, NoEarlyVerdict, RunningHeld, reqVars
<1>8. CASE FailJob
  <2>1. job \in Findings
    BY <1>8 DEF FailJob, JobOK, TypeOK
  <2>2. rs' \in [Findings -> Statuses] /\ older' \in SUBSET (Waiting' \X Waiting')
    BY <1>8, <2>1, SetStatusTypes DEF FailJob, Verdicts
  <2> QED BY <1>8, <2>1, <2>2 DEF FailJob, SetReproduceStatus, TypeOK, JobOK, NoEarlyVerdict, RunningHeld, reqVars
<1>9. CASE StopWorker
  BY <1>9 DEF StopWorker, TypeOK, JobOK, NoEarlyVerdict, RunningHeld, Waiting, reqVars, queueVars
<1>10. CASE ShutdownSignal
  BY <1>10 DEF ShutdownSignal, TypeOK, JobOK, NoEarlyVerdict, RunningHeld, Waiting, reqVars, workerVars, queueVars
<1>11. CASE Exit \/ Crash
  BY <1>11 DEF Exit, Crash, ProcessGone, TypeOK, JobOK, NoEarlyVerdict, RunningHeld, Waiting, queueVars
<1>12. CASE Restart
  BY <1>12 DEF Restart, TypeOK, JobOK, NoEarlyVerdict, RunningHeld, Waiting, reqVars, queueVars
<1>13. CASE UNCHANGED vars
  BY <1>13 DEF vars, TypeOK, JobOK, NoEarlyVerdict, RunningHeld, Waiting, queueVars
<1> QED
  BY <1>1, <1>2, <1>3, <1>4, <1>5, <1>6, <1>7, <1>8, <1>9, <1>10, <1>11, <1>12, <1>13
     DEF Next, WorkerStep

\* The invariant holds in every reachable state.
THEOREM Invariant == Spec => []IInv
  BY InitIInv, NextIInv, PTL DEF Spec

\* Every reachable state of the reproduction queue is well typed: only waiting
\* findings are ordered, and no more replays are left than were asked for.
THEOREM QueueTypeCorrect == Spec => []TypeOK
<1>1. IInv => TypeOK
  BY DEF IInv
<1> QED BY <1>1, Invariant, PTL

\* A finding that is being replayed shows RUNNING or ENQUEUED, however requests,
\* failing updates, shutdowns and crashes interleave with the worker.
THEOREM NoEarlyVerdictHolds == Spec => []NoEarlyVerdict
<1>1. IInv => NoEarlyVerdict
  BY DEF IInv
<1> QED BY <1>1, Invariant, PTL

\* A finding that shows RUNNING is the one the worker has in hand, or its last claim has
\* ended without a status (a lost reply, a failed or late update, a crash): none is
\* forgotten by a path of processJob.
THEOREM RunningHeldHolds == Spec => []RunningHeld
<1>1. IInv => RunningHeld
  BY DEF IInv
<1> QED BY <1>1, Invariant, PTL
=============================================================================
