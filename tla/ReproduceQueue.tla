--------------------------- MODULE ReproduceQueue ---------------------------
(***************************************************************************)
(* Reproduction jobs: POST /findings/{id}/reproduce puts a finding into a  *)
(* queue kept in the columns reproduce_status and reproduce_enqueued_at,   *)
(* one ReproduceWorker goroutine takes jobs from it, replays the artifact  *)
(* and writes the verdict into the same column.  Shutdown cancels the      *)
(* worker's context and waits for it; a crash leaves the columns behind.   *)
(***************************************************************************)
EXTENDS Naturals

CONSTANTS
  Findings,
  Reqs,       \* handlers of POST /findings/{id}/reproduce, reused for ever
  MaxRuns,    \* replays of a job (the API admits 1..20)
  Faults,     \* {"lost"} if SetReproduceStatus may fail, {} if not
  NoFinding

ASSUME ReproduceAssumption ==
  /\ NoFinding \notin Findings
  /\ MaxRuns \in Nat \ {0}
  /\ Faults \subseteq {"lost"}

Verdicts == {"CONFIRMED", "NOT_REPRODUCED", "FAILED"}
Statuses == {"NONE", "ENQUEUED", "RUNNING"} \cup Verdicts

VARIABLES
  rs,         \* rs[f]: reproduce_status
  older,      \* <<g, f>>: both wait and g's reproduce_enqueued_at is the older
  pc,         \* pc[r]: "idle", or "enqueue" between GetByID and the update
  target,     \* target[r]: the finding request r read
  worker,     \* the next step of ReproduceWorker.Run
  job,        \* the finding processJob works on
  left,       \* replays still to do
  cancelled,  \* the worker's context
  proc,       \* the server process
  abandoned   \* history: findings whose last claim has ended without a status

queueVars == <<rs, older, abandoned>>
vars == <<queueVars, pc, target, worker, job, left, cancelled, proc>>
reqVars == <<pc, target>>
workerVars == <<worker, job, left>>

Init ==
  /\ rs = [f \in Findings |-> "NONE"]
  /\ older = {}
  /\ pc = [r \in Reqs |-> "idle"]
  /\ target = [r \in Reqs |-> NoFinding]
  /\ worker = "wait"
  /\ job = NoFinding
  /\ left = 0
  /\ cancelled = FALSE
  /\ proc = "up"
  /\ abandoned = {}

Waiting == {f \in Findings : rs[f] = "ENQUEUED"}
OrderWithout(f) == {p \in older : p[1] # f /\ p[2] # f}

-----------------------------------------------------------------------------
(* The handler reproduceFinding.                                           *)

\* GetByID; a finding that is ENQUEUED or RUNNING is refused with 409.
ReadFinding(r, f) ==
  /\ proc = "up"
  /\ pc[r] = "idle"
  /\ rs[f] \notin {"ENQUEUED", "RUNNING"}
  /\ pc' = [pc EXCEPT ![r] = "enqueue"]
  /\ target' = [target EXCEPT ![r] = f]
  /\ UNCHANGED <<queueVars, workerVars, cancelled, proc>>

\* UpdateReproduceStatus does not look at the status again.
Enqueue(r) ==
  /\ pc[r] = "enqueue"
  /\ LET f == target[r] IN
       /\ rs' = [rs EXCEPT ![f] = "ENQUEUED"]
       /\ older' = OrderWithout(f) \cup {<<g, f>> : g \in Waiting \ {f}}
  /\ pc' = [pc EXCEPT ![r] = "idle"]
  /\ UNCHANGED <<target, workerVars, cancelled, proc, abandoned>>

\* The update failed (500), or the client and its context are gone.
EnqueueFails(r) ==
  /\ pc[r] = "enqueue"
  /\ pc' = [pc EXCEPT ![r] = "idle"]
  /\ UNCHANGED <<queueVars, target, workerVars, cancelled, proc>>

-----------------------------------------------------------------------------
(* ReproduceWorker.                                                        *)

\* Mutant: ORDER BY reproduce_enqueued_at DESC.
Oldest_Newest(f) == f \in Waiting /\ ~\E g \in Findings : <<f, g>> \in older

Oldest(f) == f \in Waiting /\ ~\E g \in Findings : <<g, f>> \in older

\* ClaimNextReproduceJob, one statement.  The reply may be lost (the context was
\* cancelled meanwhile, the connection broke): then poll gives up on the job.
ClaimJob ==
  /\ worker = "wait"
  /\ ~cancelled
  /\ \E f \in Findings :
       /\ Oldest(f)
       /\ rs' = [rs EXCEPT ![f] = "RUNNING"]
       /\ older' = OrderWithout(f)
       /\ \/ /\ worker' = "load" /\ job' = f /\ left' \in 1..MaxRuns
             /\ abandoned' = abandoned \ {f}
          \/ /\ UNCHANGED workerVars
             /\ abandoned' = abandoned \cup {f}
  /\ UNCHANGED <<reqVars, cancelled, proc>>

\* The finding, its artifact row, the file and its JSON.
LoadArtifact ==
  /\ worker = "load"
  /\ worker' \in {"replay", "fail"}
  /\ UNCHANGED <<queueVars, reqVars, job, left, cancelled, proc>>

\* Mutant: one replay too many (i <= runs).
ReplayOnce_TooMany ==
  /\ worker = "replay"
  /\ \/ left >= 0 /\ cancelled /\ worker' = "fail" /\ UNCHANGED left
     \/ left >= 0 /\ ~cancelled /\ left' = left - 1 /\ UNCHANGED worker
  /\ UNCHANGED <<queueVars, reqVars, job, cancelled, proc>>

\* A replay counts whether it triggers the anomaly, does not, or fails.
ReplayOnce ==
  /\ worker = "replay"
  /\ left > 0
  /\ \/ cancelled /\ worker' = "fail" /\ UNCHANGED left
     \/ ~cancelled /\ left' = left - 1 /\ UNCHANGED worker
  /\ UNCHANGED <<queueVars, reqVars, job, cancelled, proc>>

\* SetReproduceStatus: unconditional, and without effect once the context is over or when
\* the statement fails, which is logged.
SetReproduceStatus(f, verdict) ==
  \/ /\ ~cancelled
     /\ rs' = [rs EXCEPT ![f] = verdict]
     /\ older' = OrderWithout(f)
     /\ abandoned' = abandoned \ {f}
  \/ /\ cancelled \/ "lost" \in Faults
     /\ abandoned' = abandoned \cup {f}
     /\ UNCHANGED <<rs, older>>

\* The verdict of the majority, from CONFIRMED down to none of the replays.
WriteVerdict ==
  /\ worker = "replay"
  /\ left = 0
  /\ \E v \in {"CONFIRMED", "NOT_REPRODUCED"} : SetReproduceStatus(job, v)
  /\ worker' = "wait"
  /\ job' = NoFinding
  /\ UNCHANGED <<reqVars, left, cancelled, proc>>

\* Mutant: the early return of an error path is missing, the replays go on.
FailJob_NoReturn ==
  /\ worker = "fail"
  /\ SetReproduceStatus(job, "FAILED")
  /\ worker' = "replay"
  /\ UNCHANGED <<reqVars, job, left, cancelled, proc>>

\* Mutant: an error path that returns without failJob.
FailJob_Forgets ==
  /\ worker = "fail"
  /\ worker' = "wait"
  /\ job' = NoFinding
  /\ left' = 0
  /\ UNCHANGED <<queueVars, reqVars, cancelled, proc>>

FailJob ==
  /\ worker = "fail"
  /\ SetReproduceStatus(job, "FAILED")
  /\ worker' = "wait"
  /\ job' = NoFinding
  /\ left' = 0
  /\ UNCHANGED <<reqVars, cancelled, proc>>

\* Mutant: the loop waits for the next tick only.
StopWorker_NoDone == FALSE

StopWorker ==
  /\ worker = "wait"
  /\ cancelled
  /\ worker' = "stopped"
  /\ UNCHANGED <<queueVars, reqVars, job, left, cancelled, proc>>

-----------------------------------------------------------------------------
(* Shutdown, crash, restart.                                               *)

\* SIGINT / SIGTERM or a server error: the context of the worker is derived from
\* the signal context, so it is over before the API has drained.
ShutdownSignal ==
  /\ proc = "up"
  /\ proc' = "draining"
  /\ cancelled' = TRUE
  /\ UNCHANGED <<queueVars, reqVars, workerVars>>

ProcessGone ==
  /\ proc' = "down"
  /\ worker' = "stopped"
  /\ job' = NoFinding
  /\ left' = 0
  /\ pc' = [r \in Reqs |-> "idle"]
  /\ abandoned' = abandoned \cup ({job} \ {NoFinding})
  /\ UNCHANGED <<rs, older, target, cancelled>>

\* StopAll waits for the worker (reproduceWG) before the process can end.
Exit ==
  /\ proc = "draining"
  /\ worker = "stopped"
  /\ ProcessGone

Crash == proc # "down" /\ ProcessGone

\* StartReproduceWorker in a new process; nothing resets reproduce_status.
Restart ==
  /\ proc = "down"
  /\ proc' = "up"
  /\ cancelled' = FALSE
  /\ worker' = "wait"
  /\ UNCHANGED <<queueVars, reqVars, job, left>>

-----------------------------------------------------------------------------
WorkerStep ==
  \/ ClaimJob \/ LoadArtifact \/ ReplayOnce \/ WriteVerdict \/ FailJob \/ StopWorker

Next ==
  \/ \E r \in Reqs : \/ \E f \in Findings : ReadFinding(r, f)
                     \/ Enqueue(r)
                     \/ EnqueueFails(r)
  \/ WorkerStep
  \/ ShutdownSignal \/ Exit \/ Crash \/ Restart

Spec == Init /\ [][Next]_vars

\* The goroutine is scheduled, its ticker fires and every replay ends (its client
\* has a timeout).  Nothing is assumed of clients, signals, crashes or restarts.
FairSpec == Spec /\ WF_vars(WorkerStep)
-----------------------------------------------------------------------------
(* Properties.                                                             *)

\* Every variable has its type, and only waiting findings are ordered.
TypeOK ==
  /\ rs \in [Findings -> Statuses]
  /\ older \in SUBSET (Waiting \X Waiting)
  /\ pc \in [Reqs -> {"idle", "enqueue"}]
  /\ target \in [Reqs -> Findings \cup {NoFinding}]
  /\ worker \in {"wait", "load", "replay", "fail", "stopped"}
  /\ job \in Findings \cup {NoFinding}
  /\ left \in 0..MaxRuns
  /\ cancelled \in BOOLEAN
  /\ proc \in {"up", "draining", "down"}
  /\ abandoned \subseteq Findings

\* A finding that is being replayed shows RUNNING, or ENQUEUED when another
\* request slipped in behind the 409 check: never a verdict of an earlier job or
\* one that is written before the job is over.
NoEarlyVerdict ==
  job # NoFinding => rs[job] \in {"RUNNING", "ENQUEUED"}

\* No starvation: however many other findings are enqueued and re-enqueued, a
\* waiting one is taken, or the worker is told to stop.
EnqueuedLeaves ==
  \A f \in Findings :
    rs[f] = "ENQUEUED" ~> (rs[f] # "ENQUEUED" \/ cancelled \/ proc = "down")

\* Every path of processJob ends with an attempt to write a status.  A finding
\* stays RUNNING for ever only if its last claim has ended without one: the reply
\* to the claim was lost, the update failed or came after the end of the worker's
\* context, or the process was gone first.
JobSettles ==
  \A f \in Findings :
    rs[f] = "RUNNING" ~> (rs[f] # "RUNNING" \/ f \in abandoned)

\* reproduceWG.Wait in StopAll, which no timeout bounds, does not hang.
ShutdownNotBlocked ==
  proc = "draining" ~> worker = "stopped"

\* api-engine.md: after 202 Accepted "ReproduceWorker picks up the job": an
\* enqueued finding leaves the queue by being claimed and in no other way.
AcceptedIsPickedUp ==
  [][\A f \in Findings :
       rs[f] = "ENQUEUED" /\ rs'[f] # "ENQUEUED" => rs'[f] = "RUNNING"]_vars

=============================================================================
