------------------------------ MODULE TaskPool ------------------------------
(***************************************************************************)
(* The loop of a run, Engine.runCampaign: one generator goroutine hands    *)
(* tasks over a buffered channel to the workers, limited by max_tests, a   *)
(* timer, a token bucket and the campaign's context.  CampaignLifecycle    *)
(* takes this loop as one step, RunEnd; what a worker does with a hit is   *)
(* FindingPipeline.  Which seed or endpoint a task names is left out.      *)
(***************************************************************************)
EXTENDS Naturals, FiniteSets

CONSTANTS
  Workers,     \* limits.workers of them (4 if it is not positive)
  Rps,         \* limits.rps, the size of the bucket; 0 is no limiter
  TestLimits,  \* the values limits.max_tests may have; 0 is no limit
  MaxSent,     \* bound: tasks of a run without max_tests
  MaxLost      \* bound: statements that fail while the context is alive

ASSUME PoolAssumption ==
  /\ IsFiniteSet(Workers)
  /\ Workers # {}
  /\ Rps \in Nat
  /\ TestLimits \subseteq Nat
  /\ MaxSent \in Nat
  /\ MaxLost \in Nat

VARIABLES
  maxTests,   \* limits.max_tests of this run
  timer,      \* "none" without duration_sec, else "armed" or "fired"
  tokens,     \* in the limiter's bucket
  gen,        \* the next step of the generator
  closed,     \* taskCh is closed
  sent,       \* testsGenerated: tasks put into the channel
  received,   \* tasks taken out of it; received+1..sent are buffered
  worker,     \* worker[w]: the next step of worker w
  testsDone,  \* campaigns.tests_done, the share of this run
  lost,       \* history: IncrementStats failed for a run not cancelled
  late,       \* history: tasks put into the channel after the cancellation
  cancelled,  \* the campaign's context
  final       \* finalStatus, "none" until wg.Wait returns

genVars == <<gen, closed, sent, tokens, late>>
poolVars == <<worker, received, testsDone, lost>>
runVars == <<maxTests, timer, cancelled, final>>
vars == <<genVars, poolVars, runVars>>

Capacity == 2 * Cardinality(Workers)
Busy == {w \in Workers : worker[w] \in {"replay", "count"}}

\* validateCampaignConfig asks for at least one of the two limits.
Init ==
  /\ maxTests \in TestLimits
  /\ timer \in {"none", "armed"}
  /\ maxTests > 0 \/ timer = "armed"
  /\ tokens = Rps
  /\ gen = "check"
  /\ closed = FALSE
  /\ sent = 0
  /\ received = 0
  /\ worker = [w \in Workers |-> "select"]
  /\ testsDone = 0
  /\ lost = 0
  /\ late = 0
  /\ cancelled = FALSE
  /\ final = "none"

-----------------------------------------------------------------------------
(* The generator.                                                          *)

\* Mutant: the channel stays open.
CloseChannel_Forgotten ==
  /\ gen' = "done"
  /\ UNCHANGED <<closed, sent, tokens, late>>

\* return: the deferred close(taskCh).
CloseChannel ==
  /\ gen' = "done"
  /\ closed' = TRUE
  /\ UNCHANGED <<sent, tokens, late>>

\* Mutant: testsGenerated > maxTests.
LimitReached_OffByOne == maxTests > 0 /\ sent > maxTests

LimitReached == maxTests > 0 /\ sent >= maxTests

\* Mutant: the loop asks for the deadline only.
CheckLimits_NoContext ==
  /\ gen = "check"
  /\ \/ LimitReached /\ CloseChannel
     \/ /\ ~LimitReached
        /\ maxTests > 0 \/ sent < MaxSent \/ timer = "fired"
        /\ gen' = "deadline"
        /\ UNCHANGED <<closed, sent, tokens, late>>
  /\ UNCHANGED <<poolVars, runVars>>

\* max_tests, then ctx.Done.  MaxSent: without max_tests the timer has fired by then.
CheckLimits ==
  /\ gen = "check"
  /\ \/ /\ LimitReached \/ cancelled
        /\ CloseChannel
     \/ /\ ~LimitReached
        /\ ~cancelled
        /\ maxTests > 0 \/ sent < MaxSent \/ timer = "fired"
        /\ gen' = "deadline"
        /\ UNCHANGED <<closed, sent, tokens, late>>
  /\ UNCHANGED <<poolVars, runVars>>

CheckDeadline ==
  /\ gen = "deadline"
  /\ \/ /\ timer = "fired"
        /\ CloseChannel
     \/ /\ timer # "fired"
        /\ gen' = "acquire"
        /\ UNCHANGED <<closed, sent, tokens, late>>
  /\ UNCHANGED <<poolVars, runVars>>

\* Limiter.Acquire: with a token and a cancelled context either case is taken.
Acquire ==
  /\ gen = "acquire"
  /\ \/ /\ Rps = 0 \/ tokens > 0
        /\ gen' = "send"
        /\ tokens' = IF Rps = 0 THEN tokens ELSE tokens - 1
        /\ UNCHANGED <<closed, sent, late>>
     \/ /\ Rps > 0
        /\ cancelled
        /\ CloseChannel
  /\ UNCHANGED <<poolVars, runVars>>

\* Mutant: a plain send.
Send_NoContext ==
  /\ gen = "send"
  /\ sent - received < Capacity
  /\ sent' = sent + 1
  /\ late' = IF cancelled THEN late + 1 ELSE late
  /\ gen' = "check"
  /\ UNCHANGED <<closed, tokens, poolVars, runVars>>

\* The select on taskCh and ctx.Done.
Send ==
  /\ gen = "send"
  /\ \/ /\ sent - received < Capacity
        /\ sent' = sent + 1
        /\ late' = IF cancelled THEN late + 1 ELSE late
        /\ gen' = "check"
        /\ UNCHANGED <<closed, tokens>>
     \/ cancelled /\ CloseChannel
  /\ UNCHANGED <<poolVars, runVars>>

-----------------------------------------------------------------------------
(* The workers.                                                            *)

Step(w, from, to) ==
  /\ worker[w] = from
  /\ worker' = [worker EXCEPT ![w] = to]

\* Mutant: the ok of the receive is ignored, a closed channel yields empty tasks.
Receive_NotOk(w) ==
  /\ Step(w, "select", "replay")
  /\ received < sent \/ closed
  /\ received' = received + 1
  /\ UNCHANGED <<testsDone, lost, genVars, runVars>>

\* A worker may take a task although the context is over: select is random.
Receive(w) ==
  /\ Step(w, "select", "replay")
  /\ received < sent
  /\ received' = received + 1
  /\ UNCHANGED <<testsDone, lost, genVars, runVars>>

\* Mutant: a closed channel is left with its buffer.
Leave_Buffered(w) ==
  /\ Step(w, "select", "gone")
  /\ cancelled \/ closed
  /\ UNCHANGED <<received, testsDone, lost, genVars, runVars>>

\* ctx.Done, or a receive from the channel that is closed and empty.
Leave(w) ==
  /\ Step(w, "select", "gone")
  /\ cancelled \/ (closed /\ received = sent)
  /\ UNCHANGED <<received, testsDone, lost, genVars, runVars>>

\* ReplaySession gives up between two exchanges of a cancelled run only; a
\* request that fails ends the session without an error, and its hits follow.
Replay(w) ==
  /\ \/ Step(w, "replay", "count")
     \/ cancelled /\ Step(w, "replay", "select")
  /\ UNCHANGED <<received, testsDone, lost, genVars, runVars>>

\* IncrementStats on the run's context; its error is only logged.
Count(w) ==
  /\ Step(w, "count", "select")
  /\ \/ ~cancelled /\ testsDone' = testsDone + 1 /\ UNCHANGED lost
     \/ ~cancelled /\ lost < MaxLost /\ lost' = lost + 1 /\ UNCHANGED testsDone
     \/ cancelled /\ UNCHANGED <<testsDone, lost>>
  /\ UNCHANGED <<received, genVars, runVars>>

-----------------------------------------------------------------------------
(* Limiter, timer, stop, the end of the run.                               *)

\* The ticker's goroutine drops a token that does not fit; Close is deferred.
Refill ==
  /\ final = "none"
  /\ tokens < Rps
  /\ tokens' = tokens + 1
  /\ UNCHANGED <<gen, closed, sent, late, poolVars, runVars>>

TimerFires ==
  /\ timer = "armed"
  /\ timer' = "fired"
  /\ UNCHANGED <<genVars, poolVars, maxTests, cancelled, final>>

\* StopCampaign, StopAll or a start that fails call the cancel function.
Cancel ==
  /\ ~cancelled
  /\ cancelled' = TRUE
  /\ UNCHANGED <<genVars, poolVars, maxTests, timer, final>>

\* wg.Wait returns, and the status is taken from ctx.Err().
Finish ==
  /\ final = "none"
  /\ gen = "done"
  /\ \A w \in Workers : worker[w] = "gone"
  /\ final' = IF cancelled THEN "STOPPED" ELSE "FINISHED"
  /\ UNCHANGED <<genVars, poolVars, maxTests, timer, cancelled>>

Ended == final # "none" /\ UNCHANGED vars

GenStep == CheckLimits \/ CheckDeadline \/ Acquire \/ Send
WorkerStep(w) == Receive(w) \/ Leave(w) \/ Replay(w) \/ Count(w)

Next ==
  \/ GenStep
  \/ \E w \in Workers : WorkerStep(w)
  \/ Refill \/ TimerFires \/ Cancel \/ Finish \/ Ended

\* Goroutines run and the ticker ticks; a replay ends since every request has
\* req_timeout_ms.  Neither a stop nor the timer is promised.
Fairness ==
  /\ WF_vars(GenStep)
  /\ \A w \in Workers : WF_vars(WorkerStep(w))
  /\ WF_vars(Refill)
  /\ WF_vars(Finish)

Spec == Init /\ [][Next]_vars
FairSpec == Spec /\ Fairness

-----------------------------------------------------------------------------
(* Properties.                                                             *)

\* Types, and the channel within its capacity.
TypeOK ==
  /\ maxTests \in TestLimits
  /\ timer \in {"none", "armed", "fired"}
  /\ tokens \in 0..Rps
  /\ gen \in {"check", "deadline", "acquire", "send", "done"}
  /\ closed \in BOOLEAN
  /\ sent \in Nat
  /\ received \in 0..sent
  /\ sent - received <= Capacity
  /\ worker \in [Workers -> {"select", "replay", "count", "gone"}]
  /\ testsDone \in Nat
  /\ lost \in Nat
  /\ late \in Nat
  /\ cancelled \in BOOLEAN
  /\ final \in {"none", "FINISHED", "STOPPED"}

\* tests_done never runs ahead: with the tasks still in the workers' hands it
\* stays within the tasks handed out, and these within max_tests.
TestsWithinLimit ==
  /\ testsDone + lost + Cardinality(Busy) <= received
  /\ maxTests > 0 => sent <= maxTests

\* A run that reports FINISHED has used up max_tests or its time, has processed
\* every task it put into the channel, and counted each but for failed statements.
FinishedIsComplete ==
  final = "FINISHED" =>
    /\ sent = maxTests \/ timer = "fired"
    /\ received = sent
    /\ testsDone + lost = sent

\* A stop lets at most one more task into the channel, although the selects of the
\* generator may prefer the token and the send to ctx.Done for ever.
AtMostOneLate == late <= 1

\* A stopped run ends: nobody waits for a worker, a token or room in the channel
\* that will not come.  CampaignLifecycle's fairness of RunEnd rests on this.
StopEnds == cancelled ~> final # "none"

\* So does a run with a limit of tests, or whose time is up.
LimitsEnd == (maxTests > 0 \/ timer = "fired") ~> final # "none"
=============================================================================
