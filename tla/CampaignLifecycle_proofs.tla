----------------------- MODULE CampaignLifecycle_proofs -----------------------
(***************************************************************************)
(* Theorems about CampaignLifecycle for every number of campaigns and of   *)
(* start and stop requests.                                                *)
(***************************************************************************)
EXTENDS CampaignLifecycle, TLAPS

\* A request that was accepted names a campaign, and each kind of request stays
\* on its own labels.
RequestOK ==
  /\ \A r \in Requests : pc[r] # "idle" => camp[r] \in Campaigns
  /\ \A s \in Starts : pc[s] \in {"idle", "done"} \cup HandlerPC \cup RunPC
  /\ \A t \in Stops : pc[t] \in {"idle", "done"} \cup StopPC

\* Cancel functions that are about to be called exist.
HandleOK ==
  /\ \A t \in Stops : pc[t] \in {"stopRunning", "stopStarting", "cancel"} => handle[t] \in Starts
  /\ \A c \in marked : sweep[c] \in Starts
  /\ proc \notin {"sweeping", "expired"} => marked = {}

\* The pending argument of UpdateStatus is one the code can pass.
ArgOK ==
  \A s \in Starts :
    /\ pc[s] = "claim" => arg[s] \in Startable
    /\ pc[s] \in {"abort", "fail"} => arg[s] \in {"STARTING", "RUNNING"}
    /\ pc[s] \in {"finish", "finish2"} => arg[s] \in {"STOPPED", "FINISHED"}

\* Without a process nothing is under way.
DownOK ==
  proc = "down" => \A r \in Requests : pc[r] \in {"idle", "done"}

TypeInv == TypeOK /\ RequestOK /\ HandleOK /\ ArgOK /\ DownOK

-----------------------------------------------------------------------------
\* The initial state satisfies the typing part of the invariant.
LEMMA InitTypeInv == Init => TypeInv
  BY LifecycleAssumption
  DEF Init, TypeInv, TypeOK, RequestOK, HandleOK, ArgOK, DownOK, Requests, Status, ProcPhase

\* One UpdateStatus call: the status column keeps its type and changes at one
\* campaign only, from the expected status to the new one.
LEMMA UpdateStatusEffect ==
  ASSUME NEW c \in Campaigns, NEW old, NEW new \in Status, NEW res \in Results,
         status \in [Campaigns -> Status],
         UpdateStatus(c, old, new, res)
  PROVE  /\ status' \in [Campaigns -> Status]
         /\ \A d \in Campaigns : d # c => status'[d] = status[d]
         /\ status'[c] = status[c] \/ (status[c] = old /\ status'[c] = new)
         /\ res = "ok" => status[c] = old /\ status'[c] = new
         /\ res = "miss" => status[c] # old /\ status' = status
         /\ res = "err" /\ "applied" \notin Faults => status' = status
  BY DEF UpdateStatus, Results

\* Every step of the start handler preserves the typing part.
LEMMA StartStepTypeInv ==
  ASSUME TypeInv, NEW s \in Starts, StartStep(s)
  PROVE  TypeInv'
<1> USE LifecycleAssumption DEF Requests
<1>0. /\ s \in Requests
      /\ pc[s] # "idle" => camp[s] \in Campaigns
      /\ TypeOK /\ RequestOK /\ HandleOK /\ ArgOK /\ DownOK
  BY DEF TypeInv, RequestOK
<1>1. CASE StartClaim(s)
  <2>1. status' \in [Campaigns -> Status]
    BY <1>0, <1>1, UpdateStatusEffect DEF StartClaim, TypeOK, Status
  <2>2. QED
    BY <1>0, <1>1, <2>1
    DEF StartClaim, Goto, procVars, TypeInv, TypeOK, RequestOK, HandleOK, ArgOK, DownOK, HandlerPC, RunPC, StopPC
<1>2. CASE LoadSeeds(s)
  BY <1>0, <1>2
  DEF LoadSeeds, Goto, procVars, TypeInv, TypeOK, RequestOK, HandleOK, ArgOK, DownOK, HandlerPC, RunPC, StopPC, Status
<1>3. CASE Publish(s)
  BY <1>0, <1>3
  DEF Publish, Goto, procVars, TypeInv, TypeOK, RequestOK, HandleOK, ArgOK, DownOK, HandlerPC, RunPC, StopPC
<1>4. CASE ToRunning(s)
  <2>1. status' \in [Campaigns -> Status]
    BY <1>0, <1>4, UpdateStatusEffect DEF ToRunning, TypeOK, Status
  <2>2. QED
    BY <1>0, <1>4, <2>1
    DEF ToRunning, Goto, procVars, TypeInv, TypeOK, RequestOK, HandleOK, ArgOK, DownOK, HandlerPC, RunPC, StopPC, Status
<1>5. CASE BuildPlanner(s)
  BY <1>0, <1>5
  DEF BuildPlanner, Goto, procVars, TypeInv, TypeOK, RequestOK, HandleOK, ArgOK, DownOK, HandlerPC, RunPC, StopPC, Status
<1>6. CASE Abort(s)
  BY <1>0, <1>6
  DEF Abort, Goto, procVars, TypeInv, TypeOK, RequestOK, HandleOK, ArgOK, DownOK, HandlerPC, RunPC, StopPC
<1>7. CASE Fail(s)
  <2>1. status' \in [Campaigns -> Status]
    BY <1>0, <1>7, UpdateStatusEffect DEF Fail, TypeOK, Status
  <2>2. QED
    BY <1>0, <1>7, <2>1
    DEF Fail, Goto, procVars, TypeInv, TypeOK, RequestOK, HandleOK, ArgOK, DownOK, HandlerPC, RunPC, StopPC
<1>8. QED
  BY <1>1, <1>2, <1>3, <1>4, <1>5, <1>6, <1>7 DEF StartStep

\* Every step of runCampaign preserves the typing part.
LEMMA RunStepTypeInv ==
  ASSUME TypeInv, NEW s \in Starts, RunStep(s)
  PROVE  TypeInv'
<1> USE LifecycleAssumption DEF Requests
<1>0. /\ s \in Requests
      /\ pc[s] # "idle" => camp[s] \in Campaigns
      /\ TypeOK /\ RequestOK /\ HandleOK /\ ArgOK /\ DownOK
  BY DEF TypeInv, RequestOK
<1>1. CASE RunEnd(s)
  BY <1>0, <1>1
  DEF RunEnd, Goto, procVars, TypeInv, TypeOK, RequestOK, HandleOK, ArgOK, DownOK, HandlerPC, RunPC, StopPC, Status
<1>2. CASE FinishFromRunning(s)
  <2>1. status \in [Campaigns -> Status] /\ camp[s] \in Campaigns /\ arg[s] \in Status
    BY <1>0, <1>2 DEF FinishFromRunning, TypeOK
  <2>2. PICK res \in Results : UpdateStatus(camp[s], "RUNNING", arg[s], res)
    BY <1>2 DEF FinishFromRunning
  <2>3. status' \in [Campaigns -> Status]
    BY <2>1, <2>2, UpdateStatusEffect
  <2>4. QED
    BY <1>0, <1>2, <2>3
    DEF FinishFromRunning, Goto, procVars, TypeInv, TypeOK, RequestOK, HandleOK, ArgOK, DownOK, HandlerPC, RunPC, StopPC
<1>3. CASE FinishFromStopping(s)
  <2>1. status \in [Campaigns -> Status] /\ camp[s] \in Campaigns /\ arg[s] \in Status
    BY <1>0, <1>3 DEF FinishFromStopping, TypeOK
  <2>2. PICK res \in Results : UpdateStatus(camp[s], "STOPPING", arg[s], res)
    BY <1>3 DEF FinishFromStopping
  <2>3. status' \in [Campaigns -> Status]
    BY <2>1, <2>2, UpdateStatusEffect
  <2>4. QED
    BY <1>0, <1>3, <2>3
    DEF FinishFromStopping, Goto, procVars, TypeInv, TypeOK, RequestOK, HandleOK, ArgOK, DownOK, HandlerPC, RunPC, StopPC
<1>4. CASE RunExit(s)
  BY <1>0, <1>4
  DEF RunExit, Goto, procVars, TypeInv, TypeOK, RequestOK, HandleOK, ArgOK, DownOK, HandlerPC, RunPC, StopPC
<1>5. QED
  BY <1>1, <1>2, <1>3, <1>4 DEF RunStep

\* Every step of the stop handler preserves the typing part.
LEMMA StopStepTypeInv ==
  ASSUME TypeInv, NEW t \in Stops, StopStep(t)
  PROVE  TypeInv'
<1> USE LifecycleAssumption DEF Requests
<1>0. /\ t \in Requests
      /\ pc[t] # "idle" => camp[t] \in Campaigns
      /\ TypeOK /\ RequestOK /\ HandleOK /\ ArgOK /\ DownOK
  BY DEF TypeInv, RequestOK
<1>1. CASE StopLookup(t)
  BY <1>0, <1>1
  DEF StopLookup, Goto, procVars, TypeInv, TypeOK, RequestOK, HandleOK, ArgOK, DownOK, HandlerPC, RunPC, StopPC
<1>2. CASE StopFromRunning(t)
  <2>1. status' \in [Campaigns -> Status]
    BY <1>0, <1>2, UpdateStatusEffect DEF StopFromRunning, TypeOK, ArgOK, Status
  <2>2. QED
    BY <1>0, <1>2, <2>1
    DEF StopFromRunning, Goto, procVars, TypeInv, TypeOK, RequestOK, HandleOK, ArgOK, DownOK, HandlerPC, RunPC, StopPC
<1>3. CASE StopFromStarting(t)
  <2>1. status' \in [Campaigns -> Status]
    BY <1>0, <1>3, UpdateStatusEffect DEF StopFromStarting, TypeOK, ArgOK, Status
  <2>2. QED
    BY <1>0, <1>3, <2>1
    DEF StopFromStarting, Goto, procVars, TypeInv, TypeOK, RequestOK, HandleOK, ArgOK, DownOK, HandlerPC, RunPC, StopPC
<1>4. CASE StopCancel(t)
  BY <1>0, <1>4
  DEF StopCancel, Goto, procVars, TypeInv, TypeOK, RequestOK, HandleOK, ArgOK, DownOK, HandlerPC, RunPC, StopPC
<1>5. QED
  BY <1>1, <1>2, <1>3, <1>4 DEF StopStep

\* So do the two reads that accept or refuse a request.
LEMMA ReadTypeInv ==
  ASSUME TypeInv, NEW c \in Campaigns,
         \/ \E s \in Starts : StartRead(s, c)
         \/ \E t \in Stops : StopRead(t, c)
  PROVE  TypeInv'
<1> USE LifecycleAssumption DEF Requests
<1>1. CASE \E s \in Starts : StartRead(s, c)
  BY <1>1
  DEF StartRead, Goto, procVars, TypeInv, TypeOK, RequestOK, HandleOK, ArgOK, DownOK, HandlerPC, RunPC, StopPC, Status, Startable
<1>2. CASE \E t \in Stops : StopRead(t, c)
  BY <1>2
  DEF StopRead, Goto, procVars, TypeInv, TypeOK, RequestOK, HandleOK, ArgOK, DownOK, HandlerPC, RunPC, StopPC
<1>3. QED
  BY <1>1, <1>2

\* So do shutdown, the end of the process and recovery.
LEMMA ProcessTypeInv ==
  ASSUME TypeInv, Process
  PROVE  TypeInv'
<1> USE LifecycleAssumption DEF Requests, TypeInv
<1>1. CASE ShutdownSignal
  BY <1>1 DEF ShutdownSignal, TypeOK, RequestOK, HandleOK, ArgOK, DownOK, ProcPhase
<1>2. CASE StopAllSnapshot
  BY <1>2 DEF StopAllSnapshot, TypeOK, RequestOK, HandleOK, ArgOK, DownOK, ProcPhase
<1>3. CASE Exit \/ Crash
  BY <1>3
  DEF Exit, Crash, ProcessGone, TypeOK, RequestOK, HandleOK, ArgOK, DownOK, ProcPhase, HandlerPC, RunPC, StopPC
<1>4. CASE Restart
  BY <1>4 DEF Restart, TypeOK, RequestOK, HandleOK, ArgOK, DownOK, ProcPhase, Status
<1>5. ASSUME NEW c \in Campaigns, StopAllMark(c)
      PROVE  TypeInv'
  <2>1. status' \in [Campaigns -> Status]
    BY <1>5, UpdateStatusEffect DEF StopAllMark, TypeOK, Status
  <2>2. QED
    BY <1>5, <2>1 DEF StopAllMark, TypeOK, RequestOK, HandleOK, ArgOK, DownOK
<1>6. ASSUME NEW c \in Campaigns, StopAllCancel(c)
      PROVE  TypeInv'
  BY <1>6 DEF StopAllCancel, TypeOK, RequestOK, HandleOK, ArgOK, DownOK
<1>7. QED
  BY <1>1, <1>2, <1>3, <1>4, <1>5, <1>6 DEF Process

\* The typing part is inductive.
LEMMA NextTypeInv == TypeInv /\ [Next]_vars => TypeInv'
<1> SUFFICES ASSUME TypeInv, [Next]_vars PROVE TypeInv'
  OBVIOUS
<1>1. CASE Next
  BY <1>1, StartStepTypeInv, RunStepTypeInv, StopStepTypeInv, ReadTypeInv, ProcessTypeInv DEF Next
<1>2. CASE UNCHANGED vars
  BY <1>2 DEF vars, TypeInv, TypeOK, RequestOK, HandleOK, ArgOK, DownOK, Requests
<1>3. QED
  BY <1>1, <1>2

\* Every variable keeps its type, and no handler dereferences a missing campaign,
\* cancel function or map entry, for any campaigns, requests and faults.
THEOREM TypeCorrect == Spec => []TypeOK
<1>1. TypeInv => TypeOK
  BY DEF TypeInv
<1>2. QED
  BY InitTypeInv, NextTypeInv, <1>1, PTL DEF Spec

-----------------------------------------------------------------------------
\* An entry of the running map never outlives the start that stored it, whatever
\* the updates answer: Abort and RunExit are the only ways out and both delete it.
THEOREM NoDeadHandleHolds == Spec => []NoDeadHandle
<1> USE LifecycleAssumption DEF Requests, RunPC, HandlerPC
<1>1. Init => NoDeadHandle
  BY DEF Init, NoDeadHandle
<1>2. TypeInv /\ NoDeadHandle /\ [Next]_vars => NoDeadHandle'
  <2> SUFFICES ASSUME TypeInv, NoDeadHandle, [Next]_vars PROVE NoDeadHandle'
    OBVIOUS
  <2> USE DEF TypeInv, TypeOK, NoDeadHandle, Goto, procVars
  <2>1. ASSUME NEW s \in Starts, StartStep(s) PROVE NoDeadHandle'
    <3>1. CASE StartClaim(s) \/ LoadSeeds(s) \/ Fail(s)
      BY <3>1 DEF StartClaim, LoadSeeds, Fail
    <3>2. CASE Publish(s)
      BY <3>2 DEF Publish, RequestOK
    <3>3. CASE ToRunning(s) \/ BuildPlanner(s)
      BY <3>3 DEF ToRunning, BuildPlanner
    <3>4. CASE Abort(s)
      BY <3>4 DEF Abort, RequestOK
    <3>5. QED
      BY <2>1, <3>1, <3>2, <3>3, <3>4 DEF StartStep
  <2>2. ASSUME NEW s \in Starts, RunStep(s) PROVE NoDeadHandle'
    <3>1. CASE RunEnd(s) \/ FinishFromRunning(s) \/ FinishFromStopping(s)
      BY <3>1 DEF RunEnd, FinishFromRunning, FinishFromStopping
    <3>2. CASE RunExit(s)
      BY <3>2 DEF RunExit, RequestOK
    <3>3. QED
      BY <2>2, <3>1, <3>2 DEF RunStep
  <2>3. ASSUME NEW t \in Stops, StopStep(t) PROVE NoDeadHandle'
    BY <2>3 DEF StopStep, StopLookup, StopFromRunning, StopFromStarting, StopCancel
  <2>4. ASSUME NEW c \in Campaigns, NEW s \in Starts, StartRead(s, c) PROVE NoDeadHandle'
    BY <2>4 DEF StartRead
  <2>5. ASSUME NEW c \in Campaigns, NEW t \in Stops, StopRead(t, c) PROVE NoDeadHandle'
    BY <2>5 DEF StopRead
  <2>6. CASE Process
    BY <2>6
    DEF Process, ShutdownSignal, StopAllSnapshot, StopAllMark, StopAllCancel, Exit, Crash, ProcessGone, Restart
  <2>7. CASE UNCHANGED vars
    BY <2>7 DEF vars
  <2>8. QED
    BY <2>1, <2>2, <2>3, <2>4, <2>5, <2>6, <2>7 DEF Next
<1>3. QED
  BY InitTypeInv, NextTypeInv, <1>1, <1>2, PTL DEF Spec

-----------------------------------------------------------------------------
\* A run that is about to report STOPPED has seen its context cancelled.
CancelSeen ==
  \A s \in Starts : pc[s] \in {"finish", "finish2"} /\ arg[s] = "STOPPED" => s \in cancelled

\* Only RunEnd chooses STOPPED, and no step but the end of the process makes a
\* cancelled context live again.
LEMMA NextCancelSeen == TypeInv /\ CancelSeen /\ [Next]_vars => CancelSeen'
<1> SUFFICES ASSUME TypeInv, CancelSeen, [Next]_vars PROVE CancelSeen'
  OBVIOUS
<1> USE LifecycleAssumption DEF TypeInv, TypeOK, Requests, Goto, procVars, CancelSeen
<1>1. ASSUME NEW s \in Starts, StartStep(s) PROVE CancelSeen'
  BY <1>1 DEF StartStep, StartClaim, LoadSeeds, Publish, ToRunning, BuildPlanner, Abort, Fail
<1>2. ASSUME NEW s \in Starts, RunStep(s) PROVE CancelSeen'
  BY <1>2 DEF RunStep, RunEnd, FinishFromRunning, FinishFromStopping, RunExit
<1>3. ASSUME NEW t \in Stops, StopStep(t) PROVE CancelSeen'
  BY <1>3 DEF StopStep, StopLookup, StopFromRunning, StopFromStarting, StopCancel
<1>4. ASSUME NEW s \in Starts, NEW c \in Campaigns, StartRead(s, c) PROVE CancelSeen'
  BY <1>4 DEF StartRead
<1>5. ASSUME NEW t \in Stops, NEW c \in Campaigns, StopRead(t, c) PROVE CancelSeen'
  BY <1>5 DEF StopRead
<1>6. CASE Process
  BY <1>6
  DEF Process, ShutdownSignal, StopAllSnapshot, StopAllMark, StopAllCancel, Exit, Crash, ProcessGone, Restart
<1>7. CASE UNCHANGED vars
  BY <1>7 DEF vars
<1>8. QED
  BY <1>1, <1>2, <1>3, <1>4, <1>5, <1>6, <1>7 DEF Next

\* While the server is up a campaign becomes STOPPED only by the step of a run
\* whose context is cancelled.
LEMMA StoppedStep ==
  ASSUME TypeInv, CancelSeen, [Next]_vars, NEW c \in Campaigns,
         status[c] # "STOPPED", status'[c] = "STOPPED", proc # "down"
  PROVE  \E s \in Owners(c) : s \in cancelled
<1> USE LifecycleAssumption DEF TypeInv, TypeOK, RequestOK, ArgOK, Requests, Goto, procVars, UpdateStatus
<1>1. ASSUME NEW s \in Starts, StartStep(s) PROVE FALSE
  BY <1>1 DEF StartStep, StartClaim, LoadSeeds, Publish, ToRunning, BuildPlanner, Abort, Fail
<1>2. ASSUME NEW s \in Starts, RunStep(s) PROVE s \in Owners(c) /\ s \in cancelled
  BY <1>2 DEF RunStep, RunEnd, FinishFromRunning, FinishFromStopping, RunExit, CancelSeen, Owners, OwnerPC
<1>3. ASSUME NEW t \in Stops, StopStep(t) PROVE FALSE
  BY <1>3 DEF StopStep, StopLookup, StopFromRunning, StopFromStarting, StopCancel
<1>4. ASSUME NEW r \in Requests, NEW d \in Campaigns, StartRead(r, d) \/ StopRead(r, d) PROVE FALSE
  BY <1>4 DEF StartRead, StopRead
<1>5. ASSUME Process PROVE FALSE
  BY <1>5
  DEF Process, ShutdownSignal, StopAllSnapshot, StopAllMark, StopAllCancel, Exit, Crash, ProcessGone, Restart
<1>6. ASSUME UNCHANGED vars PROVE FALSE
  BY <1>6 DEF vars
<1>7. QED
  BY <1>1, <1>2, <1>3, <1>4, <1>5, <1>6 DEF Next

\* No execution, whatever fails, reports STOPPED for a run that nobody cancelled.
THEOREM StoppedOnlyByCancelHolds == Spec => StoppedOnlyByCancel
<1>1. Init => TypeInv /\ CancelSeen
  BY InitTypeInv DEF Init, CancelSeen, Requests
<1>2. TypeInv /\ CancelSeen /\ [Next]_vars => TypeInv' /\ CancelSeen'
  BY NextTypeInv, NextCancelSeen
<1>3. TypeInv /\ CancelSeen /\ [Next]_vars
        => [\A c \in Campaigns :
              status[c] # "STOPPED" /\ status'[c] = "STOPPED" /\ proc # "down"
                => \E s \in Owners(c) : s \in cancelled]_vars
  BY StoppedStep
<1>4. QED
  BY <1>1, <1>2, <1>3, PTL DEF Spec, StoppedOnlyByCancel

-----------------------------------------------------------------------------
\* What an owner may rely on: nobody else moves its campaign except towards
\* STOPPING.  This is what makes ExclusiveRun inductive, since a second claim
\* needs a status that no owner leaves behind.
OwnerStatus ==
  \A s \in Starts :
    /\ pc[s] \in {"seeds", "publish", "toRunning"}
         => status[camp[s]] \in {"STARTING", "STOPPING"}
    /\ pc[s] \in {"plan", "gen", "finish", "finish2"}
         => status[camp[s]] \in {"RUNNING", "STOPPING"}
    /\ pc[s] \in {"abort", "fail"} => status[camp[s]] \in {arg[s], "STOPPING"}

OwnerInv == TypeInv /\ OwnerStatus /\ ExclusiveRun

\* No campaign is owned before the first request.
LEMMA InitOwnerInv == Init => OwnerInv
<1>1. Init => OwnerStatus /\ ExclusiveRun
  BY DEF Init, OwnerStatus, ExclusiveRun, OwnerPC, Requests
<1>2. QED
  BY <1>1, InitTypeInv DEF OwnerInv

\* A step of a start handler keeps ownership exclusive: a claim succeeds only on
\* a status in Startable, which the campaign of an owner does not have.
LEMMA StartStepOwner ==
  ASSUME "applied" \notin Faults, OwnerInv, NEW s \in Starts, StartStep(s)
  PROVE  OwnerStatus' /\ ExclusiveRun'
<1> USE LifecycleAssumption DEF Requests, Goto, procVars, OwnerPC
<1>0. /\ TypeOK /\ RequestOK /\ ArgOK /\ OwnerStatus /\ ExclusiveRun
      /\ pc[s] # "idle" => camp[s] \in Campaigns
      /\ \A r \in Starts : pc[r] # "idle" => camp[r] \in Campaigns
      /\ status \in [Campaigns -> Status]
  BY DEF OwnerInv, TypeInv, TypeOK, RequestOK
<1>1. CASE StartClaim(s)
  <2>1. PICK res \in Results : /\ UpdateStatus(camp[s], arg[s], "STARTING", res)
                               /\ Goto(s, IF res = "ok" THEN "seeds" ELSE "done")
    BY <1>1 DEF StartClaim
  <2>2. arg[s] \in Startable /\ camp[s] \in Campaigns
    BY <1>0, <1>1 DEF StartClaim, ArgOK
  <2>3. CASE res = "ok"
    <3>1. \A t \in Starts : pc[t] \in OwnerPC => camp[t] # camp[s]
      BY <1>0, <2>1, <2>2, <2>3 DEF UpdateStatus, OwnerStatus, ArgOK, Startable
    <3>2. QED
      BY <1>0, <1>1, <2>1, <2>2, <2>3, <3>1
      DEF StartClaim, UpdateStatus, OwnerStatus, ExclusiveRun, TypeOK
  <2>4. CASE res # "ok"
    BY <1>0, <1>1, <2>1, <2>4 DEF StartClaim, UpdateStatus, Results, OwnerStatus, ExclusiveRun, TypeOK
  <2>5. QED
    BY <2>3, <2>4
<1>2. CASE LoadSeeds(s)
  BY <1>0, <1>2 DEF LoadSeeds, OwnerStatus, ExclusiveRun, TypeOK
<1>3. CASE Publish(s)
  BY <1>0, <1>3 DEF Publish, OwnerStatus, ExclusiveRun, TypeOK
<1>4. CASE ToRunning(s)
  BY <1>0, <1>4 DEF ToRunning, UpdateStatus, Results, OwnerStatus, ExclusiveRun, TypeOK
<1>5. CASE BuildPlanner(s)
  BY <1>0, <1>5 DEF BuildPlanner, OwnerStatus, ExclusiveRun, TypeOK
<1>6. CASE Abort(s)
  BY <1>0, <1>6 DEF Abort, OwnerStatus, ExclusiveRun, TypeOK
<1>7. CASE Fail(s)
  BY <1>0, <1>7 DEF Fail, UpdateStatus, Results, OwnerStatus, ExclusiveRun, TypeOK
<1>8. QED
  BY <1>1, <1>2, <1>3, <1>4, <1>5, <1>6, <1>7 DEF StartStep

\* A run gives up ownership only after its last attempt to settle the campaign.
LEMMA RunStepOwner ==
  ASSUME "applied" \notin Faults, OwnerInv, NEW s \in Starts, RunStep(s)
  PROVE  OwnerStatus' /\ ExclusiveRun'
<1> USE LifecycleAssumption DEF Requests, Goto, procVars, OwnerPC
<1>0. /\ TypeOK /\ RequestOK /\ ArgOK /\ OwnerStatus /\ ExclusiveRun
      /\ \A r \in Starts : pc[r] # "idle" => camp[r] \in Campaigns
      /\ status \in [Campaigns -> Status]
  BY DEF OwnerInv, TypeInv, TypeOK, RequestOK
<1>1. CASE RunEnd(s)
  BY <1>0, <1>1 DEF RunEnd, OwnerStatus, ExclusiveRun, TypeOK
<1>2. CASE FinishFromRunning(s)
  BY <1>0, <1>2 DEF FinishFromRunning, UpdateStatus, Results, OwnerStatus, ExclusiveRun, TypeOK
<1>3. CASE FinishFromStopping(s)
  BY <1>0, <1>3 DEF FinishFromStopping, UpdateStatus, Results, OwnerStatus, ExclusiveRun, TypeOK
<1>4. CASE RunExit(s)
  BY <1>0, <1>4 DEF RunExit, OwnerStatus, ExclusiveRun, TypeOK
<1>5. QED
  BY <1>1, <1>2, <1>3, <1>4 DEF RunStep

\* Stop requests and StopAll only move a campaign to STOPPING; the end of the
\* process removes every owner and recovery finds none.
LEMMA OtherStepOwner ==
  ASSUME "applied" \notin Faults, OwnerInv,
         \/ \E t \in Stops : StopStep(t)
         \/ \E c \in Campaigns, s \in Starts : StartRead(s, c)
         \/ \E c \in Campaigns, t \in Stops : StopRead(t, c)
         \/ Process
         \/ UNCHANGED vars
  PROVE  OwnerStatus' /\ ExclusiveRun'
<1> USE LifecycleAssumption DEF Requests, Goto, procVars, OwnerPC
<1>0. /\ TypeOK /\ RequestOK /\ DownOK /\ OwnerStatus /\ ExclusiveRun
      /\ \A r \in Requests : pc[r] # "idle" => camp[r] \in Campaigns
      /\ status \in [Campaigns -> Status]
  BY DEF OwnerInv, TypeInv, TypeOK, RequestOK
<1>1. ASSUME NEW t \in Stops, StopStep(t) PROVE OwnerStatus' /\ ExclusiveRun'
  <2>1. CASE StopLookup(t) \/ StopCancel(t)
    BY <1>0, <2>1 DEF StopLookup, StopCancel, OwnerStatus, ExclusiveRun, TypeOK
  <2>2. CASE StopFromRunning(t)
    BY <1>0, <2>2 DEF StopFromRunning, UpdateStatus, Results, OwnerStatus, ExclusiveRun, TypeOK
  <2>3. CASE StopFromStarting(t)
    BY <1>0, <2>3 DEF StopFromStarting, UpdateStatus, Results, OwnerStatus, ExclusiveRun, TypeOK
  <2>4. QED
    BY <1>1, <2>1, <2>2, <2>3 DEF StopStep
<1>2. ASSUME NEW c \in Campaigns, NEW s \in Starts, StartRead(s, c)
      PROVE  OwnerStatus' /\ ExclusiveRun'
  BY <1>0, <1>2 DEF StartRead, OwnerStatus, ExclusiveRun, TypeOK
<1>3. ASSUME NEW c \in Campaigns, NEW t \in Stops, StopRead(t, c)
      PROVE  OwnerStatus' /\ ExclusiveRun'
  BY <1>0, <1>3 DEF StopRead, OwnerStatus, ExclusiveRun, TypeOK
<1>4. CASE Process
  <2>1. CASE ShutdownSignal \/ StopAllSnapshot
    BY <1>0, <2>1 DEF ShutdownSignal, StopAllSnapshot, OwnerStatus, ExclusiveRun
  <2>2. CASE Exit \/ Crash
    BY <1>0, <2>2 DEF Exit, Crash, ProcessGone, OwnerStatus, ExclusiveRun, TypeOK
  <2>3. CASE Restart
    BY <1>0, <2>3 DEF Restart, DownOK, OwnerStatus, ExclusiveRun, TypeOK
  <2>4. ASSUME NEW c \in Campaigns, StopAllMark(c) PROVE OwnerStatus' /\ ExclusiveRun'
    BY <1>0, <2>4 DEF StopAllMark, UpdateStatus, Results, OwnerStatus, ExclusiveRun, TypeOK
  <2>5. ASSUME NEW c \in Campaigns, StopAllCancel(c) PROVE OwnerStatus' /\ ExclusiveRun'
    BY <1>0, <2>5 DEF StopAllCancel, OwnerStatus, ExclusiveRun
  <2>6. QED
    BY <1>4, <2>1, <2>2, <2>3, <2>4, <2>5 DEF Process
<1>5. CASE UNCHANGED vars
  BY <1>0, <1>5 DEF vars, OwnerStatus, ExclusiveRun
<1>6. QED
  BY <1>1, <1>2, <1>3, <1>4, <1>5

\* The ownership invariant is inductive when a failed update changed nothing.
LEMMA NextOwnerInv ==
  ASSUME "applied" \notin Faults
  PROVE  OwnerInv /\ [Next]_vars => OwnerInv'
<1> SUFFICES ASSUME OwnerInv, [Next]_vars PROVE OwnerInv'
  OBVIOUS
<1>1. TypeInv'
  BY NextTypeInv DEF OwnerInv
<1>2. OwnerStatus' /\ ExclusiveRun'
  BY StartStepOwner, RunStepOwner, OtherStepOwner DEF Next
<1>3. QED
  BY <1>1, <1>2 DEF OwnerInv

\* A campaign is owned by one start at a time, however many requests, stops,
\* failing updates, crashes and restarts there are, as long as an update that
\* reports an error changed nothing.
THEOREM ExclusiveRunHolds ==
  ASSUME "applied" \notin Faults
  PROVE  Spec => []ExclusiveRun
<1>1. OwnerInv => ExclusiveRun
  BY DEF OwnerInv
<1>2. QED
  BY InitOwnerInv, NextOwnerInv, <1>1, PTL DEF Spec

-----------------------------------------------------------------------------
\* The first attempt to settle a campaign fails only because of a stop, so the
\* second one cannot fail.
FinishStopping ==
  \A s \in Starts : pc[s] = "finish2" => status[camp[s]] = "STOPPING"

LifeInv == OwnerInv /\ FinishStopping /\ NoOrphan

\* The strengthened invariant holds initially.
LEMMA InitLifeInv == Init => LifeInv
<1>1. Init => FinishStopping /\ NoOrphan
  BY DEF Init, FinishStopping, NoOrphan, Requests
<1>2. QED
  BY <1>1, InitOwnerInv DEF LifeInv

\* With every update answered, no step leaves a STARTING or RUNNING campaign
\* without an owner.
LEMMA NextLifeInv ==
  ASSUME Faults = {}
  PROVE  LifeInv /\ [Next]_vars => LifeInv'
<1> SUFFICES ASSUME LifeInv, [Next]_vars PROVE LifeInv'
  OBVIOUS
<1> USE LifecycleAssumption DEF Requests, Goto, procVars, OwnerPC, Owners
<1>0. /\ OwnerInv /\ TypeOK /\ RequestOK /\ ArgOK /\ DownOK /\ OwnerStatus /\ ExclusiveRun
      /\ FinishStopping /\ NoOrphan
      /\ \A r \in Requests : pc[r] # "idle" => camp[r] \in Campaigns
      /\ status \in [Campaigns -> Status]
  BY DEF LifeInv, OwnerInv, TypeInv, TypeOK, RequestOK
<1>1. OwnerInv'
  BY <1>0, NextOwnerInv
<1>2. ASSUME NEW s \in Starts, StartStep(s) PROVE FinishStopping' /\ NoOrphan'
  <2>1. CASE StartClaim(s)
    BY <1>0, <2>1 DEF StartClaim, UpdateStatus, Results, FinishStopping, NoOrphan, TypeOK, ArgOK, Startable
  <2>2. CASE LoadSeeds(s)
    BY <1>0, <2>2 DEF LoadSeeds, FinishStopping, NoOrphan, TypeOK
  <2>3. CASE Publish(s)
    BY <1>0, <2>3 DEF Publish, FinishStopping, NoOrphan, TypeOK
  <2>4. CASE ToRunning(s)
    BY <1>0, <2>4 DEF ToRunning, UpdateStatus, Results, FinishStopping, NoOrphan, TypeOK, ExclusiveRun
  <2>5. CASE BuildPlanner(s)
    BY <1>0, <2>5 DEF BuildPlanner, FinishStopping, NoOrphan, TypeOK
  <2>6. CASE Abort(s)
    BY <1>0, <2>6 DEF Abort, FinishStopping, NoOrphan, TypeOK
  <2>7. CASE Fail(s)
    BY <1>0, <2>7
    DEF Fail, UpdateStatus, Results, FinishStopping, NoOrphan, OwnerStatus, ExclusiveRun, TypeOK
  <2>8. QED
    BY <1>2, <2>1, <2>2, <2>3, <2>4, <2>5, <2>6, <2>7 DEF StartStep
<1>3. ASSUME NEW s \in Starts, RunStep(s) PROVE FinishStopping' /\ NoOrphan'
  <2>1. CASE RunEnd(s)
    BY <1>0, <2>1 DEF RunEnd, FinishStopping, NoOrphan, TypeOK
  <2>2. CASE FinishFromRunning(s)
    BY <1>0, <2>2
    DEF FinishFromRunning, UpdateStatus, Results, FinishStopping, NoOrphan, OwnerStatus, ExclusiveRun, ArgOK, TypeOK
  <2>3. CASE FinishFromStopping(s)
    BY <1>0, <2>3
    DEF FinishFromStopping, UpdateStatus, Results, FinishStopping, NoOrphan, OwnerStatus, ExclusiveRun, ArgOK, TypeOK
  <2>4. CASE RunExit(s)
    BY <1>0, <2>4 DEF RunExit, FinishStopping, NoOrphan, TypeOK
  <2>5. QED
    BY <1>3, <2>1, <2>2, <2>3, <2>4 DEF RunStep
<1>4. ASSUME NEW t \in Stops, StopStep(t) PROVE FinishStopping' /\ NoOrphan'
  <2>1. CASE StopLookup(t) \/ StopCancel(t)
    BY <1>0, <2>1 DEF StopLookup, StopCancel, FinishStopping, NoOrphan, TypeOK
  <2>2. CASE StopFromRunning(t)
    BY <1>0, <2>2 DEF StopFromRunning, UpdateStatus, Results, FinishStopping, NoOrphan, TypeOK
  <2>3. CASE StopFromStarting(t)
    BY <1>0, <2>3 DEF StopFromStarting, UpdateStatus, Results, FinishStopping, NoOrphan, TypeOK
  <2>4. QED
    BY <1>4, <2>1, <2>2, <2>3 DEF StopStep
<1>5. ASSUME NEW c \in Campaigns, NEW s \in Starts, StartRead(s, c) PROVE FinishStopping' /\ NoOrphan'
  BY <1>0, <1>5 DEF StartRead, FinishStopping, NoOrphan, TypeOK
<1>6. ASSUME NEW c \in Campaigns, NEW t \in Stops, StopRead(t, c) PROVE FinishStopping' /\ NoOrphan'
  BY <1>0, <1>6 DEF StopRead, FinishStopping, NoOrphan, TypeOK
<1>7. ASSUME Process PROVE FinishStopping' /\ NoOrphan'
  <2>1. CASE ShutdownSignal \/ StopAllSnapshot
    BY <1>0, <2>1 DEF ShutdownSignal, StopAllSnapshot, FinishStopping, NoOrphan
  <2>2. CASE Exit \/ Crash
    BY <1>0, <2>2 DEF Exit, Crash, ProcessGone, FinishStopping, NoOrphan, TypeOK
  <2>3. CASE Restart
    BY <1>0, <2>3 DEF Restart, DownOK, FinishStopping, NoOrphan, TypeOK, Active
  <2>4. ASSUME NEW c \in Campaigns, StopAllMark(c) PROVE FinishStopping' /\ NoOrphan'
    BY <1>0, <2>4 DEF StopAllMark, UpdateStatus, Results, FinishStopping, NoOrphan, TypeOK
  <2>5. ASSUME NEW c \in Campaigns, StopAllCancel(c) PROVE FinishStopping' /\ NoOrphan'
    BY <1>0, <2>5 DEF StopAllCancel, FinishStopping, NoOrphan
  <2>6. QED
    BY <1>7, <2>1, <2>2, <2>3, <2>4, <2>5 DEF Process
<1>8. ASSUME UNCHANGED vars PROVE FinishStopping' /\ NoOrphan'
  BY <1>0, <1>8 DEF vars, FinishStopping, NoOrphan
<1>9. FinishStopping' /\ NoOrphan'
  BY <1>2, <1>3, <1>4, <1>5, <1>6, <1>7, <1>8 DEF Next
<1>10. QED
  BY <1>1, <1>9 DEF LifeInv

\* While the server is up, a campaign shown as STARTING or RUNNING has a start or
\* a run that will move it on, when every update gets its answer.
THEOREM NoOrphanHolds ==
  ASSUME Faults = {}
  PROVE  Spec => []NoOrphan
<1>1. LifeInv => NoOrphan
  BY DEF LifeInv
<1>2. QED
  BY InitLifeInv, NextLifeInv, <1>1, PTL DEF Spec

-----------------------------------------------------------------------------
(* CampaignLifecycle implements CampaignStatus.                            *)

\* The refinement mapping of Abstract, named.
Claimed == {c \in Campaigns : Owners(c) # {}}

\* A step that changes no owner changes no claim.
LEMMA ClaimedSame ==
  ASSUME \A r \in Starts : pc'[r] \in OwnerPC <=> pc[r] \in OwnerPC,
         \A r \in Starts : pc[r] \in OwnerPC => camp'[r] = camp[r]
  PROVE  Claimed' = Claimed
  BY DEF Claimed, Owners

\* A start that becomes an owner adds its campaign to the claims.
LEMMA ClaimedAdd ==
  ASSUME NEW s \in Starts, pc[s] \notin OwnerPC, pc'[s] \in OwnerPC, camp' = camp,
         camp[s] \in Campaigns,
         \A r \in Starts : r # s => pc'[r] = pc[r]
  PROVE  Claimed' = Claimed \cup {camp[s]}
<1> SUFFICES ASSUME NEW c \in Campaigns
             PROVE  c \in Claimed' <=> c \in Claimed \/ c = camp[s]
  BY DEF Claimed
<1>1. CASE c = camp[s]
  BY <1>1 DEF Claimed, Owners
<1>2. CASE c # camp[s]
  BY <1>2 DEF Claimed, Owners
<1>3. QED
  BY <1>1, <1>2

\* An owner that lets go removes its campaign: nobody else owned it.
LEMMA ClaimedRemove ==
  ASSUME NEW s \in Starts, pc[s] \in OwnerPC, pc'[s] \notin OwnerPC, camp' = camp,
         \A r \in Starts : r # s => pc'[r] = pc[r],
         ExclusiveRun
  PROVE  Claimed' = Claimed \ {camp[s]}
<1> SUFFICES ASSUME NEW c \in Campaigns
             PROVE  c \in Claimed' <=> c \in Claimed /\ c # camp[s]
  BY DEF Claimed
<1>1. CASE c = camp[s]
  BY <1>1 DEF Claimed, Owners, ExclusiveRun
<1>2. CASE c # camp[s]
  BY <1>2 DEF Claimed, Owners
<1>3. QED
  BY <1>1, <1>2

\* The initial states are initial states of CampaignStatus.
LEMMA InitRefines == Init => Abstract!Init
  BY DEF Init, Abstract!Init, Owners, OwnerPC, Requests

\* A step of a start handler is a claim, a launch, a settlement as FAILED, the
\* abandonment of a campaign that was stopped too early, or none of these.
LEMMA StartStepRefines ==
  ASSUME Faults = {}, LifeInv, NEW s \in Starts, StartStep(s)
  PROVE  [Abstract!Next]_(Abstract!vars)
<1> USE LifecycleAssumption DEF Requests, Goto, procVars
<1>0. /\ TypeOK /\ RequestOK /\ ArgOK /\ DownOK /\ OwnerStatus /\ ExclusiveRun
      /\ pc[s] # "idle" => camp[s] \in Campaigns
      /\ status \in [Campaigns -> Status]
      /\ pc \in [Requests -> {"idle", "done"} \cup HandlerPC \cup RunPC \cup StopPC]
  BY DEF LifeInv, OwnerInv, TypeInv, TypeOK, RequestOK
<1>1. pc[s] \notin {"idle", "done"} => proc # "down"
  BY <1>0 DEF DownOK
<1>2. CASE StartClaim(s)
  <2>1. PICK res \in Results : /\ UpdateStatus(camp[s], arg[s], "STARTING", res)
                               /\ Goto(s, IF res = "ok" THEN "seeds" ELSE "done")
    BY <1>2 DEF StartClaim
  <2>2. arg[s] \in Startable /\ camp[s] \in Campaigns
    BY <1>0, <1>2 DEF StartClaim, ArgOK
  <2>3. CASE res = "ok"
    <3>1. camp[s] \notin Claimed
      BY <1>0, <2>1, <2>2, <2>3 DEF UpdateStatus, OwnerStatus, OwnerPC, ArgOK, Startable, Claimed, Owners
    <3>2. Claimed' = Claimed \cup {camp[s]}
      BY <1>0, <1>2, <2>1, <2>2, <2>3, ClaimedAdd DEF StartClaim, OwnerPC
    <3>3. Abstract!Claim(camp[s])
      BY <1>1, <1>2, <2>1, <2>2, <2>3, <3>1, <3>2
      DEF StartClaim, UpdateStatus, Claimed, Startable, Abstract!Claim, Abstract!SetStatus, Abstract!Startable
    <3>4. QED
      BY <2>2, <3>3 DEF Abstract!Next
  <2>4. CASE res # "ok"
    <3>1. Claimed' = Claimed
      BY <1>0, <1>2, <2>1, <2>4, ClaimedSame DEF StartClaim, OwnerPC
    <3>2. QED
      BY <1>2, <2>1, <2>4, <3>1 DEF StartClaim, UpdateStatus, Results, Claimed, Abstract!vars
  <2>5. QED
    BY <2>3, <2>4
<1>3. CASE LoadSeeds(s) \/ Publish(s) \/ BuildPlanner(s) \/ Abort(s)
  <2>1. Claimed' = Claimed
    BY <1>0, <1>3, ClaimedSame DEF LoadSeeds, Publish, BuildPlanner, Abort, OwnerPC
  <2>2. QED
    BY <1>3, <2>1 DEF LoadSeeds, Publish, BuildPlanner, Abort, Claimed, Abstract!vars
<1>4. CASE ToRunning(s)
  <2>1. Claimed' = Claimed
    BY <1>0, <1>4, ClaimedSame DEF ToRunning, OwnerPC
  <2>2. camp[s] \in Claimed
    BY <1>0, <1>4 DEF ToRunning, OwnerPC, Claimed, Owners
  <2>3. PICK res \in Results : UpdateStatus(camp[s], "STARTING", "RUNNING", res)
    BY <1>4 DEF ToRunning
  <2>4. CASE res = "ok"
    <3>1. Abstract!Launch(camp[s])
      BY <1>4, <2>1, <2>2, <2>3, <2>4
      DEF ToRunning, UpdateStatus, Claimed, Abstract!Launch, Abstract!SetStatus
    <3>2. QED
      BY <2>2, <3>1 DEF Abstract!Next, Claimed
  <2>5. CASE res # "ok"
    BY <1>4, <2>1, <2>3, <2>5 DEF ToRunning, UpdateStatus, Results, Claimed, Abstract!vars
  <2>6. QED
    BY <2>4, <2>5
<1>5. CASE Fail(s)
  <2>1. Claimed' = Claimed \ {camp[s]}
    BY <1>0, <1>5, ClaimedRemove DEF Fail, OwnerPC
  <2>2. camp[s] \in Claimed
    BY <1>0, <1>5 DEF Fail, OwnerPC, Claimed, Owners
  <2>3. PICK res \in Results : UpdateStatus(camp[s], arg[s], "FAILED", res)
    BY <1>5 DEF Fail
  <2>4. arg[s] \in {"STARTING", "RUNNING"}
    BY <1>0, <1>5 DEF Fail, ArgOK
  <2>5. CASE res = "ok"
    <3>1. Abstract!Settle(camp[s])
      BY <1>5, <2>1, <2>2, <2>3, <2>4, <2>5
      DEF Fail, UpdateStatus, Claimed, Abstract!Settle, Abstract!SetStatus
    <3>2. QED
      BY <2>2, <3>1 DEF Abstract!Next, Claimed
  <2>6. CASE res # "ok"
    <3>1. status[camp[s]] = "STOPPING" /\ UNCHANGED status
      BY <1>0, <1>5, <2>3, <2>6 DEF Fail, UpdateStatus, Results, OwnerStatus
    <3>2. Abstract!Abandon(camp[s])
      BY <1>5, <2>1, <2>2, <3>1 DEF Fail, Claimed, Abstract!Abandon
    <3>3. QED
      BY <2>2, <3>2 DEF Abstract!Next, Claimed
  <2>7. QED
    BY <2>5, <2>6
<1>6. QED
  BY <1>2, <1>3, <1>4, <1>5 DEF StartStep

\* A step of a run settles the campaign exactly when it gives up its claim.
LEMMA RunStepRefines ==
  ASSUME Faults = {}, LifeInv, NEW s \in Starts, RunStep(s)
  PROVE  [Abstract!Next]_(Abstract!vars)
<1> USE LifecycleAssumption DEF Requests, Goto, procVars
<1>0. /\ TypeOK /\ RequestOK /\ ArgOK /\ OwnerStatus /\ ExclusiveRun /\ FinishStopping
      /\ pc[s] # "idle" => camp[s] \in Campaigns
      /\ status \in [Campaigns -> Status]
      /\ pc \in [Requests -> {"idle", "done"} \cup HandlerPC \cup RunPC \cup StopPC]
  BY DEF LifeInv, OwnerInv, TypeInv, TypeOK, RequestOK
<1>1. CASE RunEnd(s) \/ RunExit(s)
  <2>1. Claimed' = Claimed
    BY <1>0, <1>1, ClaimedSame DEF RunEnd, RunExit, OwnerPC
  <2>2. QED
    BY <1>1, <2>1 DEF RunEnd, RunExit, Claimed, Abstract!vars
<1>2. CASE FinishFromRunning(s)
  <2>1. PICK res \in Results : /\ UpdateStatus(camp[s], "RUNNING", arg[s], res)
                               /\ Goto(s, IF res = "ok" THEN "exit" ELSE "finish2")
    BY <1>2 DEF FinishFromRunning
  <2>2. camp[s] \in Claimed /\ arg[s] \in {"STOPPED", "FINISHED"}
    BY <1>0, <1>2 DEF FinishFromRunning, OwnerPC, Claimed, Owners, ArgOK
  <2>3. CASE res = "ok"
    <3>1. Claimed' = Claimed \ {camp[s]}
      BY <1>0, <1>2, <2>1, <2>3, ClaimedRemove DEF FinishFromRunning, OwnerPC
    <3>2. Abstract!Settle(camp[s])
      BY <1>2, <2>1, <2>2, <2>3, <3>1
      DEF FinishFromRunning, UpdateStatus, Claimed, Abstract!Settle, Abstract!SetStatus
    <3>3. QED
      BY <2>2, <3>2 DEF Abstract!Next, Claimed
  <2>4. CASE res # "ok"
    <3>1. Claimed' = Claimed
      BY <1>0, <1>2, <2>1, <2>4, ClaimedSame DEF FinishFromRunning, OwnerPC
    <3>2. QED
      BY <1>2, <2>1, <2>4, <3>1 DEF FinishFromRunning, UpdateStatus, Results, Claimed, Abstract!vars
  <2>5. QED
    BY <2>3, <2>4
<1>3. CASE FinishFromStopping(s)
  <2>1. Claimed' = Claimed \ {camp[s]}
    BY <1>0, <1>3, ClaimedRemove DEF FinishFromStopping, OwnerPC
  <2>2. camp[s] \in Claimed /\ arg[s] \in {"STOPPED", "FINISHED"} /\ status[camp[s]] = "STOPPING"
    BY <1>0, <1>3 DEF FinishFromStopping, OwnerPC, Claimed, Owners, ArgOK, FinishStopping
  <2>3. PICK res \in Results : UpdateStatus(camp[s], "STOPPING", arg[s], res)
    BY <1>3 DEF FinishFromStopping
  <2>4. Abstract!Settle(camp[s])
    BY <1>3, <2>1, <2>2, <2>3
    DEF FinishFromStopping, UpdateStatus, Results, Claimed, Abstract!Settle, Abstract!SetStatus
  <2>5. QED
    BY <2>2, <2>4 DEF Abstract!Next, Claimed
<1>4. QED
  BY <1>1, <1>2, <1>3 DEF RunStep

\* A step of a stop request asks for a stop when its update goes through.
LEMMA StopStepRefines ==
  ASSUME Faults = {}, LifeInv, NEW t \in Stops, StopStep(t)
  PROVE  [Abstract!Next]_(Abstract!vars)
<1> USE LifecycleAssumption DEF Requests, Goto, procVars
<1>0. /\ TypeOK /\ DownOK
      /\ pc[t] # "idle" => camp[t] \in Campaigns
      /\ pc \in [Requests -> {"idle", "done"} \cup HandlerPC \cup RunPC \cup StopPC]
  BY DEF LifeInv, OwnerInv, TypeInv, TypeOK, RequestOK
<1>1. Claimed' = Claimed
  BY <1>0 DEF StopStep, StopLookup, StopFromRunning, StopFromStarting, StopCancel, Claimed, Owners
<1>2. CASE StopLookup(t) \/ StopCancel(t)
  BY <1>1, <1>2 DEF StopLookup, StopCancel, Claimed, Abstract!vars
<1>3. CASE StopFromRunning(t) \/ StopFromStarting(t)
  <2>1. PICK old \in {"STARTING", "RUNNING"}, res \in Results :
          UpdateStatus(camp[t], old, "STOPPING", res)
    BY <1>3 DEF StopFromRunning, StopFromStarting
  <2>2. camp[t] \in Campaigns /\ proc # "down" /\ proc' = proc
    BY <1>0, <1>3 DEF StopFromRunning, StopFromStarting, DownOK
  <2>3. CASE res = "ok"
    <3>1. Abstract!RequestStop(camp[t])
      BY <1>1, <2>1, <2>2, <2>3
      DEF UpdateStatus, Claimed, Abstract!RequestStop, Abstract!SetStatus
    <3>2. QED
      BY <2>2, <3>1 DEF Abstract!Next
  <2>4. CASE res # "ok"
    BY <1>1, <2>1, <2>2, <2>4 DEF UpdateStatus, Results, Claimed, Abstract!vars
  <2>5. QED
    BY <2>3, <2>4
<1>4. QED
  BY <1>2, <1>3 DEF StopStep

\* A step of the process itself: StopAll asks for stops, the end of the process
\* drops every claim, and the restart recovers the status column.
LEMMA ProcessRefines ==
  ASSUME Faults = {}, LifeInv, Process
  PROVE  [Abstract!Next]_(Abstract!vars)
<1>1. CASE ShutdownSignal \/ StopAllSnapshot \/ \E c \in Campaigns : StopAllCancel(c)
  BY <1>1 DEF ShutdownSignal, StopAllSnapshot, StopAllCancel, Owners, Abstract!vars
<1>2. ASSUME NEW c \in Campaigns, StopAllMark(c)
      PROVE  [Abstract!Next]_(Abstract!vars)
  <2>1. Claimed' = Claimed /\ proc # "down" /\ proc' = proc
    BY <1>2 DEF StopAllMark, Claimed, Owners
  <2>2. CASE UpdateStatus(c, "RUNNING", "STOPPING", "ok")
    <3>1. Abstract!RequestStop(c)
      BY <2>1, <2>2 DEF UpdateStatus, Claimed, Abstract!RequestStop, Abstract!SetStatus
    <3>2. QED
      BY <3>1 DEF Abstract!Next
  <2>3. CASE UNCHANGED status
    BY <2>1, <2>3 DEF Claimed, Abstract!vars
  <2>4. QED
    BY <1>2, <2>2, <2>3 DEF StopAllMark, UpdateStatus, Results
<1>3. CASE Exit \/ Crash
  <2>1. Claimed' = {}
    BY <1>3 DEF Exit, Crash, ProcessGone, Claimed, Owners, OwnerPC, Requests
  <2>2. Abstract!End
    BY <1>3, <2>1 DEF Exit, Crash, ProcessGone, Claimed, Abstract!End
  <2>3. QED
    BY <2>2 DEF Abstract!Next
<1>4. CASE Restart
  <2>1. Claimed' = Claimed
    BY <1>4 DEF Restart, Claimed, Owners
  <2>2. status' = [c \in Campaigns |-> IF status[c] \in Active THEN "STOPPED" ELSE status[c]]
    BY <1>4 DEF Restart
  <2>3. Abstract!Recover
    BY <1>4, <2>1, <2>2 DEF Restart, Claimed, Active, Abstract!Active, Abstract!Recover
  <2>4. QED
    BY <2>3 DEF Abstract!Next
<1>5. QED
  BY <1>1, <1>2, <1>3, <1>4 DEF Process

\* Every step of the lifecycle is a step of CampaignStatus or invisible to it.
LEMMA NextRefines ==
  Faults = {} /\ LifeInv /\ [Next]_vars => [Abstract!Next]_(Abstract!vars)
<1> SUFFICES ASSUME Faults = {}, LifeInv, [Next]_vars
             PROVE  [Abstract!Next]_(Abstract!vars)
  OBVIOUS
<1>1. ASSUME NEW s \in Starts, NEW c \in Campaigns, StartRead(s, c)
      PROVE  [Abstract!Next]_(Abstract!vars)
  <2>1. Claimed' = Claimed
    BY <1>1 DEF LifeInv, OwnerInv, TypeInv, TypeOK, StartRead, Goto, Claimed, Owners, OwnerPC, Requests
  <2>2. QED
    BY <1>1, <2>1 DEF StartRead, procVars, Claimed, Abstract!vars
<1>2. ASSUME NEW t \in Stops, NEW c \in Campaigns, StopRead(t, c)
      PROVE  [Abstract!Next]_(Abstract!vars)
  <2>1. Claimed' = Claimed
    BY <1>2, LifecycleAssumption
    DEF LifeInv, OwnerInv, TypeInv, TypeOK, StopRead, Goto, Claimed, Owners, Requests
  <2>2. QED
    BY <1>2, <2>1 DEF StopRead, procVars, Claimed, Abstract!vars
<1>3. CASE UNCHANGED vars
  BY <1>3 DEF vars, Owners, Abstract!vars
<1>4. QED
  BY <1>1, <1>2, <1>3, StartStepRefines, RunStepRefines, StopStepRefines, ProcessRefines DEF Next

\* When updates get their answers, the handlers, the run goroutines, shutdown and
\* recovery together implement the lifecycle that CampaignStatus promises: one
\* claim per campaign, statuses in order, settled only by the claim's holder.
THEOREM LifecycleImplementsStatus ==
  ASSUME Faults = {}
  PROVE  Spec => ImplementsStatus
<1>1. Init => LifeInv /\ Abstract!Init
  BY InitLifeInv, InitRefines
<1>2. LifeInv /\ [Next]_vars => LifeInv'
  BY NextLifeInv
<1>3. LifeInv /\ [Next]_vars => [Abstract!Next]_(Abstract!vars)
  BY NextRefines
<1>4. QED
  BY <1>1, <1>2, <1>3, PTL DEF Spec, ImplementsStatus, Abstract!Spec
=============================================================================
