-------------------------- MODULE CampaignLifecycle --------------------------
(***************************************************************************)
(* The lifecycle of fuzzing campaigns: the start and stop handlers of the  *)
(* API, Engine.StartCampaign / StopCampaign / StopAll, the goroutine       *)
(* runCampaign, the running map, the status column in PostgreSQL, process  *)
(* death and RecoverStuckCampaigns.                                        *)
(*                                                                         *)
(* Every database call and every section under Engine.mu is a step of its  *)
(* own.  A start request, the campaign context it creates and the          *)
(* goroutine it spawns share one identity: an element of Starts.           *)
(***************************************************************************)
EXTENDS FiniteSets

CONSTANTS
  Campaigns,
  Starts,    \* requests to POST /campaigns/{id}/start
  Stops,     \* requests to POST /campaigns/{id}/stop
  Faults,    \* how UpdateStatus may report an error, a subset of FaultKinds
  NoRun      \* no entry in the running map, no campaign, no handle

\* "lost": the statement failed and changed nothing (the request's context is
\* over, the connection is gone); "applied": it committed, the reply was lost.
FaultKinds == {"lost", "applied"}

ASSUME LifecycleAssumption ==
  /\ Starts \cap Stops = {}
  /\ NoRun \notin Starts \cup Stops \cup Campaigns
  /\ Faults \subseteq FaultKinds

Requests  == Starts \cup Stops
Status    == {"CREATED", "STARTING", "RUNNING", "STOPPING",
              "STOPPED", "FINISHED", "FAILED"}
Startable == {"CREATED", "STOPPED", "FINISHED", "FAILED"}
Active    == {"STARTING", "RUNNING", "STOPPING"}
Terminal  == {"STOPPED", "FINISHED", "FAILED"}

VARIABLES
  status,     \* status[c]: the status column
  running,    \* Engine.running: the start whose cancel function is stored
  cancelled,  \* the starts whose campaign context is cancelled
  pc,         \* pc[r]: the next step of request r or of the run it spawned
  camp,       \* camp[r]: the campaign request r names
  arg,        \* arg[s]: the status that the next UpdateStatus of s depends on
  handle,     \* handle[t]: the cancel function stop request t looked up
  proc,       \* the phase of the server process
  sweep,      \* StopAll's copy of the running map, shrinking as it is swept
  marked      \* the campaign StopAll has moved to STOPPING but not cancelled

vars == <<status, running, cancelled, pc, camp, arg, handle, proc, sweep, marked>>

HandlerPC == {"claim", "seeds", "publish", "toRunning", "plan", "abort", "fail"}
RunPC     == {"gen", "finish", "finish2", "exit"}
StopPC    == {"lookup", "stopRunning", "stopStarting", "cancel"}
ProcPhase == {"up", "draining", "sweeping", "expired", "down"}

Init ==
  /\ status = [c \in Campaigns |-> "CREATED"]
  /\ running = [c \in Campaigns |-> NoRun]
  /\ cancelled = {}
  /\ pc = [r \in Requests |-> "idle"]
  /\ camp = [r \in Requests |-> NoRun]
  /\ arg = [s \in Starts |-> "CREATED"]
  /\ handle = [t \in Stops |-> NoRun]
  /\ proc = "up"
  /\ sweep = [c \in Campaigns |-> NoRun]
  /\ marked = {}

Goto(r, label) == pc' = [pc EXCEPT ![r] = label]
procVars == <<proc, sweep, marked>>

-----------------------------------------------------------------------------
(* CampaignStore.UpdateStatus: a compare-and-swap on the status column.    *)

Results == {"ok", "miss", "err"}

UpdateStatus(c, old, new, res) ==
  \/ /\ res = "ok"
     /\ status[c] = old
     /\ status' = [status EXCEPT ![c] = new]
  \/ /\ res = "miss"
     /\ status[c] # old
     /\ UNCHANGED status
  \/ /\ res = "err"
     /\ "lost" \in Faults
     /\ UNCHANGED status
  \/ /\ res = "err"
     /\ "applied" \in Faults
     /\ status[c] = old
     /\ status' = [status EXCEPT ![c] = new]

-----------------------------------------------------------------------------
(* POST /campaigns/{id}/start: the handler and Engine.StartCampaign.       *)

\* GetByID and the switch on the status that was read.  A request that is
\* refused (409, 422, or 500 when the read fails) never gets further.
StartRead(s, c) ==
  /\ proc = "up"
  /\ pc[s] = "idle"
  /\ camp' = [camp EXCEPT ![s] = c]
  /\ arg' = [arg EXCEPT ![s] = status[c]]
  /\ \/ status[c] \in Startable /\ Goto(s, "claim")
     \/ (status[c] \notin Startable \/ "lost" \in Faults) /\ Goto(s, "done")
  /\ UNCHANGED <<status, running, cancelled, handle, procVars>>

\* Mutant: the claim trusts the status read by the handler and does not compare.
StartClaim_NoCompare(s) ==
  /\ pc[s] = "claim"
  /\ status' = [status EXCEPT ![camp[s]] = "STARTING"]
  /\ Goto(s, "seeds")
  /\ UNCHANGED <<running, cancelled, camp, arg, handle, procVars>>

\* The status read above -> STARTING.
StartClaim(s) ==
  /\ pc[s] = "claim"
  /\ \E res \in Results :
       /\ UpdateStatus(camp[s], arg[s], "STARTING", res)
       /\ Goto(s, IF res = "ok" THEN "seeds" ELSE "done")
  /\ UNCHANGED <<running, cancelled, camp, arg, handle, procVars>>

\* Mutant: an error while loading seeds returns without failCampaign.
LoadSeeds_NoFail(s) ==
  /\ pc[s] = "seeds"
  /\ Goto(s, "publish") \/ Goto(s, "done")
  /\ UNCHANGED <<status, running, cancelled, camp, arg, handle, procVars>>

\* GetSeeds and ComputeBaseline; no seeds, or an error, fails the campaign.
LoadSeeds(s) ==
  /\ pc[s] = "seeds"
  /\ \/ Goto(s, "publish") /\ UNCHANGED arg
     \/ Goto(s, "fail") /\ arg' = [arg EXCEPT ![s] = "STARTING"]
  /\ UNCHANGED <<status, running, cancelled, camp, handle, procVars>>

\* The campaign context is created and its cancel function stored.
Publish(s) ==
  /\ pc[s] = "publish"
  /\ running' = [running EXCEPT ![camp[s]] = s]
  /\ Goto(s, "toRunning")
  /\ UNCHANGED <<status, cancelled, camp, arg, handle, procVars>>

\* STARTING -> RUNNING.
ToRunning(s) ==
  /\ pc[s] = "toRunning"
  /\ \E res \in Results :
       /\ UpdateStatus(camp[s], "STARTING", "RUNNING", res)
       /\ \/ res = "ok" /\ Goto(s, "plan") /\ UNCHANGED arg
          \/ res # "ok" /\ Goto(s, "abort") /\ arg' = [arg EXCEPT ![s] = "STARTING"]
  /\ UNCHANGED <<running, cancelled, camp, handle, procVars>>

\* Mutant: the planner's error path fails the campaign from STARTING.
BuildPlanner_WrongStatus(s) ==
  /\ pc[s] = "plan"
  /\ \/ Goto(s, "gen") /\ UNCHANGED arg
     \/ Goto(s, "abort") /\ arg' = [arg EXCEPT ![s] = "STARTING"]
  /\ UNCHANGED <<status, running, cancelled, camp, handle, procVars>>

\* NewEndpointPlanner fails on seeds without exchanges; otherwise the run starts.
BuildPlanner(s) ==
  /\ pc[s] = "plan"
  /\ \/ Goto(s, "gen") /\ UNCHANGED arg
     \/ Goto(s, "abort") /\ arg' = [arg EXCEPT ![s] = "RUNNING"]
  /\ UNCHANGED <<status, running, cancelled, camp, handle, procVars>>

\* cancel() and delete(e.running, id) on both error paths after Publish.
Abort(s) ==
  /\ pc[s] = "abort"
  /\ cancelled' = cancelled \cup {s}
  /\ running' = [running EXCEPT ![camp[s]] = NoRun]
  /\ Goto(s, "fail")
  /\ UNCHANGED <<status, camp, arg, handle, procVars>>

\* failCampaign: the result of UpdateStatus is only logged.
Fail(s) ==
  /\ pc[s] = "fail"
  /\ \E res \in Results : UpdateStatus(camp[s], arg[s], "FAILED", res)
  /\ Goto(s, "done")
  /\ UNCHANGED <<running, cancelled, camp, arg, handle, procVars>>

-----------------------------------------------------------------------------
(* The goroutine runCampaign.                                              *)

\* Mutant: the final status is chosen by the status column, not by ctx.Err().
RunEnd_ByStatus(s) ==
  /\ pc[s] = "gen"
  /\ arg' = [arg EXCEPT ![s] = IF status[camp[s]] = "STOPPING" THEN "STOPPED" ELSE "FINISHED"]
  /\ Goto(s, "finish")
  /\ UNCHANGED <<status, running, cancelled, camp, handle, procVars>>

\* The generator loop has returned and the workers have drained: a limit was
\* reached, or the context is cancelled.  ctx.Err() picks the final status.
RunEnd(s) ==
  /\ pc[s] = "gen"
  /\ arg' = [arg EXCEPT ![s] = IF s \in cancelled THEN "STOPPED" ELSE "FINISHED"]
  /\ Goto(s, "finish")
  /\ UNCHANGED <<status, running, cancelled, camp, handle, procVars>>

\* Mutant: no second attempt from STOPPING.
FinishFromRunning_Once(s) ==
  /\ pc[s] = "finish"
  /\ \E res \in Results : UpdateStatus(camp[s], "RUNNING", arg[s], res)
  /\ Goto(s, "exit")
  /\ UNCHANGED <<running, cancelled, camp, arg, handle, procVars>>

FinishFromRunning(s) ==
  /\ pc[s] = "finish"
  /\ \E res \in Results :
       /\ UpdateStatus(camp[s], "RUNNING", arg[s], res)
       /\ Goto(s, IF res = "ok" THEN "exit" ELSE "finish2")
  /\ UNCHANGED <<running, cancelled, camp, arg, handle, procVars>>

FinishFromStopping(s) ==
  /\ pc[s] = "finish2"
  /\ \E res \in Results : UpdateStatus(camp[s], "STOPPING", arg[s], res)
  /\ Goto(s, "exit")
  /\ UNCHANGED <<running, cancelled, camp, arg, handle, procVars>>

\* Mutant: no deferred delete.
RunExit_KeepEntry(s) ==
  /\ pc[s] = "exit"
  /\ Goto(s, "done")
  /\ UNCHANGED <<status, running, cancelled, camp, arg, handle, procVars>>

\* Grouping of the confirmed findings, then the deferred delete: it removes the
\* campaign's entry, whichever run stored it.
RunExit(s) ==
  /\ pc[s] = "exit"
  /\ running' = [running EXCEPT ![camp[s]] = NoRun]
  /\ Goto(s, "done")
  /\ UNCHANGED <<status, cancelled, camp, arg, handle, procVars>>

-----------------------------------------------------------------------------
(* POST /campaigns/{id}/stop: the handler and Engine.StopCampaign.         *)

StopRead(t, c) ==
  /\ proc = "up"
  /\ pc[t] = "idle"
  /\ camp' = [camp EXCEPT ![t] = c]
  /\ \/ status[c] \in {"STARTING", "RUNNING"} /\ Goto(t, "lookup")
     \/ (status[c] \notin {"STARTING", "RUNNING"} \/ "lost" \in Faults) /\ Goto(t, "done")
  /\ UNCHANGED <<status, running, cancelled, arg, handle, procVars>>

\* Mutant: the cancel function is used without the comma-ok check.
StopLookup_Unchecked(t) ==
  /\ pc[t] = "lookup"
  /\ handle' = [handle EXCEPT ![t] = running[camp[t]]]
  /\ Goto(t, "stopRunning")
  /\ UNCHANGED <<status, running, cancelled, camp, arg, procVars>>

StopLookup(t) ==
  /\ pc[t] = "lookup"
  /\ handle' = [handle EXCEPT ![t] = running[camp[t]]]
  /\ Goto(t, IF running[camp[t]] = NoRun THEN "done" ELSE "stopRunning")
  /\ UNCHANGED <<status, running, cancelled, camp, arg, procVars>>

StopFromRunning(t) ==
  /\ pc[t] = "stopRunning"
  /\ \E res \in Results :
       /\ UpdateStatus(camp[t], "RUNNING", "STOPPING", res)
       /\ Goto(t, IF res = "miss" THEN "stopStarting" ELSE "cancel")
  /\ UNCHANGED <<running, cancelled, camp, arg, handle, procVars>>

\* Mutant: the second update of a stop does not compare the status.
StopFromStarting_NoCompare(t) ==
  /\ pc[t] = "stopStarting"
  /\ status' = [status EXCEPT ![camp[t]] = "STOPPING"]
  /\ Goto(t, "cancel")
  /\ UNCHANGED <<running, cancelled, camp, arg, handle, procVars>>

StopFromStarting(t) ==
  /\ pc[t] = "stopStarting"
  /\ \E res \in Results : UpdateStatus(camp[t], "STARTING", "STOPPING", res)
  /\ Goto(t, "cancel")
  /\ UNCHANGED <<running, cancelled, camp, arg, handle, procVars>>

StopCancel(t) ==
  /\ pc[t] = "cancel"
  /\ cancelled' = cancelled \cup {handle[t]}
  /\ Goto(t, "done")
  /\ UNCHANGED <<status, running, camp, arg, handle, procVars>>

-----------------------------------------------------------------------------
(* Shutdown (cli/serve.go, Engine.StopAll), process death and restart.     *)

NoHandlerLeft == \A r \in Requests : pc[r] \notin HandlerPC \cup StopPC

\* SIGINT / SIGTERM, or a server error: the API accepts no request any more.
ShutdownSignal ==
  /\ proc = "up"
  /\ proc' = "draining"
  /\ UNCHANGED <<status, running, cancelled, pc, camp, arg, handle, sweep, marked>>

\* apiSrv.Shutdown returns, drained or out of time, and StopAll copies the map.
\* Out of time, shutCtx is over too: StopAll's own updates all fail.
StopAllSnapshot ==
  /\ proc = "draining"
  /\ \/ NoHandlerLeft /\ proc' = "sweeping"
     \/ proc' = "expired"
  /\ sweep' = running
  /\ UNCHANGED <<status, running, cancelled, pc, camp, arg, handle, marked>>

StopAllMark(c) ==
  /\ proc \in {"sweeping", "expired"}
  /\ marked = {}
  /\ sweep[c] # NoRun
  /\ \/ /\ proc = "sweeping"
        /\ \E res \in Results : UpdateStatus(c, "RUNNING", "STOPPING", res)
     \/ proc = "expired" /\ UNCHANGED status
  /\ marked' = {c}
  /\ UNCHANGED <<running, cancelled, pc, camp, arg, handle, proc, sweep>>

StopAllCancel(c) ==
  /\ proc \in {"sweeping", "expired"}
  /\ c \in marked
  /\ cancelled' = cancelled \cup {sweep[c]}
  /\ sweep' = [sweep EXCEPT ![c] = NoRun]
  /\ marked' = {}
  /\ UNCHANGED <<status, running, pc, camp, arg, handle, proc>>

\* What every end of the process leaves: the status column.
ProcessGone ==
  /\ proc' = "down"
  /\ pc' = [r \in Requests |-> IF pc[r] = "idle" THEN "idle" ELSE "done"]
  /\ running' = [c \in Campaigns |-> NoRun]
  /\ sweep' = [c \in Campaigns |-> NoRun]
  /\ marked' = {}
  /\ cancelled' = {}
  /\ handle' = [t \in Stops |-> NoRun]
  /\ UNCHANGED <<status, camp, arg>>

\* serve returns after StopAll: it does not wait for the run goroutines.
Exit ==
  /\ proc \in {"sweeping", "expired"}
  /\ marked = {}
  /\ \A c \in Campaigns : sweep[c] = NoRun
  /\ ProcessGone

Crash == proc # "down" /\ ProcessGone

\* A new process: RecoverStuckCampaigns runs before the API listens.  A failed
\* List or UpdateStatus skips campaigns.
Restart ==
  /\ proc = "down"
  /\ proc' = "up"
  /\ \E skipped \in SUBSET Campaigns :
       /\ "lost" \notin Faults => skipped = {}
       /\ status' = [c \in Campaigns |->
                       IF status[c] \in Active /\ c \notin skipped THEN "STOPPED"
                                                                   ELSE status[c]]
  /\ UNCHANGED <<running, cancelled, pc, camp, arg, handle, sweep, marked>>

-----------------------------------------------------------------------------
StartStep(s) ==
  \/ StartClaim(s) \/ LoadSeeds(s) \/ Publish(s) \/ ToRunning(s)
  \/ BuildPlanner(s) \/ Abort(s) \/ Fail(s)

RunStep(s) ==
  RunEnd(s) \/ FinishFromRunning(s) \/ FinishFromStopping(s) \/ RunExit(s)

StopStep(t) ==
  StopLookup(t) \/ StopFromRunning(t) \/ StopFromStarting(t) \/ StopCancel(t)

Process ==
  \/ ShutdownSignal \/ StopAllSnapshot \/ Exit \/ Crash \/ Restart
  \/ \E c \in Campaigns : StopAllMark(c) \/ StopAllCancel(c)

Next ==
  \/ \E s \in Starts : \/ \E c \in Campaigns : StartRead(s, c)
                       \/ StartStep(s)
                       \/ RunStep(s)
  \/ \E t \in Stops : \/ \E c \in Campaigns : StopRead(t, c)
                      \/ StopStep(t)
  \/ Process

Spec == Init /\ [][Next]_vars

\* Goroutines are scheduled, database calls return, and a run ends: the API
\* refuses a configuration without max_tests or duration_sec, every request has
\* a timeout, and a cancelled context ends the loop.  Nothing is assumed of
\* clients, of signals, of crashes or of anyone restarting the server.
Fairness ==
  /\ \A s \in Starts : WF_vars(StartStep(s)) /\ WF_vars(RunStep(s))
  /\ \A t \in Stops : WF_vars(StopStep(t))

FairSpec == Spec /\ Fairness
-----------------------------------------------------------------------------
(* Properties.                                                             *)

OwnerPC == {"seeds", "publish", "toRunning", "plan", "abort", "fail",
            "gen", "finish", "finish2"}

\* The starts that answer for campaign c: they claimed it and have not settled it.
Owners(c) == {s \in Starts : camp[s] = c /\ pc[s] \in OwnerPC}

\* Every variable has its type.
TypeOK ==
  /\ status \in [Campaigns -> Status]
  /\ running \in [Campaigns -> Starts \cup {NoRun}]
  /\ cancelled \in SUBSET Starts
  /\ pc \in [Requests -> {"idle", "done"} \cup HandlerPC \cup RunPC \cup StopPC]
  /\ camp \in [Requests -> Campaigns \cup {NoRun}]
  /\ arg \in [Starts -> Status]
  /\ handle \in [Stops -> Starts \cup {NoRun}]
  /\ proc \in ProcPhase
  /\ sweep \in [Campaigns -> Starts \cup {NoRun}]
  /\ marked \in SUBSET Campaigns

\* A campaign is fuzzed by one run at a time: between the claim in StartCampaign
\* and the final status of runCampaign no second start gets in, whatever stops,
\* restarts of the campaign and failing updates happen meanwhile.
ExclusiveRun ==
  \A s, t \in Starts :
    pc[s] \in OwnerPC /\ pc[t] \in OwnerPC /\ camp[s] = camp[t] => s = t

\* While the server is up a campaign shown as STARTING or RUNNING has a start or
\* a run that will move it on: no path of StartCampaign or runCampaign leaves one
\* of these statuses behind when every update gets its answer.
NoOrphan ==
  \A c \in Campaigns :
    proc # "down" /\ status[c] \in {"STARTING", "RUNNING"} => Owners(c) # {}

\* An entry of the running map always belongs to a start that is still under way:
\* every path out of StartCampaign and runCampaign removes what it stored.
NoDeadHandle ==
  \A c \in Campaigns :
    running[c] # NoRun => /\ camp[running[c]] = c
                          /\ pc[running[c]] \in {"toRunning", "plan", "abort"} \cup RunPC

\* STOPPED is never a guess: whenever a campaign becomes STOPPED while the server
\* is up, the context of the run that reports it had been cancelled, by a stop or
\* by StopAll.  A status that reads STOPPING is not enough.
StoppedOnlyByCancel ==
  [][\A c \in Campaigns :
       status[c] # "STOPPED" /\ status'[c] = "STOPPED" /\ proc # "down"
         => \E s \in Owners(c) : s \in cancelled]_vars

\* The lifecycle as seen by every other client of the status column.
Abstract == INSTANCE CampaignStatus
              WITH claimed <- {c \in Campaigns : Owners(c) # {}},
                   serving <- proc # "down"

\* The handlers, goroutines and the running map implement CampaignStatus: one
\* claim at a time, statuses in order, only the claim's holder settles it.
ImplementsStatus == Abstract!Spec

\* STARTING and RUNNING end: the campaign reaches another status, or the process
\* is gone (and recovery takes over).
ActiveSettles ==
  \A c \in Campaigns :
    status[c] \in {"STARTING", "RUNNING"}
      ~> (status[c] \notin {"STARTING", "RUNNING"} \/ proc = "down")

\* A stop that finds the run in its loop takes effect: the campaign leaves
\* STOPPING for a status from which it can be started again.
StoppingRunSettles ==
  \A s \in Starts, c \in Campaigns :
    (pc[s] = "gen" /\ camp[s] = c /\ status[c] = "STOPPING")
      ~> (status[c] \in Terminal \/ proc = "down")

\* campaign-management.md draws STOPPING -> STOPPED as the only way out of
\* STOPPING and says that concurrent start and stop requests cannot race: every
\* STOPPING campaign should settle while the server lives.
StoppingSettles ==
  \A c \in Campaigns :
    status[c] = "STOPPING" ~> (status[c] \in Terminal \/ proc = "down")

\* engine.md calls the running map the authoritative source for whether a
\* campaign is running: a run in its loop should be in it.
RunningMapAuthoritative ==
  \A s \in Starts : pc[s] = "gen" => running[camp[s]] # NoRun

=============================================================================
