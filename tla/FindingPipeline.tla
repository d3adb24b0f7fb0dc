--------------------------- MODULE FindingPipeline ---------------------------
(***************************************************************************)
(* What happens to an anomaly: Worker.handleHit of every worker of a       *)
(* campaign's run (deduplication, creation, statistics, artifact,          *)
(* confirmation, minimisation) beside the two goroutines that group        *)
(* confirmed findings, the end of runCampaign and runFindingGroupingLoop.  *)
(* A run may be stopped or die between any two steps, and be started again.*)
(***************************************************************************)
EXTENDS FiniteSets, Naturals, Functions

CONSTANTS
  Workers,
  Findings,   \* identifiers uuid.New may draw; their number bounds creations
  Sigs,       \* signatures (Triager.Signature)
  Keys,       \* group keys (groupKey): type, mutation, endpoint, status range
  MaxGroup,   \* bound: group identifiers are 1..MaxGroup
  MaxFaults,  \* bound: statements and file writes that fail for no reason of ours
  None

ASSUME PipelineAssumption ==
  /\ None \notin Findings \cup Sigs \cup Keys \cup Workers \cup Nat
  /\ None \notin [sig : Sigs, key : Keys, by : Workers]
  /\ IsFiniteSet(Workers)
  /\ MaxGroup \in Nat
  /\ MaxFaults \in Nat

Groupers == {"final", "periodic"}

VARIABLES
  row,        \* row[f]: the finding's immutable columns, None before the INSERT
  status,     \* status[f]: UNCONFIRMED or CONFIRMED
  group,      \* group[f]: group_id
  files,      \* the findings with an artifact file
  arts,       \* arts[f]: rows in the table artifacts
  total,      \* campaigns.findings_total
  pc,         \* pc[w]: the next step of worker w
  hit,        \* hit[w]: the hit worker w handles
  cur,        \* cur[w]: the finding worker w created for it
  run,        \* the run of the campaign: "active" or "over"
  cancelled,  \* the run's context
  gpc,        \* gpc[g]: the next step of grouper g
  plan,       \* plan[g]: the pairs <<finding, group id>> g has still to write
  faults      \* failures so far, those of a cancelled context not counted

vars == <<row, status, group, files, arts, total, pc, hit, cur, run, cancelled, gpc, plan, faults>>
workerVars == <<pc, hit, cur>>
groupVars  == <<gpc, plan>>
dbVars     == <<row, status, group, files, arts, total>>

NoHit == [sig |-> None, key |-> None]
Hits  == [sig : Sigs, key : Keys]
Rows  == {f \in Findings : row[f] # None}

\* A statement or a file write fails: any may, while faults are left.
Fault == faults < MaxFaults /\ faults' = faults + 1

\* A statement on the run's context fails: for certain once it is cancelled.
Lost == (cancelled /\ UNCHANGED faults) \/ (~cancelled /\ Fault)
Live == ~cancelled /\ UNCHANGED faults

Init ==
  /\ row = [f \in Findings |-> None]
  /\ status = [f \in Findings |-> "UNCONFIRMED"]
  /\ group = [f \in Findings |-> None]
  /\ files = {}
  /\ arts = [f \in Findings |-> 0]
  /\ total = 0
  /\ pc = [w \in Workers |-> "next"]
  /\ hit = [w \in Workers |-> NoHit]
  /\ cur = [w \in Workers |-> None]
  /\ run = "active"
  /\ cancelled = FALSE
  /\ gpc = [g \in Groupers |-> "off"]
  /\ plan = [g \in Groupers |-> {}]
  /\ faults = 0

Goto(w, label) == pc' = [pc EXCEPT ![w] = label]

\* The end of handleHit.
Done(w) ==
  /\ pc' = [pc EXCEPT ![w] = "next"]
  /\ hit' = [hit EXCEPT ![w] = NoHit]
  /\ cur' = [cur EXCEPT ![w] = None]

-----------------------------------------------------------------------------
(* Worker.handleHit.                                                       *)

\* Mutant: the hit goes on although its signature exists.
CheckDedup_Skipped(w) ==
  /\ run = "active" /\ ~cancelled
  /\ pc[w] = "next"
  /\ \E h \in Hits : hit' = [hit EXCEPT ![w] = h]
  /\ Goto(w, "create")
  /\ UNCHANGED <<dbVars, cur, run, cancelled, groupVars, faults>>

\* ExistsBySignature.  A known signature, an error or a context that is over ends
\* the hit here: the worker stays where it is.
CheckDedup(w) ==
  /\ run = "active" /\ ~cancelled
  /\ pc[w] = "next"
  /\ \E h \in Hits :
       /\ \A f \in Rows : row[f].sig # h.sig
       /\ hit' = [hit EXCEPT ![w] = h]
  /\ Goto(w, "create")
  /\ UNCHANGED <<dbVars, cur, run, cancelled, groupVars, faults>>

\* Mutant: an error of the INSERT does not end the hit.
CreateFinding_NoReturn(w) ==
  /\ pc[w] = "create"
  /\ \/ /\ Live
        /\ \E f \in Findings \ Rows :
             /\ row' = [row EXCEPT ![f] = [sig |-> hit[w].sig, key |-> hit[w].key, by |-> w]]
             /\ cur' = [cur EXCEPT ![w] = f]
     \/ Lost /\ UNCHANGED <<row, cur>>
  /\ Goto(w, "stats")
  /\ UNCHANGED <<status, group, files, arts, total, hit, run, cancelled, groupVars>>

\* FindingStore.Create: no unique index backs the check above.
CreateFinding(w) ==
  /\ pc[w] = "create"
  /\ \/ /\ Live
        /\ \E f \in Findings \ Rows :
             /\ row' = [row EXCEPT ![f] = [sig |-> hit[w].sig, key |-> hit[w].key, by |-> w]]
             /\ cur' = [cur EXCEPT ![w] = f]
        /\ Goto(w, "stats")
        /\ UNCHANGED hit
     \/ Lost /\ Done(w) /\ UNCHANGED row
  /\ UNCHANGED <<status, group, files, arts, total, run, cancelled, groupVars>>

\* Mutant: a retry counts the finding twice.
IncrementStats_Twice(w) ==
  /\ pc[w] = "stats"
  /\ \/ Live /\ total' \in {total + 1, total + 2}
     \/ Lost /\ UNCHANGED total
  /\ Goto(w, "file")
  /\ UNCHANGED <<row, status, group, files, arts, hit, cur, run, cancelled, groupVars>>

\* IncrementStats(ctx, 0, 1); a failure is only logged.
IncrementStats(w) ==
  /\ pc[w] = "stats"
  /\ \/ Live /\ total' = total + 1
     \/ Lost /\ UNCHANGED total
  /\ Goto(w, "file")
  /\ UNCHANGED <<row, status, group, files, arts, hit, cur, run, cancelled, groupVars>>

\* What follows writeArtifact: confirmation, or the end of the hit.
AfterArtifact(w) ==
  IF pc[w] \in {"file", "artifact"} THEN Goto(w, "confirm") /\ UNCHANGED <<hit, cur>> ELSE Done(w)

\* Mutant: the row is inserted although the file could not be written.
WriteFile_Ignored(w) ==
  /\ pc[w] \in {"file", "file2"}
  /\ \/ files' = files \cup {cur[w]} /\ UNCHANGED faults
     \/ Fault /\ UNCHANGED files
  /\ Goto(w, IF pc[w] = "file" THEN "artifact" ELSE "artifact2")
  /\ UNCHANGED <<row, status, group, arts, total, hit, cur, run, cancelled, groupVars>>

\* writeArtifact, first half: the temporary file and its rename.  The context plays
\* no part; a failure returns before the row.
WriteFile(w) ==
  /\ pc[w] \in {"file", "file2"}
  /\ \/ /\ files' = files \cup {cur[w]}
        /\ Goto(w, IF pc[w] = "file" THEN "artifact" ELSE "artifact2")
        /\ UNCHANGED <<hit, cur, faults>>
     \/ Fault /\ UNCHANGED files /\ AfterArtifact(w)
  /\ UNCHANGED <<row, status, group, arts, total, run, cancelled, groupVars>>

\* writeArtifact, second half: ArtifactStore.Create, a second row the second time.
CreateArtifact(w) ==
  /\ pc[w] \in {"artifact", "artifact2"}
  /\ \/ Live /\ arts' = [arts EXCEPT ![cur[w]] = @ + 1]
     \/ Lost /\ UNCHANGED arts
  /\ AfterArtifact(w)
  /\ UNCHANGED <<row, status, group, files, total, run, cancelled, groupVars>>

\* Mutant: the status is written with a background context.
Confirm_Background(w) ==
  /\ pc[w] = "confirm"
  /\ \/ status' = [status EXCEPT ![cur[w]] = "CONFIRMED"] /\ Goto(w, "minimize") /\ UNCHANGED <<hit, cur, faults>>
     \/ UNCHANGED <<status, faults>> /\ Done(w)
  /\ UNCHANGED <<row, group, files, arts, total, run, cancelled, groupVars>>

\* Triager.Confirm and UpdateStatus.  Not confirmed (or no confirmation asked for,
\* or cancelled) ends the hit.  When only the update fails the worker goes on with
\* the finding it believes CONFIRMED.
Confirm(w) ==
  /\ pc[w] = "confirm"
  /\ \/ /\ \/ Live /\ status' = [status EXCEPT ![cur[w]] = "CONFIRMED"]
           \/ Lost /\ UNCHANGED status
        /\ Goto(w, "minimize")
        /\ UNCHANGED <<hit, cur>>
     \/ UNCHANGED <<status, faults>> /\ Done(w)
  /\ UNCHANGED <<row, group, files, arts, total, run, cancelled, groupVars>>

\* Session and body minimisation: a smaller session is written as an artifact again.
Minimize(w) ==
  /\ pc[w] = "minimize"
  /\ \/ Goto(w, "file2") /\ UNCHANGED <<hit, cur>>
     \/ Done(w)
  /\ UNCHANGED <<dbVars, run, cancelled, groupVars, faults>>

-----------------------------------------------------------------------------
(* The run.                                                                *)

Stop ==
  /\ run = "active"
  /\ ~cancelled
  /\ cancelled' = TRUE
  /\ UNCHANGED <<dbVars, workerVars, run, groupVars, faults>>

\* wg.Wait has returned and the final status is written: the campaign may be
\* started again while this goroutine still groups.  Bound: one such goroutine.
EndRun ==
  /\ run = "active"
  /\ \A w \in Workers : pc[w] = "next"
  /\ gpc["final"] = "off"
  /\ run' = "over"
  /\ gpc' = [gpc EXCEPT !["final"] = "list"]
  /\ UNCHANGED <<dbVars, workerVars, cancelled, plan, faults>>

StartRun ==
  /\ run = "over"
  /\ run' = "active"
  /\ cancelled' = FALSE
  /\ UNCHANGED <<dbVars, workerVars, groupVars, faults>>

\* The process dies (at the end of a shutdown too); tables and files remain.
Crash ==
  /\ run' = "over"
  /\ pc' = [w \in Workers |-> "next"]
  /\ hit' = [w \in Workers |-> NoHit]
  /\ cur' = [w \in Workers |-> None]
  /\ gpc' = [g \in Groupers |-> "off"]
  /\ plan' = [g \in Groupers |-> {}]
  /\ UNCHANGED <<dbVars, cancelled, faults>>

-----------------------------------------------------------------------------
(* Grouping.                                                               *)

Confirmed == {f \in Rows : status[f] = "CONFIRMED"}
UsedIds   == {group[f] : f \in Findings} \cup {p[2] : p \in plan["final"] \cup plan["periodic"]}
FreshIds  == (1..MaxGroup) \ UsedIds

\* n fresh identifiers.  Only their equality matters, so the smallest will do.
Draw(n) == {i \in FreshIds : Cardinality({j \in FreshIds : j < i}) < n}

\* Mutant: one group id for the whole pass.
GroupPlans_OneId(fs) == {{<<f, id>> : f \in fs} : id \in Draw(1)}

\* GroupFindings and a uuid for each of its groups.
GroupPlans(fs) ==
  LET keys == {row[f].key : f \in fs} IN
  {{<<f, ids[row[f].key]>> : f \in fs} : ids \in Injection(keys, Draw(Cardinality(keys)))}

\* The end of runCampaign: every CONFIRMED finding of the campaign, grouped or not.
ListFinal ==
  /\ gpc["final"] = "list"
  /\ \/ /\ Confirmed # {}
        /\ \E p \in GroupPlans(Confirmed) : plan' = [plan EXCEPT !["final"] = p]
        /\ gpc' = [gpc EXCEPT !["final"] = "assign"]
        /\ UNCHANGED faults
     \/ /\ \/ Confirmed = {} /\ UNCHANGED faults
           \/ Fault
        /\ gpc' = [gpc EXCEPT !["final"] = "off"]
        /\ UNCHANGED plan
  /\ UNCHANGED <<dbVars, workerVars, run, cancelled>>

\* Mutant: the periodic pass takes unconfirmed findings too.
ListPeriodic_AllStatuses ==
  LET ungrouped == {f \in Rows : group[f] = None} IN
  /\ gpc["periodic"] = "off"
  /\ Cardinality(ungrouped) >= 2
  /\ \E p \in GroupPlans(ungrouped) : plan' = [plan EXCEPT !["periodic"] = p]
  /\ gpc' = [gpc EXCEPT !["periodic"] = "assign"]
  /\ UNCHANGED <<dbVars, workerVars, run, cancelled, faults>>

\* A tick of runFindingGroupingLoop: the CONFIRMED findings without a group, two
\* or more.
ListPeriodic ==
  LET ungrouped == {f \in Confirmed : group[f] = None} IN
  /\ gpc["periodic"] = "off"
  /\ Cardinality(ungrouped) >= 2
  /\ \E p \in GroupPlans(ungrouped) : plan' = [plan EXCEPT !["periodic"] = p]
  /\ gpc' = [gpc EXCEPT !["periodic"] = "assign"]
  /\ UNCHANGED <<dbVars, workerVars, run, cancelled, faults>>

\* UpdateFindingGroup, one statement per finding, in the order of a Go map.
AssignGroup(g) ==
  /\ gpc[g] = "assign"
  /\ \E p \in plan[g] :
       /\ \/ group' = [group EXCEPT ![p[1]] = p[2]] /\ UNCHANGED faults
          \/ Fault /\ UNCHANGED group
       /\ plan' = [plan EXCEPT ![g] = @ \ {p}]
       /\ gpc' = [gpc EXCEPT ![g] = IF plan[g] = {p} THEN "off" ELSE "assign"]
  /\ UNCHANGED <<row, status, files, arts, total, workerVars, run, cancelled>>

-----------------------------------------------------------------------------
WorkerStep(w) ==
  \/ CheckDedup(w) \/ CreateFinding(w) \/ IncrementStats(w) \/ WriteFile(w)
  \/ CreateArtifact(w) \/ Confirm(w) \/ Minimize(w)

Next ==
  \/ \E w \in Workers : WorkerStep(w)
  \/ Stop \/ EndRun \/ StartRun \/ Crash
  \/ ListFinal \/ ListPeriodic
  \/ \E g \in Groupers : AssignGroup(g)

Spec == Init /\ [][Next]_vars
-----------------------------------------------------------------------------
(* Properties.                                                             *)

\* Every variable has its type; a worker past the INSERT holds a row.
TypeOK ==
  /\ row \in [Findings -> {None} \cup [sig : Sigs, key : Keys, by : Workers]]
  /\ status \in [Findings -> {"UNCONFIRMED", "CONFIRMED"}]
  /\ group \in [Findings -> 1..MaxGroup \cup {None}]
  /\ files \in SUBSET Findings
  /\ arts \in [Findings -> Nat]
  /\ total \in Nat
  /\ pc \in [Workers -> {"next", "create", "stats", "file", "artifact", "confirm",
                         "minimize", "file2", "artifact2"}]
  /\ hit \in [Workers -> Hits \cup {NoHit}]
  /\ cur \in [Workers -> Findings \cup {None}]
  /\ \A w \in Workers : pc[w] # "next" <=> hit[w] # NoHit
  /\ \A w \in Workers : IF pc[w] \in {"next", "create"} THEN cur[w] = None ELSE cur[w] \in Rows
  /\ run \in {"active", "over"}
  /\ cancelled \in BOOLEAN
  /\ gpc \in [Groupers -> {"off", "list", "assign"}]
  /\ plan \in [Groupers -> SUBSET (Findings \X (1..MaxGroup))]
  /\ faults \in 0..MaxFaults

\* What ExistsBySignature does guarantee: duplicates of a signature come from
\* different workers that raced, so a signature has at most one finding per
\* worker, over any number of runs of the campaign.
OnePerWorker ==
  \A f, g \in Rows : row[f].sig = row[g].sig /\ row[f].by = row[g].by => f = g

\* findings_total never runs ahead of the findings, whatever is cancelled or lost.
TotalWithinFindings ==
  total + Cardinality({w \in Workers : pc[w] = "stats"}) <= Cardinality(Rows)

\* A row in artifacts always has its file, whenever the process dies.
ArtifactHasFile ==
  \A f \in Findings : arts[f] > 0 => f \in files

\* A finding shown as CONFIRMED can be examined and reproduced: a stop or a crash
\* never leaves it without an artifact, because every later statement of its
\* worker fails once the context is over.  (A statement or a write that fails for
\* another reason does: the worker only logs it and goes on to confirm.)
ConfirmedHasArtifact ==
  faults = 0 => \A f \in Rows : status[f] = "CONFIRMED" => arts[f] > 0

\* However the two groupers interleave, a group never mixes group keys, and only
\* CONFIRMED findings are in one.
GroupsAgree ==
  /\ \A f, g \in Rows : group[f] # None /\ group[f] = group[g] => row[f].key = row[g].key
  /\ \A f \in Findings : group[f] # None => f \in Confirmed

\* engine.md: "Two workers detecting the same anomaly on different exchanges
\* produce only one finding."
NoDuplicateFinding ==
  \A f, g \in Rows : row[f].sig = row[g].sig => f = g

=============================================================================
