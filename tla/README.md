# TLA+ models of ffuuzz

ffuuzz is an HTTP API fuzzer: a proxy records traffic into PostgreSQL, an engine
replays mutated recordings against the target in campaigns, and a triage stage
turns anomalies into findings. These modules specify the parts of it that run
concurrently and share state, check them with TLC and prove the most important
results with TLAPS. Paths below are relative to the repository; `engine.go:180`
means `src/internal/engine/engine.go`, line 180.

## 1. Inventory

| Component | State | Operations | Interacts through |
|---|---|---|---|
| Campaign lifecycle (`engine/engine.go`, `api/campaigns.go`, `db/campaigns.go`, `cli/serve.go`) | `campaigns.status`, `Engine.running`, one context per run | start and stop handlers, StartCampaign, runCampaign, StopCampaign, StopAll, RecoverStuckCampaigns | compare-and-swap on the status column, `Engine.mu`, context cancellation |
| Reproduction jobs (`engine/reproduce.go`, `api/findings.go`, `db/findings.go`) | `reproduce_status`, `reproduce_enqueued_at`, `reproduce_runs`; the worker's current job | reproduceFinding, ClaimNextReproduceJob, processJob, failJob | the findings table as a queue; `reproduceCancel`, `reproduceWG` |
| Finding pipeline (`engine/worker.go`, `triage/triage.go`, `db/artifacts.go`) | findings, artifacts, artifact files, `findings_total`, `group_id` | handleHit, writeArtifact, Confirm, minimisers, both grouping goroutines | unsynchronised SQL statements on the run's context |
| Task pool (`engine/engine.go:239-391`, `worker.go:271-284`, `ratelimit.go`) | task channel, token bucket, wait group, `testsGenerated` | generator loop, Worker.Run, Acquire, Close | bounded channels, context, deadline |
| Endpoint planner and trackers (`planner.go`, `feedback.go`, `intensity.go`) | per-key counts and rewards | Pick, Reward, RecordFinding, NormalizedWeights | mutexes, shared by generator and workers |
| Recording store and endpoint merging (`endpoint/`, `recorder/`, `db/recordings.go`) | recordings, exchanges, one trie per origin | Record, FindOrAppend, ObservePath, executeMerge, drainCollapses, RebuildFromDB | trie mutex, background goroutines, transactions |
| Editing and deleting (`api/recordings.go`, `api/campaigns.go`) | campaign_recordings, configuration | deleteRecording, DeleteByPrefix, editCampaign, addRecordings | check on the status, then a second statement |
| Proxy and certificates (`mitm/mitm.go`, `store/store.go`) | LRU of leaves, root on disk, listeners | GetCertFor, loadOrCreateRoot, handleCONNECT | mutex, singleflight, two files |
| Triage algorithms (`triage/triage.go`) | the session at hand | Confirm, MinimizeSession, the four body minimisers, Signature, groupKey | called by the pipeline |
| Replayer, corpus, anomaly detection (`replayer/`, `corpus/`, `anomaly/`) | cookies and variables of one replay | ReplaySession, ComputeBaseline, Detect | called by workers |
| Mutation operators (`mutate/`) | none | SeqMutator, Pipeline.Mutate and the operators | called by workers, weighted by the intensity tracker |
| Progress stream, HTTP API, configuration, LLM triage, web | none shared | request handlers, parsing | read the stores |

What is hard here:

* a run outlives the request that started it, and its identity in the code is the
  campaign id only: entries of the running map, cancel functions and statuses of
  two successive runs can be confused;
* every status change is one SQL statement and may fail, be lost with its request's
  context, or commit with its reply lost;
* the process can die between any two statements; only the status column is
  repaired at the next start;
* check-then-write pairs (409 check and enqueue, ExistsBySignature and Create,
  active-campaign check and delete) are separate statements;
* a collapse of the trie and the merge of its recordings are separate steps, the merge in
  a goroutine of its own that may fail, while recording goes on with the new trie; the
  merge in turn looks for active campaigns in one statement and renames in another;
* what the planner counts is decided when a task is generated and rewarded when it
  has been replayed, several tasks later and by other goroutines;
* minimisation puts a session together from hundreds of partial removals, any of which
  a cancellation may cut short;
* shutdown overlaps with handlers that did not drain in time, with runs, with
  the reproduce worker and with the grouping loop.

What makes each component correct, and the properties that say so, is in
sections 3 to 9; the hazards, with their source lines, are in `PROJECT.json`.

## 2. Modules

| Module | What it is |
|---|---|
| `CampaignStatus` | abstract specification: a campaign is claimed by one start at a time, follows the lifecycle, and is settled only by the claim's holder |
| `CampaignLifecycle` | handlers, engine, running map, shutdown, crash, restart, one action per database call and per critical section; implements `CampaignStatus` |
| `MCCampaignLifecycle` | symmetry of requests and campaigns for the run with faults |
| `CampaignLifecycle_proofs` | the theorems about `CampaignLifecycle` |
| `ReproduceQueue` | the reproduction queue, its handler and its worker |
| `ReproduceQueue_proofs` | the theorems about `ReproduceQueue` |
| `FindingPipeline` | handleHit of several workers, artifacts and both grouping goroutines |
| `MCFindingPipeline` | symmetry of workers, findings, signatures and keys |
| `FindingPipeline_proofs` | the theorems about `FindingPipeline` |
| `TaskPool` | the loop of a run: generator, limiter, timer, task channel, workers, wait group; `CampaignLifecycle` takes it as one step |
| `TaskPool_proofs` | the theorems about `TaskPool` |
| `EndpointMerge` | recording, the endpoint trie, its collapses and the merges that follow them |
| `MCEndpointMerge` | paths and segments of the instance, symmetry of exchanges |
| `EndpointMerge_proofs` | the theorems about `EndpointMerge` |
| `FoldLemmas` | induction over finite sets; sums, folds and concatenations as the community modules define them |
| `CampaignEdit` | creating, editing, extending campaigns and deleting recordings against starts and runs; instantiates `CampaignStatus` for the status column |
| `MCCampaignEdit` | selections, symmetry of campaigns, recordings and handlers |
| `CampaignEdit_proofs` | the theorems about `CampaignEdit` |
| `Planner` | the endpoint planner and the seed tracker: state and methods, no next-state relation |
| `Triage` | confirmation and minimisation of one finding per worker, replay by replay: state and actions |
| `FuzzTask` | the contents of a run: composes `Planner` and `Triage` with the generator and the workers |
| `MCFuzzTask` | recordings, responses and the five configurations of the instance |
| `FuzzTask_proofs` | the lemmas about `Triage`, then the theorems about `FuzzTask` |

`CampaignStatus` is the joint between the lifecycle and what depends on it:
`CampaignLifecycle` is shown to implement it, and `CampaignEdit` uses it instead of the
detailed module. `TaskPool`, `FuzzTask` and `FindingPipeline` are three views of one
loop: when tasks move, what they are, and what a worker writes about them.

Operators whose name has a suffix after an underscore (`StartClaim_NoCompare`) and
whose comment starts with "Mutant" are not part of any specification: each is a
plausible bug in the definition below it, and substituting it there breaks the
property `PROJECT.json` names.

## 3. Campaign lifecycle

### Correspondence

A start request, the context it creates (`engine.go:126`) and the goroutine it
spawns (`engine.go:165`) share one identity, an element of `Starts`. `running[c]`
is the start whose cancel function the map holds, so that "which run does this
entry belong to", which the code cannot tell, can be asked.

| Action | Code |
|---|---|
| `StartRead` | GetByID and the switch of startCampaign; a refused request ends |
| `StartClaim` | read status to STARTING by compare-and-swap |
| `LoadSeeds` | GetSeeds, ComputeBaseline, failCampaign(STARTING) |
| `Publish` | the cancel function enters the map under `Engine.mu` |
| `ToRunning`, `BuildPlanner` | STARTING to RUNNING, the planner, and what each failure does |
| `Abort`, `Fail` | cancel and delete from the map; then failCampaign |
| `RunEnd` | the loop and the workers are over, the final status is chosen from `ctx.Err()` |
| `FinishFromRunning`, `FinishFromStopping` | the two final updates |
| `RunExit` | the deferred delete by campaign id |
| `StopRead`, `StopLookup`, `StopFromRunning`, `StopFromStarting`, `StopCancel` | stopCampaign and StopCampaign; the cancel function is used after the lock |
| `ShutdownSignal`, `StopAllSnapshot`, `StopAllMark`, `StopAllCancel`, `Exit` | the shutdown sequence of `serve.go:146-199` |
| `Crash`, `Restart` | process death; RecoverStuckCampaigns before the API listens |

`UpdateStatus` is the compare-and-swap of `db/campaigns.go:205` with its three
results: it took effect, it found another status, or it reported an error. What an
error may have done is the constant `Faults`: `"lost"`, nothing (connection gone,
request context over), or `"applied"`, the update is in the table. `StopAllSnapshot`
to phase `"expired"` is apiSrv.Shutdown running into its timeout: handlers go on
and every update of StopAll fails, because both use the same expired context.
In phase `"sweeping"` they have drained.

### Runs

| Run | Instance | Question |
|---|---|---|
| `lifecycle_protocol` | one campaign, two starts, two stops, no faults, fairness | one run at a time (`ExclusiveRun`), no orphaned STARTING or RUNNING (`NoOrphan`), refinement of `CampaignStatus` (`ImplementsStatus`); STARTING and RUNNING end (`ActiveSettles`); a stop of a run in its loop settles (`StoppingRunSettles`) |
| `lifecycle_faults` | two campaigns, two starts, one stop, both kinds of fault | no dead entry in the map (`NoDeadHandle`), STOPPED only by a cancelled run (`StoppedOnlyByCancel`) |
| `lifecycle_stopping` | one campaign, two starts, one stop, fairness | finding: STOPPING for ever |
| `lifecycle_map` | as above, safety only | finding: a live run without an entry |

Bounds. The bugs of this protocol are confusions between a run and its successor,
so two starts that overlap are needed; one
stop with a stale cancel function and one in time make two. A third start meets what
two can leave behind, which the theorems cover. Campaigns share only
the process and the map, whose entries are independent: two campaigns are enough to
see StopAll between them. Every request is used once, which bounds the state space
without any counter. The proofs cover all other numbers.

Fairness (`Fairness`): weak fairness of each start's, run's and stop's steps. The
Go scheduler runs ready goroutines, database calls return, and a run ends, because
`validateCampaignConfig` (`api/campaigns.go:340`) refuses a configuration with
neither `max_tests` nor `duration_sec`, every replayed request has a timeout, and
both loops watch the context (`StopEnds` and `LimitsEnd` of section 6 check that
this is enough). Clients, signals, crashes, restarts and StopAll are
not assumed to happen or to be fast; liveness is therefore "or the process is
gone". Deadlock is not checked: when every request has been used and the server is
left alone, nothing happens any more.

`ExclusiveRun`, `NoOrphan` and `ImplementsStatus` need assumptions on faults. With
`"applied"` a run's final update can commit while the engine believes it failed;
the run then tries again from STOPPING while a second start already holds the
campaign, and could settle that start's STOPPING. With `"lost"` STARTING and
RUNNING are left behind until the restart (failCampaign uses the same dead
context). Both are what the code does, not artefacts.

### Findings

* `RunningMapAuthoritative` fails: `engine.md:258` calls the running map the
  authoritative source for whether a campaign is running. The deferred
  `delete(e.running, campaignID)` of a run that already wrote its final status
  removes the entry of its successor, which can then neither be stopped nor be
  swept by StopAll.
* `StoppingSettles` fails: `campaign-management.md:180` says start and stop cannot
  race. A stop between the publication of the cancel function and the update to
  RUNNING (or before the planner fails) leaves STOPPING with nobody to end it.

### Proofs (`CampaignLifecycle_proofs`)

For every set of campaigns and requests:

| Theorem | Assumes | Says |
|---|---|---|
| `TypeCorrect` | nothing on faults | `TypeOK` |
| `NoDeadHandleHolds` | nothing on faults | `NoDeadHandle` |
| `StoppedOnlyByCancelHolds` | nothing on faults | `StoppedOnlyByCancel` |
| `ExclusiveRunHolds` | no `"applied"` | `ExclusiveRun` |
| `NoOrphanHolds` | no faults | `NoOrphan` |
| `LifecycleImplementsStatus` | no faults | `ImplementsStatus` |

`TypeInv` strengthens the type invariant by `RequestOK` (a request under way names a
campaign and stays on the labels of its kind), `HandleOK` (a cancel function about
to be called exists), `ArgOK` (the pending argument of UpdateStatus is one the code
can pass) and `DownOK` (no process, nothing under way). `NoDeadHandle` is inductive
on top of it: an entry is removed before its start leaves the labels that own one.
`CancelSeen` (a run about to report STOPPED has seen its context cancelled) gives
`StoppedOnlyByCancel`.

`ExclusiveRun` is not inductive: nothing in it keeps a second claim out.
`OwnerStatus` says what an owner may rely on, namely that its campaign shows the
status its label implies, or STOPPING. A campaign with an owner is then never
startable and every other claim's compare-and-swap fails. A run that has written a
terminal status is no owner any more, which is where `"applied"` would break the
step. `NoOrphan` further needs `FinishStopping`: the first of the two final updates
fails only because of a stop, so the second one cannot.

The refinement maps `claimed` to the campaigns with an owner and `serving` to "the
process is not down". Each action is one abstract step or a stutter;
`ClaimedAdd`, `ClaimedRemove` and `ClaimedSame` say what a step does to `claimed`,
and exclusivity is what makes it lose its campaign when the one owner settles.

## 4. Reproduction jobs

`ReadFinding` is the 409 check of reproduceFinding and `Enqueue` its second
statement, an UPDATE that looks at nothing. `older` orders the waiting findings by
`reproduce_enqueued_at` without clocks. `ClaimJob` is the single UPDATE ... WHERE
id = (SELECT ... ORDER BY ... FOR UPDATE SKIP LOCKED); its reply may be lost.
`LoadArtifact`, `ReplayOnce`, `WriteVerdict` and `FailJob` are processJob and
failJob. The worker's context derives from the signal context, so `ShutdownSignal`
cancels it at once, and `Exit` waits for it as `StopAll` does. Writing the status
with a cancelled context does nothing. A refused request (404, 409, 422) changes
nothing and is no step.

Run `reproduce_queue`: two findings, two handlers that are reused for ever, up to
two replays. Two findings make an order; two handlers are what the race behind the
409 check needs; the number of replays only matters for "the loop ends and ends in
time". `Faults = {"lost"}`: each statement of the worker may fail, and the reply of a
claim may get lost with the claim in the table. Fairness: the worker alone (its goroutine
is scheduled, the ticker fires, each replay has a timeout, each database call returns,
with an error or without). Handlers may enqueue for ever:
`EnqueuedLeaves` says that nobody starves all the same. `ShutdownNotBlocked` covers the
unbounded `reproduceWG.Wait`, `NoEarlyVerdict` the reader of a finding that is being
replayed. Deadlock is checked.

`JobSettles` says that a finding that shows RUNNING stops doing so, or was abandoned.
RUNNING is a state only the worker ends, and it writes the end of a job once, so
it stays for good after four events: the claim's reply is lost, the last statement
fails, it finds its context cancelled, or the process dies. The history
variable `abandoned` collects the findings these happen to and forgets them at the next
status written. The property is therefore about everything else: each of the error
paths of processJob ends in a status, and so does each replay.

Run `reproduce_accepted` is a finding: of two requests that pass the 409 check
together the second one's job, answered with 202, is overwritten by the verdict of
the first (`AcceptedIsPickedUp`).

`ReproduceQueue_proofs` proves `TypeOK`, `NoEarlyVerdict` and the safety side of
`JobSettles` for every set of findings and requests, every number of replays and any
faults: `RunningHeldHolds` says that a finding shows RUNNING only while the worker has it
or after one of the four events. The strengthening is `JobOK`:
the worker holds a job exactly on the labels of processJob, and a process that is
down has no worker; without the latter, `Restart` could find a job on its hands.
`LeaveOrder` is the lemma about the queue: a finding that leaves it leaves the
order, and the others stay in it.

That an abandoned finding recovers is not a property: no document promises it, nothing
resets the column at the next start, and the API refuses the finding with 409.
`EnqueuedLeaves` and `ShutdownNotBlocked` except a process that is gone.

## 5. Finding pipeline

Each worker walks through handleHit: `CheckDedup`, `CreateFinding`,
`IncrementStats`, `WriteFile`, `CreateArtifact`, `Confirm`, `Minimize` and, after a
successful minimisation, `WriteFile` and `CreateArtifact` once more. A finding's
signature and group key are members of small sets. Statements run on the run's
context: once `cancelled` they have no effect, but the file write does, and the
worker goes on through the rest of handleHit as the code does. `EndRun` is wg.Wait
and the final status; after it the campaign may be started again (`StartRun`) while
the old goroutine still groups (`ListFinal`, `AssignGroup("final")`). `ListPeriodic`
and `AssignGroup("periodic")` are the 15-second loop of `serve.go`. `Crash` keeps
tables and files.

Run `finding_pipeline`: two workers, two findings, two signatures, two group keys
and one failing statement or write. Two of each is what each property relates
(two workers that race on a signature, two findings with one signature or one
group, two keys that a group could mix). Group identifiers are small numbers,
drawn as the smallest ones not in use, since only their equality matters; six are
never exhausted. Deadlock is checked.

| Property | Says |
|---|---|
| `OnePerWorker` | a signature has at most one finding per worker, over any number of runs: what the check before the INSERT does guarantee |
| `TotalWithinFindings` | `findings_total` never runs ahead of the findings |
| `ArtifactHasFile` | no row in artifacts without its file, whatever dies or fails |
| `ConfirmedHasArtifact` | without failing writes, a CONFIRMED finding has an artifact, whenever the run is stopped or the process dies |
| `GroupsAgree` | however the two grouping goroutines interleave, a group has one key and confirmed members only |

`ConfirmedHasArtifact` holds because a context that is over stays over: the status
update after a cancelled artifact row fails too. With a failing write it does not
hold (errors are logged and the worker goes on to confirm), hence its condition.

Run `finding_duplicates` is a finding: `engine.md:290` says two workers produce only
one finding for one anomaly; ExistsBySignature and Create are two statements and
the migrations have no unique index on them.

`FindingPipeline_proofs` proves all six for every finite set of workers and any sets of
findings, signatures and keys, and any number of faults. `StepGrows` is the lemma the
rest leans on: rows do not change or go, artifacts do not become fewer, a CONFIRMED
finding stays one. None of the properties is inductive by itself:

| Theorem | Strengthened by |
|---|---|
| `PipelineOnePerWorker` | `Checked`: between its check and its INSERT a worker has no finding of that signature |
| `PipelineArtifactHasFile` | `FileFirst`: a worker about to insert the artifact has written the file |
| `PipelineConfirmedHasArtifact` | `ConfirmLate`: in a run without failures that is not cancelled, a worker about to confirm has its artifact, and a run that is over has no workers left to confirm anything |
| `PipelineTotalWithinFindings` | `CountInv`: there are finitely many findings, so that the workers between INSERT and count can be counted |
| `PipelineGroupsAgree` | `GroupInv`: the pairs a grouper has still to write agree with each other and with those written, because the identifiers of a pass are fresh |

Simplifications: one campaign (the periodic loop groups across campaigns; group keys
do not name the campaign), uniform failures instead of kinds of errors, at most one
old goroutine grouping behind a new run.

## 6. Task pool

`TaskPool` opens the step `RunEnd` of the lifecycle. The channel is FIFO and a task's
content does not matter here, so it is two counters: `sent` (the code's
`testsGenerated`) and `received`; the tasks between them are buffered.

| Action | Code |
|---|---|
| `CheckLimits`, `CheckDeadline`, `Acquire`, `Send` | one iteration of the generator, one action per channel it looks at (`engine.go:327-386`, `ratelimit.go:50`) |
| `CloseChannel` | each return of the generator, with its deferred close |
| `Receive`, `Leave` | the select of `Worker.Run`; either case when both are ready |
| `Replay` | processTask up to the counter: it gives up only when ReplaySession sees the context over |
| `Count` | IncrementStats on the run's context, its error logged only |
| `Refill`, `TimerFires`, `Cancel`, `Finish` | the ticker, `time.NewTimer`, the cancel function, wg.Wait with the choice of the final status |

`lost` and `late` are history variables: statements that failed in a run not
cancelled, tasks put into the channel after the cancellation. `max_tests` and
`duration_sec` are chosen in the initial state, at least one of them set, as
`validateCampaignConfig` demands.

Run `task_pool`: two workers (channel of four), a bucket of one token, `max_tests`
absent, 1 or 7. Seven is four buffered tasks, two in the workers' hands and one the
generator cannot hand over, the first number at which everybody can wait for
everybody. `MaxSent` (7) bounds the tasks of a run without `max_tests`: by then its
timer has fired or it is stopped. `MaxLost` (1) bounds failed statements. Fairness: the
goroutines run, the ticker ticks, a replay ends (each request has
`req_timeout_ms`); neither a stop nor the timer is promised, so that `StopEnds` does
not lean on the timer. Deadlock is checked.

| Property | Says |
|---|---|
| `TestsWithinLimit` | tests counted, lost or in a worker's hands stay within the tasks handed out, these within `max_tests` |
| `FinishedIsComplete` | FINISHED: a limit was reached, the channel is empty, every task is counted unless its statement failed |
| `AtMostOneLate` | a stop lets at most one more task into the channel |
| `StopEnds`, `LimitsEnd` | a stopped run, and a run at its limit, ends |

A stopped run makes no such promise about its tasks: buffered ones are dropped, a
session in progress is given up between two exchanges, and a test completed after
the stop is not counted, as its statement uses the cancelled context. A stop
that arrives when the last task is already done still yields STOPPED.

`TaskPool_proofs` proves the four safety properties for every finite set of workers
and every rate and limits. What ties the counters together is how many workers hold
a task (`BusyGrows`, `BusyShrinks`, `BusyStays`). The inductive invariant `PoolInv`
adds `Accounted` (an equation until a stop, an inequality after it), `BelowLimit`
(past its head the loop is strictly below the limit), `Unstopped` (why a worker has
left, why the generator has ended), `Late` and `Quiet` (after the end nothing moves,
so that a late cancellation cannot spoil `FinishedIsComplete`).

## 7. Recordings and endpoint merges

`EndpointMerge` has one origin: tries are kept per origin, and the unique index of the
table is on origin and path, so different origins do not meet. A path is a sequence of
segments. What the code does with their text is kept where a result depends on it:
`Params` are the segments `isParameter` recognises, and `Extends` the pairs of which one
text starts with the other, because the merge selects its rows with `LIKE prefix%` and
therefore also takes `/users2` for a child of the collapsed `/users`.

| Action | Code |
|---|---|
| `ObservePath` | NormalizePath, `trieNode.observe`, the collapse of the first candidate and the rewriting of the path, all under the resolver's mutex (`resolver.go:55`) |
| `Store` | the rest of Record: FindOrAppend with the path returned before (`recorder.go:179`, `db/recordings.go:372`) |
| `Import` | the import handler and Upsert; the trie does not hear of it |
| `SelectAffected` | the first statement of `MergeRecordings`, in its goroutine: the rows below the sources that no active campaign has linked (`db/recordings.go:577`); without rows the merge is done |
| `Merge` | the rest of the transaction: the selected rows in any order, each renamed, or moved into the recording of its new path and deleted (`db/recordings.go:613`) |
| `Drain` | one round of drainCollapses after a merge that committed (`resolver.go:199`) |
| `AddRecording`, `StartCampaign`, `EndCampaign`, `Delete` | the API as recordings see it |
| `Crash`, `RebuildStep`, `RebuildDone` | process death, RebuildFromDB with its own merges; a failed rebuild leaves an empty trie (`serve.go:77`) |

`Merged` is the set of the tables a merge may leave, over every order of the affected
rows and every choice of the first matching source, both of which Go takes from a map.
`Commits` is the foreign key of campaign_recordings, which does not cascade: a merge that
would delete a linked recording fails as a whole, is logged and not tried again.

The transaction is READ COMMITTED, and two steps are what it takes. The SELECT sees
campaigns as they are when it begins, and waits for the lock of each row it returns
(`FOR UPDATE OF r`); a row it had to wait for is read again, but the subquery on
campaigns keeps its old answer. That is `Locked`: the path is checked once more, the campaign
is not, and what was deleted meanwhile is gone. From then on no other transaction can
change, delete or link a locked row until the commit, so that the later statements add no
behaviour of the rows; they do run at a time when campaigns may have started, which a start
between the two steps stands for. Where the transactions of a merge and of a request meet on
the unique index of paths, the later one fails: that is the failing choice of `Store` and
`Merge`. At startup RebuildFromDB merges before anything
listens, so `RebuildStep` needs one step. `raced[x]` is a history variable: the rows that
merge x has selected and that a campaign has taken into use since.

Run `endpoint_merge`: four exchanges over five paths, three literals below the root
(the threshold `collapseMinChildren`), two levels, a parameter, one pair in `Extends`;
one linked recording (`MaxLinked`) and one crash or failed transaction (`MaxFaults`). Four
exchanges are one more than a collapse by literals needs, so that one is stored before,
during or after its merge. 2.7 million distinct states with symmetry of exchanges. No
deadlock check: when all exchanges are recorded nothing more arrives.

| Property | Says |
|---|---|
| `EntriesNumbered` | appends number from `entry_count`, merges from `max(seq_order)+1`: the exchanges of a recording still are 0, 1, ... `entry_count` - 1 |
| `NothingLost` | a stored exchange is in exactly one recording, through moving, failing, crashes and rebuilds, until the API deletes it |
| `PathGeneralises` | exchanges only meet under a path that is the path of each, up to placeholders |
| `TrieSettled` | one collapse per observation is enough: while the proxy runs no node waits to be collapsed |
| `TargetsKnown` | the path an exchange is on its way to is one the trie holds or has collapsed since |
| `ActiveUntouched` | a recording of an active campaign is neither emptied, renumbered nor deleted, and a merge renames it only if it had selected it before the campaign took it into use |

`ActiveUntouched` says less than the comment of MergeRecordings (`db/recordings.go:571`),
which has such recordings skipped. Without its exception TLC refutes it: three literals
collapse, the recording of one is linked, the merge selects it, the campaign starts, the merge
renames it. What the foreign key adds is that such a merge never deletes it.

`EndpointMerge_proofs` proves all of them, and `TypeOK`, for every finite set of exchanges,
any paths, parameters and pairs in `Extends`. The inductive invariant `MergeInv` has five parts.

* `TrieInv`. A trie is closed under beginnings, and while the proxy runs it is `Calm`: no node
  that checkCollapse looks at is due. `TrieSettled` alone is not inductive, as it
  leaves open how much of a trie one observation can disturb. `ObserveOne` says that after an observation
  of a calm trie a due node is one whose child is new, of which there is at most one;
  `CollapseCalm` that collapsing it makes no other node due.
* `RequestInv`. Between ObservePath and FindOrAppend a request has a path that
  generalises what it asked for and that the trie knows (`KnownIn`): `KnownObserve` and
  `KnownCollapse` keep it through what others observe and collapse meanwhile.
* `StoreInv`. The table is `Sound` (each recording numbers its exchanges without gaps and
  generalises what they asked for, no two share a path or an exchange), and what it holds is what
  was stored and not deleted. `MergedFacts` says that a merge keeps this and touches only the affected
  rows. It is an induction over the sets of rows already merged: `Merged` is a fold
  over the positions of an arbitrary order, `MergeRowFacts` its step.
* `CampaignInv`. Linked recordings are there.
* `SelectInv`. A row that a merge has selected and that an active campaign has linked is in
  `raced`: it was not linked to an active campaign when it was selected, and every start or link
  since has been noted. `Renamed` is what a merge does to a path, only for rows it selected, which
  with `MergedFacts` and `CampaignInv` gives `ActiveUntouched`.

`MergeAssumption` asks for a finite number of exchanges, for distinct markers and that what extends
a segment is neither the placeholder nor itself extended: the remainder of `/users2`
after `users` is an opaque name. A path with the literal segment `{`, of which the placeholder would be an
extension, and chains such as `a`, `ab`, `abc` are outside the model.

Not a property, as the code does not have it: that no two recordings differ only where a
collapse has put the placeholder. An exchange observed before a collapse and stored after
its merge, a recording linked to an active campaign, a merge that failed and every import leave a
recording with the literal path, until enough of them bring about another collapse.

## 8. Creating, editing and deleting

`CampaignEdit` takes each handler as the code writes it: a check that reads (status,
existence of recordings) and, in a later statement, a transaction that does not look at
what was checked. `Requests` handlers are between the two at a time. The status column,
its claims, stops and process death are the actions of `CampaignStatus`.

| Action | Code |
|---|---|
| `CreateCheck`, `CreateRow` | createCampaign; CampaignStore.Create, which fails on a recording that has gone |
| `QuickCreate` | quickCreateCampaign: CreateWithFilter is one transaction, rolled back when nothing matches |
| `EditCheck`, `EditWrite` | editCampaign; CampaignStore.Update, which writes the whole row and replaces the links, whatever the status is by then |
| `AddCheck`, `AddWrite` | addRecordingsToCampaign, which lets STOPPING pass; AddRecordingsByFilter |
| `DeleteRecording`, `DeleteRecordingsByPrefix`, `DeleteWrite` | the in-use check; the DELETE, refused by either foreign key (links and findings), neither of which cascades |
| `StartRead`, `StartClaim`, `LoadSeeds`, `Launch` | the configuration is read before the claim, the recordings after it |
| `CreateFinding`, `StatusStep`, `End`, `Recover` | findings reference their seed; the rest of the lifecycle |

Run `campaign_edit`: one campaign, two recordings, two configurations and an invalid one,
two handlers, every selection of recordings. Handlers only meet through rows they share,
and every hazard here is one check and one write around another write, so two handlers
and a start are enough. The proofs have any number.

`RunMatchesRow` says what a run may rely on: it works with the configuration its row
shows and with seeds that exist and are linked, and a running one has seeds. The one
exception the code allows is named by the history variable `raced`: an edit that read the
campaign before it was claimed may write during the run. Deletions do not need
an exception, since the foreign key is what stops them, not the check. `CreatedWhole`: no campaign
appears without its recordings. `TypeOK` includes the foreign keys, so that none dangles
although both handlers check in statements of their own.

`CampaignEdit_proofs` proves all three for any sets. The invariant adds `ShapeOK` (what
each variable is a function of), `RequestOK` (what a handler read still holds when it
writes: the campaign to create is not there, the one to edit is, two creations are of two
campaigns) and `ClaimOK` (a claimed campaign is active, so that no edit reads it; a start
holds the row's configuration unless an edit raced with it). `CheckKept` and `CreateKept`
are the lemmas for the steps of handlers.

The API offers no deletion of campaigns, so there is none here.

## 9. The tasks of a run: planner, mutation, feedback, triage

`FuzzTask` opens what `TaskPool` leaves out. Its generator chooses between a whole session
(WeightedPick) and one endpoint (Pick), its workers do what processTask does.

| Action | Code |
|---|---|
| `Generate`, `Send` | `engine.go:348-386`; Pick counts the test of its endpoint when it chooses it |
| `Receive` | SeqMutator.Mutate for session tasks, Pipeline.Mutate for each exchange or the target alone, and what the intensity tracker records of it |
| `Replay` | ReplaySession: answers up to the first hard error; given up when cancelled |
| `Respond`, `RewardEndpoint` | RecordResponse for the seed, then Reward for the endpoint: two trackers, two mutexes, two steps |
| `DetectAll` | the detectors over all answers against the baseline |
| `SkipHit`, `CreateFinding`, `FindingToFeedback`, `FindingToPlanner` | handleHit as the trackers see it |
| `Triaging`, `HitDone`, `TaskDone` | Confirm and the minimisers (`Triage`), the next hit, the next task |

UCB1 scores and seed weights are real numbers. Beyond the floor, and once each
endpoint has been tried, any endpoint may win, any seed may be drawn, and the multipliers
of the intensity tracker only change probabilities, so that all choices are left open. `lost`
is a history variable, which accounts for what the code loses and forbids nothing: the reward of an exchange or a finding under a key the planner
does not have (a disabled endpoint, or the target of a recording that was itself merged to a
placeholder path).

In `Triage` a session is a tree and its content the set of the tree's paths: exchanges, keys of
their bodies (parameters, elements, parts), keys of nested objects. A steady target shows
an anomaly exactly when the content includes one of its `needs`: two paths needed together,
or two of which either is enough; a flaky one answers as it likes. `DropExchange` is MinimizeSession,
`MinimizeJSONBody` (with `RemoveKeys` as the stack of removeKeys' recursion, and
`Descend` for nested objects), `MinimizeQueryParams`, `MinimizeXMLBody` and
`MinimizeMultipartBody` (with `RemovePart`) the body minimisers; one action is one replay. `Reencode` is
what a re-encoded body keeps. A mutated body may be one its decoder refuses, which
`Kinds` makes opaque. A cancellation may come between any two replays.

Run `fuzz_task`: two recordings of two requests, five configurations, of which each lets a
different part grow:

| Configuration | For |
|---|---|
| two workers, both kinds of tasks, floor 1 | rewards and novelties from two workers |
| one worker, targeted tasks, no floor, an endpoint disabled | endpoints tried once each, rewards the planner lacks, the latency detector |
| one worker, five targeted tasks, floor 2 | the floor phase and its end |
| one worker, sequence mutation, two classes of operators, all detectors | mutated sessions, several findings for one exchange |
| one worker, three confirmations and minimisation | triage of one finding over all trees, needs and cancellations |

`maxFindings` bounds the findings of a run (later hits have a known signature);
`maxNestedDepth` is 1 instead of 5, so that the body with three levels is deeper than
minimisation goes. Four million states, under two minutes. No deadlock check: a run at its
limit ends.

| Property | Says |
|---|---|
| `FloorFirst` | no endpoint is tested beyond the floor, or a second time, while another is below it or untested, although choices run ahead of rewards |
| `OneEndpointMutated` | what a test counted for an endpoint mutates is one exchange of that endpoint, the rest being as recorded |
| `Calibrated` | seeds and endpoints are credited alike: each novelty once, each finding once, the difference being exactly what is under way or `lost` (that a reward reaches the planner is not promised); an operator has at most three findings per exchange it was tried on |
| `MinimalTrigger` | with a steady target the session at hand always shows an anomaly, through partial removals and cancellations, and a completed minimisation leaves nothing that it could have left out |
| `TypeOK` | includes the bound on the replays of one finding (`MaxAsked`) |

That MinimalTrigger speaks of what minimisation tries is `Reducible`: it never drops the
first exchange, a single part, the last element or what is nested too deep. With a flaky
target nothing is promised.

`FuzzTask_proofs` proves, for any recordings, configurations, responses and finite set of workers:

* `FloorFirst` (`FloorInv`: the counts, with `PickKeepsFloor` for the one step that changes
  them) and `OneEndpointMutated` (`TaskInv`: the channel and the workers hold tasks with
  their own entries);
* `Calibrated`, from three accounts that every step keeps. `SeedsInv` adds to each seed's
  equation that what it counts is finite. `RewardInv` is the equation over all seeds and
  endpoints; `Owed` is what one worker is on its way to credit, so that a step moves the same
  amount from one side to the other. `OperatorInv` is
  the inequality strengthened by what may still come: `Left` is three findings for each exchange
  an operator was tried on while the replay lasts, and the hits not yet dealt with
  after it. `HitsFacts` ties the two, by induction over the answers: of the
  four detectors at most three fire on one answer, since a timeout is no server error.
  `ShapeInv` says which fields a worker has in which phase;
* `MinimalTrigger`, in two halves. `ShowsAnomaly` needs `TriageInv`: the session at hand and the
  one MinimizeMultipartBody falls back on both show an anomaly; `Ask` replaces the former
  only by what has just been shown. That nothing is left to leave out needs `Reduced`,
  an account of what was tried: of a path that could go, either it is
  `Ahead` (its exchange is still on the list, or a frame of removeKeys, a part or a nested
  object that is still on the stack covers it: `Scope`), or leaving it out has failed before
  (`Tried`). A frame leaves the stack only for frames with its keys, or after the replay of
  the session without the one key it had; and what was needed once is needed still when
  others are gone (`StillNeeded`), since `Triggers` is monotonic in the content. The end of a
  pass over an exchange finds nothing ahead in it (`KeysEnd`, `PartsEnd`), so at the phase
  "done" everything was tried;
* `TypeOK`, with the bound on the replays of one finding: the runs of the confirmation, then
  three for each path of the session. `MayAsk` says which questions a finding may still ask.
  An exchange or a part is asked about once. A key is asked about three times at most: when it is
  left out alone, and as the first key of a half when the right half, and then the
  left half, is left out; removeKeys gives each border to one pair of halves (`HalvesOnce`). No two
  frames on the stack share a question (`Apart`), so that each replay uses one up, and every
  other step adds none (`Follows`). `Bounded` says that the replays so far and the
  questions left (`Stock`) stay within `MaxAsked`; `BudgetInv` says it of every finding in hand.
  That needs the session to be a tree: with a path, all that lead to it (`Tree`).
  `CountInv` keeps the tests within max_tests (a task is only built below the limit) and the findings of
  all seeds together within `maxFindings`.

`FoldLemmas` has what the sums and concatenations need. The provers do not take an operator
as a parameter, so its induction is over sets: a property of subsets is the set of
the subsets that have it (`SubsetInduction`, from the well-foundedness of strict inclusion
on finite sets). From it follow what SumFunction does when one value changes (`SumChange`), that a fold over a
finite set exists and is unique, and that FlattenSeq appends one sequence after the other (`FlattenFacts`).

The proofs assume that recordings are sequences, workers finitely many, limits and confirmations
natural numbers (`LimitsAssumption`) and the bodies of recorded exchanges finite trees
(`BodyAssumption`). TLC evaluates all of them.

## 10. Plan

Done: the plan of the first version (lifecycle, queue, pipeline, pool), then
`EndpointMerge`, `CampaignEdit`, and `FuzzTask` with `Planner` and `Triage`, with the proofs
named above. Left, in this order:

1. an abstract specification of a run (tasks handed out, counted, dropped) that `TaskPool`
   and `FuzzTask` both implement, so that their agreement is checked and not only stated;
2. the certificate store: two goroutines that miss on one name, eviction, a crash
   between the root's two files;
3. signatures: which hits share one, as a function of the parts that `Signature` hashes.

## 11. Where the documentation says otherwise

The models follow the code. Four runs refute what a document says (sections 3 to 5). The
passing ones cover cases in which a document describes something else; each is a finding
in `PROJECT.json`, with the quotation, under the property that covers it.

| Document | Says | The code, and the property that has it |
|---|---|---|
| `campaign-management.md:205` | a campaign stays RUNNING after a process death, no reconciliation | RecoverStuckCampaigns makes it STOPPED at the start: `NoOrphan`, `ImplementsStatus` |
| `api-engine.md:66`, `campaign-management.md:202` | a start needs CREATED | STOPPED, FINISHED and FAILED are accepted too: `ImplementsStatus` |
| `engine.md:261` | a stop during the loop ends in FINISHED | STOPPED, since the status is chosen from the context: `StoppedOnlyByCancel` |
| `serve.go:171`, `data-flow.md:216` | no campaign can start once StopAll runs | handlers outlive an expired apiSrv.Shutdown: `NoDeadHandle` |
| `campaign-management.md:185`, `:206` | active campaigns reject edits | an edit that read before the start writes after it: `RunMatchesRow` (`raced`) |
| `engine.md:288` | without limits a run goes on for ever | such a configuration is refused: `LimitsEnd` |
| `data-flow.md:206` | workers wait for the limiter | the generator does: `TestsWithinLimit` |
| `engine.md:212` | one seed in five is drawn uniformly | never; the planner picks what is not drawn by weight: `FloorFirst` |
| `triage.md:338` | only ungrouped findings are grouped | the end of a run regroups all: `GroupsAgree` |
| `triage.md:360` | an unconfirmed finding gets no artifact | the artifact comes before the confirmation: `ConfirmedHasArtifact` |
| `triage.md:364` | a single parameter is not reduced | it is tried like any other: `MinimalTrigger` |
| `triage.md:359` | a cancelled minimisation returns what it has | the multipart one throws it away: `MinimalTrigger` |
| `endpoint.md:120` | after a timeout the collapse is tried again | it never is, as the trie has collapsed: `TrieSettled` |
| `endpoint.md:63` | five values within a configurable window | three literals, no window: `TrieSettled` |
| `endpoint.md:104` | a recording is stored before its merge | the merge starts first: `TargetsKnown` |
| `recordings.md:104`, `:121` | imports append to what is there | they are skipped or refused: `NothingLost` |
| `db/recordings.go:571` | a merge skips recordings of active campaigns | not those of a campaign that starts meanwhile: `ActiveUntouched` |

## 12. What is only model-checked, and what is not modelled

Checked on the instances above only:

* liveness (`ActiveSettles`, `StoppingRunSettles`, `EnqueuedLeaves`, `JobSettles`,
  `ShutdownNotBlocked`, `StopEnds`, `LimitsEnd`): fairness is outside the prover's reach.

Every invariant of the passing runs is a theorem as well.

Not modelled:

* the proxy and its certificates: an LRU behind a mutex with the singleflight of a
  library, and two files written once per installation; what the proxy shares with
  others is the recorder, which `EndpointMerge` has;
* what each mutation operator rewrites in a request, and signature, severity and category of a
  hit: text and tables, which appear as model values where something depends on them;
* the LLM client (one call, one update), configuration, reports, metrics, logging, the
  HTTP routing, the progress stream and the web interface. They keep no shared state; the
  effect of an open stream on shutdown is the phase `"expired"` of `CampaignLifecycle`.

Whether a request validates or a replay triggers is otherwise left open. A SQL statement is
atomic and reads what is committed when it begins. A transaction of several is one step where
the rows it locks or the constraints it meets make it one (`Upsert`, `CampaignStore.Create`), and
several where it relies on what it read of rows it does not lock (`SelectAffected`).
