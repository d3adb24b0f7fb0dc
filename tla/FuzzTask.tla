-------------------------------- MODULE FuzzTask --------------------------------
(***************************************************************************)
(* What the tasks of a run are and what a worker does with one: the choice  *)
(* between whole sessions and single endpoints in Engine.runCampaign, and    *)
(* Worker.processTask from the mutation over replay, feedback and detection  *)
(* to the triage of what it found.  TaskPool has the timing of the same      *)
(* loop, FindingPipeline the statements of handleHit on the database.        *)
(***************************************************************************)
EXTENDS Planner, Triage

CONSTANTS
  Configs,      \* the campaign's configuration, and maxFindings: a bound, later hits
                \* have a known signature
  Responses     \* what a replayed exchange may get: status, body (signature of an
                \* error body), err ("none", "timeout", "refused"), slow, match

ASSUME ConfigAssumption == \A c \in Configs : c.floor \in Nat

ASSUME LimitsAssumption ==
  \A c \in Configs : {c.maxTests, c.maxFindings, c.confirmRuns} \subseteq Nat

\* The body of a recorded exchange is a tree: what is nested lies under a key.
ASSUME BodyAssumption ==
  \A ref \in Refs : LET body == Exchange(ref).body IN
    /\ IsFiniteSet(body)
    /\ body \subseteq Seq(Nat) \ {<<>>}
    /\ \A p \in body : \A n \in 1..Len(p) : SubSeq(p, 1, n) \in body

VARIABLES
  cfg,      \* limits, mutations and triage settings of the run
  pending,  \* the task the generator is about to send, or NoTask
  sent,     \* testsGenerated
  queue,    \* taskCh
  worker,   \* worker[w]: the task in hand and how far it is
  found,    \* per seed, the findings created
  applied,  \* IntensityTracker: per operator prefix, the exchanges it was tried on
  produced, \* and the findings on such exchanges
  lost      \* history: reward for keys the planner does not have

runVars == <<cfg, pending, sent, queue>>
intensityVars == <<applied, produced>>
vars == <<plannerVars, feedbackVars, intensityVars, runVars, worker, found, lost, triage, cancelled>>

NoTask == [seed |-> 0]
Free == [pc |-> "free"]
OperatorPrefixes == {"uri", "header", "json", "param", "primitive"}
Team == {w \in Workers : worker[w].pc # "off"}

\* mutations.sequence without a share is the legacy form of a share of 1.
Share(c) == IF c.sequence /\ c.share = "none" THEN "all" ELSE c.share

Init ==
  /\ cfg \in Configs
  /\ NewEndpointPlanner(cfg.overrides, cfg.floor)
  /\ NewSeedInterestTracker
  /\ pending = NoTask
  /\ sent = 0
  /\ queue = <<>>
  /\ worker = [w \in Workers |-> IF w \in cfg.workers THEN Free ELSE [pc |-> "off"]]
  /\ found = [s \in SeedIds |-> 0]
  /\ applied = [p \in OperatorPrefixes |-> 0]
  /\ produced = [p \in OperatorPrefixes |-> 0]
  /\ lost = 0
  /\ triage = [w \in Workers |-> Idle]
  /\ cancelled = FALSE

-----------------------------------------------------------------------------
(* The generator.                                                          *)

\* Mutant: testsGenerated > MaxTests.
LimitReached_OffByOne == sent > cfg.maxTests
LimitReached == sent >= cfg.maxTests

\* A session task has no endpoint; a targeted one names the exchange to mutate.
Generate ==
  /\ pending = NoTask
  /\ ~LimitReached
  /\ ~cancelled
  /\ \/ /\ Share(cfg) # "none"
        /\ \E s \in WeightedPick : pending' = [seed |-> s, target |-> 0]
        /\ UNCHANGED plannerVars
     \/ /\ Share(cfg) # "all"
        /\ \E k \in Enabled, ref \in Refs :
             /\ Pick(k, ref)
             /\ pending' = [seed |-> ref[1], target |-> ref[2], key |-> k]
  /\ UNCHANGED <<feedbackVars, intensityVars, cfg, sent, queue, worker, found, lost, triage, cancelled>>

\* A cancelled run may drop the task it has already counted for its endpoint.
Send ==
  /\ pending # NoTask
  /\ \/ /\ Len(queue) < 2 * Cardinality(cfg.workers)
        /\ queue' = Append(queue, pending)
        /\ sent' = sent + 1
     \/ cancelled /\ UNCHANGED <<queue, sent>>
  /\ pending' = NoTask
  /\ UNCHANGED <<plannerVars, feedbackVars, intensityVars, cfg, worker, found, lost, triage, cancelled>>

Cancel ==
  /\ ~cancelled
  /\ cancelled' = TRUE
  /\ UNCHANGED <<plannerVars, feedbackVars, intensityVars, runVars, worker, found, lost, triage>>

-----------------------------------------------------------------------------
(* A worker: mutation and replay.                                          *)

Update(w, state) == worker' = [worker EXCEPT ![w] = state]

\* SeqMutator.Mutate: drop any but the first, duplicate one, swap neighbours, or
\* (perstep) mutate one in its place.
SeqMutate(es) ==
  {es} \cup {RemoveAt(es, i) : i \in 2..Len(es)} \cup {InsertAt(es, i, es[i]) : i \in 1..Len(es)}
       \cup {[es EXCEPT ![i] = es[i + 1], ![i + 1] = es[i]] : i \in 1..Len(es)-1}

\* Mutant: sequence mutation for every task.
Entries_AnyMode(task) ==
  LET es == Seeds[task.seed].entries
  IN  IF cfg.sequence /\ Len(es) > 1 THEN SeqMutate(es) ELSE {es}

\* The sequence of a targeted task stays as recorded.
Entries(task) ==
  LET es == Seeds[task.seed].entries
  IN  IF task.target = 0 /\ cfg.sequence /\ Len(es) > 1 THEN SeqMutate(es) ELSE {es}

\* JSONMutator falls back on a primitive when the body is not JSON.
Category(op, ex) == IF op = "json" /\ ex.body # {} /\ ex.kind # "json" THEN "primitive" ELSE op

\* Pipeline.Mutate: some of the enabled classes, or else a primitive of the body.  The
\* multipliers of the IntensityTracker only change how likely each is.
Operators(ex) ==
  {{Category(op, ex) : op \in ops} : ops \in SUBSET cfg.mutations \ {{}}} \cup {{"primitive"}}

Tally(count, opsets) ==
  [p \in OperatorPrefixes |-> count[p] + Cardinality({i \in DOMAIN opsets : p \in opsets[i]})]

\* Every exchange of a session is mutated, the target alone else, and the operators are
\* recorded.
Receive(w) ==
  /\ worker[w] = Free
  /\ queue # <<>>
  /\ \E es \in Entries(Head(queue)) :
       LET mutated == IF Head(queue).target = 0 THEN DOMAIN es ELSE {Head(queue).target} IN
       \E ops \in {f \in [mutated -> UNION {Operators(es[i]) : i \in mutated}] :
                    \A i \in mutated : f[i] \in Operators(es[i])} :
         /\ Update(w, [pc |-> "replay", task |-> Head(queue), entries |-> es, ops |-> ops])
         /\ applied' = Tally(applied, ops)
  /\ queue' = Tail(queue)
  /\ UNCHANGED <<plannerVars, feedbackVars, produced, cfg, pending, sent, found, lost, triage, cancelled>>

\* ReplaySession: one response after the other, up to the first hard error.
Results(n) ==
  {rs \in UNION {[1..m -> Responses] : m \in 1..n} :
     /\ \A i \in 1..Len(rs)-1 : rs[i].err = "none"
     /\ Len(rs) < n => rs[Len(rs)].err # "none"}

\* A cancelled replay is given up, and its answers with it; a request in flight then
\* ends in an error that is no timeout.
Replay(w) ==
  LET me == worker[w]
  IN  /\ me.pc = "replay"
      /\ \/ cancelled /\ Update(w, Free)
         \/ \E rs \in Results(Len(me.entries)) :
              Update(w, [pc |-> "respond", task |-> me.task, entries |-> me.entries,
                         ops |-> me.ops, results |-> rs, i |-> 1, delta |-> 0])
  /\ UNCHANGED <<plannerVars, feedbackVars, intensityVars, runVars, found, lost, triage, cancelled>>

-----------------------------------------------------------------------------
(* Feedback: the seed first, then the endpoint of the same exchange.       *)

Respond(w) ==
  LET me == worker[w]
      s == me.task.seed
      result == me.results[me.i]
  IN  /\ me.pc = "respond"
      /\ me.i <= Len(me.results)
      /\ RecordResponse(s, result)
      /\ Update(w, IF Increment(s, result) > 0
                   THEN [me EXCEPT !.pc = "reward", !.delta = Increment(s, result)]
                   ELSE [me EXCEPT !.i = @ + 1])
  /\ UNCHANGED <<plannerVars, intensityVars, runVars, found, lost, triage, cancelled>>

\* What Reward passes over is lost to the planner.
Credit(k, delta) ==
  /\ Reward(k, delta)
  /\ lost' = IF k \in Enabled THEN lost ELSE lost + delta

\* The key of the exchange before its mutation.
RewardEndpoint(w) ==
  LET me == worker[w]
  IN  /\ me.pc = "reward"
      /\ Credit(KeyFromExchange(me.entries[me.i]), me.delta)
      /\ Update(w, [me EXCEPT !.pc = "respond", !.i = @ + 1, !.delta = 0])
  /\ UNCHANGED <<feedbackVars, intensityVars, runVars, found, triage, cancelled>>

-----------------------------------------------------------------------------
(* Detection and triage.                                                   *)

Answered(result) == result.err = "none"
TimeoutDetector(result) == result.err = "timeout"
ServerErrorDetector(result, key) ==
  /\ "5xx" \in cfg.detectors
  /\ Answered(result)
  /\ result.status >= 500
  /\ Baselined(key) # {} => BaselineStatus(key) < 500
LatencyDetector(result, key) ==
  "latency" \in cfg.detectors /\ Answered(result) /\ Baselined(key) # {} /\ result.slow
RegexDetector(result) == "regex" \in cfg.detectors /\ Answered(result) /\ result.match

\* MultiDetector.
Detect(result, key) ==
  LET when(condition, type) == IF condition THEN <<type>> ELSE <<>>
  IN  when(TimeoutDetector(result), "TIMEOUT") \o when(ServerErrorDetector(result, key), "SERVER_ERROR")
      \o when(LatencyDetector(result, key), "LATENCY_REGRESSION") \o when(RegexDetector(result), "REGEX_MATCH")

\* baselineKey, and the key of a finding: the target of the recording, not the path asked for.
TargetKey(me, i) == NewKey(me.entries[i].method, Seeds[me.task.seed].target)

Hits(me) ==
  FlattenSeq([i \in DOMAIN me.results |->
    LET types == Detect(me.results[i], TargetKey(me, i))
    IN  [j \in DOMAIN types |-> [idx |-> i, type |-> types[j]]]])

DetectAll(w) ==
  LET me == worker[w]
  IN  /\ me.pc = "respond"
      /\ me.i > Len(me.results)
      /\ Update(w, [pc |-> "hits", task |-> me.task, entries |-> me.entries,
                    ops |-> me.ops, hits |-> Hits(me)])
  /\ UNCHANGED <<plannerVars, feedbackVars, intensityVars, runVars, found, lost, triage, cancelled>>

Findings == SumFunction(found)

\* A known signature, or a statement that fails: the hit is over.
SkipHit(w) ==
  /\ worker[w].pc = "hits"
  /\ worker[w].hits # <<>>
  /\ Update(w, [worker[w] EXCEPT !.hits = Tail(@)])
  /\ UNCHANGED <<plannerVars, feedbackVars, intensityVars, runVars, found, lost, triage, cancelled>>

CreateFinding(w) ==
  LET me == worker[w]
  IN  /\ me.pc = "hits"
      /\ me.hits # <<>>
      /\ Findings < cfg.maxFindings
      /\ found' = [found EXCEPT ![me.task.seed] = @ + 1]
      /\ produced' = Tally(produced, Restrict(me.ops, DOMAIN me.ops \cap {Head(me.hits).idx}))
      /\ Update(w, [me EXCEPT !.pc = "found"])
  /\ UNCHANGED <<plannerVars, feedbackVars, applied, runVars, lost, triage, cancelled>>

FindingToFeedback(w) ==
  /\ worker[w].pc = "found"
  /\ RecordFinding(worker[w].task.seed)
  /\ Update(w, [worker[w] EXCEPT !.pc = "credit"])
  /\ UNCHANGED <<plannerVars, intensityVars, runVars, found, lost, triage, cancelled>>

\* What is replayed: the mutated session, with the bodies of its exchanges.
Content(entries) ==
  UNION {{<<i>>} \cup {<<i>> \o p : p \in entries[i].body} : i \in DOMAIN entries}

\* A mutated body may be none that its decoder accepts.
Kinds(entries, broken) ==
  [i \in DOMAIN entries |-> IF i \in broken THEN "opaque" ELSE entries[i].kind]

FindingToPlanner(w) ==
  LET me == worker[w]
  IN  /\ me.pc = "credit"
      /\ Credit(TargetKey(me, Head(me.hits).idx), FindingReward)
      /\ IF cfg.confirmRuns = 0
         THEN UNCHANGED triage /\ Update(w, [me EXCEPT !.pc = "hits", !.hits = Tail(@)])
         ELSE /\ \E broken \in SUBSET DOMAIN me.ops :
                   Begin(w, Content(me.entries), Kinds(me.entries, broken), cfg.confirmRuns, cfg.minimize)
              /\ Update(w, [me EXCEPT !.pc = "triage"])
  /\ UNCHANGED <<feedbackVars, intensityVars, runVars, found, cancelled>>

Triaging(w) ==
  /\ worker[w].pc = "triage"
  /\ TriageStep(w)
  /\ UNCHANGED <<plannerVars, feedbackVars, intensityVars, runVars, worker, found, lost, cancelled>>

HitDone(w) ==
  /\ worker[w].pc = "triage"
  /\ triage[w].phase = "done"
  /\ triage' = [triage EXCEPT ![w] = Idle]
  /\ Update(w, [worker[w] EXCEPT !.pc = "hits", !.hits = Tail(@)])
  /\ UNCHANGED <<plannerVars, feedbackVars, intensityVars, runVars, found, lost, cancelled>>

TaskDone(w) ==
  /\ worker[w].pc = "hits"
  /\ worker[w].hits = <<>>
  /\ Update(w, Free)
  /\ UNCHANGED <<plannerVars, feedbackVars, intensityVars, runVars, found, lost, triage, cancelled>>

-----------------------------------------------------------------------------
WorkerStep(w) ==
  \/ Receive(w) \/ Replay(w) \/ Respond(w) \/ RewardEndpoint(w) \/ DetectAll(w)
  \/ SkipHit(w) \/ CreateFinding(w) \/ FindingToFeedback(w) \/ FindingToPlanner(w)
  \/ Triaging(w) \/ HitDone(w) \/ TaskDone(w)

Next ==
  \/ Generate \/ Send \/ Cancel
  \/ \E w \in Workers : WorkerStep(w)

Spec == Init /\ [][Next]_vars

-----------------------------------------------------------------------------
(* Properties.                                                             *)

\* Types, and the work of a finding within its bound: however the target answers, a
\* worker is back after so many replays.
TypeOK ==
  /\ cfg \in Configs
  /\ tests \in [Enabled -> Nat]
  /\ reward \in [Enabled -> Nat]
  /\ Enabled \subseteq SeedKeys
  /\ interest \in [SeedIds -> Nat]
  /\ sent \in 0..cfg.maxTests
  /\ found \in [SeedIds -> 0..cfg.maxFindings]
  /\ lost \in Nat
  /\ \A w \in Workers : triage[w] # Idle =>
       /\ worker[w].pc = "triage"
       /\ triage[w].content \subseteq triage[w].original
       /\ triage[w].asked <= MaxAsked(triage[w])

\* No endpoint is tested beyond the floor, or a second time, while another is below it
\* or untested, although choices run ahead of the tests and their rewards come late.
FloorFirst ==
  \A k, l \in Enabled :
    LET first == IF floor > 0 THEN floor ELSE 1
    IN  tests[k] > first => tests[l] >= first

Targeted == {w \in Team : worker[w].pc # "free" /\ worker[w].task.target # 0}

\* The accounting of the planner is honest: what a test counted for an endpoint mutates
\* is one exchange of that endpoint, the rest of the session being as it was recorded.
OneEndpointMutated ==
  \A w \in Targeted : LET me == worker[w] IN
    /\ {KeyFromExchange(me.entries[i]) : i \in DOMAIN me.ops} = {me.task.key}
    /\ me.entries = Seeds[me.task.seed].entries

Pending == SumFunction([w \in Workers |-> CASE worker[w].pc = "reward" -> worker[w].delta
                                            [] worker[w].pc = "credit" -> FindingReward
                                            [] OTHER -> 0])
Unrecorded(s) == Cardinality({w \in Team : worker[w].pc = "found" /\ worker[w].task.seed = s})

\* Seeds and endpoints are credited alike: each novelty of a seed once, however many
\* workers see it, each finding once, and the planner the same but for the keys it lacks.
\* An operator has at most three findings for each exchange it was tried on.
Calibrated ==
  /\ \A s \in SeedIds :
       interest[s] = 2 * Cardinality(statuses[s]) + 3 * Cardinality(errors[s])
                     + FindingReward * (found[s] - Unrecorded(s))
  /\ SumFunction(reward) + Pending + lost = SumFunction(interest)
  /\ \A p \in OperatorPrefixes : produced[p] <= 3 * applied[p]

\* With a steady target the session at hand always shows an anomaly, also when it was put
\* together from reductions of several exchanges and levels, and when a cancellation has
\* thrown some of them away.
ShowsAnomaly ==
  \A w \in Workers : LET t == triage[w] IN
    t # Idle /\ ~t.flaky => Triggers(t, t.content)

\* A minimisation that was not stopped leaves nothing in it that could be left out.
MinimalTrigger ==
  /\ ShowsAnomaly
  /\ \A w \in Workers : LET t == triage[w] IN
       t # Idle /\ ~t.flaky /\ t.phase = "done" /\ t.minimize /\ ~cancelled =>
         \A p \in t.content : Reducible(t, p) => ~Triggers(t, LeftOut(t, p))
=============================================================================
