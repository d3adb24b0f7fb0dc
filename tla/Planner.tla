-------------------------------- MODULE Planner --------------------------------
(***************************************************************************)
(* What the workers and the generator of a run share besides the channel:  *)
(* EndpointPlanner (engine/planner.go), which chooses the endpoint of the   *)
(* next targeted task, and SeedInterestTracker (engine/feedback.go), which  *)
(* remembers what each seed's replays have shown.  Either has a mutex of    *)
(* its own, so each method below is one step.  UCB1 scores and weights are  *)
(* reals: once every endpoint has been tried any of them may win.           *)
(***************************************************************************)
EXTENDS Naturals, Sequences, FiniteSets

CONSTANTS
  Seeds,       \* the recordings: a sequence of [target, entries], where an entry
               \* has the fields method, path and status (of the recorded response)
  Params,      \* segments that endpoint.isParameter takes for parameters
  Placeholder  \* "{_}"

ASSUME SeedsAssumption ==
  /\ Seeds \in Seq({Seeds[s] : s \in DOMAIN Seeds}) \ {<<>>}
  /\ \A s \in DOMAIN Seeds :
       LET es == Seeds[s].entries IN es \in Seq({es[i] : i \in DOMAIN es})
  /\ Placeholder \notin Params

VARIABLES
  floor,     \* limits.min_tests_per_endpoint
  tests,     \* stats[k].n, for the enabled endpoints k
  reward,    \* stats[k].rewardSum
  statuses,  \* per seed, the statuses its replays have shown
  errors,    \* per seed, the signatures of the error bodies
  interest   \* per seed, its score

plannerVars == <<floor, tests, reward>>
feedbackVars == <<statuses, errors, interest>>

-----------------------------------------------------------------------------
(* Keys.                                                                   *)

NormalizePath(path) ==
  [i \in DOMAIN path |-> IF path[i] \in Params THEN Placeholder ELSE path[i]]
NewKey(method, path) == [method |-> method, path |-> NormalizePath(path)]
KeyFromExchange(ex) == NewKey(ex.method, ex.path)

SeedIds == DOMAIN Seeds
Refs == UNION {{s} \X DOMAIN Seeds[s].entries : s \in SeedIds}
Exchange(ref) == Seeds[ref[1]].entries[ref[2]]
SeedKeys == {KeyFromExchange(Exchange(ref)) : ref \in Refs}

\* applyOverride compares with the path as the user wrote it; "" is any method.
Overridden(override, k) ==
  /\ k.path = override.path
  /\ override.method \in {"", k.method}
Disabled(overrides) == {k \in SeedKeys : \E o \in overrides : o.disabled /\ Overridden(o, k)}

\* ComputeBaseline: the status of the last exchange recorded under a key, which here
\* is made of the method and the path of the recording's target.
Baselined(k) == {ref \in Refs : NewKey(Exchange(ref).method, Seeds[ref[1]].target) = k}
BaselineStatus(k) ==
  LET Later(q, r) == q[1] < r[1] \/ (q[1] = r[1] /\ q[2] <= r[2])
  IN  Exchange(CHOOSE r \in Baselined(k) : \A q \in Baselined(k) : Later(q, r)).status

-----------------------------------------------------------------------------
(* EndpointPlanner.                                                        *)

Enabled == DOMAIN tests

\* NewEndpointPlanner fails without an enabled endpoint: the start is given up.
NewEndpointPlanner(overrides, minFloor) ==
  LET keys == SeedKeys \ Disabled(overrides)
  IN  /\ keys # {}
      /\ floor = minFloor
      /\ tests = [k \in keys |-> 0]
      /\ reward = [k \in keys |-> 0]

Below(bound) == {k \in Enabled : tests[k] < bound}

\* Mutant: n <= floor.
Candidates_AtFloor ==
  IF floor > 0 /\ Below(floor + 1) # {} THEN Below(floor + 1)
  ELSE IF Below(1) # {} THEN Below(1) ELSE Enabled

\* Under the floor at random; then argmaxUCB, where n = 0 scores infinity.
Candidates ==
  IF floor > 0 /\ Below(floor) # {} THEN Below(floor)
  ELSE IF Below(1) # {} THEN Below(1) ELSE Enabled

\* Pick counts the test when it is chosen, not when it is sent or done.
Pick(k, ref) ==
  /\ k \in Candidates
  /\ ref \in Refs
  /\ KeyFromExchange(Exchange(ref)) = k
  /\ tests' = [tests EXCEPT ![k] = @ + 1]
  /\ UNCHANGED <<floor, reward>>

\* Reward and RecordFinding: a key that is disabled or unknown is passed over.
Reward(k, delta) ==
  /\ reward' = IF k \in Enabled THEN [reward EXCEPT ![k] = @ + delta] ELSE reward
  /\ UNCHANGED <<floor, tests>>

FindingReward == 5

-----------------------------------------------------------------------------
(* SeedInterestTracker.                                                    *)

NewSeedInterestTracker ==
  /\ statuses = [s \in SeedIds |-> {}]
  /\ errors = [s \in SeedIds |-> {}]
  /\ interest = [s \in SeedIds |-> 0]

\* A hard error has status 0, which is a novelty of its own the first time.
NovelStatus(s, result) == result.status \notin statuses[s]

\* Mutant: the signature is not remembered.
NovelError_Forgets(s, result) == result.status >= 400 /\ result.body # ""

NovelError(s, result) == result.status >= 400 /\ result.body # "" /\ result.body \notin errors[s]
Increment(s, result) ==
  (IF NovelStatus(s, result) THEN 2 ELSE 0) + (IF NovelError(s, result) THEN 3 ELSE 0)

RecordResponse(s, result) ==
  /\ statuses' = [statuses EXCEPT ![s] = @ \cup {result.status}]
  /\ errors' = [errors EXCEPT ![s] = @ \cup (IF NovelError(s, result) THEN {result.body} ELSE {})]
  /\ interest' = [interest EXCEPT ![s] = @ + Increment(s, result)]

RecordFinding(s) ==
  /\ interest' = [interest EXCEPT ![s] = @ + FindingReward]
  /\ UNCHANGED <<statuses, errors>>

\* NormalizedWeights gives every seed a positive weight: weightedPick may take any.
WeightedPick == SeedIds
=============================================================================
