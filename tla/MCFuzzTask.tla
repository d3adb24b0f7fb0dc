------------------------------- MODULE MCFuzzTask -------------------------------
(* FuzzTask for two recordings of two requests each: a session whose target     *)
(* path is none that was asked for, and two requests of one endpoint.           *)
EXTENDS FuzzTask

CONSTANTS w1, w2

MCWorkers == {w1, w2}
MCParams == {"7", "8"}

Ex(method, path, status, kind, body) ==
  [method |-> method, path |-> path, status |-> status, kind |-> kind, body |-> body]

Shop == [target |-> <<"{_}">>, entries |->
  <<Ex("POST", <<"login">>, 200, "form", {<<1>>, <<1, 1>>, <<2>>}),
    Ex("PUT", <<"cart">>, 200, "json", {<<1>>, <<2>>, <<2, 1>>, <<2, 1, 1>>})>>]
Items == [target |-> <<"item", "{_}">>, entries |->
  <<Ex("GET", <<"item", "7">>, 200, "multipart", {<<1>>, <<1, 1>>, <<2>>}),
    Ex("GET", <<"item", "8">>, 200, "xml", {<<1>>, <<2>>, <<3>>})>>]
MCSeeds == <<Shop, Items>>

Response(status, body, err, slow, match) ==
  [status |-> status, body |-> body, err |-> err, slow |-> slow, match |-> match]
MCResponses ==
  {Response(200, "", "none", TRUE, FALSE), Response(500, "e", "none", FALSE, TRUE),
   Response(0, "", "timeout", FALSE, FALSE), Response(0, "", "refused", FALSE, FALSE)}

Override(method, path) == [method |-> method, path |-> path, disabled |-> TRUE]

Config(ws, maxTests, share, sequence, min, overrides, mutations, detectors, findings, runs, minimize) ==
  [workers |-> ws, maxTests |-> maxTests, share |-> share, sequence |-> sequence, floor |-> min,
   overrides |-> overrides, mutations |-> mutations, detectors |-> detectors, maxFindings |-> findings,
   confirmRuns |-> runs, minimize |-> minimize]

\* Two workers over both kinds of tasks; the planner past its floor and without one; the
\* mutation of sequences; the triage of findings.
MCConfigs ==
  {Config({w1, w2}, 2, "some", FALSE, 1, {}, {}, {"5xx"}, 2, 0, FALSE),
   Config({w1}, 3, "none", FALSE, 0, {Override("", <<"cart">>)}, {}, {"latency"}, 2, 0, FALSE),
   Config({w1}, 5, "none", FALSE, 2, {Override("", <<"cart">>)}, {}, {}, 0, 0, FALSE),
   Config({w1}, 1, "some", TRUE, 1, {}, {"uri", "json"}, {"5xx", "latency", "regex"}, 4, 0, FALSE),
   Config({w1}, 1, "none", TRUE, 0, {}, {}, {}, 1, 3, TRUE)}
=============================================================================
