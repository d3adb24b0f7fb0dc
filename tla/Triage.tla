--------------------------------- MODULE Triage ---------------------------------
(***************************************************************************)
(* Confirmation and minimisation of a finding (triage/triage.go), as a      *)
(* worker runs them at the end of handleHit.  What is replayed is a tree:   *)
(* <<i>> stands for the i-th exchange of the session, <<i, k>> for key k of  *)
(* its body (or parameter, element or part k), <<i, k, l>> for key l of the  *)
(* object under k.  The content of a session is the set of its paths; a      *)
(* replay of it shows an anomaly or does not, and that is all triage sees.   *)
(***************************************************************************)
EXTENDS Naturals, Sequences, FiniteSets, SequencesExt

CONSTANTS
  Workers,        \* of the run
  maxNestedDepth  \* 5 in the code

ASSUME TriageAssumption == IsFiniteSet(Workers) /\ maxNestedDepth \in Nat

VARIABLES
  triage,    \* triage[w]: the finding that worker w has in hand
  cancelled  \* the campaign's context

Idle == [phase |-> "idle"]

-----------------------------------------------------------------------------
(* Trees.                                                                  *)

Under(at, p) == Len(p) > Len(at) /\ IsPrefix(at, p)
Children(content, at) == {p[Len(at) + 1] : p \in {q \in content : Under(at, q)}}
\* onlyKeys and withoutKeys.
Only(content, at, keys) == {p \in content : Under(at, p) => p[Len(at) + 1] \in keys}
Without(content, p) == {q \in content : ~IsPrefix(p, q)}
Sorted(S) == CHOOSE s \in SetToSeqs(S) : \A i, j \in DOMAIN s : i < j => s[i] < s[j]
\* What an encoded body keeps: of a parameter its first value, of an element its text, of
\* a part its name and body; JSON keeps its tree.
Reencode(content, i, kind) ==
  IF kind = "json" THEN content ELSE {p \in content : p[1] = i => Len(p) <= 2}

-----------------------------------------------------------------------------
(* Replays.                                                                *)

\* A steady target shows an anomaly when one of the needs is in the content; any
\* anomaly counts, whichever need it is that raised the finding.
Triggers(t, content) == \E need \in t.needs : need \subseteq content

\* stillTriggers: a replay that the cancellation interrupts is an error and counts as
\* none, like the verification that is not even started.
Answers(t, content) ==
  IF cancelled THEN {FALSE} ELSE IF t.flaky THEN BOOLEAN ELSE {Triggers(t, content)}

Ask(w, content, yes, no) ==
  \E answer \in Answers(triage[w], content) :
    triage' = [triage EXCEPT ![w] =
      [(IF answer THEN [yes EXCEPT !.content = content] ELSE no) EXCEPT !.asked = @ + 1]]

Become(w, t) == triage' = [triage EXCEPT ![w] = t]

\* Confirmation starts with the session as it was mutated and replayed.
Begin(w, content, kinds, runs, minimize) ==
  \E flaky \in BOOLEAN, p, q \in content, both \in BOOLEAN :
    /\ flaky => both /\ p = q /\ p = <<1>>
    /\ Become(w, [phase |-> "confirm", content |-> content, kinds |-> kinds, runs |-> runs,
                  minimize |-> minimize, left |-> runs, reproduced |-> 0, todo |-> <<>>,
                  work |-> <<>>, base |-> content, original |-> content, asked |-> 0, flaky |-> flaky,
                  needs |-> IF both THEN {{p, q}} ELSE {{p}, {q}}])

-----------------------------------------------------------------------------
(* Confirm.                                                                *)

ConfirmRun(w) ==
  LET t == triage[w]
      next == [t EXCEPT !.left = @ - 1]
  IN  /\ t.phase = "confirm"
      /\ t.left > 0
      /\ IF cancelled THEN Become(w, [t EXCEPT !.phase = "done"])
         ELSE Ask(w, t.content, [next EXCEPT !.reproduced = @ + 1], next)

\* At least half of the runs, rounded up.
ConfirmEnd(w) ==
  LET t == triage[w]
      rest == Reverse(Sorted(Children(t.content, <<>>) \ {1}))
  IN  /\ t.phase = "confirm"
      /\ t.left = 0
      /\ Become(w, IF t.reproduced >= (t.runs + 1) \div 2 /\ t.minimize
                   THEN [t EXCEPT !.phase = "session", !.todo = rest]
                   ELSE [t EXCEPT !.phase = "done"])

-----------------------------------------------------------------------------
(* MinimizeSession: one exchange at a time, from the last one to the second. *)

\* Mutant: the exchange is taken from the session as it was confirmed.
DropExchange_Stale(w) ==
  LET t == triage[w]
      next == [t EXCEPT !.todo = Tail(@)]
      i == <<Head(t.todo)>>
  IN  /\ t.phase = "session"
      /\ t.todo # <<>>
      /\ ~cancelled
      /\ \E answer \in Answers(t, Without(t.original, i)) :
           Become(w, IF answer THEN [next EXCEPT !.content = Without(@, i)] ELSE next)

DropExchange(w) ==
  LET t == triage[w]
      next == [t EXCEPT !.todo = Tail(@)]
  IN  /\ t.phase = "session"
      /\ t.todo # <<>>
      /\ ~cancelled
      /\ Ask(w, Without(t.content, <<Head(t.todo)>>), next, next)

SessionEnd(w) ==
  LET t == triage[w]
  IN  /\ t.phase = "session"
      /\ t.todo = <<>> \/ cancelled
      /\ Become(w, [t EXCEPT !.phase = "bodies", !.todo = Sorted(Children(t.content, <<>>))])

-----------------------------------------------------------------------------
(* The bodies of the exchanges that are left, by content type.             *)

Frame(kind, at, keys) == [kind |-> kind, at |-> at, keys |-> keys]
KeysOf(content, at) == Frame("keys", at, Sorted(Children(content, at)))
Nested(at) == Frame("nested", at, <<>>)

Body(w, kinds) ==
  /\ triage[w].phase = "bodies"
  /\ triage[w].todo # <<>>
  /\ triage[w].kinds[Head(triage[w].todo)] \in kinds

Reduce(w, frames) == Become(w, [triage[w] EXCEPT !.phase = "keys", !.work = frames])
Current(w) == <<Head(triage[w].todo)>>
Keys(w) == KeysOf(triage[w].content, Current(w))

\* Objects in objects are reduced too; parameters and elements are flat.
MinimizeJSONBody(w) == Body(w, {"json"}) /\ Reduce(w, <<Keys(w), Nested(Current(w))>>)
MinimizeQueryParams(w) == Body(w, {"form"}) /\ Reduce(w, <<Keys(w)>>)
MinimizeXMLBody(w) == Body(w, {"xml"}) /\ Reduce(w, <<Keys(w)>>)

\* From the last part to the first.
MinimizeMultipartBody(w) ==
  LET t == triage[w]
      parts == Reverse(Sorted(Children(t.content, Current(w))))
  IN  /\ Body(w, {"multipart"})
      /\ Become(w, IF Len(parts) > 1
                   THEN [t EXCEPT !.phase = "parts", !.work = parts, !.base = t.content]
                   ELSE [t EXCEPT !.todo = Tail(@)])

\* Another type, or a body that its decoder refuses.
SkipBody(w) ==
  /\ Body(w, {"opaque"})
  /\ Become(w, [triage[w] EXCEPT !.todo = Tail(@)])

BodiesEnd(w) ==
  LET t == triage[w]
  IN  /\ t.phase = "bodies"
      /\ t.todo = <<>>
      /\ Become(w, [t EXCEPT !.phase = "done"])

BodyEnd(t) == [t EXCEPT !.phase = "bodies", !.todo = Tail(@), !.work = <<>>]

\* verify of MinimizeXMLBody refuses an empty document without a replay.
Verify(w, content, yes, no) ==
  LET t == triage[w]
      i == Head(t.todo)
  IN  IF t.kinds[i] = "xml" /\ Children(content, <<i>>) = {} THEN Become(w, no)
      ELSE Ask(w, Reencode(content, i, t.kinds[i]), yes, no)

\* removeKeys, of which work is the stack: the right half alone, the left half alone,
\* else either half in turn; a single key is just left out.
RemoveKeys(w) ==
  LET t == triage[w]
      f == Head(t.work)
      Do(frames) == [t EXCEPT !.work = frames \o Tail(@)]
      mid == Len(f.keys) \div 2
      left == SubSeq(f.keys, 1, mid)
      right == SubSeq(f.keys, mid + 1, Len(f.keys))
      Half(keys) == Frame("keys", f.at, keys)
      Keep(keys) == Only(t.content, f.at, Range(keys))
  IN  /\ t.phase = "keys"
      /\ t.work # <<>>
      /\ \/ /\ f.kind = "keys" /\ Len(f.keys) = 0
            /\ Become(w, Do(<<>>))
         \/ /\ f.kind = "keys" /\ Len(f.keys) = 1
            /\ Verify(w, Without(t.content, Append(f.at, f.keys[1])), Do(<<>>), Do(<<>>))
         \/ /\ f.kind = "keys" /\ Len(f.keys) > 1
            /\ Verify(w, Keep(right), Do(<<Half(right)>>), Do(<<Frame("left", f.at, f.keys)>>))
         \/ /\ f.kind = "left"
            /\ Verify(w, Keep(left), Do(<<Half(left)>>),
                      Do(IF cancelled THEN <<>> ELSE <<Half(left), Half(right)>>))

\* deltaDebugKeys, phase 2: the objects under the keys that are left.
Descend(w) ==
  LET t == triage[w]
      f == Head(t.work)
      objects == Sorted({k \in Children(t.content, f.at) : Children(t.content, Append(f.at, k)) # {}})
      Object(k) == <<KeysOf(t.content, Append(f.at, k)), Nested(Append(f.at, k))>>
  IN  /\ t.phase = "keys"
      /\ t.work # <<>>
      /\ f.kind = "nested"
      /\ Become(w, [t EXCEPT !.work =
           (IF Len(f.at) - 1 < maxNestedDepth
            THEN FlattenSeq([j \in DOMAIN objects |-> Object(objects[j])]) ELSE <<>>) \o Tail(@)])

KeysEnd(w) ==
  /\ triage[w].phase = "keys"
  /\ triage[w].work = <<>>
  /\ Become(w, BodyEnd(triage[w]))

\* MinimizeMultipartBody: a cancellation throws away what it has done so far.
RemovePart(w) ==
  LET t == triage[w]
      next == [t EXCEPT !.work = Tail(@)]
  IN  /\ t.phase = "parts"
      /\ t.work # <<>>
      /\ IF cancelled THEN Become(w, BodyEnd([t EXCEPT !.content = t.base]))
         ELSE Ask(w, Reencode(Without(t.content, <<Head(t.todo), Head(t.work)>>), Head(t.todo), "multipart"),
                  next, next)

PartsEnd(w) ==
  /\ triage[w].phase = "parts"
  /\ triage[w].work = <<>>
  /\ Become(w, BodyEnd(triage[w]))

TriageStep(w) ==
  \/ ConfirmRun(w) \/ ConfirmEnd(w)
  \/ DropExchange(w) \/ SessionEnd(w)
  \/ MinimizeJSONBody(w) \/ MinimizeQueryParams(w) \/ MinimizeXMLBody(w) \/ MinimizeMultipartBody(w)
  \/ SkipBody(w) \/ RemoveKeys(w) \/ Descend(w) \/ KeysEnd(w) \/ RemovePart(w) \/ PartsEnd(w) \/ BodiesEnd(w)

-----------------------------------------------------------------------------
(* What it comes to.                                                       *)

\* The paths minimisation tries to leave out; the first exchange, a single part, the last
\* element and objects nested too deep are never tried.
Reducible(t, p) ==
  LET kind == t.kinds[p[1]]
      siblings == Children(t.content, <<p[1]>>)
  IN  \/ Len(p) = 1 /\ p # <<1>>
      \/ kind = "json" /\ Len(p) \in 2..maxNestedDepth + 2
      \/ kind = "form" /\ Len(p) = 2
      \/ kind \in {"xml", "multipart"} /\ Len(p) = 2 /\ Cardinality(siblings) > 1

\* The session without it, as it would be sent.
LeftOut(t, p) ==
  IF Len(p) = 1 THEN Without(t.content, p) ELSE Reencode(Without(t.content, p), p[1], t.kinds[p[1]])

\* Replays of one finding: the confirmation, one per exchange, three per key.
MaxAsked(t) == t.runs + 3 * Cardinality(t.original)
=============================================================================
