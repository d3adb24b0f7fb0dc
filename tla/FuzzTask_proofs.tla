---------------------------- MODULE FuzzTask_proofs ----------------------------
(***************************************************************************)
(* Theorems about FuzzTask for any recordings, configurations, responses   *)
(* and workers.                                                            *)
(***************************************************************************)
EXTENDS FuzzTask, FoldLemmas

-----------------------------------------------------------------------------
(* What triage keeps.                                                      *)

\* The fields of a finding in triage that its trigger depends on.
Fields == {"phase", "content", "base", "needs", "flaky", "asked"}

\* Both the session at hand and the one to fall back on show an anomaly.
Shown(t) ==
  /\ Fields \subseteq DOMAIN t
  /\ ~t.flaky => Triggers(t, t.content) /\ Triggers(t, t.base)

\* Every finding in hand shows its anomaly, or its worker has none in hand.
TriageInv ==
  /\ triage = [w \in Workers |-> triage[w]]
  /\ \A w \in Workers : triage[w] = Idle \/ Shown(triage[w])

\* The same sessions of the same target.
Alike(t, u) ==
  /\ Fields \subseteq DOMAIN u
  /\ u.content = t.content /\ u.base = t.base
  /\ u.needs = t.needs /\ u.flaky = t.flaky

\* What is shown stays shown when a triage only goes on.
LEMMA AlikeShown ==
  ASSUME NEW t, Shown(t), NEW u, Alike(t, u)
  PROVE  Shown(u)
  BY DEF Shown, Alike, Triggers

\* The changes that leave content and base alone.
LEMMA AlikeExcept ==
  ASSUME NEW t, Fields \subseteq DOMAIN t, NEW a, NEW b, NEW c
  PROVE  /\ Alike(t, t)
         /\ Alike(t, [t EXCEPT !.phase = a])
         /\ Alike(t, [t EXCEPT !.left = a])
         /\ Alike(t, [t EXCEPT !.todo = a])
         /\ Alike(t, [t EXCEPT !.work = a])
         /\ Alike(t, [t EXCEPT !.phase = a, !.todo = b])
         /\ Alike(t, [t EXCEPT !.phase = a, !.work = b])
         /\ Alike(t, [t EXCEPT !.phase = a, !.todo = b, !.work = c])
         /\ Alike(t, [[t EXCEPT !.left = a] EXCEPT !.reproduced = b])
  BY DEF Alike, Fields

\* A triage in a phase of its own is not idle.
LEMMA Busy ==
  ASSUME TriageInv, NEW w \in Workers, triage[w].phase # "idle"
  PROVE  Shown(triage[w]) /\ Fields \subseteq DOMAIN triage[w]
<1>1. Idle.phase = "idle"
  BY DEF Idle
<1> QED BY <1>1 DEF TriageInv, Shown

\* A step of one worker's triage.
LEMMA BecomeKept ==
  ASSUME TriageInv, NEW w \in Workers, NEW u, Become(w, u), u = Idle \/ Shown(u)
  PROVE  TriageInv'
  BY DEF TriageInv, Become

\* A replay that answers yes may replace the content by what it has replayed.
LEMMA AskKept ==
  ASSUME TriageInv, NEW w \in Workers, triage[w].phase # "idle", NEW content, NEW yes, NEW no,
         Alike(triage[w], yes), Alike(triage[w], no), Ask(w, content, yes, no)
  PROVE  TriageInv'
<1> DEFINE t == triage[w]
<1>1. Shown(t)
  BY Busy
<1>2. PICK answer \in Answers(t, content) :
        triage' = [triage EXCEPT ![w] =
          [(IF answer THEN [yes EXCEPT !.content = content] ELSE no) EXCEPT !.asked = @ + 1]]
  BY DEF Ask
<1> DEFINE u == [(IF answer THEN [yes EXCEPT !.content = content] ELSE no) EXCEPT !.asked = @ + 1]
<1>3. ASSUME answer PROVE Shown(u)
  <2>1. t.flaky \/ Triggers(t, content)
    BY <1>3 DEF Answers
  <2>2. /\ Fields \subseteq DOMAIN u /\ u.content = content /\ u.base = t.base
        /\ u.needs = t.needs /\ u.flaky = t.flaky
    BY <1>3 DEF Alike, Fields
  <2> HIDE DEF u
  <2> QED BY <1>1, <2>1, <2>2 DEF Shown, Triggers
<1>4. ASSUME ~answer PROVE Shown(u)
  <2>1. Alike(t, u)
    BY <1>4 DEF Alike, Fields
  <2> HIDE DEF u
  <2> QED BY <1>1, <2>1, AlikeShown
<1>5. Become(w, u) /\ Shown(u)
  BY <1>2, <1>3, <1>4 DEF Become
<1> HIDE DEF u
<1> QED BY <1>5, BecomeKept

\* A triage that goes on with what it has.
LEMMA GoOnKept ==
  ASSUME TriageInv, NEW w \in Workers, triage[w].phase # "idle", NEW u, Become(w, u), Alike(triage[w], u)
  PROVE  TriageInv'
<1>1. Shown(triage[w])
  BY Busy
<1>2. Shown(u)
  BY <1>1, AlikeShown
<1> QED BY <1>2, BecomeKept

\* Confirmation begins with a session that holds what its target needs.
LEMMA BeginKept ==
  ASSUME TriageInv, NEW w \in Workers, NEW content, NEW kinds, NEW runs, NEW minimize,
         Begin(w, content, kinds, runs, minimize)
  PROVE  TriageInv'
<1>1. PICK flaky \in BOOLEAN, p \in content, q \in content, both \in BOOLEAN :
        Become(w, [phase |-> "confirm", content |-> content, kinds |-> kinds, runs |-> runs,
                   minimize |-> minimize, left |-> runs, reproduced |-> 0, todo |-> <<>>,
                   work |-> <<>>, base |-> content, original |-> content, asked |-> 0, flaky |-> flaky,
                   needs |-> IF both THEN {{p, q}} ELSE {{p}, {q}}])
  BY ZenonT(60) DEF Begin
<1> DEFINE u == [phase |-> "confirm", content |-> content, kinds |-> kinds, runs |-> runs,
                 minimize |-> minimize, left |-> runs, reproduced |-> 0, todo |-> <<>>,
                 work |-> <<>>, base |-> content, original |-> content, asked |-> 0, flaky |-> flaky,
                 needs |-> IF both THEN {{p, q}} ELSE {{p}, {q}}]
<1>2. Fields \subseteq DOMAIN u /\ u.content = content /\ u.base = content
      /\ u.needs = IF both THEN {{p, q}} ELSE {{p}, {q}}
  BY DEF Fields
<1>3. Become(w, u)
  BY <1>1
<1> HIDE DEF u
<1>4. \E need \in u.needs : need \subseteq content
  <2>1. CASE both
    <3>1. {p, q} \in u.needs /\ {p, q} \subseteq content
      BY <1>2, <2>1
    <3> QED BY <3>1
  <2>2. CASE ~both
    <3>1. {p} \in u.needs /\ {p} \subseteq content
      BY <1>2, <2>2
    <3> QED BY <3>1
  <2> QED BY <2>1, <2>2
<1>5. Shown(u)
  BY <1>2, <1>4 DEF Shown, Triggers
<1> QED BY <1>3, <1>5, BecomeKept

\* Every step of a triage keeps both sessions showing an anomaly.
LEMMA TriageStepKept ==
  ASSUME TriageInv, NEW w \in Workers, TriageStep(w)
  PROVE  TriageInv'
<1> DEFINE t == triage[w]
<1>1. t.phase # "idle"
  BY Zenon DEF TriageStep, ConfirmRun, ConfirmEnd, DropExchange, SessionEnd, MinimizeJSONBody, MinimizeQueryParams,
         MinimizeXMLBody, MinimizeMultipartBody, SkipBody, Body, RemoveKeys, Descend, KeysEnd, RemovePart,
         PartsEnd, BodiesEnd
<1>2. Shown(t) /\ Fields \subseteq DOMAIN t
  BY <1>1, Busy
<1> HIDE DEF t
<1>3. ASSUME NEW content, NEW yes, NEW no, Ask(w, content, yes, no), Alike(t, yes), Alike(t, no) PROVE TriageInv'
  BY <1>1, <1>3, AskKept DEF t
<1>4. ASSUME NEW u, Become(w, u), Alike(t, u) PROVE TriageInv'
  BY <1>1, <1>4, GoOnKept DEF t
<1>5. CASE ConfirmRun(w)
  BY Zenon, <1>2, <1>3, <1>4, <1>5, AlikeExcept DEF ConfirmRun, t
<1>6. CASE ConfirmEnd(w)
  BY Zenon, <1>2, <1>4, <1>6, AlikeExcept DEF ConfirmEnd, t
<1>7. CASE DropExchange(w)
  BY Zenon, <1>2, <1>3, <1>7, AlikeExcept DEF DropExchange, t
<1>8. CASE SessionEnd(w) \/ SkipBody(w) \/ BodiesEnd(w)
  BY Zenon, <1>2, <1>4, <1>8, AlikeExcept DEF SessionEnd, SkipBody, BodiesEnd, t
<1>9. CASE MinimizeJSONBody(w) \/ MinimizeQueryParams(w) \/ MinimizeXMLBody(w)
  BY Zenon, <1>2, <1>4, <1>9, AlikeExcept DEF MinimizeJSONBody, MinimizeQueryParams, MinimizeXMLBody, Reduce, t
<1>10. CASE MinimizeMultipartBody(w)
  <2>1. CASE \E todo : Become(w, [t EXCEPT !.todo = todo])
    BY Zenon, <1>2, <1>4, <2>1, AlikeExcept
  <2>2. ASSUME NEW parts, Become(w, [t EXCEPT !.phase = "parts", !.work = parts, !.base = t.content])
        PROVE  TriageInv'
    <3> DEFINE u == [t EXCEPT !.phase = "parts", !.work = parts, !.base = t.content]
    <3>1. /\ Fields \subseteq DOMAIN u /\ u.content = t.content /\ u.base = t.content
          /\ u.needs = t.needs /\ u.flaky = t.flaky
      BY <1>2 DEF Fields
    <3> HIDE DEF u
    <3>2. Shown(u)
      BY <1>2, <3>1 DEF Shown, Triggers
    <3> QED BY <2>2, <3>2, BecomeKept DEF u
  <2> QED BY <1>10, <2>1, <2>2 DEF MinimizeMultipartBody, t
<1>11. CASE RemoveKeys(w)
  <2> DEFINE f == Head(t.work)
             Do(frames) == [t EXCEPT !.work = frames \o Tail(@)]
  <2>1. \A frames : Alike(t, Do(frames))
    BY Zenon, <1>2, AlikeExcept
  <2>2. ASSUME NEW content, NEW a, NEW b, Verify(w, content, Do(a), Do(b)) PROVE TriageInv'
    <3>1. Alike(t, Do(a)) /\ Alike(t, Do(b))
      BY Zenon, <2>1
    <3> HIDE DEF Do
    <3>2. (\E c : Ask(w, c, Do(a), Do(b))) \/ Become(w, Do(b))
      BY Zenon, <2>2 DEF Verify
    <3> QED BY <1>3, <1>4, <3>1, <3>2
  <2>3. \/ \E a : Become(w, Do(a))
        \/ \E content, a, b : Verify(w, content, Do(a), Do(b))
    BY <1>11 DEF RemoveKeys, t
  <2> HIDE DEF Do
  <2> QED BY <1>4, <2>1, <2>2, <2>3
<1>12. CASE Descend(w)
  <2>1. \E work : Become(w, [t EXCEPT !.work = work])
    BY Zenon, <1>12 DEF Descend, t
  <2> QED BY Zenon, <1>2, <1>4, <2>1, AlikeExcept
<1>13. CASE KeysEnd(w) \/ PartsEnd(w)
  BY Zenon, <1>2, <1>4, <1>13, AlikeExcept DEF KeysEnd, PartsEnd, BodyEnd, t
<1>14. CASE RemovePart(w)
  <2>1. CASE cancelled
    <3> DEFINE u == BodyEnd([t EXCEPT !.content = t.base])
    <3>1. /\ Fields \subseteq DOMAIN u /\ u.content = t.base /\ u.base = t.base
          /\ u.needs = t.needs /\ u.flaky = t.flaky
      BY <1>2 DEF Fields, BodyEnd
    <3>2. Become(w, u)
      BY <1>14, <2>1 DEF RemovePart, t
    <3> HIDE DEF u
    <3>3. Shown(u)
      BY <1>2, <3>1 DEF Shown, Triggers
    <3> QED BY <3>2, <3>3, BecomeKept
  <2>2. CASE ~cancelled
    BY Zenon, <1>2, <1>3, <1>14, <2>2, AlikeExcept DEF RemovePart, t
  <2> QED BY <2>1, <2>2
<1> QED
  BY <1>5, <1>6, <1>7, <1>8, <1>9, <1>10, <1>11, <1>12, <1>13, <1>14 DEF TriageStep

-----------------------------------------------------------------------------
(* Keys in order.                                                          *)

\* In ascending order, without a repetition.
Increasing(s) == \A i, j \in DOMAIN s : i < j => s[i] < s[j]

\* A finite set of numbers can be listed in order.
LEMMA SortedExists ==
  ASSUME NEW S \in SUBSET Nat, IsFiniteSet(S)
  PROVE  \E s \in SetToSeqs(S) : Increasing(s)
<1> DEFINE G == {T \in SUBSET S : \E s \in SetToSeqs(T) : Increasing(s)}
<1>1. ASSUME NEW T \in SUBSET S, \A U \in SUBSET T : U # T => U \in G PROVE T \in G
  <2>1. IsFiniteSet(T) /\ Cardinality(T) \in Nat
    BY FS_Subset, FS_CardinalityType
  <2>2. CASE T = {}
    <3> DEFINE s == [i \in 1..0 |-> 0]
    <3>1. Cardinality(T) = 0
      BY <2>2, FS_EmptySet
    <3>2. s \in SetToSeqs(T) /\ Increasing(s)
      BY <2>2, <3>1 DEF SetToSeqs, Increasing
    <3> QED BY <3>2
  <2>3. CASE T # {}
    <3>1. PICK m \in T : \A k \in T : m <= k
      BY <2>3, NatLeast
    <3> DEFINE U == T \ {m}
               n == Cardinality(T)
    <3>2. n \in Nat \ {0} /\ Cardinality(U) = n - 1
      BY <2>1, <2>3, FS_RemoveElement, FS_EmptySet
    <3>3. U \in G
      BY <1>1
    <3>4. PICK s \in SetToSeqs(U) : Increasing(s)
      BY <3>3
    <3> HIDE DEF n
    <3>5. /\ s \in [1..(n - 1) -> U]
          /\ \A i, j \in 1..(n - 1) : i # j => s[i] # s[j]
      BY <3>2, <3>4 DEF SetToSeqs
    <3> DEFINE r == [i \in 1..n |-> IF i = 1 THEN m ELSE s[i - 1]]
    <3>6. \A i \in 1..n : i # 1 => i - 1 \in 1..(n - 1)
      BY <3>2
    <3>7. \A i \in 1..n : r[i] \in T /\ (i # 1 => r[i] = s[i - 1] /\ r[i] \in U)
      BY <3>5, <3>6
    <3>8. r[1] = m
      BY <3>2
    <3>11. r \in [1..n -> T] /\ DOMAIN r = 1..n
      BY <3>7
    <3> HIDE DEF r
    <3>9. \A i, j \in 1..n : i < j => r[i] < r[j]
      <4> SUFFICES ASSUME NEW i \in 1..n, NEW j \in 1..n, i < j PROVE r[i] < r[j]
        OBVIOUS
      <4>1. j # 1 /\ j \in 1..n
        BY <3>2
      <4>2. r[j] \in T /\ r[j] \in U
        BY <3>7, <4>1
      <4>3. r[j] # m /\ m \in Nat /\ r[j] \in Nat
        BY <4>2
      <4>4. CASE i = 1
        BY <3>1, <3>8, <4>4, <4>2, <4>3
      <4>5. CASE i # 1
        <5>1. i - 1 \in DOMAIN s /\ j - 1 \in DOMAIN s /\ i - 1 < j - 1
          BY <3>2, <3>5, <3>6, <4>1, <4>5
        <5>2. s[i - 1] < s[j - 1]
          BY <3>4, <5>1 DEF Increasing
        <5> QED BY <3>7, <4>1, <4>5, <5>2
      <4> QED BY <4>4, <4>5
    <3>10. \A i \in 1..n : r[i] \in Nat
      BY <3>7
    <3>12. \A i, j \in 1..n : i # j => r[i] # r[j]
      BY <3>2, <3>9, <3>10
    <3>13. r \in SetToSeqs(T)
      BY <3>11, <3>12 DEF SetToSeqs, n
    <3>14. Increasing(r)
      BY <3>9, <3>11 DEF Increasing
    <3> QED BY <3>13, <3>14
  <2> QED BY <2>2, <2>3
<1> HIDE DEF G
<1>2. \A T \in SUBSET S : T \in G
  BY <1>1, SubsetInduction
<1> QED BY <1>2 DEF G

\* What sort.Strings or sort.Ints returns.
LEMMA SortedFacts ==
  ASSUME NEW S \in SUBSET Nat, IsFiniteSet(S)
  PROVE  /\ Sorted(S) \in Seq(Nat)
         /\ Range(Sorted(S)) = S
         /\ Len(Sorted(S)) = Cardinality(S)
<1> DEFINE s == Sorted(S)
           n == Cardinality(S)
<1>1. s \in SetToSeqs(S)
  BY SortedExists DEF Sorted, Increasing
<1>2. n \in Nat
  BY FS_CardinalityType
<1>3. s \in [1..n -> S] /\ \A i, j \in 1..n : i # j => s[i] # s[j]
  BY <1>1 DEF SetToSeqs
<1> HIDE DEF s
<1>4. IsFiniteSet(1..n) /\ Cardinality(1..n) = n
  <2>1. 1 \in Int /\ n \in Int
    BY <1>2
  <2>2. IsFiniteSet(1..n) /\ Cardinality(1..n) = IF 1 > n THEN 0 ELSE n - 1 + 1
    BY <2>1, FS_Interval
  <2> HIDE DEF n
  <2> QED BY <1>2, <2>2
<1>5. s \in Injection(1..n, S)
  BY <1>3 DEF Injection, IsInjective
<1>6. s \in Surjection(1..n, S)
  BY <1>4, <1>5, FS_Injection DEF n
<1>7. Range(s) = S
  BY <1>6 DEF Surjection, Range
<1> HIDE DEF n
<1>8. s \in Seq(Nat) /\ Len(s) = n
  <2>1. s \in [1..n -> Nat]
    BY <1>3
  <2> QED BY <1>2, <2>1
<1> QED BY <1>7, <1>8 DEF s, n

-----------------------------------------------------------------------------
(* What triage has tried to leave out.                                     *)

\* Where something is in a session: the exchange, then the keys or the part.
Paths == Seq(Nat) \ {<<>>}

\* A path has a first step, and one of length 1 is that step.
LEMMA PathLength ==
  ASSUME NEW p \in Paths
  PROVE  /\ Len(p) \in Nat /\ (Len(p) = 1 \/ Len(p) > 1) /\ p[1] \in Nat
         /\ \A k : Len(p) = 1 /\ p[1] = k => p = <<k>>
<1> DEFINE n == Len(p)
<1>1. n \in Nat /\ n # 0 /\ p[1] \in Nat
  BY DEF Paths
<1>2. \A k : n = 1 /\ p[1] = k => p = <<k>>
  BY DEF Paths
<1> HIDE DEF n
<1>3. n = 1 \/ n > 1
  BY <1>1
<1> QED BY <1>1, <1>2, <1>3 DEF n

\* A session that is replayed, as a tree.
Session(content) == content \subseteq Paths /\ IsFiniteSet(content)

\* What is below a path is numbered, finite, and has the next step of every longer path.
LEMMA ChildrenFacts ==
  ASSUME NEW content, Session(content), NEW at \in Seq(Nat)
  PROVE  /\ Children(content, at) \subseteq Nat
         /\ IsFiniteSet(Children(content, at))
         /\ \A p \in content : IsPrefix(at, p) /\ Len(p) > Len(at) => p[Len(at) + 1] \in Children(content, at)
<1> DEFINE below == {p \in content : Under(at, p)}
           f == [p \in below |-> p[Len(at) + 1]]
<1>1. IsFiniteSet(below)
  BY FS_Subset DEF Session
<1>2. Children(content, at) = {f[p] : p \in below}
  BY Zenon DEF Children
<1>3. IsFiniteSet(Children(content, at))
  <2> HIDE DEF f, below
  <2> QED BY <1>1, <1>2, ValuesFinite
<1>4. \A p \in content : Under(at, p) => p[Len(at) + 1] \in Nat
  BY DEF Session, Paths, Under
<1> QED BY <1>3, <1>4 DEF Children, Under

\* Nothing that is replayed holds more than the session at hand.
LEMMA Smaller ==
  ASSUME NEW content, NEW p, NEW at, NEW keys, NEW i, NEW kind
  PROVE  /\ Without(content, p) \subseteq content
         /\ Only(content, at, keys) \subseteq content
         /\ Reencode(content, i, kind) \subseteq content
  BY DEF Without, Only, Reencode

\* A part of a session is one.
LEMMA SessionSmaller ==
  ASSUME NEW content, Session(content), NEW c \in SUBSET content
  PROVE  Session(c)
  BY FS_Subset DEF Session

\* What can be left out of a smaller session could be left out before, and what could
\* not still cannot.
LEMMA StillNeeded ==
  ASSUME NEW t, Session(t.content), NEW u, u.content \subseteq t.content, u.kinds = t.kinds, u.needs = t.needs,
         NEW p \in u.content, Reducible(u, p)
  PROVE  /\ Reducible(t, p)
         /\ ~Triggers(t, LeftOut(t, p)) => ~Triggers(u, LeftOut(u, p))
<1>1. p \in Paths /\ p[1] \in Nat /\ <<p[1]>> \in Seq(Nat)
  BY DEF Session, Paths
<1>2. Children(u.content, <<p[1]>>) \subseteq Children(t.content, <<p[1]>>)
  BY DEF Children
<1>3. /\ IsFiniteSet(Children(t.content, <<p[1]>>))
      /\ Cardinality(Children(t.content, <<p[1]>>)) \in Nat
  BY <1>1, ChildrenFacts, FS_CardinalityType
<1>4. /\ Cardinality(Children(u.content, <<p[1]>>)) \in Nat
      /\ Cardinality(Children(u.content, <<p[1]>>)) <= Cardinality(Children(t.content, <<p[1]>>))
  <2>1. IsFiniteSet(Children(u.content, <<p[1]>>))
    BY <1>2, <1>3, FS_Subset
  <2> QED BY <1>2, <1>3, <2>1, FS_Subset, FS_CardinalityType
<1>5. Reducible(t, p)
  <2> DEFINE n == Cardinality(Children(u.content, <<p[1]>>))
             m == Cardinality(Children(t.content, <<p[1]>>))
  <2>1. n \in Nat /\ m \in Nat /\ n <= m
    BY <1>3, <1>4
  <2>2. /\ Reducible(u, p) <=> \/ Len(p) = 1 /\ p # <<1>>
                               \/ u.kinds[p[1]] = "json" /\ Len(p) \in 2..maxNestedDepth + 2
                               \/ u.kinds[p[1]] = "form" /\ Len(p) = 2
                               \/ u.kinds[p[1]] \in {"xml", "multipart"} /\ Len(p) = 2 /\ n > 1
        /\ Reducible(t, p) <=> \/ Len(p) = 1 /\ p # <<1>>
                               \/ t.kinds[p[1]] = "json" /\ Len(p) \in 2..maxNestedDepth + 2
                               \/ t.kinds[p[1]] = "form" /\ Len(p) = 2
                               \/ t.kinds[p[1]] \in {"xml", "multipart"} /\ Len(p) = 2 /\ m > 1
    BY Zenon DEF Reducible
  <2> HIDE DEF n, m
  <2>3. n > 1 => m > 1
    BY <2>1
  <2> QED BY <2>2, <2>3
<1>6. LeftOut(u, p) \subseteq LeftOut(t, p)
  <2>1. Without(u.content, p) \subseteq Without(t.content, p)
    BY DEF Without
  <2>2. ASSUME NEW a, NEW b, a \subseteq b, NEW i, NEW kind PROVE Reencode(a, i, kind) \subseteq Reencode(b, i, kind)
    BY <2>2 DEF Reencode
  <2> QED BY <2>1, <2>2 DEF LeftOut
<1>7. Triggers(u, LeftOut(u, p)) => Triggers(t, LeftOut(t, p))
  BY <1>6 DEF Triggers
<1> QED BY <1>5, <1>7

\* The work of a body, and what a frame of it still stands for: its keys, or all that
\* is nested deeper.
Frames(i) == {f \in [kind : {"keys", "left", "nested"}, at : Paths, keys : Seq(Nat)] : f.at[1] = i}

\* What a frame of the minimiser still has to look at.
Scope(f, p) ==
  /\ IsPrefix(f.at, p)
  /\ IF f.kind = "nested" THEN Len(p) >= Len(f.at) + 2
     ELSE Len(p) = Len(f.at) + 1 /\ p[Len(p)] \in Range(f.keys)

Scoped(work, p) == \E j \in DOMAIN work : Scope(work[j], p)

\* The scope of two stacks, one on the other.
LEMMA ScopedConcat ==
  ASSUME NEW S, NEW a \in Seq(S), NEW b \in Seq(S), NEW p
  PROVE  Scoped(a \o b, p) <=> Scoped(a, p) \/ Scoped(b, p)
<1>1. /\ \A j \in DOMAIN a : j \in DOMAIN (a \o b) /\ (a \o b)[j] = a[j]
      /\ \A j \in DOMAIN b : j + Len(a) \in DOMAIN (a \o b) /\ (a \o b)[j + Len(a)] = b[j]
  OBVIOUS
<1>2. \A j \in DOMAIN (a \o b) :
        \/ j \in DOMAIN a /\ (a \o b)[j] = a[j]
        \/ j - Len(a) \in DOMAIN b /\ (a \o b)[j] = b[j - Len(a)]
  OBVIOUS
<1> DEFINE ab == a \o b
<1> HIDE DEF ab
<1>3. /\ \A j \in DOMAIN a : j \in DOMAIN ab /\ ab[j] = a[j]
      /\ \A j \in DOMAIN b : j + Len(a) \in DOMAIN ab /\ ab[j + Len(a)] = b[j]
  BY <1>1 DEF ab
<1>4. \A j \in DOMAIN ab :
        \/ j \in DOMAIN a /\ ab[j] = a[j]
        \/ j - Len(a) \in DOMAIN b /\ ab[j] = b[j - Len(a)]
  BY <1>2 DEF ab
<1>5. Scoped(ab, p) <=> Scoped(a, p) \/ Scoped(b, p)
  BY Zenon, <1>3, <1>4 DEF Scoped
<1> QED BY <1>5 DEF ab

\* The scope of a stack is that of its first frame and of the others.
LEMMA ScopedHead ==
  ASSUME NEW S, NEW work \in Seq(S), work # <<>>, NEW p
  PROVE  /\ Head(work) \in S /\ Tail(work) \in Seq(S)
         /\ Scoped(work, p) <=> Scope(Head(work), p) \/ Scoped(Tail(work), p)
<1>1. Head(work) \in S /\ Tail(work) \in Seq(S)
  OBVIOUS
<1>2. /\ 1 \in DOMAIN work /\ Head(work) = work[1]
      /\ \A j \in DOMAIN Tail(work) : j + 1 \in DOMAIN work /\ Tail(work)[j] = work[j + 1]
      /\ \A j \in DOMAIN work : j = 1 \/ (j - 1 \in DOMAIN Tail(work) /\ Tail(work)[j - 1] = work[j])
  OBVIOUS
<1> DEFINE r == Tail(work)
<1> HIDE DEF r
<1>3. /\ \A j \in DOMAIN r : j + 1 \in DOMAIN work /\ r[j] = work[j + 1]
      /\ \A j \in DOMAIN work : j = 1 \/ (j - 1 \in DOMAIN r /\ r[j - 1] = work[j])
  BY <1>2 DEF r
<1>4. Scoped(work, p) <=> Scope(Head(work), p) \/ Scoped(r, p)
  BY Zenon, <1>2, <1>3 DEF Scoped
<1> QED BY <1>1, <1>4 DEF r

\* The scope of stacks of none, one and two frames.
LEMMA ScopedShort ==
  ASSUME NEW f, NEW g, NEW p
  PROVE  /\ ~Scoped(<<>>, p)
         /\ Scoped(<<f>>, p) <=> Scope(f, p)
         /\ Scoped(<<f, g>>, p) <=> Scope(f, p) \/ Scope(g, p)
<1>1. /\ DOMAIN <<>> = {}
      /\ DOMAIN <<f>> = {1} /\ <<f>>[1] = f
      /\ DOMAIN <<f, g>> = {1, 2} /\ <<f, g>>[1] = f /\ <<f, g>>[2] = g
  OBVIOUS
<1> QED BY Zenon, <1>1 DEF Scoped

\* The path of what a frame stands for lies below its place.
LEMMA ScopeBelow ==
  ASSUME NEW i, NEW f \in Frames(i), NEW p \in Paths, Scope(f, p)
  PROVE  Len(p) > 1 /\ p[1] = i
<1>1. f.at \in Paths /\ f.at[1] = i
  BY DEF Frames
<1>2. Len(p) > Len(f.at) /\ Len(f.at) > 0 /\ SubSeq(f.at, 1, Len(f.at)) = SubSeq(p, 1, Len(f.at))
  BY <1>1 DEF Scope, IsPrefix, Paths
<1>3. SubSeq(f.at, 1, Len(f.at))[1] = f.at[1] /\ SubSeq(p, 1, Len(f.at))[1] = p[1]
  BY <1>1, <1>2 DEF Paths
<1> QED BY <1>1, <1>2, <1>3 DEF Paths

\* The paths that the rest of a minimisation comes to.
Ahead(t, p) ==
  CASE t.phase = "session" -> Len(p) > 1 \/ p[1] \in Range(t.todo)
    [] t.phase = "bodies" -> Len(p) > 1 /\ p[1] \in Range(t.todo)
    [] t.phase = "keys" -> Len(p) > 1 /\ (p[1] \in Range(Tail(t.todo)) \/ Scoped(t.work, p))
    [] t.phase = "parts" ->
         Len(p) > 1 /\ (p[1] \in Range(Tail(t.todo)) \/ (p[1] = Head(t.todo) /\ p[2] \in Range(t.work)))
    [] OTHER -> FALSE

\* None of the others can be left out.
Tried(t) ==
  \A p \in t.content : Reducible(t, p) /\ ~Ahead(t, p) => ~Triggers(t, LeftOut(t, p))

\* The phases of a minimisation.
Minimising == {"session", "bodies", "keys", "parts"}

\* All that a step of triage reads of a finding, but the session it was found with.
AllFields == Fields \cup {"kinds", "minimize", "runs", "left", "reproduced", "todo", "work"}

\* What is left to do, by phase.
Working(t) ==
  /\ t.todo \in Seq(Nat)
  /\ t.phase \in {"keys", "parts"} => t.todo # <<>>
  /\ t.phase = "keys" => t.work \in Seq(Frames(Head(t.todo)))
  /\ t.phase = "parts" => t.work \in Seq(Nat) /\ t.kinds[Head(t.todo)] = "multipart"

\* A confirmation under way.
Confirming(t) ==
  /\ t.runs \in Nat
  /\ t.left \in 0..t.runs
  /\ ~t.flaky => t.reproduced = t.runs - t.left

\* How far a triage is that was not stopped.
Reduced(t) ==
  /\ AllFields \subseteq DOMAIN t
  /\ Session(t.content)
  /\ \/ t.phase = "confirm" /\ Confirming(t)
     \/ t.phase \in Minimising /\ Working(t)
     \/ t.phase = "done"
  /\ ~t.flaky /\ (t.phase \in Minimising \/ (t.phase = "done" /\ t.minimize)) => Tried(t)

\* A minimisation that goes on, perhaps with less, and leaves only behind what it tried.
LEMMA GoesOn ==
  ASSUME NEW t, Reduced(t), t.phase \in Minimising,
         NEW u, AllFields \subseteq DOMAIN u, u.kinds = t.kinds, u.needs = t.needs, u.flaky = t.flaky,
         u.content \subseteq t.content,
         (u.phase \in Minimising /\ Working(u)) \/ u.phase = "done",
         \A p \in u.content : ~t.flaky /\ Reducible(u, p) /\ Ahead(t, p) /\ ~Ahead(u, p)
                                => ~Triggers(u, LeftOut(u, p))
  PROVE  Reduced(u)
<1>1. Session(t.content) /\ Session(u.content)
  BY SessionSmaller DEF Reduced
<1>2. ASSUME ~t.flaky, NEW p \in u.content, Reducible(u, p), ~Ahead(u, p)
      PROVE  ~Triggers(u, LeftOut(u, p))
  <2>1. CASE Ahead(t, p)
    BY <1>2, <2>1
  <2>2. CASE ~Ahead(t, p)
    <3>1. Reducible(t, p) /\ (~Triggers(t, LeftOut(t, p)) => ~Triggers(u, LeftOut(u, p)))
      BY <1>1, <1>2, StillNeeded
    <3>2. Tried(t)
      BY <1>2 DEF Reduced
    <3> QED BY <1>2, <2>2, <3>1, <3>2 DEF Tried
  <2> QED BY <2>1, <2>2
<1>3. ~t.flaky => Tried(u)
  BY <1>2 DEF Tried
<1> QED BY <1>1, <1>3 DEF Reduced

\* The count of replays is no part of it.
LEMMA AskedAside ==
  ASSUME NEW t, Reduced(t), NEW n
  PROVE  Reduced([t EXCEPT !.asked = n])
<1> DEFINE u == [t EXCEPT !.asked = n]
<1>1. /\ AllFields \subseteq DOMAIN u
      /\ u.content = t.content /\ u.phase = t.phase /\ u.todo = t.todo /\ u.work = t.work
      /\ u.kinds = t.kinds /\ u.needs = t.needs /\ u.flaky = t.flaky /\ u.minimize = t.minimize
      /\ u.runs = t.runs /\ u.left = t.left /\ u.reproduced = t.reproduced
  BY DEF Reduced, AllFields, Fields
<1> HIDE DEF u
<1>2. /\ Confirming(u) <=> Confirming(t)
      /\ Working(u) <=> Working(t)
  BY <1>1 DEF Confirming, Working
<1>3. \A p : /\ Reducible(u, p) <=> Reducible(t, p)
             /\ Ahead(u, p) <=> Ahead(t, p)
             /\ LeftOut(u, p) = LeftOut(t, p)
  BY <1>1 DEF Reducible, Ahead, LeftOut
<1>4. \A c : Triggers(u, c) <=> Triggers(t, c)
  BY <1>1 DEF Triggers
<1>5. Tried(u) <=> Tried(t)
  BY <1>1, <1>3, <1>4 DEF Tried
<1>6. Reduced(u)
  BY <1>1, <1>2, <1>5 DEF Reduced
<1> QED BY <1>6 DEF u

\* A step without a replay, and one with a replay and its two ways on.
LEMMA BecomeReduced ==
  ASSUME TriageInv, NEW w \in Workers, NEW u, Become(w, u), Reduced(u)
  PROVE  Reduced(triage'[w])
<1>1. triage'[w] = u
  BY DEF TriageInv, Become
<1> QED BY <1>1

\* A replay leaves a reduced session when both of its answers do.
LEMMA AskReduced ==
  ASSUME TriageInv, NEW w \in Workers, ~cancelled, NEW content, NEW yes, NEW no, Ask(w, content, yes, no),
         triage[w].flaky \/ Triggers(triage[w], content) => Reduced([yes EXCEPT !.content = content]),
         triage[w].flaky \/ ~Triggers(triage[w], content) => Reduced(no)
  PROVE  Reduced(triage'[w])
<1> DEFINE t == triage[w]
<1>1. PICK answer \in Answers(t, content) :
        triage' = [triage EXCEPT ![w] =
          [(IF answer THEN [yes EXCEPT !.content = content] ELSE no) EXCEPT !.asked = @ + 1]]
  BY DEF Ask
<1> DEFINE v == IF answer THEN [yes EXCEPT !.content = content] ELSE no
<1>2. Reduced(v)
  <2>1. CASE answer
    <3>1. t.flaky \/ Triggers(t, content)
      BY <2>1 DEF Answers
    <3> QED BY <2>1, <3>1
  <2>2. CASE ~answer
    <3>1. t.flaky \/ ~Triggers(t, content)
      BY <2>2 DEF Answers
    <3> QED BY <2>2, <3>1
  <2> QED BY <2>1, <2>2
<1> HIDE DEF v
<1>3. triage' = [triage EXCEPT ![w] = [v EXCEPT !.asked = v.asked + 1]]
  BY <1>1 DEF v
<1>4. Become(w, [v EXCEPT !.asked = v.asked + 1])
  BY <1>3 DEF Become
<1>5. Reduced([v EXCEPT !.asked = v.asked + 1])
  BY <1>2, AskedAside
<1> QED BY <1>4, <1>5, BecomeReduced

-----------------------------------------------------------------------------
(* The steps of a triage that is not stopped.                              *)

\* One more run of the confirmation: a steady target shows its anomaly again.
LEMMA ConfirmRunReduced ==
  ASSUME TriageInv, NEW w \in Workers, Reduced(triage[w]), ~cancelled, ConfirmRun(w)
  PROVE  Reduced(triage'[w])
<1> DEFINE t == triage[w]
           next == [t EXCEPT !.left = @ - 1]
           yes == [[next EXCEPT !.reproduced = @ + 1] EXCEPT !.content = t.content]
<1>1. t.phase = "confirm" /\ t.left > 0 /\ Ask(w, t.content, [next EXCEPT !.reproduced = @ + 1], next)
  BY DEF ConfirmRun
<1>2. /\ AllFields \subseteq DOMAIN t /\ Session(t.content) /\ Confirming(t)
  BY <1>1 DEF Reduced, Minimising
<1>3. ~t.flaky => Triggers(t, t.content)
  BY <1>1, Busy DEF Shown
<1>4. /\ AllFields \subseteq DOMAIN yes /\ yes.phase = "confirm" /\ yes.content = t.content /\ yes.runs = t.runs
      /\ yes.left = t.left - 1 /\ yes.reproduced = t.reproduced + 1 /\ yes.flaky = t.flaky
  BY <1>1, <1>2 DEF AllFields, Fields
<1>5. /\ AllFields \subseteq DOMAIN next /\ next.phase = "confirm" /\ next.content = t.content /\ next.runs = t.runs
      /\ next.left = t.left - 1 /\ next.flaky = t.flaky
  BY <1>1, <1>2 DEF AllFields, Fields
<1>6. Reduced(yes)
  <2> HIDE DEF yes
  <2>1. Confirming(yes)
    BY <1>1, <1>2, <1>4 DEF Confirming
  <2> QED BY <1>2, <1>4, <2>1 DEF Reduced, Minimising
<1>7. t.flaky => Reduced(next)
  <2> HIDE DEF next
  <2>1. t.flaky => Confirming(next)
    BY <1>1, <1>2, <1>5 DEF Confirming
  <2> QED BY <1>2, <1>5, <2>1 DEF Reduced, Minimising
<1> QED BY Zenon, <1>1, <1>3, <1>6, <1>7, AskReduced

\* From the last to the first: the same keys.
LEMMA Reversed ==
  ASSUME NEW q \in Seq(Nat)
  PROVE  Reverse(q) \in Seq(Nat) /\ Range(Reverse(q)) = Range(q) /\ Len(Reverse(q)) = Len(q)
<1> DEFINE r == Reverse(q)
           n == Len(q)
<1>1. /\ n \in Nat /\ DOMAIN q = 1..n /\ DOMAIN r = 1..n
      /\ \A i \in 1..n : q[i] \in Nat /\ r[i] = q[n - i + 1]
  BY DEF Reverse
<1>2. r \in Seq(Nat) /\ Len(r) = n
  BY DEF Reverse
<1> HIDE DEF r, n
<1>3. \A i \in 1..n : n - i + 1 \in 1..n /\ r[n - i + 1] = q[i]
  <2> SUFFICES ASSUME NEW i \in 1..n PROVE n - i + 1 \in 1..n /\ r[n - i + 1] = q[i]
    OBVIOUS
  <2>1. n - i + 1 \in 1..n /\ n - (n - i + 1) + 1 = i
    BY <1>1
  <2> QED BY <1>1, <2>1
<1>4. Range(r) = Range(q)
  <2>1. ASSUME NEW x PROVE x \in Range(r) <=> \E i \in 1..n : r[i] = x
    BY <1>1 DEF Range
  <2>2. ASSUME NEW x PROVE x \in Range(q) <=> \E i \in 1..n : q[i] = x
    BY <1>1 DEF Range
  <2>3. \A i \in 1..n : n - i + 1 \in 1..n /\ r[i] = q[n - i + 1] /\ r[n - i + 1] = q[i]
    BY <1>1, <1>3
  <2> QED BY Zenon, <2>1, <2>2, <2>3
<1> QED BY <1>2, <1>4 DEF r, n

\* After it every exchange but the first is to be tried.
LEMMA ConfirmEndReduced ==
  ASSUME TriageInv, NEW w \in Workers, Reduced(triage[w]), ~cancelled, ConfirmEnd(w)
  PROVE  Reduced(triage'[w])
<1> DEFINE t == triage[w]
           S == Children(t.content, <<>>) \ {1}
           rest == Reverse(Sorted(S))
           go == [t EXCEPT !.phase = "session", !.todo = rest]
           stop == [t EXCEPT !.phase = "done"]
<1>1. /\ t.phase = "confirm" /\ t.left = 0
      /\ Become(w, IF t.reproduced >= (t.runs + 1) \div 2 /\ t.minimize THEN go ELSE stop)
  BY DEF ConfirmEnd
<1>2. /\ AllFields \subseteq DOMAIN t /\ Session(t.content) /\ Confirming(t)
  BY <1>1 DEF Reduced, Minimising
<1>3. /\ AllFields \subseteq DOMAIN go /\ go.phase = "session" /\ go.todo = rest /\ go.content = t.content
  BY <1>1, <1>2 DEF AllFields, Fields
<1>4. /\ AllFields \subseteq DOMAIN stop /\ stop.phase = "done" /\ stop.content = t.content
      /\ stop.minimize = t.minimize /\ stop.flaky = t.flaky
  BY <1>1, <1>2 DEF AllFields, Fields
<1>5. rest \in Seq(Nat) /\ Range(rest) = S
  <2>1. <<>> \in Seq(Nat) /\ IsFiniteSet(S) /\ S \subseteq Nat
    <3>1. <<>> \in Seq(Nat)
      OBVIOUS
    <3>2. IsFiniteSet(Children(t.content, <<>>)) /\ Children(t.content, <<>>) \subseteq Nat
      BY <1>2, <3>1, ChildrenFacts
    <3> QED BY <3>1, <3>2, FS_Subset
  <2> HIDE DEF S
  <2>2. Sorted(S) \in Seq(Nat) /\ Range(Sorted(S)) = S
    BY <2>1, SortedFacts
  <2> QED BY <2>2, Reversed
<1>6. Reduced(go)
  <2>1. \A p \in t.content : Ahead(go, p) \/ p = <<1>>
    <3> HIDE DEF go, rest
    <3> SUFFICES ASSUME NEW p \in t.content PROVE Ahead(go, p) \/ p = <<1>>
      OBVIOUS
    <3>0. p \in Paths
      BY <1>2 DEF Session
    <3>1. Ahead(go, p) <=> Len(p) > 1 \/ p[1] \in S
      BY <1>3, <1>5 DEF Ahead
    <3>2. Len(p) = 1 \/ Len(p) > 1
      BY <3>0, PathLength
    <3>3. Len(p) = 1 => p[1] \in Children(t.content, <<>>)
      <4>1. IsPrefix(<<>>, p) /\ <<>> \in Seq(Nat) /\ Len(<<>>) = 0
        BY <3>0 DEF IsPrefix, Paths
      <4>2. \A q \in t.content : IsPrefix(<<>>, q) /\ Len(q) > Len(<<>>) => q[Len(<<>>) + 1] \in Children(t.content, <<>>)
        BY Zenon, <1>2, <4>1, ChildrenFacts
      <4>3. Len(p) > 0 => p[Len(<<>>) + 1] \in Children(t.content, <<>>)
        BY <4>1, <4>2
      <4> QED BY <4>1, <4>3
    <3>4. Len(p) = 1 /\ p[1] = 1 => p = <<1>>
      BY <3>0, PathLength
    <3>5. Len(p) = 1 => p[1] \in S \/ p = <<1>>
      BY <3>3, <3>4
    <3> HIDE DEF S
    <3> QED BY Zenon, <3>1, <3>2, <3>5
  <2> HIDE DEF go, rest
  <2>2. \A p \in go.content : Reducible(go, p) => Ahead(go, p)
    <3>1. ~Reducible(go, <<1>>)
      <4>1. Len(<<1>>) = 1
        OBVIOUS
      <4> QED BY <4>1, TriageAssumption DEF Reducible
    <3> QED BY <1>3, <2>1, <3>1
  <2>3. Tried(go) /\ Working(go)
    BY <1>3, <1>5, <2>2 DEF Tried, Working
  <2> QED BY <1>2, <1>3, <2>3 DEF Reduced, Minimising
<1>7. ~(t.reproduced >= (t.runs + 1) \div 2 /\ t.minimize) => Reduced(stop)
  <2>1. ~t.flaky => t.reproduced >= (t.runs + 1) \div 2
    <3> DEFINE r == t.runs
    <3>1. ~t.flaky => r \in Nat /\ t.reproduced = r
      BY <1>1, <1>2 DEF Confirming
    <3> HIDE DEF r
    <3>2. r \in Nat => r >= (r + 1) \div 2
      OBVIOUS
    <3> QED BY <3>1, <3>2 DEF r
  <2> HIDE DEF stop
  <2> QED BY <1>2, <1>4, <2>1 DEF Reduced, Minimising
<1> HIDE DEF go, stop
<1> QED BY <1>1, <1>6, <1>7, BecomeReduced

\* The first of a list, and the others.
LEMMA FirstOf ==
  ASSUME NEW s \in Seq(Nat), s # <<>>
  PROVE  /\ Head(s) \in Nat /\ Tail(s) \in Seq(Nat)
         /\ \A k \in Range(s) : k = Head(s) \/ k \in Range(Tail(s))
<1>1. Head(s) \in Nat /\ Tail(s) \in Seq(Nat)
  OBVIOUS
<1>2. /\ Head(s) = s[1]
      /\ \A j \in DOMAIN s : j = 1 \/ (j - 1 \in DOMAIN Tail(s) /\ Tail(s)[j - 1] = s[j])
  OBVIOUS
<1> DEFINE r == Tail(s)
<1> HIDE DEF r
<1>3. \A j \in DOMAIN s : j = 1 \/ (j - 1 \in DOMAIN r /\ r[j - 1] = s[j])
  BY <1>2 DEF r
<1>4. ASSUME NEW k \in Range(s) PROVE k = Head(s) \/ k \in Range(r)
  <2>1. PICK j \in DOMAIN s : k = s[j]
    BY <1>4 DEF Range
  <2>2. CASE j = 1
    BY <1>2, <2>1, <2>2
  <2>3. CASE j - 1 \in DOMAIN r /\ r[j - 1] = s[j]
    BY <2>1, <2>3 DEF Range
  <2> QED BY <1>3, <2>2, <2>3
<1> QED BY <1>1, <1>4 DEF r

\* A session without an exchange, and the session that still needs it.
LEMMA DropExchangeReduced ==
  ASSUME TriageInv, NEW w \in Workers, Reduced(triage[w]), ~cancelled, DropExchange(w)
  PROVE  Reduced(triage'[w])
<1> DEFINE t == triage[w]
           i == <<Head(t.todo)>>
           next == [t EXCEPT !.todo = Tail(@)]
           yes == [next EXCEPT !.content = Without(t.content, i)]
<1>1. t.phase = "session" /\ t.todo # <<>> /\ Ask(w, Without(t.content, i), next, next)
  BY DEF DropExchange
<1>2. AllFields \subseteq DOMAIN t /\ t.phase \in Minimising /\ t.todo \in Seq(Nat) /\ Session(t.content)
  BY <1>1 DEF Reduced, Minimising, Working
<1>3. /\ AllFields \subseteq DOMAIN yes /\ yes.phase = "session" /\ yes.todo = Tail(t.todo)
      /\ yes.content = Without(t.content, i)
      /\ yes.kinds = t.kinds /\ yes.needs = t.needs /\ yes.flaky = t.flaky
  BY <1>1, <1>2 DEF AllFields, Fields
<1>4. /\ AllFields \subseteq DOMAIN next /\ next.phase = "session" /\ next.todo = Tail(t.todo)
      /\ next.content = t.content
      /\ next.kinds = t.kinds /\ next.needs = t.needs /\ next.flaky = t.flaky
  BY <1>1, <1>2 DEF AllFields, Fields
<1> HIDE DEF next, yes
<1>5. /\ Tail(t.todo) \in Seq(Nat)
      /\ \A k \in Range(t.todo) : k = Head(t.todo) \/ k \in Range(Tail(t.todo))
  BY <1>1, <1>2, FirstOf
<1>6. Working(yes) /\ Working(next)
  BY <1>3, <1>4, <1>5 DEF Working
<1>7. \A p \in t.content : Ahead(t, p) => (Ahead(yes, p) /\ Ahead(next, p)) \/ p = i
  <2> SUFFICES ASSUME NEW p \in t.content, Ahead(t, p), ~(Len(p) > 1), p[1] \notin Range(Tail(t.todo))
               PROVE  p = i
    BY <1>3, <1>4 DEF Ahead
  <2>1. p[1] = Head(t.todo)
    BY <1>1, <1>5 DEF Ahead
  <2>2. p \in Paths
    BY <1>2 DEF Session
  <2> QED BY <2>1, <2>2, PathLength
<1>8. i \notin Without(t.content, i) /\ Without(t.content, i) \subseteq t.content
  <2>1. i \in Seq(Nat)
    BY <1>1, <1>2, FirstOf
  <2>2. IsPrefix(i, i)
    BY <2>1 DEF IsPrefix
  <2> QED BY <2>2 DEF Without
<1>9. Reduced(yes)
  <2>1. \A p \in yes.content : Ahead(t, p) => Ahead(yes, p)
    BY <1>3, <1>7, <1>8
  <2>2. yes.phase \in Minimising
    BY <1>2, <1>3, <1>1
  <2> QED BY Zenon, <1>2, <1>3, <1>6, <1>8, <2>1, <2>2, GoesOn
<1>10. t.flaky \/ ~Triggers(t, Without(t.content, i)) => Reduced(next)
  <2> SUFFICES ASSUME t.flaky \/ ~Triggers(t, Without(t.content, i)) PROVE Reduced(next)
    OBVIOUS
  <2>1. ~t.flaky => ~Triggers(next, LeftOut(next, i))
    <3>1. Len(i) = 1
      OBVIOUS
    <3> QED BY <1>4, <3>1 DEF LeftOut, Triggers
  <2>2. \A p \in next.content : ~t.flaky /\ Ahead(t, p) /\ ~Ahead(next, p) => ~Triggers(next, LeftOut(next, p))
    BY <1>4, <1>7, <2>1
  <2>3. next.phase \in Minimising /\ next.content \subseteq t.content
    BY <1>2, <1>4, <1>1
  <2> QED BY Zenon, <1>2, <1>4, <1>6, <2>2, <2>3, GoesOn
<1> QED BY Zenon, <1>1, <1>9, <1>10, AskReduced DEF yes

\* A step that only turns to other work.
LEMMA TurnReduced ==
  ASSUME TriageInv, NEW w \in Workers, Reduced(triage[w]), triage[w].phase \in Minimising,
         NEW phase \in Minimising, NEW todo, NEW work,
         NEW u, Become(w, u), AllFields \subseteq DOMAIN u, u.kinds = triage[w].kinds, u.needs = triage[w].needs,
         u.flaky = triage[w].flaky, u.content = triage[w].content, u.phase = phase, u.todo = todo, u.work = work,
         Working(u),
         \A p \in triage[w].content : p \in Paths /\ Reducible(triage[w], p) /\ Ahead(triage[w], p) => Ahead(u, p)
  PROVE  Reduced(triage'[w])
<1> DEFINE t == triage[w]
<1>1. Session(t.content) /\ Session(u.content)
  BY DEF Reduced
<1>2. \A p \in u.content : Reducible(u, p) => Reducible(t, p) /\ p \in Paths
  BY <1>1, StillNeeded DEF Session
<1>3. Reduced(u)
  <2>1. \A p \in u.content : Reducible(u, p) /\ Ahead(t, p) => Ahead(u, p)
    BY <1>2
  <2> QED BY <2>1, GoesOn
<1> QED BY <1>3, BecomeReduced

\* The keys of a place, in order.
LEMMA Listed ==
  ASSUME NEW content, Session(content), NEW at \in Seq(Nat)
  PROVE  /\ Sorted(Children(content, at)) \in Seq(Nat)
         /\ Range(Sorted(Children(content, at))) = Children(content, at)
         /\ Len(Sorted(Children(content, at))) = Cardinality(Children(content, at))
  BY ChildrenFacts, SortedFacts

\* A path begins with nothing and with its first step.
LEMMA FirstStep ==
  ASSUME NEW p \in Paths
  PROVE  /\ IsPrefix(<<>>, p) /\ IsPrefix(<<p[1]>>, p)
         /\ <<>> \in Seq(Nat) /\ <<p[1]>> \in Paths
<1>1. p \in Seq(Nat) /\ p # <<>> /\ p[1] \in Nat /\ Len(p) >= 1
  BY PathLength DEF Paths
<1>2. IsPrefix(<<>>, p) /\ IsPrefix(<<p[1]>>, p)
  BY <1>1 DEF IsPrefix
<1> QED BY <1>1, <1>2 DEF Paths

\* Every exchange of a session is listed, and every key of a body.
LEMMA ListedAll ==
  ASSUME NEW content, Session(content), NEW p \in content
  PROVE  /\ p[1] \in Range(Sorted(Children(content, <<>>)))
         /\ Len(p) > 1 => p[2] \in Range(Sorted(Children(content, <<p[1]>>)))
<1>1. p \in Paths
  BY DEF Session
<1>2. /\ IsPrefix(<<>>, p) /\ IsPrefix(<<p[1]>>, p) /\ <<>> \in Seq(Nat) /\ <<p[1]>> \in Seq(Nat)
      /\ Len(<<>>) = 0 /\ Len(<<p[1]>>) = 1
  BY <1>1, FirstStep DEF Paths
<1>3. Len(p) > 0
  BY <1>1, PathLength
<1>4. p[1] \in Children(content, <<>>)
  <2>1. p[Len(<<>>) + 1] \in Children(content, <<>>)
    BY Zenon, <1>2, <1>3, ChildrenFacts
  <2> QED BY <1>2, <2>1
<1>5. Len(p) > 1 => p[2] \in Children(content, <<p[1]>>)
  <2>1. Len(p) > Len(<<p[1]>>) => p[Len(<<p[1]>>) + 1] \in Children(content, <<p[1]>>)
    BY Zenon, <1>2, ChildrenFacts
  <2> QED BY <1>2, <2>1
<1> QED BY <1>2, <1>4, <1>5, Listed

\* The bodies of what is left come after the exchanges.
LEMMA SessionEndReduced ==
  ASSUME TriageInv, NEW w \in Workers, Reduced(triage[w]), ~cancelled, SessionEnd(w)
  PROVE  Reduced(triage'[w])
<1> DEFINE t == triage[w]
           list == Sorted(Children(t.content, <<>>))
           u == [t EXCEPT !.phase = "bodies", !.todo = list]
<1>1. t.phase = "session" /\ t.todo = <<>> /\ Become(w, u)
  BY DEF SessionEnd
<1>2. AllFields \subseteq DOMAIN t /\ t.phase \in Minimising /\ Session(t.content)
  BY <1>1 DEF Reduced, Minimising
<1>3. /\ AllFields \subseteq DOMAIN u /\ u.phase = "bodies" /\ u.todo = list /\ u.work = t.work
      /\ u.content = t.content /\ u.kinds = t.kinds /\ u.needs = t.needs /\ u.flaky = t.flaky
  BY <1>1, <1>2 DEF AllFields, Fields
<1>4. list \in Seq(Nat)
  <2>1. <<>> \in Seq(Nat)
    OBVIOUS
  <2> QED BY Zenon, <1>2, <2>1, Listed
<1>5. \A p \in t.content : p[1] \in Range(list)
  BY <1>2, ListedAll
<1> HIDE DEF u, list
<1>6. Working(u) /\ "bodies" \in Minimising
  BY <1>3, <1>4 DEF Working, Minimising
<1>7. \A p \in t.content : Ahead(t, p) => Ahead(u, p)
  <2>1. Range(t.todo) = {}
    BY <1>1 DEF Range
  <2> QED BY <1>1, <1>3, <1>5, <2>1 DEF Ahead
<1> QED BY Zenon, <1>1, <1>2, <1>3, <1>6, <1>7, TurnReduced

\* What a body's keys come to, with what is nested under them or without.
LEMMA ReduceReduced ==
  ASSUME TriageInv, NEW w \in Workers, Reduced(triage[w]), triage[w].phase = "bodies", triage[w].todo # <<>>,
         NEW frames \in Seq(Frames(Head(triage[w].todo))), Reduce(w, frames),
         \A p \in triage[w].content :
           p \in Paths /\ Reducible(triage[w], p) /\ Len(p) > 1 /\ p[1] = Head(triage[w].todo) => Scoped(frames, p)
  PROVE  Reduced(triage'[w])
<1> DEFINE t == triage[w]
           u == [t EXCEPT !.phase = "keys", !.work = frames]
<1>1. Become(w, u)
  BY DEF Reduce
<1>2. AllFields \subseteq DOMAIN t /\ t.phase \in Minimising /\ Session(t.content) /\ t.todo \in Seq(Nat)
  BY DEF Reduced, Minimising, Working
<1>3. /\ AllFields \subseteq DOMAIN u /\ u.phase = "keys" /\ u.todo = t.todo /\ u.work = frames
      /\ u.content = t.content /\ u.kinds = t.kinds /\ u.needs = t.needs /\ u.flaky = t.flaky
  BY <1>1, <1>2 DEF AllFields, Fields
<1> HIDE DEF u
<1>4. Working(u) /\ "keys" \in Minimising
  BY <1>2, <1>3 DEF Working, Minimising
<1>5. \A k \in Range(t.todo) : k = Head(t.todo) \/ k \in Range(Tail(t.todo))
  BY <1>2, FirstOf
<1>6. \A p \in t.content : p \in Paths /\ Reducible(t, p) /\ Ahead(t, p) => Ahead(u, p)
  BY <1>3, <1>5 DEF Ahead
<1> QED BY Zenon, <1>1, <1>2, <1>3, <1>4, <1>6, TurnReduced

\* The frames of a body: its keys, and what is nested in it.
LEMMA BodyFrames ==
  ASSUME NEW content, Session(content), NEW i \in Nat
  PROVE  /\ KeysOf(content, <<i>>) \in Frames(i) /\ Nested(<<i>>) \in Frames(i)
         /\ \A p \in content : p[1] = i /\ Len(p) = 2 => Scope(KeysOf(content, <<i>>), p)
         /\ \A p \in content : p[1] = i /\ Len(p) > 2 => Scope(Nested(<<i>>), p)
<1>1. <<i>> \in Paths /\ <<i>> \in Seq(Nat) /\ <<i>>[1] = i /\ Len(<<i>>) = 1
  BY DEF Paths
<1>2. Sorted(Children(content, <<i>>)) \in Seq(Nat) /\ <<>> \in Seq(Nat)
  <2>1. Sorted(Children(content, <<i>>)) \in Seq(Nat)
    BY Zenon, <1>1, Listed
  <2> QED BY <2>1
<1>3. KeysOf(content, <<i>>) \in Frames(i) /\ Nested(<<i>>) \in Frames(i)
  BY <1>1, <1>2 DEF KeysOf, Nested, Frame, Frames
<1>4. ASSUME NEW p \in content, p[1] = i
      PROVE  /\ IsPrefix(<<i>>, p)
             /\ Len(p) \in Nat
             /\ Len(p) > 1 => p[2] \in Range(Sorted(Children(content, <<i>>)))
  <2>1. p \in Paths
    BY DEF Session
  <2> QED BY <1>4, <2>1, FirstStep, ListedAll, PathLength
<1>5. ASSUME NEW p \in content, p[1] = i, Len(p) = 2 PROVE Scope(KeysOf(content, <<i>>), p)
  BY <1>1, <1>4, <1>5 DEF Scope, KeysOf, Frame
<1>6. ASSUME NEW p \in content, p[1] = i, Len(p) > 2 PROVE Scope(Nested(<<i>>), p)
  <2> DEFINE n == Len(p)
  <2>1. n \in Nat /\ n > 2
    BY <1>4, <1>6
  <2> HIDE DEF n
  <2>2. n >= 1 + 2
    BY <2>1
  <2> QED BY <1>1, <1>4, <1>6, <2>2 DEF Scope, Nested, Frame, n
<1> QED BY <1>3, <1>5, <1>6

\* The first exchange that is left, with its body.
LEMMA FirstBody ==
  ASSUME NEW t, Reduced(t), t.phase = "bodies", t.todo # <<>>
  PROVE  /\ AllFields \subseteq DOMAIN t /\ Session(t.content)
         /\ t.phase \in Minimising
         /\ t.todo \in Seq(Nat) /\ Head(t.todo) \in Nat /\ Tail(t.todo) \in Seq(Nat)
         /\ \A k \in Range(t.todo) : k = Head(t.todo) \/ k \in Range(Tail(t.todo))
<1>1. /\ AllFields \subseteq DOMAIN t /\ Session(t.content)
      /\ t.phase \in Minimising /\ t.todo \in Seq(Nat)
  BY DEF Reduced, Minimising, Working
<1> QED BY <1>1, FirstOf

\* Beginning with a JSON body.
LEMMA MinimizeJSONBodyReduced ==
  ASSUME TriageInv, NEW w \in Workers, Reduced(triage[w]), MinimizeJSONBody(w)
  PROVE  Reduced(triage'[w])
<1> DEFINE t == triage[w]
           i == Head(t.todo)
           keys == KeysOf(t.content, <<i>>)
           nested == Nested(<<i>>)
<1>1. t.phase = "bodies" /\ t.todo # <<>> /\ Reduce(w, <<keys, nested>>)
  BY DEF MinimizeJSONBody, Body, Keys, Current
<1>2. Session(t.content) /\ i \in Nat
  BY <1>1, FirstBody
<1> HIDE DEF i
<1>3. /\ keys \in Frames(i) /\ nested \in Frames(i)
      /\ \A p \in t.content : p[1] = i /\ Len(p) = 2 => Scope(keys, p)
      /\ \A p \in t.content : p[1] = i /\ Len(p) > 2 => Scope(nested, p)
  BY <1>2, BodyFrames
<1> HIDE DEF keys, nested
<1>4. <<keys, nested>> \in Seq(Frames(i))
  BY <1>3
<1>5. \A p \in t.content : p \in Paths /\ Len(p) > 1 /\ p[1] = i => Scoped(<<keys, nested>>, p)
  <2> SUFFICES ASSUME NEW p \in t.content, p \in Paths, Len(p) > 1, p[1] = i PROVE Scoped(<<keys, nested>>, p)
    OBVIOUS
  <2>1. Len(p) = 2 \/ Len(p) > 2
    <3> DEFINE n == Len(p)
    <3>1. n \in Nat /\ n > 1
      BY PathLength
    <3> HIDE DEF n
    <3>2. n = 2 \/ n > 2
      BY <3>1
    <3> QED BY <3>2 DEF n
  <2>2. Scope(keys, p) \/ Scope(nested, p)
    BY <1>3, <2>1
  <2> QED BY Zenon, <2>2, ScopedShort
<1> QED BY <1>1, <1>4, <1>5, ReduceReduced DEF i

\* Beginning with a query or an XML body.
LEMMA FlatBodyReduced ==
  ASSUME TriageInv, NEW w \in Workers, Reduced(triage[w]), MinimizeQueryParams(w) \/ MinimizeXMLBody(w)
  PROVE  Reduced(triage'[w])
<1> DEFINE t == triage[w]
           i == Head(t.todo)
           keys == KeysOf(t.content, <<i>>)
<1>1. /\ t.phase = "bodies" /\ t.todo # <<>> /\ Reduce(w, <<keys>>)
      /\ t.kinds[i] \in {"form", "xml"}
  BY DEF MinimizeQueryParams, MinimizeXMLBody, Body, Keys, Current
<1>2. Session(t.content) /\ i \in Nat
  BY <1>1, FirstBody
<1>3. \A p : Reducible(t, p) /\ Len(p) > 1 /\ p[1] = i => Len(p) = 2
  <2> SUFFICES ASSUME NEW p, Reducible(t, p), Len(p) > 1, p[1] = i PROVE Len(p) = 2
    OBVIOUS
  <2>1. Len(p) # 1
    <3>1. ~(1 > 1)
      OBVIOUS
    <3> QED BY Zenon, <3>1
  <2>2. t.kinds[p[1]] \in {"form", "xml"}
    BY <1>1
  <2> QED BY <2>1, <2>2 DEF Reducible
<1> HIDE DEF i
<1>4. /\ keys \in Frames(i)
      /\ \A p \in t.content : p[1] = i /\ Len(p) = 2 => Scope(keys, p)
  BY <1>2, BodyFrames
<1> HIDE DEF keys
<1>5. <<keys>> \in Seq(Frames(i))
  BY <1>4
<1>6. \A p \in t.content : p \in Paths /\ Reducible(t, p) /\ Len(p) > 1 /\ p[1] = i => Scoped(<<keys>>, p)
  BY Zenon, <1>3, <1>4, ScopedShort
<1> QED BY <1>1, <1>5, <1>6, ReduceReduced DEF i

\* A body that is turned over: none of its keys would be left out.
LEMMA NextBodyReduced ==
  ASSUME TriageInv, NEW w \in Workers, Reduced(triage[w]), triage[w].phase = "bodies", triage[w].todo # <<>>,
         Become(w, [triage[w] EXCEPT !.todo = Tail(@)]),
         \A p \in triage[w].content :
           p \in Paths /\ Reducible(triage[w], p) /\ Len(p) > 1 => p[1] # Head(triage[w].todo)
  PROVE  Reduced(triage'[w])
<1> DEFINE t == triage[w]
           u == [t EXCEPT !.todo = Tail(@)]
<1>1. Become(w, u)
  OBVIOUS
<1>2. /\ AllFields \subseteq DOMAIN t /\ t.phase \in Minimising /\ Session(t.content)
      /\ Tail(t.todo) \in Seq(Nat)
      /\ \A k \in Range(t.todo) : k = Head(t.todo) \/ k \in Range(Tail(t.todo))
  BY FirstBody
<1>3. /\ AllFields \subseteq DOMAIN u /\ u.phase = "bodies" /\ u.todo = Tail(t.todo) /\ u.work = t.work
      /\ u.content = t.content /\ u.kinds = t.kinds /\ u.needs = t.needs /\ u.flaky = t.flaky
  BY <1>2 DEF AllFields, Fields
<1> HIDE DEF u
<1>4. Working(u) /\ "bodies" \in Minimising
  BY <1>2, <1>3 DEF Working, Minimising
<1>5. \A p \in t.content : p \in Paths /\ Reducible(t, p) /\ Ahead(t, p) => Ahead(u, p)
  BY <1>2, <1>3 DEF Ahead
<1> QED BY Zenon, <1>1, <1>2, <1>3, <1>4, <1>5, TurnReduced

\* A body that no minimiser takes.
LEMMA SkipBodyReduced ==
  ASSUME TriageInv, NEW w \in Workers, Reduced(triage[w]), SkipBody(w)
  PROVE  Reduced(triage'[w])
<1> DEFINE t == triage[w]
<1>1. /\ t.phase = "bodies" /\ t.todo # <<>> /\ Become(w, [t EXCEPT !.todo = Tail(@)])
      /\ t.kinds[Head(t.todo)] = "opaque"
  BY DEF SkipBody, Body
<1>2. \A p : Reducible(t, p) /\ Len(p) > 1 => p[1] # Head(t.todo)
  <2> SUFFICES ASSUME NEW p, Reducible(t, p), Len(p) > 1, p[1] = Head(t.todo) PROVE FALSE
    OBVIOUS
  <2>1. Len(p) # 1
    <3>1. ~(1 > 1)
      OBVIOUS
    <3> QED BY Zenon, <3>1
  <2>2. t.kinds[p[1]] = "opaque"
    BY <1>1
  <2> QED BY <2>1, <2>2 DEF Reducible
<1> QED BY <1>1, <1>2, NextBodyReduced

\* Beginning with a multipart body.
LEMMA MinimizeMultipartBodyReduced ==
  ASSUME TriageInv, NEW w \in Workers, Reduced(triage[w]), MinimizeMultipartBody(w)
  PROVE  Reduced(triage'[w])
<1> DEFINE t == triage[w]
           i == Head(t.todo)
           listed == Sorted(Children(t.content, <<i>>))
           parts == Reverse(listed)
           u == [t EXCEPT !.phase = "parts", !.work = parts, !.base = t.content]
<1>1. /\ t.phase = "bodies" /\ t.todo # <<>> /\ t.kinds[i] = "multipart"
      /\ Become(w, IF Len(parts) > 1 THEN u ELSE [t EXCEPT !.todo = Tail(@)])
  BY DEF MinimizeMultipartBody, Body, Current
<1>2. /\ AllFields \subseteq DOMAIN t /\ t.phase \in Minimising /\ Session(t.content) /\ t.todo \in Seq(Nat)
      /\ i \in Nat
      /\ \A k \in Range(t.todo) : k = i \/ k \in Range(Tail(t.todo))
  BY <1>1, FirstBody
<1>3. /\ AllFields \subseteq DOMAIN u /\ u.phase = "parts" /\ u.todo = t.todo /\ u.work = parts
      /\ u.content = t.content /\ u.kinds = t.kinds /\ u.needs = t.needs /\ u.flaky = t.flaky
  BY <1>1, <1>2 DEF AllFields, Fields
<1> HIDE DEF u
<1>4. listed \in Seq(Nat) /\ Len(listed) = Cardinality(Children(t.content, <<i>>))
  <2>1. <<i>> \in Seq(Nat)
    BY <1>2
  <2> QED BY Zenon, <1>2, <2>1, Listed
<1>5. \A p \in t.content : p[1] = i /\ Len(p) > 1 => p[2] \in Range(listed)
  BY <1>2, ListedAll
<1>6. parts \in Seq(Nat) /\ Range(parts) = Range(listed) /\ Len(parts) = Cardinality(Children(t.content, <<i>>))
  BY Zenon, <1>4, Reversed
<1>7. CASE Len(parts) > 1
  <2> HIDE DEF parts, listed
  <2>1. Working(u) /\ "parts" \in Minimising
    BY <1>1, <1>2, <1>3, <1>6 DEF Working, Minimising
  <2>2. \A p \in t.content : Ahead(t, p) => Ahead(u, p)
    BY <1>1, <1>2, <1>3, <1>5, <1>6 DEF Ahead
  <2>3. Become(w, u)
    BY <1>1, <1>7 DEF parts, listed
  <2> QED BY Zenon, <1>2, <1>3, <2>1, <2>2, <2>3, TurnReduced
<1>8. CASE ~(Len(parts) > 1)
  <2>1. ~(Cardinality(Children(t.content, <<i>>)) > 1)
    BY Zenon, <1>6, <1>8
  <2> HIDE DEF parts, listed
  <2>2. \A p : Reducible(t, p) /\ Len(p) > 1 => p[1] # i
    <3> SUFFICES ASSUME NEW p, Reducible(t, p), Len(p) > 1, p[1] = i PROVE FALSE
      OBVIOUS
    <3>1. Len(p) # 1
      <4>1. ~(1 > 1)
        OBVIOUS
      <4> QED BY Zenon, <4>1
    <3>2. t.kinds[p[1]] = "multipart"
      BY <1>1
    <3> QED BY <2>1, <3>1, <3>2 DEF Reducible
  <2>3. Become(w, [t EXCEPT !.todo = Tail(@)])
    BY <1>1, <1>8 DEF parts, listed
  <2> QED BY <1>1, <2>2, <2>3, NextBodyReduced
<1> QED BY <1>7, <1>8

\* The end of a body's work, and of all bodies.
LEMMA BodyEndReduced ==
  ASSUME TriageInv, NEW w \in Workers, Reduced(triage[w]), KeysEnd(w) \/ PartsEnd(w)
  PROVE  Reduced(triage'[w])
<1> DEFINE t == triage[w]
           u == BodyEnd(t)
<1>1. t.phase \in {"keys", "parts"} /\ t.work = <<>> /\ Become(w, u)
  BY DEF KeysEnd, PartsEnd
<1>2. /\ AllFields \subseteq DOMAIN t /\ t.phase \in Minimising /\ Session(t.content)
      /\ t.todo \in Seq(Nat) /\ t.todo # <<>>
  BY <1>1 DEF Reduced, Minimising, Working
<1>3. /\ AllFields \subseteq DOMAIN u /\ u.phase = "bodies" /\ u.todo = Tail(t.todo) /\ u.work = <<>>
      /\ u.content = t.content /\ u.kinds = t.kinds /\ u.needs = t.needs /\ u.flaky = t.flaky
  BY <1>1, <1>2 DEF AllFields, Fields, BodyEnd
<1> HIDE DEF u
<1>4. Working(u) /\ "bodies" \in Minimising
  BY <1>2, <1>3 DEF Working, Minimising
<1>5. \A p \in t.content : Ahead(t, p) => Ahead(u, p)
  <2> SUFFICES ASSUME NEW p \in t.content, Ahead(t, p) PROVE Ahead(u, p)
    OBVIOUS
  <2>1. ~Scoped(t.work, p) /\ p[2] \notin Range(t.work)
    BY <1>1 DEF Scoped, Range
  <2>2. Len(p) > 1 /\ p[1] \in Range(Tail(t.todo))
    BY <1>1, <2>1 DEF Ahead
  <2> QED BY <1>3, <2>2 DEF Ahead
<1> QED BY Zenon, <1>1, <1>2, <1>3, <1>4, <1>5, TurnReduced

\* The end of the bodies.
LEMMA BodiesEndReduced ==
  ASSUME TriageInv, NEW w \in Workers, Reduced(triage[w]), BodiesEnd(w)
  PROVE  Reduced(triage'[w])
<1> DEFINE t == triage[w]
           u == [t EXCEPT !.phase = "done"]
<1>1. t.phase = "bodies" /\ t.todo = <<>> /\ Become(w, u)
  BY DEF BodiesEnd
<1>2. AllFields \subseteq DOMAIN t /\ t.phase \in Minimising /\ Session(t.content)
  BY <1>1 DEF Reduced, Minimising
<1>3. /\ AllFields \subseteq DOMAIN u /\ u.phase = "done"
      /\ u.content = t.content /\ u.kinds = t.kinds /\ u.needs = t.needs /\ u.flaky = t.flaky
  BY <1>1, <1>2 DEF AllFields, Fields
<1> HIDE DEF u
<1>4. \A p : ~Ahead(t, p)
  BY <1>1 DEF Ahead, Range
<1>5. Reduced(u)
  BY Zenon, <1>2, <1>3, <1>4, GoesOn
<1> QED BY <1>1, <1>5, BecomeReduced

\* A multipart body without a part, as it is trial, and the body that still needs it.
LEMMA RemovePartReduced ==
  ASSUME TriageInv, NEW w \in Workers, Reduced(triage[w]), ~cancelled, RemovePart(w)
  PROVE  Reduced(triage'[w])
<1> DEFINE t == triage[w]
           i == Head(t.todo)
           q == <<i, Head(t.work)>>
           trial == Reencode(Without(t.content, q), i, "multipart")
           next == [t EXCEPT !.work = Tail(@)]
           yes == [next EXCEPT !.content = trial]
<1>1. t.phase = "parts" /\ t.work # <<>> /\ Ask(w, trial, next, next)
  BY DEF RemovePart
<1>2. /\ AllFields \subseteq DOMAIN t /\ t.phase \in Minimising /\ Session(t.content)
      /\ t.todo \in Seq(Nat) /\ t.todo # <<>> /\ t.work \in Seq(Nat) /\ t.kinds[i] = "multipart"
  BY <1>1 DEF Reduced, Minimising, Working
<1>3. /\ AllFields \subseteq DOMAIN yes /\ yes.phase = "parts" /\ yes.todo = t.todo /\ yes.work = Tail(t.work)
      /\ yes.content = trial /\ yes.kinds = t.kinds /\ yes.needs = t.needs /\ yes.flaky = t.flaky
  BY <1>1, <1>2 DEF AllFields, Fields
<1>4. /\ AllFields \subseteq DOMAIN next /\ next.phase = "parts" /\ next.todo = t.todo /\ next.work = Tail(t.work)
      /\ next.content = t.content /\ next.kinds = t.kinds /\ next.needs = t.needs /\ next.flaky = t.flaky
  BY <1>1, <1>2 DEF AllFields, Fields
<1> HIDE DEF next, yes, trial
<1>5. /\ Head(t.work) \in Nat /\ Tail(t.work) \in Seq(Nat)
      /\ \A k \in Range(t.work) : k = Head(t.work) \/ k \in Range(Tail(t.work))
  BY <1>1, <1>2, FirstOf
<1>6. i \in Nat
  BY <1>2
<1>7. Working(yes) /\ Working(next) /\ yes.phase \in Minimising /\ next.phase \in Minimising
  BY <1>2, <1>3, <1>4, <1>5 DEF Working, Minimising
<1>8. q \notin trial /\ trial \subseteq t.content
  <2>1. IsPrefix(q, q)
    BY <1>5, <1>6 DEF IsPrefix
  <2>2. q \notin Without(t.content, q)
    BY <2>1 DEF Without
  <2> QED BY <2>2, Smaller DEF trial, Reencode
<1>9. ASSUME NEW p \in t.content, NEW u, u.kinds = t.kinds, Reducible(u, p), Ahead(t, p),
             p[1] \notin Range(Tail(t.todo)), p[2] \notin Range(Tail(t.work))
      PROVE  p = q
  <2>1. Len(p) > 1 /\ p[1] = i /\ p[2] = Head(t.work)
    BY <1>1, <1>5, <1>9 DEF Ahead
  <2>2. Len(p) # 1
    <3>1. ~(1 > 1)
      OBVIOUS
    <3> QED BY Zenon, <2>1, <3>1
  <2>3. u.kinds[p[1]] = "multipart"
    BY <1>2, <1>9, <2>1
  <2>4. Len(p) = 2
    BY <1>9, <2>2, <2>3 DEF Reducible
  <2>5. p \in Seq(Nat)
    BY <1>2 DEF Session, Paths
  <2> QED BY <2>1, <2>4, <2>5
<1>10. \A u : \A p \in t.content :
         u.kinds = t.kinds /\ u.phase = "parts" /\ u.todo = t.todo /\ u.work = Tail(t.work)
           /\ Reducible(u, p) /\ Ahead(t, p) => Ahead(u, p) \/ p = q
  <2> SUFFICES ASSUME NEW u, NEW p \in t.content, u.kinds = t.kinds, u.phase = "parts", u.todo = t.todo,
                      u.work = Tail(t.work), Reducible(u, p), Ahead(t, p), ~Ahead(u, p)
               PROVE  p = q
    OBVIOUS
  <2>1. Len(p) > 1 /\ (p[1] \in Range(Tail(t.todo)) \/ p[1] = i)
    BY <1>1 DEF Ahead
  <2>2. p[1] \notin Range(Tail(t.todo)) /\ p[2] \notin Range(Tail(t.work))
    BY <2>1 DEF Ahead
  <2> QED BY <1>9, <2>2
<1>11. Reduced(yes)
  <2>1. \A p \in yes.content : Reducible(yes, p) /\ Ahead(t, p) => Ahead(yes, p)
    BY <1>3, <1>8, <1>10
  <2> QED BY Zenon, <1>2, <1>3, <1>7, <1>8, <2>1, GoesOn
<1>12. t.flaky \/ ~Triggers(t, trial) => Reduced(next)
  <2> SUFFICES ASSUME t.flaky \/ ~Triggers(t, trial) PROVE Reduced(next)
    OBVIOUS
  <2>1. ~t.flaky => ~Triggers(next, LeftOut(next, q))
    <3>1. Len(q) = 2 /\ q[1] = i
      OBVIOUS
    <3>2. LeftOut(next, q) = trial
      BY <1>2, <1>4, <3>1 DEF LeftOut, trial
    <3> QED BY <1>4, <3>2 DEF Triggers
  <2>2. \A p \in next.content : ~t.flaky /\ Reducible(next, p) /\ Ahead(t, p) /\ ~Ahead(next, p)
                                  => ~Triggers(next, LeftOut(next, p))
    BY <1>4, <1>10, <2>1
  <2> QED BY Zenon, <1>2, <1>4, <1>7, <2>2, GoesOn
<1> QED BY Zenon, <1>1, <1>11, <1>12, AskReduced DEF yes

\* The stack of keys, and its first frame.
LEMMA FirstFrame ==
  ASSUME NEW t, Reduced(t), t.phase = "keys", t.work # <<>>
  PROVE  /\ AllFields \subseteq DOMAIN t /\ Session(t.content) /\ t.phase \in Minimising
         /\ t.todo \in Seq(Nat) /\ t.todo # <<>> /\ Head(t.todo) \in Nat
         /\ Head(t.work) \in Frames(Head(t.todo)) /\ Tail(t.work) \in Seq(Frames(Head(t.todo)))
         /\ \A p : Scoped(t.work, p) <=> Scope(Head(t.work), p) \/ Scoped(Tail(t.work), p)
<1>1. /\ AllFields \subseteq DOMAIN t /\ Session(t.content) /\ t.phase \in Minimising
      /\ t.todo \in Seq(Nat) /\ t.todo # <<>> /\ t.work \in Seq(Frames(Head(t.todo)))
  BY DEF Reduced, Minimising, Working
<1>2. Head(t.todo) \in Nat
  BY <1>1, FirstOf
<1> QED BY <1>1, <1>2, ScopedHead

\* The work after a frame has been replaced by others.
LEMMA Replaced ==
  ASSUME NEW t, Reduced(t), t.phase = "keys", t.work # <<>>,
         NEW frames \in Seq(Frames(Head(t.todo))),
         NEW u, u.phase = "keys", u.todo = t.todo, u.work = frames \o Tail(t.work)
  PROVE  /\ Working(u)
         /\ \A p : Ahead(t, p) => Ahead(u, p) \/ Scope(Head(t.work), p)
         /\ \A p : Ahead(t, p) /\ Scoped(frames, p) => Ahead(u, p)
<1>1. /\ t.todo \in Seq(Nat) /\ t.todo # <<>> /\ Tail(t.work) \in Seq(Frames(Head(t.todo)))
      /\ \A p : Scoped(t.work, p) <=> Scope(Head(t.work), p) \/ Scoped(Tail(t.work), p)
  BY FirstFrame
<1>2. frames \o Tail(t.work) \in Seq(Frames(Head(t.todo)))
  BY <1>1
<1>3. \A p : Scoped(u.work, p) <=> Scoped(frames, p) \/ Scoped(Tail(t.work), p)
  BY <1>1, ScopedConcat
<1>4. Working(u)
  BY <1>1, <1>2 DEF Working
<1>5. \A p : /\ Ahead(t, p) <=> Len(p) > 1 /\ (p[1] \in Range(Tail(t.todo)) \/ Scoped(t.work, p))
             /\ Ahead(u, p) <=> Len(p) > 1 /\ (p[1] \in Range(Tail(t.todo)) \/ Scoped(u.work, p))
  BY DEF Ahead
<1> QED BY Zenon, <1>1, <1>3, <1>4, <1>5

\* A body without some of its keys, as it is trial: whatever the answer is, the frames
\* that are left stand for all that was not tried.
LEMMA VerifyReduced ==
  ASSUME TriageInv, NEW w \in Workers, Reduced(triage[w]), ~cancelled,
         triage[w].phase = "keys", triage[w].work # <<>>,
         NEW c \in SUBSET triage[w].content,
         NEW a \in Seq(Frames(Head(triage[w].todo))), NEW b \in Seq(Frames(Head(triage[w].todo))),
         Verify(w, c, [triage[w] EXCEPT !.work = a \o Tail(@)], [triage[w] EXCEPT !.work = b \o Tail(@)]),
         \A p \in c : p \in Paths /\ Scope(Head(triage[w].work), p) => Scoped(a, p),
         \A p \in triage[w].content :
           p \in Paths /\ Scope(Head(triage[w].work), p) => Scoped(b, p) \/ c = Without(triage[w].content, p)
  PROVE  Reduced(triage'[w])
<1> DEFINE t == triage[w]
           i == Head(t.todo)
           f == Head(t.work)
           trial == Reencode(c, i, t.kinds[i])
           ya == [t EXCEPT !.work = a \o Tail(@)]
           yes == [ya EXCEPT !.content = trial]
           no == [t EXCEPT !.work = b \o Tail(@)]
<1>1. /\ AllFields \subseteq DOMAIN t /\ Session(t.content) /\ t.phase \in Minimising
      /\ f \in Frames(i) /\ i \in Nat
  BY FirstFrame
<1>2. /\ AllFields \subseteq DOMAIN yes /\ yes.phase = "keys" /\ yes.todo = t.todo /\ yes.work = a \o Tail(t.work)
      /\ yes.content = trial /\ yes.kinds = t.kinds /\ yes.needs = t.needs /\ yes.flaky = t.flaky
  BY <1>1 DEF AllFields, Fields
<1>3. /\ AllFields \subseteq DOMAIN no /\ no.phase = "keys" /\ no.todo = t.todo /\ no.work = b \o Tail(t.work)
      /\ no.content = t.content /\ no.kinds = t.kinds /\ no.needs = t.needs /\ no.flaky = t.flaky
  BY <1>1 DEF AllFields, Fields
<1>4. IF t.kinds[i] = "xml" /\ Children(c, <<i>>) = {} THEN Become(w, no) ELSE Ask(w, trial, ya, no)
  BY DEF Verify
<1> HIDE DEF yes, no
<1>5. /\ Working(yes)
      /\ \A p : Ahead(t, p) => Ahead(yes, p) \/ Scope(f, p)
      /\ \A p : Ahead(t, p) /\ Scoped(a, p) => Ahead(yes, p)
  BY <1>2, Replaced
<1>6. /\ Working(no)
      /\ \A p : Ahead(t, p) => Ahead(no, p) \/ Scope(f, p)
      /\ \A p : Ahead(t, p) /\ Scoped(b, p) => Ahead(no, p)
  BY <1>3, Replaced
<1>7. trial \subseteq c /\ c \subseteq t.content /\ \A p \in t.content : p \in Paths
  BY <1>1, Smaller DEF Session
<1>8. Reduced(yes)
  <2>1. \A p \in yes.content : Ahead(t, p) => Ahead(yes, p)
    BY <1>2, <1>5, <1>7
  <2>2. yes.phase \in Minimising /\ yes.content \subseteq t.content
    BY <1>2, <1>7 DEF Minimising
  <2> QED BY Zenon, <1>1, <1>2, <1>5, <2>1, <2>2, GoesOn
<1>9. ASSUME NEW p \in t.content, Ahead(t, p), ~Ahead(no, p)
      PROVE  c = Without(t.content, p) /\ Len(p) > 1 /\ p[1] = i
  <2>1. p \in Paths /\ Scope(f, p) /\ ~Scoped(b, p)
    BY <1>6, <1>7, <1>9
  <2> QED BY <1>1, <2>1, ScopeBelow
<1>10. ASSUME t.flaky \/ ~Triggers(t, trial) PROVE Reduced(no)
  <2>1. ASSUME ~t.flaky, NEW p \in no.content, Ahead(t, p), ~Ahead(no, p)
        PROVE  ~Triggers(no, LeftOut(no, p))
    <3>1. c = Without(t.content, p) /\ Len(p) > 1 /\ p[1] = i
      BY <1>3, <1>9, <2>1
    <3>2. Len(p) # 1
      <4>1. ~(1 > 1)
        OBVIOUS
      <4> QED BY Zenon, <3>1, <4>1
    <3>3. LeftOut(no, p) = trial
      BY <1>3, <3>1, <3>2 DEF LeftOut
    <3> QED BY <1>3, <1>10, <2>1, <3>3 DEF Triggers
  <2>2. no.phase \in Minimising /\ no.content \subseteq t.content
    BY <1>3 DEF Minimising
  <2>3. \A p \in no.content : ~t.flaky /\ Reducible(no, p) /\ Ahead(t, p) /\ ~Ahead(no, p)
                                => ~Triggers(no, LeftOut(no, p))
    BY Zenon, <2>1
  <2> QED BY Zenon, <1>1, <1>3, <1>6, <2>2, <2>3, GoesOn
<1>11. ASSUME t.kinds[i] = "xml", Children(c, <<i>>) = {} PROVE Reduced(no)
  <2>1. ASSUME NEW p \in no.content, Reducible(no, p), Ahead(t, p), ~Ahead(no, p)
        PROVE  FALSE
    <3> DEFINE S == Children(t.content, <<i>>)
    <3>1. c = Without(t.content, p) /\ Len(p) > 1 /\ p[1] = i
      BY <1>3, <1>9, <2>1
    <3>2. Len(p) # 1
      <4>1. ~(1 > 1)
        OBVIOUS
      <4> QED BY Zenon, <3>1, <4>1
    <3>3. Len(p) = 2 /\ Cardinality(S) > 1
      <4>1. no.kinds[p[1]] = "xml" /\ Children(no.content, <<p[1]>>) = S
        BY <1>3, <1>11, <3>1
      <4> HIDE DEF S
      <4> QED BY <2>1, <3>2, <4>1 DEF Reducible
    <3>4. p \in Seq(Nat) /\ <<i>> \in Seq(Nat) /\ Len(<<i>>) = 1 /\ p = <<i, p[2]>>
      BY <1>1, <1>3, <1>7, <2>1, <3>1, <3>3 DEF Paths
    <3>5. IsFiniteSet(S)
      BY Zenon, <1>1, <3>4, ChildrenFacts
    <3>6. S \subseteq {p[2]}
      <4> SUFFICES ASSUME NEW x \in S, x # p[2] PROVE FALSE
        OBVIOUS
      <4>1. PICK q \in t.content : Under(<<i>>, q) /\ x = q[Len(<<i>>) + 1]
        BY Zenon DEF Children
      <4>2. q[2] # p[2]
        BY <3>4, <4>1
      <4>3. q \in Seq(Nat)
        BY <1>7 DEF Paths
      <4>4. ~IsPrefix(p, q)
        BY <3>3, <3>4, <4>3, <4>2 DEF IsPrefix
      <4>5. q \in c
        BY <3>1, <4>4 DEF Without
      <4>6. q[Len(<<i>>) + 1] \in Children(c, <<i>>)
        BY <4>5, <4>1 DEF Children
      <4> QED BY <1>11, <4>6
    <3> HIDE DEF S
    <3>7. Cardinality(S) <= 1
      <4>1. IsFiniteSet({p[2]}) /\ Cardinality({p[2]}) = 1
        BY FS_Singleton
      <4> QED BY <3>6, <4>1, FS_Subset
    <3>8. Cardinality(S) \in Nat
      BY <3>5, FS_CardinalityType
    <3> QED BY <3>3, <3>7, <3>8
  <2>2. no.phase \in Minimising /\ no.content \subseteq t.content
    BY <1>3 DEF Minimising
  <2>3. \A p \in no.content : ~t.flaky /\ Reducible(no, p) /\ Ahead(t, p) /\ ~Ahead(no, p)
                                => ~Triggers(no, LeftOut(no, p))
    BY Zenon, <2>1
  <2> QED BY Zenon, <1>1, <1>3, <1>6, <2>2, <2>3, GoesOn
<1>12. CASE t.kinds[i] = "xml" /\ Children(c, <<i>>) = {}
  BY Zenon, <1>4, <1>11, <1>12, BecomeReduced
<1>13. CASE ~(t.kinds[i] = "xml" /\ Children(c, <<i>>) = {})
  BY Zenon, <1>4, <1>8, <1>10, <1>13, AskReduced DEF yes
<1> QED BY <1>12, <1>13

\* What a session keeps when it keeps some of the keys of a place.
LEMMA OnlyScope ==
  ASSUME NEW content, NEW f, NEW keys, NEW p \in Only(content, f.at, keys), p \in Paths, f.at \in Paths,
         f.kind # "nested", Scope(f, p)
  PROVE  p[Len(p)] \in keys /\ IsPrefix(f.at, p) /\ Len(p) = Len(f.at) + 1
<1> DEFINE n == Len(f.at)
<1>1. IsPrefix(f.at, p) /\ Len(p) = n + 1 /\ n \in Nat
  BY DEF Scope, Paths
<1> HIDE DEF n
<1>2. n + 1 > n
  BY <1>1
<1>3. Under(f.at, p)
  BY <1>1, <1>2 DEF Under, n
<1>4. p[Len(f.at) + 1] \in keys
  BY <1>3 DEF Only
<1> QED BY <1>1, <1>4 DEF n

\* A path is that of its object, and the last key.
LEMMA LastKey ==
  ASSUME NEW at \in Seq(Nat), NEW p \in Seq(Nat), Len(p) = Len(at) + 1,
         SubSeq(at, 1, Len(at)) = SubSeq(p, 1, Len(at))
  PROVE  p = Append(at, p[Len(p)])
<1> DEFINE n == Len(at)
           q == Append(at, p[Len(p)])
<1>1. n \in Nat /\ Len(p) = n + 1 /\ DOMAIN at = 1..n /\ DOMAIN p = 1..(n + 1)
  OBVIOUS
<1>2. \A j \in 1..n : SubSeq(at, 1, n)[j] = at[j] /\ SubSeq(p, 1, n)[j] = p[j]
  OBVIOUS
<1>3. p[n + 1] \in Nat
  BY <1>1
<1>4. q \in Seq(Nat) /\ DOMAIN q = 1..(n + 1) /\ q[n + 1] = p[n + 1] /\ \A j \in 1..n : q[j] = at[j]
  BY <1>1, <1>3
<1>5. SubSeq(at, 1, n) = SubSeq(p, 1, n)
  OBVIOUS
<1> HIDE DEF n, q
<1>6. \A j \in 1..(n + 1) : p[j] = q[j]
  <2> SUFFICES ASSUME NEW j \in 1..(n + 1) PROVE p[j] = q[j]
    OBVIOUS
  <2>1. j \in 1..n \/ j = n + 1
    BY <1>1
  <2> QED BY <1>2, <1>4, <1>5, <2>1
<1>7. p = q
  BY <1>1, <1>4, <1>6
<1> QED BY <1>7 DEF q

\* The two halves of a list.
LEMMA Halves ==
  ASSUME NEW keys \in Seq(Nat)
  PROVE  LET mid == Len(keys) \div 2
             left == SubSeq(keys, 1, mid)
             right == SubSeq(keys, mid + 1, Len(keys))
         IN  /\ left \in Seq(Nat) /\ right \in Seq(Nat)
             /\ \A k \in Range(keys) : k \in Range(left) \/ k \in Range(right)
<1> DEFINE n == Len(keys)
           mid == n \div 2
           left == SubSeq(keys, 1, mid)
           right == SubSeq(keys, mid + 1, n)
<1>1. n \in Nat /\ DOMAIN keys = 1..n /\ \A j \in 1..n : keys[j] \in Nat
  OBVIOUS
<1>2. mid \in 0..n /\ mid + 1 \in 1..(n + 1)
  <2> HIDE DEF n
  <2> QED BY <1>1
<1>3. /\ left \in Seq(Nat) /\ DOMAIN left = 1..mid /\ \A j \in 1..mid : left[j] = keys[j]
      /\ right \in Seq(Nat) /\ DOMAIN right = 1..(n - mid) /\ \A j \in 1..(n - mid) : right[j] = keys[j + mid]
  <2> HIDE DEF mid
  <2>1. left \in Seq(Nat) /\ DOMAIN left = 1..mid /\ \A j \in 1..mid : left[j] = keys[j]
    BY <1>2
  <2>2. right \in Seq(Nat) /\ DOMAIN right = 1..(n - mid) /\ \A j \in 1..(n - mid) : right[j] = keys[j + mid]
    <3> DEFINE m == mid + 1
               half == SubSeq(keys, m, n)
    <3>1. m \in 1..(n + 1) /\ n \in Nat /\ m = mid + 1 /\ mid \in Nat
      BY <1>1, <1>2
    <3> HIDE DEF m
    <3>2. half \in Seq(Nat) /\ Len(half) = n - m + 1
      BY <3>1
    <3>3. \A j \in 1..(n - m + 1) : half[j] = keys[j + m - 1]
      BY <3>1
    <3>4. DOMAIN half = 1..Len(half)
      BY <3>2
    <3>5. right = half
      BY DEF m
    <3> HIDE DEF half, right, n
    <3>6. n - m + 1 = n - mid /\ \A j \in 1..(n - mid) : j + m - 1 = j + mid
      BY <3>1
    <3> QED BY <3>2, <3>3, <3>4, <3>5, <3>6
  <2> QED BY <2>1, <2>2
<1> HIDE DEF left, right, mid, n
<1>4. ASSUME NEW j \in 1..n PROVE keys[j] \in Range(left) \/ keys[j] \in Range(right)
  <2>1. CASE j <= mid
    <3>1. j \in DOMAIN left /\ left[j] = keys[j]
      BY <1>1, <1>2, <1>3, <2>1
    <3> QED BY <3>1 DEF Range
  <2>2. CASE j > mid
    <3>1. j - mid \in 1..(n - mid) /\ (j - mid) + mid = j
      BY <1>1, <1>2, <2>2
    <3>2. j - mid \in DOMAIN right /\ right[j - mid] = keys[j]
      BY <1>3, <3>1
    <3> QED BY <3>2 DEF Range
  <2> QED BY <1>1, <1>2, <2>1, <2>2
<1>5. \A k \in Range(keys) : k \in Range(left) \/ k \in Range(right)
  BY <1>1, <1>4 DEF Range
<1> QED BY <1>3, <1>5 DEF left, right, mid, n

\* The steps of removeKeys: nothing left, a single key, the right half alone, the left
\* half alone.
LEMMA RemoveKeysReduced ==
  ASSUME TriageInv, NEW w \in Workers, Reduced(triage[w]), ~cancelled, RemoveKeys(w)
  PROVE  Reduced(triage'[w])
<1> DEFINE t == triage[w]
           i == Head(t.todo)
           f == Head(t.work)
           Do(frames) == [t EXCEPT !.work = frames \o Tail(@)]
           mid == Len(f.keys) \div 2
           left == SubSeq(f.keys, 1, mid)
           right == SubSeq(f.keys, mid + 1, Len(f.keys))
           Half(keys) == Frame("keys", f.at, keys)
           Keep(keys) == Only(t.content, f.at, Range(keys))
           k == f.keys[1]
<1>1. /\ t.phase = "keys" /\ t.work # <<>>
      /\ \/ /\ f.kind = "keys" /\ Len(f.keys) = 0
            /\ Become(w, Do(<<>>))
         \/ /\ f.kind = "keys" /\ Len(f.keys) = 1
            /\ Verify(w, Without(t.content, Append(f.at, k)), Do(<<>>), Do(<<>>))
         \/ /\ f.kind = "keys" /\ Len(f.keys) > 1
            /\ Verify(w, Keep(right), Do(<<Half(right)>>), Do(<<Frame("left", f.at, f.keys)>>))
         \/ /\ f.kind = "left"
            /\ Verify(w, Keep(left), Do(<<Half(left)>>), Do(<<Half(left), Half(right)>>))
  BY DEF RemoveKeys
<1>2. /\ AllFields \subseteq DOMAIN t /\ Session(t.content) /\ t.phase \in Minimising /\ f \in Frames(i)
  BY <1>1, FirstFrame
<1>3. f.at \in Paths /\ f.keys \in Seq(Nat) /\ f.at[1] = i
  BY <1>2 DEF Frames
<1>4. <<>> \in Seq(Frames(i)) /\ \A p \in t.content : p \in Paths
  BY <1>2 DEF Session
<1>5. ASSUME NEW keys \in Seq(Nat), NEW kind \in {"keys", "left"}
      PROVE  /\ Frame(kind, f.at, keys) \in Frames(i)
             /\ \A p : Scope(Frame(kind, f.at, keys), p)
                        <=> IsPrefix(f.at, p) /\ Len(p) = Len(f.at) + 1 /\ p[Len(p)] \in Range(keys)
  BY <1>3 DEF Frame, Frames, Scope
<1>6. \A keys : Keep(keys) \subseteq t.content
  BY Smaller
<1>7. f.kind # "nested" => \A keys : \A p \in Keep(keys) :
        p \in Paths /\ Scope(f, p) => p[Len(p)] \in Range(keys) /\ IsPrefix(f.at, p) /\ Len(p) = Len(f.at) + 1
  BY <1>3, OnlyScope
<1>8. f.kind # "nested" => \A p : Scope(f, p) <=>
        IsPrefix(f.at, p) /\ Len(p) = Len(f.at) + 1 /\ p[Len(p)] \in Range(f.keys)
  BY DEF Scope
<1> HIDE DEF i, left, right, mid, Half, Keep, k
<1>9. ASSUME f.kind = "keys", Len(f.keys) = 0, Become(w, Do(<<>>)) PROVE Reduced(triage'[w])
  <2> DEFINE u == Do(<<>>)
  <2>1. Become(w, u)
    BY <1>9
  <2>2. /\ AllFields \subseteq DOMAIN u /\ u.phase = "keys" /\ u.todo = t.todo /\ u.work = <<>> \o Tail(t.work)
        /\ u.content = t.content /\ u.kinds = t.kinds /\ u.needs = t.needs /\ u.flaky = t.flaky
    BY <1>1, <1>2 DEF AllFields, Fields
  <2> HIDE DEF u
  <2>3. Working(u) /\ \A p : Ahead(t, p) => Ahead(u, p) \/ Scope(f, p)
    BY <1>1, <1>4, <2>2, Replaced DEF i
  <2>4. \A p : ~Scope(f, p)
    <3>1. Range(f.keys) = {}
      BY <1>3, <1>9 DEF Range
    <3> QED BY <1>8, <1>9, <3>1
  <2>5. \A p \in t.content : p \in Paths /\ Reducible(t, p) /\ Ahead(t, p) => Ahead(u, p)
    BY <2>3, <2>4
  <2>6. "keys" \in Minimising
    BY DEF Minimising
  <2> QED BY Zenon, <1>2, <2>1, <2>2, <2>3, <2>5, <2>6, TurnReduced
<1>10. ASSUME f.kind = "keys", Len(f.keys) = 1,
              Verify(w, Without(t.content, Append(f.at, k)), Do(<<>>), Do(<<>>))
       PROVE  Reduced(triage'[w])
  <2> DEFINE q == Append(f.at, k)
             c == Without(t.content, q)
  <2>1. Verify(w, c, Do(<<>>), Do(<<>>))
    BY <1>10
  <2>2. c \subseteq t.content
    BY Smaller
  <2>3. ASSUME NEW p \in Paths, Scope(f, p) PROVE p = q
    <3>1. IsPrefix(f.at, p) /\ Len(p) = Len(f.at) + 1 /\ p[Len(p)] = k
      <4>1. Range(f.keys) = {k}
        BY <1>3, <1>10 DEF Range, k
      <4> QED BY <1>8, <1>10, <2>3, <4>1
    <3>2. SubSeq(f.at, 1, Len(f.at)) = SubSeq(p, 1, Len(f.at))
      BY <3>1 DEF IsPrefix
    <3> QED BY <1>3, <3>1, <3>2, LastKey DEF Paths
  <2>4. q \notin c
    <3>1. k \in Nat
      BY <1>3, <1>10 DEF k
    <3>2. IsPrefix(q, q)
      BY <1>3, <3>1 DEF IsPrefix, Paths
    <3> QED BY <3>2 DEF Without
  <2> HIDE DEF q
  <2>5. \A p \in c : p \in Paths /\ Scope(f, p) => Scoped(<<>>, p)
    BY <2>3, <2>4
  <2>6. \A p \in t.content : p \in Paths /\ Scope(f, p) => Scoped(<<>>, p) \/ c = Without(t.content, p)
    BY <2>3
  <2> HIDE DEF c
  <2> QED BY <1>1, <1>4, <2>1, <2>2, <2>5, <2>6, VerifyReduced DEF i
<1>11. /\ left \in Seq(Nat) /\ right \in Seq(Nat)
       /\ \A x \in Range(f.keys) : x \in Range(left) \/ x \in Range(right)
  BY <1>3, Halves DEF left, right, mid
<1>12. ASSUME f.kind = "keys",
              Verify(w, Keep(right), Do(<<Half(right)>>), Do(<<Frame("left", f.at, f.keys)>>))
       PROVE  Reduced(triage'[w])
  <2> DEFINE g == Half(right)
             h == Frame("left", f.at, f.keys)
             c == Keep(right)
  <2>1. Verify(w, c, Do(<<g>>), Do(<<h>>))
    BY <1>12
  <2>2. g \in Frames(i) /\ h \in Frames(i) /\ c \subseteq t.content
    BY <1>3, <1>5, <1>6, <1>11, <1>12 DEF Half
  <2>3. \A p \in c : p \in Paths /\ Scope(f, p) => Scope(g, p)
    BY <1>5, <1>7, <1>11, <1>12 DEF Half
  <2>4. \A p \in t.content : p \in Paths /\ Scope(f, p) => Scope(h, p)
    BY <1>3, <1>5, <1>8, <1>12
  <2> HIDE DEF g, h, c
  <2>5. /\ \A p \in c : p \in Paths /\ Scope(f, p) => Scoped(<<g>>, p)
        /\ \A p \in t.content : p \in Paths /\ Scope(f, p) => Scoped(<<h>>, p) \/ c = Without(t.content, p)
    BY Zenon, <2>3, <2>4, ScopedShort
  <2>6. <<g>> \in Seq(Frames(i)) /\ <<h>> \in Seq(Frames(i))
    BY <2>2
  <2> QED BY <1>1, <2>1, <2>2, <2>5, <2>6, VerifyReduced DEF i
<1>13. ASSUME f.kind = "left", Verify(w, Keep(left), Do(<<Half(left)>>), Do(<<Half(left), Half(right)>>))
       PROVE  Reduced(triage'[w])
  <2> DEFINE g == Half(left)
             h == Half(right)
             c == Keep(left)
  <2>1. Verify(w, c, Do(<<g>>), Do(<<g, h>>))
    BY <1>13
  <2>2. g \in Frames(i) /\ h \in Frames(i) /\ c \subseteq t.content
    BY <1>5, <1>6, <1>11, <1>13 DEF Half
  <2>3. \A p \in c : p \in Paths /\ Scope(f, p) => Scope(g, p)
    BY <1>5, <1>7, <1>11, <1>13 DEF Half
  <2>4. \A p \in t.content : p \in Paths /\ Scope(f, p) => Scope(g, p) \/ Scope(h, p)
    BY <1>5, <1>8, <1>11, <1>13 DEF Half
  <2> HIDE DEF g, h, c
  <2>5. /\ \A p \in c : p \in Paths /\ Scope(f, p) => Scoped(<<g>>, p)
        /\ \A p \in t.content : p \in Paths /\ Scope(f, p) => Scoped(<<g, h>>, p) \/ c = Without(t.content, p)
    BY Zenon, <2>3, <2>4, ScopedShort
  <2>6. <<g>> \in Seq(Frames(i)) /\ <<g, h>> \in Seq(Frames(i))
    BY <2>2
  <2> QED BY <1>1, <2>1, <2>2, <2>5, <2>6, VerifyReduced DEF i
<1> HIDE DEF Do
<1> QED BY Zenon, <1>1, <1>9, <1>10, <1>12, <1>13

\* Frames put one after the other stand for what each of them stands for.
LEMMA FlattenScoped ==
  ASSUME NEW S, NEW ss \in Seq(Seq(S))
  PROVE  /\ FlattenSeq(ss) \in Seq(S)
         /\ \A p : \A j \in DOMAIN ss : Scoped(ss[j], p) => Scoped(FlattenSeq(ss), p)
<1>1. CASE ss = <<>>
  <2>1. FlattenSeq(ss) = <<>>
    BY <1>1 DEF FlattenSeq
  <2>2. <<>> \in Seq(S) /\ \A j \in DOMAIN ss : FALSE
    BY <1>1
  <2> QED BY Zenon, <2>1, <2>2
<1>2. CASE ss # <<>>
  <2> DEFINE n == Len(ss)
  <2>1. PICK g \in [1..n -> Seq(S)] :
          /\ FlattenSeq(ss) = g[n] /\ g[1] = ss[1]
          /\ \A j \in 2..n : g[j] = g[j - 1] \o ss[j]
    BY <1>2, FlattenFacts
  <2>2. n \in Nat /\ n >= 1 /\ DOMAIN ss = 1..n /\ \A j \in 1..n : ss[j] \in Seq(S)
    <3>1. n \in Nat /\ n # 0 /\ DOMAIN ss = 1..n /\ \A j \in 1..n : ss[j] \in Seq(S)
      BY <1>2
    <3> HIDE DEF n
    <3> QED BY <3>1
  <2> HIDE DEF n
  <2>3. ASSUME NEW m \in 2..n, NEW p
        PROVE  Scoped(g[m], p) <=> Scoped(g[m - 1], p) \/ Scoped(ss[m], p)
    <3>1. m \in 1..n /\ m - 1 \in 1..n
      BY <2>2
    <3>2. g[m - 1] \in Seq(S) /\ ss[m] \in Seq(S)
      BY <2>1, <2>2, <3>1
    <3>3. g[m] = g[m - 1] \o ss[m]
      BY <2>1
    <3> QED BY <3>2, <3>3, ScopedConcat
  <2>4. ASSUME NEW p, NEW j \in 1..n, Scoped(ss[j], p) PROVE Scoped(g[n], p)
    <3> DEFINE B == {m \in j..n : ~Scoped(g[m], p)}
    <3>1. B = {}
      <4> SUFFICES ASSUME B # {} PROVE FALSE
        OBVIOUS
      <4>1. B \in SUBSET Nat
        BY <2>2
      <4>2. PICK m \in B : \A o \in B : m <= o
        BY <4>1, NatLeast
      <4>3. m \in j..n /\ ~Scoped(g[m], p) /\ m \in 1..n /\ j \in 1..n
        BY <2>2, <4>2
      <4>4. CASE m = j
        <5>1. CASE m = 1
          BY <2>1, <2>4, <4>3, <4>4, <5>1
        <5>2. CASE m # 1
          <6>1. m \in 2..n
            BY <2>2, <4>3, <5>2
          <6> QED BY <2>4, <2>3, <4>3, <4>4, <6>1
        <5> QED BY <5>1, <5>2
      <4>5. CASE m # j
        <5>1. m \in 2..n /\ m - 1 \in 1..n /\ m - 1 \in j..n /\ ~(m <= m - 1)
          BY <2>2, <4>3, <4>5
        <5>2. Scoped(g[m - 1], p)
          BY <4>2, <5>1
        <5> QED BY <2>3, <4>3, <5>1, <5>2
      <4> QED BY <4>4, <4>5
    <3>2. n \in j..n
      BY <2>2
    <3> QED BY <3>1, <3>2
  <2>5. g[n] \in Seq(S)
    BY <2>1, <2>2
  <2> QED BY <2>1, <2>2, <2>4, <2>5
<1> QED BY <1>1, <1>2

\* The object a path leads into.
LEMMA IntoObject ==
  ASSUME NEW at \in Paths, NEW p \in Paths, IsPrefix(at, p), Len(p) >= Len(at) + 2
  PROVE  LET q == Append(at, p[Len(at) + 1])
         IN  /\ q \in Paths /\ q[1] = at[1] /\ Len(q) = Len(at) + 1
             /\ p[Len(at) + 1] \in Nat
             /\ Len(p) > Len(at) /\ Len(p) > Len(q) /\ IsPrefix(q, p)
             /\ Len(p) = Len(q) + 1 \/ Len(p) >= Len(q) + 2
<1> DEFINE n == Len(at)
           m == Len(p)
           q == Append(at, p[n + 1])
<1>1. /\ n \in Nat /\ n >= 1 /\ m \in Nat /\ DOMAIN p = 1..m /\ DOMAIN at = 1..n
      /\ \A j \in 1..m : p[j] \in Nat
      /\ SubSeq(at, 1, n) = SubSeq(p, 1, n)
  <2>1. n = 1 \/ n > 1
    BY PathLength
  <2>2. n \in Nat /\ m \in Nat /\ DOMAIN p = 1..m /\ DOMAIN at = 1..n /\ \A j \in 1..m : p[j] \in Nat
    BY DEF Paths
  <2>3. SubSeq(at, 1, n) = SubSeq(p, 1, n)
    BY DEF IsPrefix
  <2> HIDE DEF n, m
  <2> QED BY <2>1, <2>2, <2>3
<1>2. m >= n + 2
  OBVIOUS
<1>3. \A j \in 1..n : SubSeq(at, 1, n)[j] = at[j] /\ SubSeq(p, 1, n)[j] = p[j]
  <2>1. m >= n
    <3> HIDE DEF n, m
    <3> QED BY <1>1, <1>2
  <2> QED BY <1>1, <2>1 DEF Paths
<1>4. n + 1 \in 1..m /\ p[n + 1] \in Nat
  <2> HIDE DEF n, m
  <2> QED BY <1>1, <1>2
<1>5. q \in Seq(Nat) /\ Len(q) = n + 1 /\ q[n + 1] = p[n + 1] /\ \A j \in 1..n : q[j] = at[j]
  BY <1>4 DEF Paths
<1> HIDE DEF n, m, q
<1>6. \A j \in 1..(n + 1) : q[j] = p[j]
  <2> SUFFICES ASSUME NEW j \in 1..(n + 1) PROVE q[j] = p[j]
    OBVIOUS
  <2>1. j \in 1..n \/ j = n + 1
    BY <1>1
  <2> QED BY <1>1, <1>3, <1>5, <2>1
<1>7. n + 1 <= m /\ m > n /\ m > n + 1 /\ (m = (n + 1) + 1 \/ m >= (n + 1) + 2)
  BY <1>1, <1>2
<1>8. SubSeq(q, 1, n + 1) = SubSeq(p, 1, n + 1)
  <2>1. p \in Seq(Nat) /\ Len(p) = m
    BY DEF Paths, m
  <2>2. /\ SubSeq(q, 1, n + 1) \in Seq(Nat) /\ Len(SubSeq(q, 1, n + 1)) = n + 1
        /\ \A j \in 1..(n + 1) : SubSeq(q, 1, n + 1)[j] = q[j]
    BY <1>1, <1>5
  <2>3. /\ SubSeq(p, 1, n + 1) \in Seq(Nat) /\ Len(SubSeq(p, 1, n + 1)) = n + 1
        /\ \A j \in 1..(n + 1) : SubSeq(p, 1, n + 1)[j] = p[j]
    BY <1>1, <1>7, <2>1
  <2> DEFINE a == SubSeq(q, 1, n + 1)
             b == SubSeq(p, 1, n + 1)
  <2> HIDE DEF a, b
  <2>4. /\ a \in Seq(Nat) /\ b \in Seq(Nat) /\ Len(a) = n + 1 /\ Len(b) = n + 1
        /\ \A j \in 1..(n + 1) : a[j] = b[j]
    BY <1>6, <2>2, <2>3 DEF a, b
  <2>5. a = b
    BY <2>4
  <2> QED BY <2>5 DEF a, b
<1>9. IsPrefix(q, p)
  BY <1>5, <1>7, <1>8 DEF IsPrefix, m
<1>10. q[1] = at[1] /\ q # <<>>
  <2>1. 1 \in 1..n /\ n + 1 # 0
    BY <1>1
  <2>2. Len(<<>>) = 0
    OBVIOUS
  <2>3. q # <<>>
    BY Zenon, <1>5, <2>1, <2>2
  <2> QED BY <1>5, <2>1, <2>3
<1>11. q \in Paths
  BY <1>5, <1>10 DEF Paths
<1> QED BY <1>1, <1>4, <1>5, <1>7, <1>9, <1>10, <1>11 DEF n, m, q

\* deltaDebugKeys, phase 2: the objects that are left, unless they are too deep.
LEMMA DescendReduced ==
  ASSUME TriageInv, NEW w \in Workers, Reduced(triage[w]), Descend(w)
  PROVE  Reduced(triage'[w])
<1> DEFINE t == triage[w]
           i == Head(t.todo)
           f == Head(t.work)
           inner(k) == Append(f.at, k)
           O == {k \in Children(t.content, f.at) : Children(t.content, inner(k)) # {}}
           objects == Sorted(O)
           Object(k) == <<KeysOf(t.content, inner(k)), Nested(inner(k))>>
           ss == [j \in DOMAIN objects |-> Object(objects[j])]
           shallow == Len(f.at) - 1 < maxNestedDepth
           frames == IF shallow THEN FlattenSeq(ss) ELSE <<>>
           u == [t EXCEPT !.work = frames \o Tail(@)]
<1>1. t.phase = "keys" /\ t.work # <<>> /\ f.kind = "nested" /\ Become(w, u)
  BY DEF Descend
<1>2. /\ AllFields \subseteq DOMAIN t /\ Session(t.content) /\ t.phase \in Minimising /\ f \in Frames(i)
  BY <1>1, FirstFrame
<1>3. f.at \in Paths /\ f.at \in Seq(Nat) /\ f.at[1] = i
  BY <1>2 DEF Frames, Paths
<1>4. /\ AllFields \subseteq DOMAIN u /\ u.phase = "keys" /\ u.todo = t.todo /\ u.work = frames \o Tail(t.work)
      /\ u.content = t.content /\ u.kinds = t.kinds /\ u.needs = t.needs /\ u.flaky = t.flaky
  BY <1>1, <1>2 DEF AllFields, Fields
<1> HIDE DEF u
<1>5. O \subseteq Nat /\ IsFiniteSet(O)
  <2>1. Children(t.content, f.at) \subseteq Nat /\ IsFiniteSet(Children(t.content, f.at))
    BY Zenon, <1>2, <1>3, ChildrenFacts
  <2> QED BY <2>1, FS_Subset
<1>6. objects \in Seq(Nat) /\ Range(objects) = O
  <2> HIDE DEF O
  <2> QED BY <1>5, SortedFacts
<1>7. ASSUME NEW k \in Nat
      PROVE  /\ inner(k) \in Paths /\ inner(k)[1] = i
             /\ KeysOf(t.content, inner(k)) \in Frames(i) /\ Nested(inner(k)) \in Frames(i)
             /\ Object(k) \in Seq(Frames(i))
  <2>1. inner(k) \in Paths /\ inner(k)[1] = i
    <3>1. f.at # <<>>
      BY <1>3 DEF Paths
    <3>2. \A a \in Seq(Nat) : a # <<>> => /\ Append(a, k) \in Seq(Nat) /\ Append(a, k) # <<>>
                                          /\ Append(a, k)[1] = a[1]
      <4> SUFFICES ASSUME NEW a \in Seq(Nat), a # <<>>
                   PROVE  Append(a, k) \in Seq(Nat) /\ Append(a, k) # <<>> /\ Append(a, k)[1] = a[1]
        OBVIOUS
      <4> QED OBVIOUS
    <3> QED BY Zenon, <1>3, <3>1, <3>2 DEF Paths
  <2> DEFINE at == inner(k)
  <2>2. at \in Paths /\ at[1] = i
    BY <2>1
  <2> HIDE DEF at
  <2>3. at \in Seq(Nat)
    BY <2>2 DEF Paths
  <2>4. Sorted(Children(t.content, at)) \in Seq(Nat) /\ <<>> \in Seq(Nat)
    <3>1. Sorted(Children(t.content, at)) \in Seq(Nat)
      BY Zenon, <1>2, <2>3, Listed
    <3> QED BY <3>1
  <2>5. KeysOf(t.content, at) \in Frames(i) /\ Nested(at) \in Frames(i)
    BY <2>2, <2>4 DEF KeysOf, Nested, Frame, Frames
  <2>6. <<KeysOf(t.content, at), Nested(at)>> \in Seq(Frames(i))
    BY <2>5
  <2> QED BY <2>2, <2>5, <2>6 DEF at
<1> HIDE DEF objects
<1>8. ss \in Seq(Seq(Frames(i))) /\ DOMAIN ss = DOMAIN objects /\ \A j \in DOMAIN ss : ss[j] = Object(objects[j])
  <2>1. \A j \in DOMAIN objects : objects[j] \in Nat
    BY <1>6
  <2>2. \A j \in DOMAIN objects : Object(objects[j]) \in Seq(Frames(i))
    BY <1>7, <2>1
  <2>3. DOMAIN objects = 1..Len(objects) /\ Len(objects) \in Nat
    BY <1>6
  <2> HIDE DEF Object
  <2> QED BY <2>2, <2>3
<1> HIDE DEF ss
<1>9. /\ FlattenSeq(ss) \in Seq(Frames(i))
      /\ \A p : \A j \in DOMAIN ss : Scoped(ss[j], p) => Scoped(FlattenSeq(ss), p)
  BY <1>8, FlattenScoped
<1>10. frames \in Seq(Frames(i))
  <2>1. <<>> \in Seq(Frames(i))
    OBVIOUS
  <2> QED BY Zenon, <1>9, <2>1
<1>11. /\ Working(u)
       /\ \A p : Ahead(t, p) => Ahead(u, p) \/ Scope(f, p)
       /\ \A p : Ahead(t, p) /\ Scoped(frames, p) => Ahead(u, p)
  <2> HIDE DEF frames
  <2> QED BY <1>1, <1>4, <1>10, Replaced DEF i
<1>12. ASSUME NEW p \in t.content, Reducible(t, p), Ahead(t, p), Scope(f, p) PROVE Scoped(frames, p)
  <2>1. p \in Paths /\ IsPrefix(f.at, p) /\ Len(p) >= Len(f.at) + 2
    BY <1>1, <1>2, <1>12 DEF Scope, Session
  <2> DEFINE k == p[Len(f.at) + 1]
             q == inner(k)
  <2>2. /\ q \in Paths /\ Len(q) = Len(f.at) + 1 /\ k \in Nat
        /\ Len(p) > Len(f.at) /\ Len(p) > Len(q) /\ IsPrefix(q, p)
        /\ Len(p) = Len(q) + 1 \/ Len(p) >= Len(q) + 2
    BY <1>3, <2>1, IntoObject
  <2>3. CASE shallow
    <3> HIDE DEF q
    <3>1. q \in Seq(Nat) /\ Len(q) \in Nat
      BY <2>2 DEF Paths
    <3>2. k \in Children(t.content, f.at)
      BY <1>2, <1>3, <2>1, <2>2, ChildrenFacts
    <3>3. p[Len(q) + 1] \in Children(t.content, q)
      BY <1>2, <2>2, <3>1, ChildrenFacts
    <3>4. k \in O
      BY <3>2, <3>3 DEF q
    <3>5. PICK j \in DOMAIN objects : objects[j] = k
      BY <1>6, <3>4 DEF Range
    <3>6. Range(Sorted(Children(t.content, q))) = Children(t.content, q)
      BY Zenon, <1>2, <3>1, Listed
    <3>7. Scope(KeysOf(t.content, q), p) \/ Scope(Nested(q), p)
      <4>1. CASE Len(p) = Len(q) + 1
        <5>1. p[Len(p)] \in Range(Sorted(Children(t.content, q)))
          BY <3>3, <3>6, <4>1
        <5> QED BY <2>2, <4>1, <5>1 DEF Scope, KeysOf, Frame
      <4>2. CASE Len(p) >= Len(q) + 2
        BY <2>2, <4>2 DEF Scope, Nested, Frame
      <4> QED BY <2>2, <4>1, <4>2
    <3>8. Scoped(Object(k), p)
      <4>1. Scoped(<<KeysOf(t.content, q), Nested(q)>>, p)
        BY Zenon, <3>7, ScopedShort
      <4> QED BY <4>1 DEF q
    <3>9. j \in DOMAIN ss /\ ss[j] = Object(k)
      BY <1>8, <3>5
    <3>10. Scoped(FlattenSeq(ss), p)
      BY Zenon, <1>9, <3>8, <3>9
    <3> QED BY <2>3, <3>10
  <2>4. CASE ~shallow
    <3> DEFINE n == Len(f.at)
               m == Len(p)
    <3>1. n \in Nat /\ n >= 1 /\ m >= n + 2 /\ m \in Nat /\ ~(n - 1 < maxNestedDepth)
      <4>1. n = 1 \/ n > 1
        BY <1>3, PathLength
      <4>2. n \in Nat /\ m \in Nat /\ m >= n + 2 /\ ~(n - 1 < maxNestedDepth)
        BY <1>3, <2>1, <2>4 DEF Paths
      <4> HIDE DEF n, m
      <4> QED BY <4>1, <4>2
    <3> HIDE DEF n, m
    <3>2. maxNestedDepth \in Nat
      BY TriageAssumption
    <3>3. m # 1 /\ m # 2 /\ m \notin 2..maxNestedDepth + 2
      BY <3>1, <3>2
    <3>4. ~Reducible(t, p)
      BY <3>3 DEF Reducible, m
    <3> QED BY <1>12, <3>4
  <2> QED BY <2>3, <2>4
<1>13. \A p \in t.content : p \in Paths /\ Reducible(t, p) /\ Ahead(t, p) => Ahead(u, p)
  BY Zenon, <1>11, <1>12
<1>14. "keys" \in Minimising
  BY DEF Minimising
<1> QED BY Zenon, <1>1, <1>2, <1>4, <1>11, <1>13, <1>14, TurnReduced

\* A step of a triage that is not stopped keeps account of what was tried.
LEMMA StepReduced ==
  ASSUME TriageInv, NEW w \in Workers, Reduced(triage[w]), ~cancelled, TriageStep(w)
  PROVE  Reduced(triage'[w])
<1>1. CASE ConfirmRun(w) \/ ConfirmEnd(w) \/ DropExchange(w) \/ SessionEnd(w)
  BY <1>1, ConfirmRunReduced, ConfirmEndReduced, DropExchangeReduced, SessionEndReduced
<1>2. CASE MinimizeJSONBody(w) \/ MinimizeQueryParams(w) \/ MinimizeXMLBody(w) \/ MinimizeMultipartBody(w) \/ SkipBody(w)
  BY <1>2, MinimizeJSONBodyReduced, FlatBodyReduced, MinimizeMultipartBodyReduced, SkipBodyReduced
<1>3. CASE RemoveKeys(w) \/ Descend(w) \/ KeysEnd(w) \/ RemovePart(w) \/ PartsEnd(w) \/ BodiesEnd(w)
  BY <1>3, RemoveKeysReduced, DescendReduced, BodyEndReduced, RemovePartReduced, BodiesEndReduced
<1> QED BY <1>1, <1>2, <1>3 DEF TriageStep

\* A step of one triage is no step of another.
Alone(w) == \E u : triage' = [triage EXCEPT ![w] = u]

\* A worker triages its own finding and no other.
LEMMA TriageStepAlone == ASSUME NEW w, TriageStep(w) PROVE Alone(w)
<1>1. \A u : Become(w, u) => Alone(w)
  BY Zenon DEF Become, Alone
<1>2. \A c, yes, no : Ask(w, c, yes, no) => Alone(w)
  BY Zenon DEF Ask, Alone
<1>3. \A c, yes, no : Verify(w, c, yes, no) => Alone(w)
  BY Zenon, <1>1, <1>2 DEF Verify
<1>4. \A frames : Reduce(w, frames) => Alone(w)
  BY Zenon, <1>1 DEF Reduce
<1>5. CASE ConfirmRun(w)
  BY Zenon, <1>1, <1>2, <1>5 DEF ConfirmRun
<1>6. CASE ConfirmEnd(w) \/ SessionEnd(w) \/ SkipBody(w) \/ BodiesEnd(w) \/ KeysEnd(w) \/ PartsEnd(w)
  BY Zenon, <1>1, <1>6 DEF ConfirmEnd, SessionEnd, SkipBody, BodiesEnd, KeysEnd, PartsEnd
<1>7. CASE DropExchange(w)
  BY Zenon, <1>2, <1>7 DEF DropExchange
<1>8. CASE MinimizeJSONBody(w) \/ MinimizeQueryParams(w) \/ MinimizeXMLBody(w)
  BY Zenon, <1>4, <1>8 DEF MinimizeJSONBody, MinimizeQueryParams, MinimizeXMLBody
<1>9. CASE MinimizeMultipartBody(w) \/ Descend(w)
  BY Zenon, <1>1, <1>9 DEF MinimizeMultipartBody, Descend
<1>10. CASE RemoveKeys(w)
  BY Zenon, <1>1, <1>3, <1>10 DEF RemoveKeys
<1>11. CASE RemovePart(w)
  BY Zenon, <1>1, <1>2, <1>11 DEF RemovePart
<1> QED
  BY <1>5, <1>6, <1>7, <1>8, <1>9, <1>10, <1>11 DEF TriageStep

\* Confirmation begins with all of its runs to do.
LEMMA BeginReduced ==
  ASSUME TriageInv, NEW w \in Workers, NEW content, Session(content), NEW kinds, NEW runs \in Nat, NEW minimize,
         Begin(w, content, kinds, runs, minimize)
  PROVE  Reduced(triage'[w]) /\ Alone(w)
<1>1. PICK flaky \in BOOLEAN, p \in content, q \in content, both \in BOOLEAN :
        Become(w, [phase |-> "confirm", content |-> content, kinds |-> kinds, runs |-> runs,
                   minimize |-> minimize, left |-> runs, reproduced |-> 0, todo |-> <<>>,
                   work |-> <<>>, base |-> content, original |-> content, asked |-> 0, flaky |-> flaky,
                   needs |-> IF both THEN {{p, q}} ELSE {{p}, {q}}])
  BY ZenonT(60) DEF Begin
<1> DEFINE u == [phase |-> "confirm", content |-> content, kinds |-> kinds, runs |-> runs,
                 minimize |-> minimize, left |-> runs, reproduced |-> 0, todo |-> <<>>,
                 work |-> <<>>, base |-> content, original |-> content, asked |-> 0, flaky |-> flaky,
                 needs |-> IF both THEN {{p, q}} ELSE {{p}, {q}}]
<1>2. /\ AllFields \subseteq DOMAIN u /\ u.phase = "confirm" /\ u.content = content
      /\ u.runs = runs /\ u.left = runs /\ u.reproduced = 0
  BY DEF AllFields, Fields
<1>3. Become(w, u)
  BY <1>1
<1> HIDE DEF u
<1>4. Confirming(u)
  BY <1>2 DEF Confirming
<1>5. Reduced(u)
  BY <1>2, <1>4 DEF Reduced, Minimising
<1>6. Alone(w)
  BY Zenon, <1>3 DEF Become, Alone
<1> QED BY <1>3, <1>5, <1>6, BecomeReduced


-----------------------------------------------------------------------------
(* The floor of the planner.                                               *)

\* The tests counted for the endpoints, above the floor in order.
FloorInv ==
  /\ floor \in Nat
  /\ tests \in [Enabled -> Nat]
  /\ FloorFirst

\* Only Pick counts a test, and it takes an endpoint that may have one more.
LEMMA PickKeepsFloor ==
  ASSUME FloorInv, NEW k, NEW ref, Pick(k, ref)
  PROVE  FloorInv'
<1>1. k \in Candidates /\ tests' = [tests EXCEPT ![k] = @ + 1] /\ floor' = floor
  BY DEF Pick
<1>2. k \in Enabled
  BY <1>1 DEF Candidates, Below
<1>3. tests' \in [Enabled -> Nat] /\ Enabled' = Enabled
  BY <1>1, <1>2 DEF FloorInv, Enabled
<1>4. \A l \in Enabled : tests'[l] = IF l = k THEN tests[k] + 1 ELSE tests[l]
  BY <1>1, <1>2 DEF FloorInv
<1>5. CASE floor > 0
  <2>1. tests[k] < floor \/ \A l \in Enabled : tests[l] >= floor
    BY <1>1, <1>5 DEF Candidates, Below, FloorInv
  <2>2. FloorFirst'
    BY <1>1, <1>2, <1>3, <1>4, <1>5, <2>1 DEF FloorFirst, FloorInv
  <2> QED BY <1>1, <1>3, <2>2 DEF FloorInv
<1>6. CASE floor = 0
  <2>1. tests[k] < 1 \/ \A l \in Enabled : tests[l] >= 1
    BY <1>1, <1>6 DEF Candidates, Below, FloorInv
  <2>2. FloorFirst'
    BY <1>1, <1>2, <1>3, <1>4, <1>6, <2>1 DEF FloorFirst, FloorInv
  <2> QED BY <1>1, <1>3, <2>2 DEF FloorInv
<1> QED BY <1>5, <1>6 DEF FloorInv

\* Every other step leaves the counts alone.
LEMMA NextFloor == FloorInv /\ [Next]_vars => FloorInv'
<1> SUFFICES ASSUME FloorInv, [Next]_vars PROVE FloorInv'
  OBVIOUS
<1>1. CASE Generate
  <2>1. CASE UNCHANGED plannerVars
    BY <2>1 DEF plannerVars, FloorInv, FloorFirst, Enabled
  <2> QED BY <1>1, <2>1, PickKeepsFloor DEF Generate
<1>2. CASE UNCHANGED <<floor, tests>>
  BY <1>2 DEF FloorInv, FloorFirst, Enabled
<1>3. ASSUME NEW w \in Workers, WorkerStep(w) PROVE UNCHANGED <<floor, tests>>
  BY <1>3 DEF WorkerStep, Receive, Replay, Respond, RewardEndpoint, DetectAll, SkipHit, CreateFinding,
              FindingToFeedback, FindingToPlanner, Triaging, HitDone, TaskDone, Credit, Reward, plannerVars
<1>4. ASSUME Send \/ Cancel \/ UNCHANGED vars PROVE UNCHANGED <<floor, tests>>
  BY <1>4 DEF Send, Cancel, vars, plannerVars
<1> QED BY <1>1, <1>2, <1>3, <1>4 DEF Next

\* At first nothing has been tested.
LEMMA InitFloor == Init => FloorInv
<1> SUFFICES ASSUME Init PROVE FloorInv
  OBVIOUS
<1>1. floor \in Nat /\ \E keys : tests = [k \in keys |-> 0]
  BY ConfigAssumption DEF Init, NewEndpointPlanner
<1>2. tests \in [Enabled -> Nat] /\ \A k \in Enabled : tests[k] = 0
  BY <1>1 DEF Enabled
<1> QED BY <1>1, <1>2 DEF FloorInv, FloorFirst

\* No endpoint is tested beyond the floor, or a second time, while another is below
\* it or untested: EndpointPlanner.Pick counts a test when it chooses it.
THEOREM TaskFloorFirst == Spec => []FloorFirst
<1>1. FloorInv => FloorFirst
  BY DEF FloorInv
<1> QED BY <1>1, InitFloor, NextFloor, PTL DEF Spec

-----------------------------------------------------------------------------
(* What a test mutates.                                                    *)

\* The tasks of a generator: whole sessions, and single exchanges with their key.
SessionTasks == [seed : SeedIds, target : {0}]

\* A task on one exchange carries the key of its endpoint.
TargetedTasks ==
  {[seed |-> ref[1], target |-> ref[2], key |-> KeyFromExchange(Exchange(ref))] : ref \in Refs}

\* All of them.
Tasks == SessionTasks \cup TargetedTasks

\* What a busy worker holds: a task with its own entries and operators.
Holds(me) ==
  /\ {"pc", "task", "entries", "ops"} \subseteq DOMAIN me
  /\ me.task \in Tasks
  /\ me.task.target # 0 =>
       me.entries = Seeds[me.task.seed].entries /\ DOMAIN me.ops = {me.task.target}

\* The task to send, those in the queue and those in hand.
TaskInv ==
  /\ pending \in Tasks \cup {NoTask}
  /\ queue \in Seq(Tasks)
  /\ worker = [w \in Workers |-> worker[w]]
  /\ \A w \in Workers : worker[w].pc \notin {"free", "off"} => Holds(worker[w])

\* Whatever else of its state a worker changes, it holds the same task.
LEMMA HoldsKept ==
  ASSUME NEW me, Holds(me), NEW a, NEW b, NEW c
  PROVE  /\ Holds([me EXCEPT !.pc = a])
         /\ Holds([me EXCEPT !.pc = a, !.delta = b])
         /\ Holds([me EXCEPT !.pc = a, !.hits = b])
         /\ Holds([me EXCEPT !.hits = b])
         /\ Holds([me EXCEPT !.i = b])
         /\ Holds([me EXCEPT !.pc = a, !.i = b, !.delta = c])
<1>1. ASSUME NEW m, DOMAIN m = DOMAIN me, m.task = me.task, m.entries = me.entries, m.ops = me.ops
      PROVE  Holds(m)
  BY <1>1 DEF Holds
<1>2. {"pc", "task", "entries", "ops"} \subseteq DOMAIN me
  BY DEF Holds
<1> QED BY <1>1, <1>2

\* A worker's step that leaves it free, or with what it held.
LEMMA UpdateKept ==
  ASSUME TaskInv, NEW w \in Workers, NEW state, Update(w, state),
         state.pc \notin {"free", "off"} => Holds(state),
         pending' = pending, queue' \in Seq(Tasks)
  PROVE  TaskInv'
<1>1. worker' = [v \in Workers |-> IF v = w THEN state ELSE worker[v]]
  BY DEF Update, TaskInv
<1>2. \A v \in Workers : worker'[v] = IF v = w THEN state ELSE worker[v]
  BY <1>1
<1> QED BY <1>1, <1>2 DEF TaskInv

\* Every step keeps tasks and entries together.
LEMMA NextTask == TaskInv /\ [Next]_vars => TaskInv'
<1> SUFFICES ASSUME TaskInv, [Next]_vars PROVE TaskInv'
  OBVIOUS
<1> USE DEF runVars
<1>1. CASE Generate
  <2>1. CASE \E s \in WeightedPick : pending' = [seed |-> s, target |-> 0]
    BY <1>1, <2>1 DEF Generate, TaskInv, WeightedPick, Tasks, SessionTasks
  <2>2. ASSUME NEW k, NEW ref \in Refs, Pick(k, ref), pending' = [seed |-> ref[1], target |-> ref[2], key |-> k]
        PROVE  TaskInv'
    <3>1. pending' \in TargetedTasks
      BY <2>2 DEF Pick, TargetedTasks
    <3> QED BY <1>1, <3>1 DEF Generate, TaskInv, Tasks
  <2> QED BY <1>1, <2>1, <2>2 DEF Generate
<1>2. CASE Send
  <2>1. pending \in Tasks
    BY <1>2 DEF Send, TaskInv
  <2>2. queue' \in Seq(Tasks)
    BY <1>2, <2>1 DEF Send, TaskInv
  <2> QED BY <1>2, <2>2 DEF Send, TaskInv
<1>3. CASE Cancel \/ UNCHANGED vars
  BY <1>3 DEF Cancel, vars, TaskInv
<1>4. ASSUME NEW w \in Workers, Receive(w) PROVE TaskInv'
  <2> DEFINE task == Head(queue)
  <2>1. task \in Tasks /\ queue' \in Seq(Tasks) /\ pending' = pending
    BY <1>4 DEF Receive, TaskInv
  <2>2. PICK es \in Entries(task) :
          LET mutated == IF task.target = 0 THEN DOMAIN es ELSE {task.target} IN
          \E ops \in [mutated -> UNION {Operators(es[i]) : i \in mutated}] :
            Update(w, [pc |-> "replay", task |-> task, entries |-> es, ops |-> ops])
    BY <1>4 DEF Receive
  <2>3. PICK ops :
          /\ task.target # 0 => DOMAIN ops = {task.target}
          /\ Update(w, [pc |-> "replay", task |-> task, entries |-> es, ops |-> ops])
    BY <2>2
  <2>4. task.target # 0 => es = Seeds[task.seed].entries
    BY DEF Entries
  <2> HIDE DEF task
  <2>5. Holds([pc |-> "replay", task |-> task, entries |-> es, ops |-> ops])
    BY <2>1, <2>3, <2>4 DEF Holds
  <2> QED BY <2>1, <2>3, <2>5, UpdateKept
<1>5. ASSUME NEW w \in Workers, WorkerStep(w), ~Receive(w) PROVE TaskInv'
  <2> DEFINE me == worker[w]
  <2>1. UNCHANGED <<pending, queue>>
    BY <1>5 DEF WorkerStep, Replay, Respond, RewardEndpoint, DetectAll, SkipHit, CreateFinding,
                FindingToFeedback, FindingToPlanner, Triaging, HitDone, TaskDone
  <2>2. queue \in Seq(Tasks)
    BY DEF TaskInv
  <2>3. Free.pc = "free"
    BY DEF Free
  <2>4. CASE worker' = worker
    BY <2>1, <2>4 DEF TaskInv
  <2>5. CASE Update(w, Free)
    BY <2>1, <2>2, <2>3, <2>5, UpdateKept
  <2>6. ASSUME me.pc \notin {"free", "off"}, NEW state, Update(w, state), Holds(me) => Holds(state)
        PROVE  TaskInv'
    <3>1. Holds(me)
      BY <2>6 DEF TaskInv
    <3> QED BY <2>1, <2>2, <2>6, <3>1, UpdateKept
  <2> HIDE DEF me
  <2>7. ASSUME NEW state, DOMAIN me \subseteq DOMAIN state \/ {"pc", "task", "entries", "ops"} \subseteq DOMAIN state,
               state.task = me.task, state.entries = me.entries, state.ops = me.ops
        PROVE  Holds(me) => Holds(state)
    BY <2>7 DEF Holds
  <2>8. CASE Replay(w)
    <3>1. ASSUME NEW rs, Update(w, [pc |-> "respond", task |-> me.task, entries |-> me.entries,
                                    ops |-> me.ops, results |-> rs, i |-> 1, delta |-> 0])
          PROVE  TaskInv'
      <4>1. Holds(me) => Holds([pc |-> "respond", task |-> me.task, entries |-> me.entries,
                                ops |-> me.ops, results |-> rs, i |-> 1, delta |-> 0])
        BY <2>7
      <4> QED BY <2>6, <2>8, <3>1, <4>1 DEF Replay, me
    <3> QED BY <2>5, <2>8, <3>1 DEF Replay, me
  <2>9. CASE Respond(w)
    BY Zenon, <2>6, <2>9, HoldsKept DEF Respond, me
  <2>10. CASE RewardEndpoint(w)
    BY Zenon, <2>6, <2>10, HoldsKept DEF RewardEndpoint, me
  <2>11. CASE DetectAll(w)
    <3>1. Holds(me) => Holds([pc |-> "hits", task |-> me.task, entries |-> me.entries,
                              ops |-> me.ops, hits |-> Hits(me)])
      BY <2>7
    <3> QED BY <2>6, <2>11, <3>1 DEF DetectAll, me
  <2>12. CASE SkipHit(w)
    BY Zenon, <2>6, <2>12, HoldsKept DEF SkipHit, me
  <2>13. CASE CreateFinding(w)
    BY Zenon, <2>6, <2>13, HoldsKept DEF CreateFinding, me
  <2>14. CASE FindingToFeedback(w)
    BY Zenon, <2>6, <2>14, HoldsKept DEF FindingToFeedback, me
  <2>15. CASE FindingToPlanner(w)
    BY Zenon, <2>6, <2>15, HoldsKept DEF FindingToPlanner, me
  <2>16. CASE Triaging(w)
    BY <2>4, <2>16 DEF Triaging
  <2>17. CASE HitDone(w)
    BY Zenon, <2>6, <2>17, HoldsKept DEF HitDone, me
  <2>18. CASE TaskDone(w)
    BY <2>5, <2>18 DEF TaskDone
  <2> QED
    BY <1>5, <2>8, <2>9, <2>10, <2>11, <2>12, <2>13, <2>14, <2>15, <2>16, <2>17, <2>18 DEF WorkerStep
<1> QED BY <1>1, <1>2, <1>3, <1>4, <1>5 DEF Next

\* At first there are no tasks.
LEMMA InitTask == Init => TaskInv
<1> SUFFICES ASSUME Init PROVE TaskInv
  OBVIOUS
<1>1. worker = [w \in Workers |-> IF w \in cfg.workers THEN Free ELSE [pc |-> "off"]]
  BY DEF Init
<1>2. \A w \in Workers : worker[w].pc \in {"free", "off"}
  BY <1>1 DEF Free
<1>3. pending = NoTask /\ queue \in Seq(Tasks)
  BY DEF Init
<1> QED BY <1>1, <1>2, <1>3 DEF TaskInv

\* What a test counted for an endpoint mutates is one exchange of that endpoint, and
\* the rest of the session is as it was recorded.
THEOREM TaskOneEndpointMutated == Spec => []OneEndpointMutated
<1>1. Init => TaskInv
  BY InitTask
<1>2. ASSUME TaskInv, NEW w \in Targeted
      PROVE  /\ {KeyFromExchange(worker[w].entries[i]) : i \in DOMAIN worker[w].ops} = {worker[w].task.key}
             /\ worker[w].entries = Seeds[worker[w].task.seed].entries
  <2> DEFINE task == worker[w].task
  <2>1. Holds(worker[w]) /\ task.target # 0
    BY <1>2 DEF Targeted, Team, TaskInv
  <2>2. task \in TargetedTasks
    BY <2>1 DEF Holds, Tasks, SessionTasks
  <2>3. PICK ref \in Refs : task = [seed |-> ref[1], target |-> ref[2], key |-> KeyFromExchange(Exchange(ref))]
    BY <2>2 DEF TargetedTasks
  <2>4. task.key = KeyFromExchange(Seeds[task.seed].entries[task.target])
    BY <2>3 DEF Exchange
  <2> QED BY <2>1, <2>4 DEF Holds
<1>3. TaskInv => OneEndpointMutated
  BY <1>2 DEF OneEndpointMutated
<1> QED BY <1>1, <1>3, NextTask, PTL DEF Spec
-----------------------------------------------------------------------------
(* What triage keeps: the session at hand.                                 *)

\* Every step of the run keeps both sessions of a triage showing an anomaly.
LEMMA NextTriage == TriageInv /\ [Next]_vars => TriageInv'
<1> SUFFICES ASSUME TriageInv, [Next]_vars PROVE TriageInv'
  OBVIOUS
<1>1. CASE UNCHANGED triage
  BY <1>1 DEF TriageInv
<1>2. ASSUME NEW w \in Workers, WorkerStep(w) PROVE TriageInv'
  <2>1. CASE FindingToPlanner(w)
    BY <1>1, <2>1, BeginKept DEF FindingToPlanner
  <2>2. CASE Triaging(w)
    BY <2>2, TriageStepKept DEF Triaging
  <2>3. CASE HitDone(w)
    BY <2>3, BecomeKept DEF HitDone, Become
  <2>4. CASE UNCHANGED triage
    BY <1>1, <2>4
  <2> QED
    BY <1>2, <2>1, <2>2, <2>3, <2>4
       DEF WorkerStep, Receive, Replay, Respond, RewardEndpoint, DetectAll, SkipHit, CreateFinding,
           FindingToFeedback, TaskDone
<1>3. CASE Generate \/ Send \/ Cancel \/ UNCHANGED vars
  BY <1>1, <1>3 DEF Generate, Send, Cancel, vars
<1> QED BY <1>2, <1>3 DEF Next

\* The session that a triage has at hand always shows an anomaly of a steady target,
\* whatever was dropped, put together, re-encoded or thrown away on the way.
THEOREM TriageShowsAnomaly == Spec => []ShowsAnomaly
<1>1. Init => TriageInv
  BY DEF Init, TriageInv
<1>2. TriageInv => ShowsAnomaly
  BY DEF TriageInv, ShowsAnomaly, Shown
<1> QED BY <1>1, <1>2, NextTriage, PTL DEF Spec
-----------------------------------------------------------------------------
(* What the accounts are kept of: the fields of a worker's state.          *)

\* The recorded exchanges.
AllEntries == {Exchange(ref) : ref \in Refs}

\* The types of a hit.
Types == {"TIMEOUT", "SERVER_ERROR", "LATENCY_REGRESSION", "REGEX_MATCH"}

\* A worker with a replay under way.
Replaying == {"replay", "respond", "reward"}

\* A worker with hits to handle.
Handling == {"found", "credit", "triage"}

\* The fields a worker has in each of its phases, as far as the accounts read them.
Shape(me) ==
  /\ me.pc \in {"free", "off", "hits"} \cup Replaying \cup Handling
  /\ me.pc \notin {"free", "off"} =>
       /\ {"pc", "task", "entries", "ops"} \subseteq DOMAIN me
       /\ me.task.seed \in SeedIds
       /\ me.entries \in Seq(AllEntries)
       /\ IsFiniteSet(DOMAIN me.ops)
  /\ me.pc \in {"respond", "reward"} =>
       /\ {"results", "i", "delta"} \subseteq DOMAIN me
       /\ \E m \in Nat : DOMAIN me.results = 1..m
       /\ me.delta \in Nat
  /\ me.pc \in Handling \cup {"hits"} =>
       /\ "hits" \in DOMAIN me
       /\ me.hits \in Seq([idx : Nat, type : Types])
       /\ me.pc # "hits" => me.hits # <<>>

\* Every worker has the fields of its phase.
ShapeInv == \A w \in Workers : Shape(worker[w])

\* Recordings, as sequences.
LEMMA Recorded ==
  /\ \E n \in Nat : SeedIds = 1..n
  /\ \A s \in SeedIds : Seeds[s].entries \in Seq(AllEntries)
<1>1. \E n \in Nat : SeedIds = 1..n
  BY SeedsAssumption DEF SeedIds
<1>2. ASSUME NEW s \in SeedIds PROVE Seeds[s].entries \in Seq(AllEntries)
  <2> DEFINE es == Seeds[s].entries
  <2>1. es \in Seq({es[i] : i \in DOMAIN es})
    BY SeedsAssumption DEF SeedIds
  <2>2. ASSUME NEW i \in DOMAIN es PROVE es[i] \in AllEntries
    <3>1. <<s, i>> \in Refs
      BY DEF Refs
    <3> QED BY <3>1 DEF AllEntries, Exchange
  <2> HIDE DEF es
  <2>3. es \in Seq(AllEntries)
    BY <2>1, <2>2
  <2> QED BY <2>3 DEF es
<1> QED BY <1>1, <1>2

\* So are the sequences that SeqMutator makes of them.
LEMMA MutatedSequence ==
  ASSUME NEW S, NEW es \in Seq(S), NEW ms \in SeqMutate(es)
  PROVE  ms \in Seq(S)
<1>1. CASE \E i \in 2..Len(es) : ms = RemoveAt(es, i)
  BY <1>1 DEF RemoveAt
<1>2. CASE \E i \in 1..Len(es) : ms = InsertAt(es, i, es[i])
  BY <1>2 DEF InsertAt
<1>3. CASE \E i \in 1..Len(es)-1 : ms = [es EXCEPT ![i] = es[i + 1], ![i + 1] = es[i]]
  BY <1>3
<1> QED BY <1>1, <1>2, <1>3 DEF SeqMutate

\* What a task replays is recorded exchanges.
LEMMA EntriesSequences ==
  ASSUME NEW task, task.seed \in SeedIds, NEW es \in Entries(task)
  PROVE  es \in Seq(AllEntries)
  BY Recorded, MutatedSequence DEF Entries

\* A replay answers the first so many requests.
LEMMA ResultsIndexed ==
  ASSUME NEW n \in Nat, NEW rs \in Results(n)
  PROVE  \E m \in Nat : DOMAIN rs = 1..m
  BY DEF Results

\* The four detectors: at most three of them fire on one answer, a timeout being none.
LEMMA DetectShort ==
  ASSUME NEW result, NEW key
  PROVE  Detect(result, key) \in Seq(Types) /\ Len(Detect(result, key)) <= 3
<1>0. /\ "TIMEOUT" \in Types /\ "SERVER_ERROR" \in Types
      /\ "LATENCY_REGRESSION" \in Types /\ "REGEX_MATCH" \in Types
  BY DEF Types
<1> DEFINE one(condition, type) == IF condition THEN <<type>> ELSE <<>>
           a == one(TimeoutDetector(result), "TIMEOUT")
           b == one(ServerErrorDetector(result, key), "SERVER_ERROR")
           c == one(LatencyDetector(result, key), "LATENCY_REGRESSION")
           d == one(RegexDetector(result), "REGEX_MATCH")
<1>1. Detect(result, key) = a \o b \o c \o d
  BY DEF Detect
<1>2. ASSUME NEW condition, NEW type \in Types
      PROVE  one(condition, type) \in Seq(Types) /\ Len(one(condition, type)) \in 0..1
  <2>1. CASE condition
    BY <2>1
  <2>2. CASE ~condition
    BY <2>2
  <2> QED BY <2>1, <2>2
<1>3. Len(a) = 0 \/ Len(b) = 0
  <2>1. CASE ~TimeoutDetector(result)
    BY <2>1
  <2>2. CASE ~ServerErrorDetector(result, key)
    BY <2>2
  <2>3. ~TimeoutDetector(result) \/ ~ServerErrorDetector(result, key)
    BY DEF TimeoutDetector, ServerErrorDetector, Answered
  <2> QED BY <2>1, <2>2, <2>3
<1> HIDE DEF one
<1>4. /\ a \in Seq(Types) /\ Len(a) \in 0..1 /\ b \in Seq(Types) /\ Len(b) \in 0..1
      /\ c \in Seq(Types) /\ Len(c) \in 0..1 /\ d \in Seq(Types) /\ Len(d) \in 0..1
  BY <1>2, <1>0, Zenon
<1> HIDE DEF a, b, c, d
<1>5. a \o b \o c \o d \in Seq(Types) /\ Len(a \o b \o c \o d) = Len(a) + Len(b) + Len(c) + Len(d)
  BY <1>4
<1>6. Len(a) + Len(b) + Len(c) + Len(d) <= 3
  <2> DEFINE la == Len(a)
             lb == Len(b)
             lc == Len(c)
             ld == Len(d)
  <2>1. la \in 0..1 /\ lb \in 0..1 /\ lc \in 0..1 /\ ld \in 0..1 /\ (la = 0 \/ lb = 0)
    BY <1>3, <1>4
  <2> HIDE DEF la, lb, lc, ld
  <2>2. la + lb + lc + ld <= 3
    BY <2>1
  <2> QED BY <2>2 DEF la, lb, lc, ld
<1>7. Len(a \o b \o c \o d) <= 3 /\ a \o b \o c \o d \in Seq(Types)
  BY <1>5, <1>6
<1> QED BY <1>1, <1>7, Zenon

\* Nothing but a single step of the worker itself changes what it has.
LEMMA ShapeKept ==
  ASSUME ShapeInv, TaskInv, NEW w \in Workers, NEW state, Shape(state), Update(w, state)
  PROVE  ShapeInv'
<1>1. \A v \in Workers : worker'[v] = IF v = w THEN state ELSE worker[v]
  BY DEF Update, TaskInv
<1>2. ASSUME NEW v \in Workers PROVE Shape(worker'[v])
  BY <1>1 DEF ShapeInv
<1>3. ShapeInv' <=> \A v \in Workers : Shape(worker'[v])
  BY DEF ShapeInv, Shape
<1> QED BY <1>2, <1>3

-----------------------------------------------------------------------------
(* Hits on exchanges that an operator was tried on.                        *)

\* The hits there may be.
HitSet == [idx : Nat, type : Types]

\* The exchanges an operator was tried on.
Uses(ops, p) == {i \in DOMAIN ops : p \in ops[i]}

\* The hits on some exchanges.
On(hits, U) == {j \in DOMAIN hits : hits[j].idx \in U}

\* They are no more than all the hits.
LEMMA OnFinite ==
  ASSUME NEW hits \in Seq(HitSet), NEW U
  PROVE  /\ IsFiniteSet(On(hits, U))
         /\ Cardinality(On(hits, U)) \in Nat /\ Cardinality(On(hits, U)) <= Len(hits)
<1> DEFINE n == Len(hits)
<1>0. n \in Nat
  OBVIOUS
<1> HIDE DEF n
<1>1. IsFiniteSet(1..n) /\ Cardinality(1..n) = n
  BY <1>0, FS_Interval
<1>2. On(hits, U) \in SUBSET (1..n)
  BY DEF On, n
<1>3. IsFiniteSet(On(hits, U)) /\ Cardinality(On(hits, U)) <= n
  BY <1>1, <1>2, FS_Subset
<1>4. Cardinality(On(hits, U)) \in Nat
  BY <1>3, FS_CardinalityType
<1> QED BY <1>3, <1>4 DEF n

\* More hits, all on exchange i.
LEMMA OnConcat ==
  ASSUME NEW hits \in Seq(HitSet), NEW more \in Seq(HitSet), NEW i, NEW U,
         \A j \in DOMAIN more : more[j].idx = i
  PROVE  Cardinality(On(hits \o more, U)) <= Cardinality(On(hits, U)) + IF i \in U THEN Len(more) ELSE 0
<1> DEFINE n == Len(hits)
           m == Len(more)
           V == IF i \in U THEN (n + 1)..(n + m) ELSE {}
<1>1. /\ n \in Nat /\ m \in Nat /\ hits \o more \in Seq(HitSet) /\ Len(hits \o more) = n + m
      /\ \A j \in 1..(n + m) : (hits \o more)[j] = IF j <= n THEN hits[j] ELSE more[j - n]
  OBVIOUS
<1>2. IsFiniteSet(V) /\ Cardinality(V) = IF i \in U THEN m ELSE 0
  <2>1. n + 1 \in Int /\ n + m \in Int
    BY <1>1
  <2>2. IsFiniteSet((n + 1)..(n + m)) /\ Cardinality((n + 1)..(n + m)) = m
    <3>1. /\ IsFiniteSet((n + 1)..(n + m))
          /\ Cardinality((n + 1)..(n + m)) = IF n + 1 > n + m THEN 0 ELSE (n + m) - (n + 1) + 1
      BY <2>1, FS_Interval
    <3> QED BY <1>1, <3>1
  <2> QED BY <2>2, FS_EmptySet
<1>3. On(hits \o more, U) \subseteq On(hits, U) \cup V
  <2> SUFFICES ASSUME NEW j \in On(hits \o more, U) PROVE j \in On(hits, U) \cup V
    OBVIOUS
  <2>1. j \in 1..(n + m) /\ (hits \o more)[j].idx \in U
    BY <1>1 DEF On
  <2>2. CASE j <= n
    BY <1>1, <2>1, <2>2 DEF On
  <2>3. CASE ~(j <= n)
    BY <1>1, <2>1, <2>3
  <2> QED BY <2>2, <2>3
<1> HIDE DEF V, n, m
<1>4. /\ IsFiniteSet(On(hits, U)) /\ Cardinality(On(hits, U)) \in Nat
      /\ IsFiniteSet(On(hits, U) \cap V) /\ Cardinality(On(hits, U) \cap V) \in Nat
  BY <1>2, OnFinite, FS_CardinalityType, FS_Intersection
<1>5. IsFiniteSet(On(hits, U) \cup V) /\ Cardinality(On(hits, U) \cup V) <= Cardinality(On(hits, U)) + Cardinality(V)
  <2>1. /\ IsFiniteSet(On(hits, U) \cup V)
        /\ Cardinality(On(hits, U) \cup V)
             = Cardinality(On(hits, U)) + Cardinality(V) - Cardinality(On(hits, U) \cap V)
    BY <1>2, <1>4, FS_Union
  <2>2. Cardinality(V) \in Nat
    BY <1>2, FS_CardinalityType
  <2> QED BY <1>4, <2>1, <2>2
<1>6. Cardinality(On(hits \o more, U)) <= Cardinality(On(hits, U) \cup V)
  BY <1>3, <1>5, FS_Subset
<1>7. Cardinality(On(hits \o more, U)) \in Nat
  <2>1. hits \o more \in Seq(HitSet)
    BY <1>1
  <2> QED BY <2>1, OnFinite
<1>8. Cardinality(On(hits, U) \cup V) \in Nat
  BY <1>5, FS_CardinalityType
<1> QED BY <1>1, <1>2, <1>4, <1>5, <1>6, <1>7, <1>8 DEF m

\* The hits that are left when one is dealt with.
LEMMA OnTail ==
  ASSUME NEW hits \in Seq(HitSet), hits # <<>>, NEW U
  PROVE  Cardinality(On(Tail(hits), U)) + (IF Head(hits).idx \in U THEN 1 ELSE 0) <= Cardinality(On(hits, U))
<1> DEFINE f == [j \in On(Tail(hits), U) |-> j + 1]
           rest == On(hits, U) \ {1}
<1>1. /\ Len(hits) \in Nat /\ Len(hits) # 0 /\ Tail(hits) \in Seq(HitSet) /\ Len(Tail(hits)) = Len(hits) - 1
      /\ Head(hits) = hits[1] /\ \A j \in 1..(Len(hits) - 1) : Tail(hits)[j] = hits[j + 1]
  OBVIOUS
<1>2. On(Tail(hits), U) = {j \in 1..(Len(hits) - 1) : hits[j + 1].idx \in U}
  BY <1>1 DEF On
<1>3. f \in Injection(On(Tail(hits), U), rest)
  <2>1. ASSUME NEW j \in On(Tail(hits), U) PROVE f[j] \in rest /\ j \in Nat
    <3>1. j + 1 \in 1..Len(hits) /\ hits[j + 1].idx \in U /\ j \in Nat
      BY <1>1, <1>2
    <3> QED BY <3>1 DEF On
  <2>2. \A j, k \in On(Tail(hits), U) : f[j] = f[k] => j = k
    BY <2>1
  <2>3. f = [j \in On(Tail(hits), U) |-> f[j]]
    OBVIOUS
  <2> HIDE DEF f, rest
  <2>4. f \in [On(Tail(hits), U) -> rest]
    BY <2>1, <2>3
  <2> QED BY <2>2, <2>4 DEF Injection, IsInjective
<1>4. IsFiniteSet(On(hits, U)) /\ Cardinality(On(hits, U)) \in Nat
  BY OnFinite
<1>5. /\ IsFiniteSet(rest)
      /\ Cardinality(rest) = IF 1 \in On(hits, U) THEN Cardinality(On(hits, U)) - 1 ELSE Cardinality(On(hits, U))
  BY <1>4, FS_RemoveElement
<1>6. 1 \in On(hits, U) <=> Head(hits).idx \in U
  BY <1>1 DEF On
<1> HIDE DEF f, rest
<1>7. Cardinality(On(Tail(hits), U)) <= Cardinality(rest)
  BY <1>3, <1>5, FS_Injection
<1>8. Cardinality(On(Tail(hits), U)) \in Nat
  <2>1. Tail(hits) \in Seq(HitSet)
    BY <1>1
  <2> QED BY <2>1, OnFinite
<1> QED BY <1>4, <1>5, <1>6, <1>7, <1>8

\* At most three hits on each exchange that was answered.
LEMMA HitsFacts ==
  ASSUME NEW me, NEW m \in Nat, DOMAIN me.results = 1..m
  PROVE  /\ Hits(me) \in Seq(HitSet)
         /\ \A U : IsFiniteSet(U) => Cardinality(On(Hits(me), U)) <= 3 * Cardinality(U)
<1> DEFINE types(i) == Detect(me.results[i], TargetKey(me, i))
           ss == [i \in 1..m |-> [j \in DOMAIN types(i) |-> [idx |-> i, type |-> types(i)[j]]]]
<1>1. ASSUME NEW i \in 1..m
      PROVE  /\ ss[i] \in Seq(HitSet) /\ Len(ss[i]) <= 3
             /\ \A j \in DOMAIN ss[i] : ss[i][j].idx = i
  <2> DEFINE ts == types(i)
  <2>1. ts \in Seq(Types) /\ Len(ts) <= 3
    BY DetectShort
  <2>2. ss[i] = [j \in DOMAIN ts |-> [idx |-> i, type |-> ts[j]]]
    OBVIOUS
  <2> HIDE DEF ts, ss
  <2>3. i \in Nat /\ Len(ts) \in Nat /\ DOMAIN ts = 1..Len(ts) /\ \A j \in 1..Len(ts) : ts[j] \in Types
    BY <2>1
  <2>4. \A j \in 1..Len(ts) : [idx |-> i, type |-> ts[j]] \in HitSet
    BY <2>3 DEF HitSet
  <2>5. ss[i] \in Seq(HitSet) /\ Len(ss[i]) = Len(ts)
    BY <2>2, <2>3, <2>4
  <2> QED BY <2>1, <2>2, <2>3, <2>5
<1>2. Hits(me) = FlattenSeq(ss)
  BY DEF Hits
<1> HIDE DEF ss
<1>3. ss = [i \in 1..m |-> ss[i]]
  BY DEF ss
<1>4. ss \in Seq(Seq(HitSet)) /\ Len(ss) = m
  BY <1>1, <1>3
<1>5. CASE m = 0
  <2>1. ss = <<>>
    BY <1>4, <1>5
  <2>2. Hits(me) = <<>>
    BY <1>2, <1>4, <1>5, <2>1 DEF FlattenSeq
  <2>3. \A U : On(<<>>, U) = {}
    BY DEF On
  <2>4. <<>> \in Seq(HitSet)
    OBVIOUS
  <2>5. ASSUME NEW U, IsFiniteSet(U) PROVE Cardinality(On(Hits(me), U)) <= 3 * Cardinality(U)
    <3>1. On(Hits(me), U) = {}
      BY <2>2, <2>3
    <3>2. Cardinality(On(Hits(me), U)) = 0
      BY <3>1, FS_EmptySet
    <3>3. Cardinality(U) \in Nat
      BY <2>5, FS_CardinalityType
    <3> QED BY <3>2, <3>3
  <2> QED BY <2>2, <2>4, <2>5
<1>6. CASE m # 0
  <2>1. PICK g \in [1..m -> Seq(HitSet)] :
          /\ FlattenSeq(ss) = g[m]
          /\ g[1] = ss[1]
          /\ \A i \in 2..m : g[i] = g[i - 1] \o ss[i]
    <3>1. ss # <<>>
      BY <1>4, <1>6
    <3> QED BY <1>4, <3>1, FlattenFacts
  <2>2. ASSUME NEW U, IsFiniteSet(U) PROVE Cardinality(On(g[m], U)) <= 3 * Cardinality(U)
    <3> DEFINE c(i) == Cardinality(U \cap (1..i))
               h(hits) == Cardinality(On(hits, U))
               Bound(i) == h(g[i]) <= 3 * c(i)
               G == {s \in SUBSET (1..m) : \A i \in 1..m : s = 1..i => Bound(i)}
    <3>1. \A i : IsFiniteSet(U \cap (1..i)) /\ c(i) \in Nat /\ c(i) <= Cardinality(U)
      BY <2>2, FS_Intersection, FS_CardinalityType
    <3>2. ASSUME NEW i \in 1..m PROVE h(g[i]) \in Nat
      <4>1. g[i] \in Seq(HitSet)
        OBVIOUS
      <4> QED BY <4>1, OnFinite
    <3>0. h(<<>>) = 0
      <4>1. On(<<>>, U) = {}
        BY DEF On
      <4> QED BY <4>1, FS_EmptySet
    <3>3. ASSUME NEW i \in 1..m, i # 1 => Bound(i - 1) PROVE Bound(i)
      <4> DEFINE before == IF i = 1 THEN <<>> ELSE g[i - 1]
      <4>0. m \in Nat /\ i \in Nat /\ (i # 1 => i - 1 \in 1..m /\ i \in 2..m)
        BY <3>3
      <4>1. before \in Seq(HitSet) /\ ss[i] \in Seq(HitSet) /\ g[i] = before \o ss[i]
        <5>1. CASE i = 1
          <6>1. ss[1] \in Seq(HitSet) /\ before = <<>> /\ <<>> \o ss[1] = ss[1]
            BY <1>1, <5>1
          <6> QED BY <2>1, <5>1, <6>1
        <5>2. CASE i # 1
          BY <1>1, <2>1, <4>0, <5>2
        <5> QED BY <5>1, <5>2
      <4>2. h(before) <= 3 * c(i - 1) /\ h(before) \in Nat
        <5>0. c(i - 1) \in Nat
          BY <3>1
        <5>1. CASE i = 1
          <6>1. h(before) = 0
            BY <3>0, <5>1
          <6> HIDE DEF c, h, before
          <6> QED BY <5>0, <6>1
        <5>2. CASE i # 1
          <6>1. h(before) = h(g[i - 1]) /\ h(g[i - 1]) \in Nat /\ h(g[i - 1]) <= 3 * c(i - 1)
            BY <3>2, <3>3, <4>0, <5>2
          <6> HIDE DEF c, h, before
          <6> QED BY <6>1
        <5> QED BY <5>1, <5>2
      <4> HIDE DEF before
      <4>3. \A j \in DOMAIN ss[i] : ss[i][j].idx = i
        BY <1>1
      <4>4. h(g[i]) <= h(before) + IF i \in U THEN Len(ss[i]) ELSE 0
        BY <4>1, <4>3, OnConcat
      <4>5. Len(ss[i]) \in Nat /\ Len(ss[i]) <= 3
        BY <1>1
      <4>6. c(i) = c(i - 1) + IF i \in U THEN 1 ELSE 0
        <5>1. CASE i \in U
          <6>1. U \cap (1..i) = (U \cap (1..(i - 1))) \cup {i} /\ i \notin U \cap (1..(i - 1))
            BY <4>0, <5>1
          <6>2. IsFiniteSet(U \cap (1..(i - 1)))
            BY <3>1
          <6> QED BY <5>1, <6>1, <6>2, FS_AddElement
        <5>2. CASE i \notin U
          <6>1. U \cap (1..i) = U \cap (1..(i - 1))
            BY <4>0, <5>2
          <6>2. c(i - 1) \in Nat /\ c(i) = c(i - 1)
            BY <3>1, <6>1
          <6> HIDE DEF c
          <6> QED BY <5>2, <6>2
        <5> QED BY <5>1, <5>2
      <4>7. c(i) \in Nat /\ c(i - 1) \in Nat /\ h(g[i]) \in Nat
        BY <3>1, <3>2
      <4> DEFINE x == h(before)
                 y == h(g[i])
                 k == c(i - 1)
                 l == Len(ss[i])
      <4>8. /\ x <= 3 * k /\ x \in Nat /\ y \in Nat /\ k \in Nat /\ l \in Nat /\ l <= 3
            /\ y <= x + IF i \in U THEN l ELSE 0
        BY <4>2, <4>4, <4>5, <4>7
      <4>9. c(i) = k + IF i \in U THEN 1 ELSE 0
        BY <4>6
      <4> HIDE DEF c, h, x, y, k, l
      <4>10. y <= 3 * c(i)
        BY <4>8, <4>9
      <4> QED BY <4>10 DEF y
    <3> HIDE DEF Bound
    <3>4. ASSUME NEW s \in SUBSET (1..m), \A u \in SUBSET s : u # s => u \in G PROVE s \in G
      <4> SUFFICES ASSUME NEW i \in 1..m, s = 1..i PROVE Bound(i)
        OBVIOUS
      <4>1. CASE i = 1
        BY <3>3, <4>1
      <4>2. CASE i # 1
        <5>1. i - 1 \in 1..m /\ 1..(i - 1) \in SUBSET s /\ i \in s /\ i \notin 1..(i - 1)
          BY <4>2
        <5>2. Bound(i - 1)
          BY <3>4, <5>1
        <5> QED BY <3>3, <5>2
      <4> QED BY <4>1, <4>2
    <3>5. IsFiniteSet(1..m)
      BY FS_Interval
    <3> HIDE DEF G
    <3>6. \A s \in SUBSET (1..m) : s \in G
      BY <3>4, <3>5, SubsetInduction
    <3>7. m \in 1..m /\ 1..m \in SUBSET (1..m)
      BY <1>6
    <3>8. Bound(m)
      BY <3>6, <3>7 DEF G
    <3>9. Cardinality(U) \in Nat
      BY <2>2, FS_CardinalityType
    <3>10. h(g[m]) \in Nat /\ c(m) \in Nat /\ c(m) <= Cardinality(U)
      BY <3>1, <3>2, <3>7
    <3>11. h(g[m]) <= 3 * Cardinality(U)
      <4> HIDE DEF c, h
      <4> QED BY <3>8, <3>9, <3>10 DEF Bound
    <3> QED BY <3>11
  <2>3. g[m] \in Seq(HitSet)
    BY <1>6, <2>1
  <2> QED BY <1>2, <2>1, <2>2, <2>3
<1> QED BY <1>5, <1>6
-----------------------------------------------------------------------------
(* The fields are there.                                                   *)

\* A task is of a recorded seed.
LEMMA TaskSeeds == \A task \in Tasks : task.seed \in SeedIds
  BY DEF Tasks, SessionTasks, TargetedTasks, Refs

\* A worker that keeps its task, and the states it may go on to.
LEMMA ShapeMoves ==
  ASSUME NEW me, Shape(me), me.pc \notin {"free", "off"}
  PROVE  /\ me.pc = "respond" => Shape([me EXCEPT !.i = @ + 1])
         /\ \A d \in Nat : me.pc = "respond" => Shape([me EXCEPT !.pc = "reward", !.delta = d])
         /\ me.pc = "reward" => Shape([me EXCEPT !.pc = "respond", !.i = @ + 1, !.delta = 0])
         /\ me.pc = "hits" /\ me.hits # <<>> => Shape([me EXCEPT !.hits = Tail(@)])
         /\ me.pc \in Handling \cup {"hits"} /\ me.hits # <<>> =>
              /\ Shape([me EXCEPT !.pc = "hits", !.hits = Tail(@)])
              /\ \A pc \in Handling : Shape([me EXCEPT !.pc = pc])
<1> USE DEF Replaying, Handling
<1>1. ASSUME me.pc = "respond" PROVE Shape([me EXCEPT !.i = @ + 1])
  BY <1>1 DEF Shape
<1>2. ASSUME me.pc = "respond", NEW d \in Nat PROVE Shape([me EXCEPT !.pc = "reward", !.delta = d])
  BY <1>2 DEF Shape
<1>3. ASSUME me.pc = "reward" PROVE Shape([me EXCEPT !.pc = "respond", !.i = @ + 1, !.delta = 0])
  BY <1>3 DEF Shape
<1>4. ASSUME me.pc \in Handling \cup {"hits"}, me.hits # <<>>
      PROVE  Shape([me EXCEPT !.pc = "hits", !.hits = Tail(@)])
  <2>1. me.hits \in Seq(HitSet) /\ Tail(me.hits) \in Seq(HitSet)
    BY <1>4 DEF Shape, HitSet
  <2> QED BY <1>4, <2>1 DEF Shape, HitSet
<1>5. ASSUME me.pc \in Handling \cup {"hits"}, me.hits # <<>>, NEW pc \in Handling
      PROVE  Shape([me EXCEPT !.pc = pc])
  BY <1>5 DEF Shape
<1>6. ASSUME me.pc = "hits", me.hits # <<>> PROVE Shape([me EXCEPT !.hits = Tail(@)])
  <2>1. me.hits \in Seq(HitSet) /\ Tail(me.hits) \in Seq(HitSet)
    BY <1>6 DEF Shape, HitSet
  <2> QED BY <1>6, <2>1 DEF Shape, HitSet
<1> QED BY <1>1, <1>2, <1>3, <1>4, <1>5, <1>6, Zenon

\* Every step keeps them.
LEMMA NextShape == TaskInv /\ ShapeInv /\ [Next]_vars => ShapeInv'
<1> SUFFICES ASSUME TaskInv, ShapeInv, [Next]_vars PROVE ShapeInv'
  OBVIOUS
<1>1. CASE worker' = worker
  BY <1>1 DEF ShapeInv, Shape
<1>2. CASE Generate \/ Send \/ Cancel \/ UNCHANGED vars
  BY <1>1, <1>2 DEF Generate, Send, Cancel, vars
<1>3. ASSUME NEW w \in Workers, WorkerStep(w) PROVE ShapeInv'
  <2> DEFINE me == worker[w]
  <2>1. Shape(me)
    BY DEF ShapeInv
  <2>2. ASSUME NEW state, Update(w, state), Shape(state) PROVE ShapeInv'
    BY <2>2, ShapeKept
  <2>3. CASE Update(w, Free)
    <3>1. Shape(Free)
      BY DEF Shape, Free, Handling, Replaying
    <3> QED BY <2>2, <2>3, <3>1
  <2>4. CASE Receive(w)
    <3> DEFINE task == Head(queue)
    <3>1. task \in Tasks
      BY <2>4 DEF Receive, TaskInv
    <3>2. task.seed \in SeedIds
      BY <3>1, TaskSeeds
    <3>3. PICK es \in Entries(task) :
            LET mutated == IF task.target = 0 THEN DOMAIN es ELSE {task.target} IN
            \E ops \in [mutated -> UNION {Operators(es[i]) : i \in mutated}] :
              Update(w, [pc |-> "replay", task |-> task, entries |-> es, ops |-> ops])
      BY <2>4 DEF Receive
    <3>4. PICK ops : /\ DOMAIN ops = DOMAIN es \/ DOMAIN ops = {task.target}
                     /\ Update(w, [pc |-> "replay", task |-> task, entries |-> es, ops |-> ops])
      BY <3>3
    <3>5. es \in Seq(AllEntries)
      BY <3>2, EntriesSequences
    <3> HIDE DEF task
    <3>6. IsFiniteSet(DOMAIN ops)
      <4>1. DOMAIN es = 1..Len(es) /\ Len(es) \in Int /\ 1 \in Int
        BY <3>5
      <4>2. IsFiniteSet(DOMAIN es)
        BY <4>1, FS_Interval
      <4> QED BY <3>4, <4>2, FS_Singleton
    <3>7. Shape([pc |-> "replay", task |-> task, entries |-> es, ops |-> ops])
      BY <3>2, <3>5, <3>6 DEF Shape, Replaying, Handling
    <3> QED BY <2>2, <3>4, <3>7
  <2>5. CASE Replay(w)
    <3>1. ASSUME NEW rs \in Results(Len(me.entries)), me.pc = "replay",
                 Update(w, [pc |-> "respond", task |-> me.task, entries |-> me.entries,
                            ops |-> me.ops, results |-> rs, i |-> 1, delta |-> 0])
          PROVE  ShapeInv'
      <4> DEFINE state == [pc |-> "respond", task |-> me.task, entries |-> me.entries,
                           ops |-> me.ops, results |-> rs, i |-> 1, delta |-> 0]
      <4>1. me.entries \in Seq(AllEntries) /\ me.task.seed \in SeedIds /\ IsFiniteSet(DOMAIN me.ops)
        BY <2>1, <3>1 DEF Shape
      <4>2. \E m \in Nat : DOMAIN rs = 1..m
        BY <4>1, ResultsIndexed
      <4> HIDE DEF me
      <4>3. Shape(state)
        BY <4>1, <4>2 DEF Shape, Replaying, Handling
      <4> QED BY <2>2, <3>1, <4>3
    <3> QED BY <2>3, <2>5, <3>1 DEF Replay
  <2>6. CASE Respond(w)
    <3>1. me.pc = "respond" /\ me.pc \notin {"free", "off"}
      BY <2>6 DEF Respond
    <3>2. /\ Shape([me EXCEPT !.i = @ + 1])
          /\ \A d \in Nat : Shape([me EXCEPT !.pc = "reward", !.delta = d])
      BY <2>1, <3>1, ShapeMoves
    <3>3. \E d \in Nat : \/ Update(w, [me EXCEPT !.pc = "reward", !.delta = d])
                         \/ Update(w, [me EXCEPT !.i = @ + 1])
      <4>1. Increment(me.task.seed, me.results[me.i]) \in Nat
        BY DEF Increment
      <4> QED BY <2>6, <4>1 DEF Respond
    <3> HIDE DEF me
    <3> QED BY <2>2, <3>2, <3>3
  <2>7. CASE RewardEndpoint(w)
    <3>1. me.pc = "reward" /\ me.pc \notin {"free", "off"}
      BY <2>7 DEF RewardEndpoint
    <3>2. Shape([me EXCEPT !.pc = "respond", !.i = @ + 1, !.delta = 0])
      BY <2>1, <3>1, ShapeMoves
    <3> QED BY <2>2, <2>7, <3>2 DEF RewardEndpoint
  <2>8. CASE DetectAll(w)
    <3>1. me.pc = "respond"
      BY <2>8 DEF DetectAll
    <3>2. PICK m \in Nat : DOMAIN me.results = 1..m
      BY <2>1, <3>1 DEF Shape
    <3>3. Hits(me) \in Seq(HitSet)
      BY <3>2, HitsFacts
    <3> DEFINE state == [pc |-> "hits", task |-> me.task, entries |-> me.entries, ops |-> me.ops, hits |-> Hits(me)]
    <3>4. Update(w, state)
      BY <2>8 DEF DetectAll
    <3> HIDE DEF me
    <3>5. Shape(state)
      BY <2>1, <3>1, <3>3 DEF Shape, Replaying, Handling, HitSet
    <3> QED BY <2>2, <3>4, <3>5
  <2>9. CASE me.pc \in Handling \cup {"hits"} /\ me.hits # <<>>
    <3>1. me.pc \notin {"free", "off"}
      BY <2>9 DEF Handling
    <3>2. /\ me.pc = "hits" => Shape([me EXCEPT !.hits = Tail(@)])
          /\ Shape([me EXCEPT !.pc = "hits", !.hits = Tail(@)])
          /\ \A pc \in Handling : Shape([me EXCEPT !.pc = pc])
      BY <2>1, <2>9, <3>1, ShapeMoves
    <3>3. "found" \in Handling /\ "credit" \in Handling /\ "triage" \in Handling
      BY DEF Handling
    <3> HIDE DEF me
    <3>4. CASE SkipHit(w)
      BY <2>2, <3>2, <3>4, Zenon DEF SkipHit, me
    <3>5. CASE CreateFinding(w)
      BY <2>2, <3>2, <3>3, <3>5, Zenon DEF CreateFinding, me
    <3>6. CASE FindingToFeedback(w)
      BY <2>2, <3>2, <3>3, <3>6, Zenon DEF FindingToFeedback, me
    <3>7. CASE FindingToPlanner(w)
      BY <2>2, <3>2, <3>3, <3>7, Zenon DEF FindingToPlanner, me
    <3>8. CASE HitDone(w)
      BY <2>2, <3>2, <3>8, Zenon DEF HitDone, me
    <3>9. CASE Triaging(w)
      BY <1>1, <3>9 DEF Triaging
    <3>10. CASE TaskDone(w)
      BY <2>3, <3>10 DEF TaskDone
    <3> QED BY <1>3, <2>4, <2>5, <2>6, <2>7, <2>8, <3>4, <3>5, <3>6, <3>7, <3>8, <3>9, <3>10, Zenon DEF WorkerStep
  <2>10. me.pc \in Handling => me.hits # <<>>
    BY <2>1 DEF Shape, Handling
  <2> HIDE DEF me
  <2>11. CASE SkipHit(w) \/ CreateFinding(w)
    BY <2>9, <2>11 DEF SkipHit, CreateFinding, me
  <2>12. CASE FindingToFeedback(w) \/ FindingToPlanner(w) \/ HitDone(w)
    BY <2>9, <2>10, <2>12 DEF FindingToFeedback, FindingToPlanner, HitDone, Handling, me
  <2>13. CASE Triaging(w)
    BY <1>1, <2>13 DEF Triaging
  <2>14. CASE TaskDone(w)
    BY <2>3, <2>14 DEF TaskDone
  <2> QED BY <1>3, <2>4, <2>5, <2>6, <2>7, <2>8, <2>11, <2>12, <2>13, <2>14, Zenon DEF WorkerStep
<1> QED BY <1>2, <1>3 DEF Next
-----------------------------------------------------------------------------
(* Sums over the workers.                                                  *)

\* What a worker is about to credit to the planner; whether it has a finding of a seed that
\* feedback does not know of; the findings it may still have on exchanges an operator was
\* tried on.
Owed(me) ==
  CASE me.pc = "reward" -> me.delta
    [] me.pc = "credit" -> FindingReward
    [] OTHER -> 0

\* A finding that its seed has not been told of.
Waits(me, s) == me.pc = "found" /\ me.task.seed = s

\* What a worker may still credit to an operator.
Left(me, p) ==
  CASE me.pc \in Replaying -> 3 * Cardinality(Uses(me.ops, p))
    [] me.pc = "hits" -> Cardinality(On(me.hits, Uses(me.ops, p)))
    [] me.pc \in Handling -> Cardinality(On(Tail(me.hits), Uses(me.ops, p)))
    [] OTHER -> 0

\* What all of them may.
AllLeft(p) == SumFunction([w \in Workers |-> Left(worker[w], p)])

\* What a worker owes to the planner is a number.
LEMMA OwedNat == ASSUME NEW me, Shape(me) PROVE Owed(me) \in Nat
  BY DEF Shape, Owed, FindingReward

\* An operator was tried on finitely many exchanges.
LEMMA UsesFinite ==
  ASSUME NEW ops, IsFiniteSet(DOMAIN ops), NEW p
  PROVE  IsFiniteSet(Uses(ops, p)) /\ Cardinality(Uses(ops, p)) \in Nat
<1>1. Uses(ops, p) \in SUBSET DOMAIN ops
  BY DEF Uses
<1>2. IsFiniteSet(Uses(ops, p))
  BY <1>1, FS_Subset
<1> QED BY <1>2, FS_CardinalityType

\* What a worker may still credit is a number.
LEMMA LeftNat == ASSUME NEW me, Shape(me), NEW p PROVE Left(me, p) \in Nat
<1> USE DEF Replaying, Handling
<1>1. CASE me.pc \in Replaying
  <2>1. Cardinality(Uses(me.ops, p)) \in Nat
    BY <1>1, UsesFinite DEF Shape
  <2> QED BY <1>1, <2>1 DEF Left
<1>2. CASE me.pc = "hits"
  <2>1. me.hits \in Seq(HitSet)
    BY <1>2 DEF Shape, HitSet
  <2> QED BY <1>2, <2>1, OnFinite DEF Left
<1>3. CASE me.pc \in Handling
  <2>1. me.hits \in Seq(HitSet) /\ me.hits # <<>>
    BY <1>3 DEF Shape, HitSet
  <2>2. Tail(me.hits) \in Seq(HitSet)
    BY <2>1
  <2> QED BY <1>3, <2>2, OnFinite DEF Left
<1>4. CASE me.pc \notin Replaying \cup Handling \cup {"hits"}
  BY <1>4 DEF Left
<1> QED BY <1>1, <1>2, <1>3, <1>4

\* Where one worker's state changes, a sum over all of them changes by as much.
LEMMA OverWorkers ==
  ASSUME NEW f, NEW g, NEW w \in Workers,
         \A v \in Workers : f[v] \in Int /\ g[v] \in Int, \A v \in Workers : v # w => g[v] = f[v],
         DOMAIN f = Workers, DOMAIN g = Workers
  PROVE  SumFunction(g) = SumFunction(f) + (g[w] - f[w]) /\ SumFunction(f) \in Int
<1> DEFINE d == g[w] - f[w]
<1>1. IsFiniteSet(Workers)
  BY TriageAssumption
<1>2. d \in Int
  OBVIOUS
<1>3. \A v \in Workers : g[v] = IF v = w THEN f[v] + d ELSE f[v]
  OBVIOUS
<1>4. \A v \in Workers : f[v] \in Int
  OBVIOUS
<1> HIDE DEF d
<1>5. SumFunctionOnSet(g, Workers) = SumFunctionOnSet(f, Workers) + d
  BY SMTT(120), <1>1, <1>2, <1>3, <1>4, SumChange
<1>6. SumFunctionOnSet(f, Workers) \in Int
  BY <1>1, <1>4, SumEquation
<1> QED BY <1>5, <1>6 DEF SumFunction, d

\* One worker's step.
LEMMA Updated ==
  ASSUME TaskInv, NEW w \in Workers, NEW state, Update(w, state)
  PROVE  \A v \in Workers : worker'[v] = IF v = w THEN state ELSE worker[v]
  BY DEF Update, TaskInv

\* One worker moves: what all owe changes by what it owes.
LEMMA PendingChange ==
  ASSUME TaskInv, ShapeInv, NEW w \in Workers, NEW state, Update(w, state), Shape(state)
  PROVE  Pending' = Pending + (Owed(state) - Owed(worker[w])) /\ Pending \in Int
<1> DEFINE f == [v \in Workers |-> Owed(worker[v])]
           g == [v \in Workers |-> Owed(worker'[v])]
<1>1. Pending = SumFunction(f) /\ Pending' = SumFunction(g)
  BY DEF Pending, Owed, FindingReward
<1>2. \A v \in Workers : worker'[v] = IF v = w THEN state ELSE worker[v]
  BY Updated
<1>3. ASSUME NEW v \in Workers PROVE f[v] \in Int /\ g[v] \in Int /\ (v # w => g[v] = f[v])
  <2>1. Shape(worker[v]) /\ Shape(worker'[v])
    BY <1>2 DEF ShapeInv
  <2> QED BY <1>2, <2>1, OwedNat
<1>4. g[w] = Owed(state) /\ f[w] = Owed(worker[w]) /\ DOMAIN f = Workers /\ DOMAIN g = Workers
  BY <1>2
<1> HIDE DEF f, g
<1> QED BY <1>1, <1>3, <1>4, OverWorkers

\* One worker moves: what all may credit changes by what it may.
LEMMA LeftChange ==
  ASSUME TaskInv, ShapeInv, NEW w \in Workers, NEW state, Update(w, state), Shape(state), NEW p
  PROVE  AllLeft(p)' = AllLeft(p) + (Left(state, p) - Left(worker[w], p)) /\ AllLeft(p) \in Int
<1> DEFINE f == [v \in Workers |-> Left(worker[v], p)]
           g == [v \in Workers |-> Left(worker'[v], p)]
<1>1. AllLeft(p) = SumFunction(f) /\ AllLeft(p)' = SumFunction(g)
  BY DEF AllLeft, Left
<1>2. \A v \in Workers : worker'[v] = IF v = w THEN state ELSE worker[v]
  BY Updated
<1>3. ASSUME NEW v \in Workers PROVE f[v] \in Int /\ g[v] \in Int /\ (v # w => g[v] = f[v])
  <2>1. Shape(worker[v]) /\ Shape(worker'[v])
    BY <1>2 DEF ShapeInv
  <2> QED BY <1>2, <2>1, LeftNat
<1>4. g[w] = Left(state, p) /\ f[w] = Left(worker[w], p) /\ DOMAIN f = Workers /\ DOMAIN g = Workers
  BY <1>2
<1> HIDE DEF f, g
<1> QED BY <1>1, <1>3, <1>4, OverWorkers

\* A worker that begins or ceases to have a finding in hand.
LEMMA WaitingChange ==
  ASSUME TaskInv, NEW w \in Workers, NEW state, Update(w, state), NEW s
  PROVE  /\ Unrecorded(s) \in Nat
         /\ (Waits(state, s) <=> Waits(worker[w], s)) => Unrecorded(s)' = Unrecorded(s)
         /\ Waits(state, s) /\ ~Waits(worker[w], s) => Unrecorded(s)' = Unrecorded(s) + 1
         /\ ~Waits(state, s) /\ Waits(worker[w], s) => Unrecorded(s)' = Unrecorded(s) - 1
<1> DEFINE U == {v \in Workers : Waits(worker[v], s)}
           V == {v \in Workers : Waits(worker'[v], s)}
<1>1. Unrecorded(s) = Cardinality(U) /\ Unrecorded(s)' = Cardinality(V)
  <2>1. {v \in Team : worker[v].pc = "found" /\ worker[v].task.seed = s} = U
    BY DEF Team, Waits
  <2>2. {v \in Team' : worker'[v].pc = "found" /\ worker'[v].task.seed = s} = V
    BY DEF Team, Waits
  <2> QED BY <2>1, <2>2 DEF Unrecorded
<1>2. \A v \in Workers : worker'[v] = IF v = w THEN state ELSE worker[v]
  BY Updated
<1>3. IsFiniteSet(U)
  BY TriageAssumption, FS_Subset
<1>4. Cardinality(U) \in Nat
  BY <1>3, FS_CardinalityType
<1>5. ASSUME Waits(state, s) <=> Waits(worker[w], s) PROVE V = U
  BY <1>2, <1>5
<1>6. ASSUME Waits(state, s), ~Waits(worker[w], s) PROVE V = U \cup {w} /\ w \notin U
  BY <1>2, <1>6
<1>7. ASSUME ~Waits(state, s), Waits(worker[w], s) PROVE V = U \ {w} /\ w \in U
  BY <1>2, <1>7
<1> HIDE DEF U, V
<1>8. Cardinality(U \cup {w}) = IF w \in U THEN Cardinality(U) ELSE Cardinality(U) + 1
  BY <1>3, FS_AddElement
<1>9. Cardinality(U \ {w}) = IF w \in U THEN Cardinality(U) - 1 ELSE Cardinality(U)
  BY <1>3, FS_RemoveElement
<1> QED BY <1>1, <1>4, <1>5, <1>6, <1>7, <1>8, <1>9
-----------------------------------------------------------------------------
(* The accounts.                                                           *)

\* Per seed: what its replays have shown, and its findings but for those in hand.
SeedsInv ==
  /\ interest \in [SeedIds -> Nat]
  /\ found \in [SeedIds -> Nat]
  /\ statuses = [s \in SeedIds |-> statuses[s]]
  /\ errors = [s \in SeedIds |-> errors[s]]
  /\ \A s \in SeedIds :
       /\ IsFiniteSet(statuses[s]) /\ IsFiniteSet(errors[s])
       /\ interest[s] = 2 * Cardinality(statuses[s]) + 3 * Cardinality(errors[s])
                        + FindingReward * (found[s] - Unrecorded(s))

\* What seeds have earned is with the planner, on its way there, or lost.
RewardInv ==
  /\ Enabled \subseteq SeedKeys
  /\ reward \in [Enabled -> Nat]
  /\ lost \in Nat
  /\ interest \in [SeedIds -> Nat]
  /\ SumFunction(reward) + Pending + lost = SumFunction(interest)

\* The findings of an operator, with those to come, are at most three for each exchange.
OperatorInv ==
  /\ applied \in [OperatorPrefixes -> Nat]
  /\ produced \in [OperatorPrefixes -> Nat]
  /\ \A p \in OperatorPrefixes : produced[p] + AllLeft(p) <= 3 * applied[p]

\* What stays the same in a worker's state when some of its fields change.
LEMMA FieldsKept ==
  ASSUME NEW me, {"pc", "task", "entries", "ops"} \subseteq DOMAIN me
  PROVE  /\ "i" \in DOMAIN me =>
              LET n == [me EXCEPT !.i = @ + 1]
              IN  n.pc = me.pc /\ n.task = me.task /\ n.ops = me.ops
         /\ \A d : {"i", "delta"} \subseteq DOMAIN me =>
              LET n == [me EXCEPT !.pc = "reward", !.delta = d]
              IN  n.pc = "reward" /\ n.task = me.task /\ n.ops = me.ops /\ n.delta = d
         /\ {"i", "delta"} \subseteq DOMAIN me =>
              LET n == [me EXCEPT !.pc = "respond", !.i = @ + 1, !.delta = 0]
              IN  n.pc = "respond" /\ n.task = me.task /\ n.ops = me.ops
         /\ \A pc : "hits" \in DOMAIN me =>
              LET n == [me EXCEPT !.pc = pc]
              IN  n.pc = pc /\ n.task = me.task /\ n.ops = me.ops /\ n.hits = me.hits
         /\ "hits" \in DOMAIN me =>
              LET n == [me EXCEPT !.pc = "hits", !.hits = Tail(@)]
              IN  n.pc = "hits" /\ n.task = me.task /\ n.ops = me.ops /\ n.hits = Tail(me.hits)
         /\ "hits" \in DOMAIN me =>
              LET n == [me EXCEPT !.hits = Tail(@)]
              IN  n.pc = me.pc /\ n.task = me.task /\ n.ops = me.ops /\ n.hits = Tail(me.hits)
  OBVIOUS

\* Steps that leave one of the accounts alone.
LEMMA SeedsKept ==
  ASSUME TaskInv, SeedsInv, UNCHANGED <<feedbackVars, found>>, NEW w \in Workers, NEW state, Update(w, state),
         \A s : Waits(state, s) <=> Waits(worker[w], s)
  PROVE  SeedsInv'
<1>1. \A s \in SeedIds : Unrecorded(s)' = Unrecorded(s)
  BY WaitingChange
<1>2. SeedIds' = SeedIds
  BY DEF SeedIds
<1> QED BY <1>1, <1>2, Zenon DEF SeedsInv, feedbackVars

\* The rewards add up after a step that owes the same.
LEMMA RewardKept ==
  ASSUME TaskInv, ShapeInv, RewardInv, UNCHANGED <<tests, reward, interest, lost>>,
         NEW w \in Workers, NEW state, Update(w, state), Shape(state), Owed(state) = Owed(worker[w])
  PROVE  RewardInv'
<1>1. Pending' = Pending + (Owed(state) - Owed(worker[w])) /\ Pending \in Int
  BY PendingChange
<1>2. Owed(state) \in Nat
  BY OwedNat
<1>3. Pending' = Pending
  BY <1>1, <1>2
<1>4. Enabled' = Enabled /\ SeedIds' = SeedIds /\ SeedKeys' = SeedKeys
  BY DEF Enabled
<1> QED BY <1>3, <1>4, Zenon DEF RewardInv

\* The operators stay below their trials after a step that may credit no more.
LEMMA OperatorsKept ==
  ASSUME TaskInv, ShapeInv, OperatorInv, UNCHANGED <<applied, produced>>,
         NEW w \in Workers, NEW state, Update(w, state), Shape(state),
         \A p : Left(state, p) <= Left(worker[w], p)
  PROVE  OperatorInv'
<1>1. ASSUME NEW p \in OperatorPrefixes PROVE produced[p] + AllLeft(p)' <= 3 * applied[p]
  <2>1. AllLeft(p)' = AllLeft(p) + (Left(state, p) - Left(worker[w], p)) /\ AllLeft(p) \in Int
    BY LeftChange
  <2>2. Left(state, p) \in Nat /\ Left(worker[w], p) \in Nat
    BY LeftNat DEF ShapeInv
  <2>3. produced[p] \in Nat /\ applied[p] \in Nat /\ produced[p] + AllLeft(p) <= 3 * applied[p]
    BY DEF OperatorInv
  <2>4. Left(state, p) <= Left(worker[w], p)
    OBVIOUS
  <2> HIDE DEF AllLeft, Left
  <2> QED BY <2>1, <2>2, <2>3, <2>4
<1>2. produced' = produced /\ applied' = applied
  OBVIOUS
<1>3. \A p \in OperatorPrefixes : produced'[p] + AllLeft(p)' <= 3 * applied'[p]
  BY <1>1, <1>2
<1>4. applied' \in [OperatorPrefixes -> Nat] /\ produced' \in [OperatorPrefixes -> Nat]
  BY <1>2 DEF OperatorInv
<1> QED BY <1>3, <1>4 DEF OperatorInv

-----------------------------------------------------------------------------
(* Seeds and endpoints are finitely many.                                  *)

\* There are finitely many seeds and endpoints.
LEMMA FiniteData == IsFiniteSet(SeedIds) /\ IsFiniteSet(SeedKeys)
<1>1. IsFiniteSet(SeedIds)
  <2>1. PICK n \in Nat : SeedIds = 1..n
    BY Recorded
  <2> QED BY <2>1, FS_Interval
<1>2. IsFiniteSet(Refs)
  <2> DEFINE refs == [s \in SeedIds |-> {s} \X DOMAIN Seeds[s].entries]
  <2>1. ASSUME NEW s \in SeedIds PROVE IsFiniteSet(refs[s])
    <3> DEFINE es == Seeds[s].entries
    <3>1. DOMAIN es = 1..Len(es) /\ Len(es) \in Int /\ 1 \in Int
      BY Recorded
    <3>2. IsFiniteSet(DOMAIN es)
      BY <3>1, FS_Interval
    <3>3. IsFiniteSet({s})
      BY FS_Singleton
    <3> HIDE DEF es
    <3>4. IsFiniteSet({s} \X DOMAIN es)
      BY <3>2, <3>3, FS_Product
    <3> QED BY <3>4 DEF es
  <2>2. Refs = UNION {refs[s] : s \in SeedIds}
    BY DEF Refs
  <2> HIDE DEF refs
  <2>3. IsFiniteSet({refs[s] : s \in SeedIds})
    BY <1>1, ValuesFinite, Zenon
  <2>4. \A r \in {refs[s] : s \in SeedIds} : IsFiniteSet(r)
    BY <2>1
  <2> QED BY <2>2, <2>3, <2>4, FS_UNION, Zenon
<1>3. IsFiniteSet(SeedKeys)
  <2> DEFINE key == [ref \in Refs |-> KeyFromExchange(Exchange(ref))]
  <2>1. SeedKeys = {key[ref] : ref \in Refs}
    BY DEF SeedKeys
  <2> HIDE DEF key
  <2>2. IsFiniteSet({key[ref] : ref \in Refs})
    BY <1>2, ValuesFinite, Zenon
  <2> QED BY <2>1, <2>2
<1> QED BY <1>1, <1>3

\* One number more.
LEMMA SumExcept ==
  ASSUME NEW S, IsFiniteSet(S), NEW f \in [S -> Nat], NEW y \in S, NEW d \in Nat
  PROVE  /\ SumFunction([f EXCEPT ![y] = @ + d]) = SumFunction(f) + d
         /\ SumFunction(f) \in Nat
         /\ [f EXCEPT ![y] = @ + d] \in [S -> Nat]
<1> DEFINE g == [f EXCEPT ![y] = @ + d]
<1>1. g \in [S -> Nat] /\ DOMAIN g = S /\ DOMAIN f = S /\ d \in Int
  OBVIOUS
<1>2. \A x \in S : g[x] = IF x = y THEN f[x] + d ELSE f[x]
  OBVIOUS
<1>3. (\A x \in S : f[x] \in Nat) /\ \A x \in S : f[x] \in Int
  OBVIOUS
<1> HIDE DEF g
<1>4. SumFunctionOnSet(g, S) = SumFunctionOnSet(f, S) + d
  BY <1>1, <1>2, <1>3, SumChange
<1>5. SumFunctionOnSet(f, S) \in Nat
  BY <1>3, SumNat
<1> QED BY <1>1, <1>4, <1>5 DEF SumFunction, g

\* A seed earns something.
LEMMA InterestChange ==
  ASSUME interest \in [SeedIds -> Nat], NEW s \in SeedIds, NEW d \in Nat,
         interest' = [interest EXCEPT ![s] = @ + d]
  PROVE  /\ SumFunction(interest)' = SumFunction(interest) + d
         /\ SumFunction(interest) \in Nat
         /\ interest' \in [SeedIds -> Nat]
<1>1. IsFiniteSet(SeedIds)
  BY FiniteData
<1>2. /\ SumFunction([interest EXCEPT ![s] = @ + d]) = SumFunction(interest) + d
      /\ SumFunction(interest) \in Nat
      /\ [interest EXCEPT ![s] = @ + d] \in [SeedIds -> Nat]
  BY <1>1, SumExcept
<1>3. SumFunction(interest)' = SumFunction(interest')
  BY DEF SumFunction, SumFunctionOnSet, FoldFunctionOnSet, MapThenFoldSet
<1> QED BY <1>2, <1>3

\* An endpoint is credited, or what it would have earned is lost.
LEMMA CreditChange ==
  ASSUME reward \in [Enabled -> Nat], Enabled \subseteq SeedKeys, lost \in Nat,
         NEW k, NEW d \in Nat, Credit(k, d)
  PROVE  /\ SumFunction(reward)' + lost' = SumFunction(reward) + lost + d
         /\ SumFunction(reward) \in Nat /\ SumFunction(reward)' \in Nat
         /\ reward' \in [Enabled -> Nat] /\ lost' \in Nat
         /\ UNCHANGED <<floor, tests>>
<1>1. IsFiniteSet(Enabled)
  BY FiniteData, FS_Subset
<1>2. SumFunction(reward) \in Nat
  <2>1. SumFunctionOnSet(reward, Enabled) \in Nat
    BY <1>1, SumNat
  <2> QED BY <2>1 DEF SumFunction
<1>3. SumFunction(reward)' = SumFunction(reward')
  BY DEF SumFunction, SumFunctionOnSet, FoldFunctionOnSet, MapThenFoldSet
<1>4. CASE k \in Enabled
  <2>1. reward' = [reward EXCEPT ![k] = @ + d] /\ lost' = lost /\ UNCHANGED <<floor, tests>>
    BY <1>4 DEF Credit, Reward
  <2> DEFINE S == Enabled
  <2>0. reward \in [S -> Nat] /\ IsFiniteSet(S) /\ k \in S /\ d \in Nat
    BY <1>1, <1>4
  <2> HIDE DEF S
  <2>2. /\ SumFunction([reward EXCEPT ![k] = @ + d]) = SumFunction(reward) + d
        /\ SumFunction(reward) \in Nat
        /\ [reward EXCEPT ![k] = @ + d] \in [S -> Nat]
    BY <2>0, SumExcept
  <2> QED BY <1>2, <1>3, <2>1, <2>2 DEF S
<1>5. CASE k \notin Enabled
  <2>1. reward' = reward /\ lost' = lost + d /\ UNCHANGED <<floor, tests>>
    BY <1>5 DEF Credit, Reward
  <2> QED BY <1>2, <1>3, <2>1
<1> QED BY <1>4, <1>5

-----------------------------------------------------------------------------
(* The steps.                                                              *)

\* The three accounts: of the seeds, of the endpoints, of the operators.
Accounts == SeedsInv /\ RewardInv /\ OperatorInv

\* A worker of which nothing is waited for.
LEMMA NotFound == ASSUME NEW me, NEW s, me.pc # "found" PROVE ~Waits(me, s)
  BY DEF Waits

\* A task is received: its exchanges may have three findings each.
LEMMA ReceiveAccounts ==
  ASSUME TaskInv, ShapeInv, ShapeInv', Accounts, NEW w \in Workers, Receive(w)
  PROVE  Accounts'
<1>1. PICK es, ops :
        /\ Update(w, [pc |-> "replay", task |-> Head(queue), entries |-> es, ops |-> ops])
        /\ applied' = Tally(applied, ops)
  BY DEF Receive
<1> DEFINE state == [pc |-> "replay", task |-> Head(queue), entries |-> es, ops |-> ops]
<1>2. Update(w, state) /\ state.pc = "replay" /\ state.ops = ops /\ worker[w].pc = "free"
  BY <1>1 DEF Receive, Free
<1>3. Shape(state) /\ Shape(worker[w])
  <2>1. worker'[w] = state
    BY <1>2, Updated
  <2>2. Shape(worker'[w])
    BY DEF ShapeInv, Shape
  <2> QED BY <2>1, <2>2 DEF ShapeInv
<1>4. UNCHANGED <<plannerVars, feedbackVars, produced, found, lost>>
  BY DEF Receive
<1> HIDE DEF state
<1>5. SeedsInv'
  <2>1. \A s : Waits(state, s) <=> Waits(worker[w], s)
    BY <1>2, NotFound
  <2> QED BY <1>2, <1>4, <2>1, SeedsKept DEF Accounts
<1>6. RewardInv'
  <2>1. Owed(state) = Owed(worker[w])
    BY <1>2 DEF Owed
  <2> QED BY <1>2, <1>3, <1>4, <2>1, RewardKept DEF Accounts, plannerVars, feedbackVars
<1>7. IsFiniteSet(DOMAIN ops)
  BY <1>2, <1>3 DEF Shape
<1>8. ASSUME NEW p \in OperatorPrefixes
      PROVE /\ applied'[p] = applied[p] + Cardinality(Uses(ops, p)) /\ Cardinality(Uses(ops, p)) \in Nat
            /\ AllLeft(p)' = AllLeft(p) + 3 * Cardinality(Uses(ops, p)) /\ AllLeft(p) \in Int
  <2>1. Cardinality(Uses(ops, p)) \in Nat
    BY <1>7, UsesFinite
  <2>2. AllLeft(p)' = AllLeft(p) + (Left(state, p) - Left(worker[w], p)) /\ AllLeft(p) \in Int
    BY <1>2, <1>3, LeftChange
  <2>3. Left(state, p) = 3 * Cardinality(Uses(ops, p)) /\ Left(worker[w], p) = 0
    BY <1>2 DEF Left, Replaying, Handling
  <2>4. applied'[p] = applied[p] + Cardinality(Uses(ops, p))
    BY <1>1 DEF Tally, Uses
  <2> HIDE DEF AllLeft, Left, Uses
  <2> QED BY <2>1, <2>2, <2>3, <2>4
<1>9. applied' \in [OperatorPrefixes -> Nat]
  <2>1. applied' = [p \in OperatorPrefixes |-> applied'[p]]
    BY <1>1 DEF Tally
  <2>2. \A p \in OperatorPrefixes : applied'[p] \in Nat
    BY <1>8 DEF Accounts, OperatorInv
  <2> QED BY <2>1, <2>2
<1>10. produced' = produced /\ produced \in [OperatorPrefixes -> Nat]
  BY <1>4 DEF Accounts, OperatorInv
<1>11. ASSUME NEW p \in OperatorPrefixes PROVE produced'[p] + AllLeft(p)' <= 3 * applied'[p]
  <2>1. produced[p] + AllLeft(p) <= 3 * applied[p] /\ applied[p] \in Nat /\ produced[p] \in Nat
    BY DEF Accounts, OperatorInv
  <2>2. produced'[p] = produced[p]
    BY <1>10
  <2> QED BY <1>8, <2>1, <2>2
<1>12. OperatorInv'
  BY <1>9, <1>10, <1>11 DEF OperatorInv
<1> QED BY <1>5, <1>6, <1>12 DEF Accounts

\* A finding is created: counted for its seed, and for the operators of its exchange.
LEMMA CreateAccounts ==
  ASSUME TaskInv, ShapeInv, Accounts, NEW w \in Workers, CreateFinding(w)
  PROVE  Accounts'
<1> DEFINE me == worker[w]
           state == [me EXCEPT !.pc = "found"]
           s == me.task.seed
           idx == Head(me.hits).idx
<1>1. Shape(me) /\ me.pc = "hits" /\ me.hits # <<>> /\ Update(w, state)
  BY DEF CreateFinding, ShapeInv
<1>2. /\ {"pc", "task", "entries", "ops", "hits"} \subseteq DOMAIN me /\ s \in SeedIds
      /\ me.hits \in Seq(HitSet) /\ IsFiniteSet(DOMAIN me.ops)
  BY <1>1 DEF Shape, HitSet
<1>3. /\ found' = [found EXCEPT ![s] = @ + 1]
      /\ produced' = Tally(produced, Restrict(me.ops, DOMAIN me.ops \cap {idx}))
      /\ UNCHANGED <<plannerVars, feedbackVars, applied, lost>>
  BY DEF CreateFinding
<1>4. state.pc = "found" /\ state.task = me.task /\ state.ops = me.ops /\ state.hits = me.hits
  BY <1>2
<1>5. Shape(state)
  <2>1. me.pc \notin {"free", "off"} /\ me.pc \in Handling \cup {"hits"} /\ "found" \in Handling
    BY <1>1 DEF Handling
  <2> HIDE DEF me
  <2> QED BY <1>1, <2>1, ShapeMoves, Zenon
<1> HIDE DEF state, s, idx
<1>6. RewardInv'
  <2>1. Owed(state) = Owed(worker[w])
    BY <1>1, <1>4 DEF Owed
  <2> QED BY <1>1, <1>3, <1>5, <2>1, RewardKept DEF Accounts, plannerVars, feedbackVars
<1>7. ASSUME NEW r \in SeedIds
      PROVE  found'[r] - Unrecorded(r)' = found[r] - Unrecorded(r) /\ found'[r] \in Nat
  <2>1. ~Waits(me, r) /\ (Waits(state, r) <=> r = s)
    BY <1>1, <1>4 DEF Waits, s
  <2>2. Unrecorded(r) \in Nat /\ Unrecorded(r)' = Unrecorded(r) + IF r = s THEN 1 ELSE 0
    BY <1>1, <2>1, WaitingChange
  <2>3. found[r] \in Nat /\ found'[r] = found[r] + IF r = s THEN 1 ELSE 0
    BY <1>2, <1>3 DEF Accounts, SeedsInv
  <2> QED BY <2>2, <2>3
<1>8. SeedsInv'
  <2>1. found' \in [SeedIds -> Nat]
    BY <1>2, <1>3 DEF Accounts, SeedsInv
  <2>2. SeedIds' = SeedIds
    BY DEF SeedIds
  <2>3. interest' = interest /\ statuses' = statuses /\ errors' = errors
    BY <1>3 DEF feedbackVars
  <2>4. \A r \in SeedIds : found'[r] - Unrecorded(r)' = found[r] - Unrecorded(r)
    BY <1>7
  <2> HIDE DEF me
  <2> QED BY <2>1, <2>2, <2>3, <2>4, Zenon DEF Accounts, SeedsInv
<1>9. ASSUME NEW p \in OperatorPrefixes
      PROVE  /\ produced'[p] = produced[p] + IF idx \in Uses(me.ops, p) THEN 1 ELSE 0
             /\ AllLeft(p)' = AllLeft(p) + (Left(state, p) - Left(me, p))
             /\ AllLeft(p) \in Int /\ Left(state, p) \in Nat /\ Left(me, p) \in Nat
             /\ Left(state, p) + (IF idx \in Uses(me.ops, p) THEN 1 ELSE 0) <= Left(me, p)
  <2>1. AllLeft(p)' = AllLeft(p) + (Left(state, p) - Left(me, p)) /\ AllLeft(p) \in Int
    BY <1>1, <1>5, LeftChange
  <2>2. Left(state, p) \in Nat /\ Left(me, p) \in Nat
    BY <1>1, <1>5, LeftNat
  <2>3. /\ Left(state, p) = Cardinality(On(Tail(me.hits), Uses(me.ops, p)))
        /\ Left(me, p) = Cardinality(On(me.hits, Uses(me.ops, p)))
    BY <1>1, <1>4 DEF Left, Replaying, Handling
  <2>4. Left(state, p) + (IF idx \in Uses(me.ops, p) THEN 1 ELSE 0) <= Left(me, p)
    BY <1>1, <1>2, <2>3, OnTail DEF idx
  <2>5. produced'[p] = produced[p] + IF idx \in Uses(me.ops, p) THEN 1 ELSE 0
    <3> DEFINE at == {i \in DOMAIN me.ops \cap {idx} : p \in me.ops[i]}
    <3>1. produced'[p] = produced[p] + Cardinality(at)
      BY <1>3 DEF Tally, Restrict
    <3>2. at = IF idx \in Uses(me.ops, p) THEN {idx} ELSE {}
      BY DEF Uses
    <3> HIDE DEF at
    <3>3. Cardinality(at) = IF idx \in Uses(me.ops, p) THEN 1 ELSE 0
      BY <3>2, FS_Singleton, FS_EmptySet
    <3> QED BY <3>1, <3>3
  <2> QED BY <2>1, <2>2, <2>4, <2>5
<1>10. OperatorInv'
  <2>1. applied' = applied /\ applied \in [OperatorPrefixes -> Nat]
    BY <1>3 DEF Accounts, OperatorInv
  <2>2. produced' = [p \in OperatorPrefixes |-> produced'[p]]
    BY <1>3 DEF Tally
  <2>3. ASSUME NEW p \in OperatorPrefixes
        PROVE  produced'[p] \in Nat /\ produced'[p] + AllLeft(p)' <= 3 * applied'[p]
    <3>1. produced[p] + AllLeft(p) <= 3 * applied[p] /\ applied[p] \in Nat /\ produced[p] \in Nat
      BY DEF Accounts, OperatorInv
    <3>2. applied'[p] = applied[p]
      BY <2>1
    <3> QED BY <1>9, <3>1, <3>2
  <2>4. produced' \in [OperatorPrefixes -> Nat]
    BY <2>2, <2>3
  <2> QED BY <2>1, <2>3, <2>4 DEF OperatorInv
<1> QED BY <1>6, <1>8, <1>10 DEF Accounts

\* How many findings a worker may still have, by its phase.
LEMMA LeftWhen ==
  ASSUME NEW me, NEW p
  PROVE  /\ me.pc \in Replaying => Left(me, p) = 3 * Cardinality(Uses(me.ops, p))
         /\ me.pc = "hits" => Left(me, p) = Cardinality(On(me.hits, Uses(me.ops, p)))
         /\ me.pc \in Handling => Left(me, p) = Cardinality(On(Tail(me.hits), Uses(me.ops, p)))
         /\ me.pc \in {"free", "off"} => Left(me, p) = 0
<1>1. CASE me.pc \in Replaying
  BY <1>1 DEF Left, Replaying, Handling
<1>2. CASE me.pc = "hits"
  BY <1>2 DEF Left, Replaying, Handling
<1>3. CASE me.pc \in Handling
  BY <1>3 DEF Left, Replaying, Handling
<1>4. CASE me.pc \in {"free", "off"}
  BY <1>4 DEF Left, Replaying, Handling
<1> QED BY <1>1, <1>2, <1>3, <1>4

\* The rewards of the enabled endpoints add up.
LEMMA RewardSum ==
  ASSUME Enabled \subseteq SeedKeys, reward \in [Enabled -> Nat]
  PROVE  SumFunction(reward) \in Nat
<1>1. IsFiniteSet(Enabled)
  BY FiniteData, FS_Subset
<1>2. SumFunctionOnSet(reward, Enabled) \in Nat
  BY <1>1, SumNat
<1> QED BY <1>2 DEF SumFunction

\* The planner is told of what a worker owed it.
LEMMA Credited ==
  ASSUME TaskInv, ShapeInv, RewardInv, interest' = interest, NEW w \in Workers, NEW state,
         Update(w, state), Shape(state), Owed(state) = 0,
         NEW k, Credit(k, Owed(worker[w]))
  PROVE  RewardInv'
<1> DEFINE d == Owed(worker[w])
<1>1. Pending' = Pending + (0 - d) /\ Pending \in Int
  BY PendingChange
<1>2. d \in Nat
  BY OwedNat DEF ShapeInv
<1>3. /\ Enabled \subseteq SeedKeys /\ reward \in [Enabled -> Nat] /\ lost \in Nat
      /\ interest \in [SeedIds -> Nat]
      /\ SumFunction(reward) + Pending + lost = SumFunction(interest)
  BY DEF RewardInv
<1>4. /\ SumFunction(reward)' + lost' = SumFunction(reward) + lost + d
      /\ SumFunction(reward) \in Nat /\ SumFunction(reward)' \in Nat
      /\ reward' \in [Enabled -> Nat] /\ lost' \in Nat
      /\ UNCHANGED <<floor, tests>>
  BY <1>2, <1>3, CreditChange
<1>5. /\ SumFunction(interest)' = SumFunction(interest) /\ Enabled' = Enabled
      /\ SeedKeys' = SeedKeys /\ SeedIds' = SeedIds
  BY <1>4 DEF Enabled, SumFunction, SumFunctionOnSet, FoldFunctionOnSet, MapThenFoldSet
<1> HIDE DEF d
<1>6. SumFunction(reward)' + Pending' + lost' = SumFunction(interest)'
  BY <1>1, <1>2, <1>3, <1>4, <1>5
<1> QED BY <1>3, <1>4, <1>5, <1>6, Zenon DEF RewardInv

\* A response is recorded for its seed; what is new in it is then owed to the planner.
LEMMA RespondAccounts ==
  ASSUME TaskInv, ShapeInv, Accounts, NEW w \in Workers, Respond(w)
  PROVE  Accounts'
<1> DEFINE me == worker[w]
           s == me.task.seed
           result == me.results[me.i]
           d == Increment(s, result)
<1>1. Shape(me) /\ me.pc = "respond"
  BY DEF Respond, ShapeInv
<1>2. /\ {"pc", "task", "entries", "ops"} \subseteq DOMAIN me /\ {"i", "delta"} \subseteq DOMAIN me
      /\ s \in SeedIds /\ me.pc \notin {"free", "off"}
  BY <1>1 DEF Shape
<1>3. /\ RecordResponse(s, result)
      /\ UNCHANGED <<plannerVars, intensityVars, found, lost>>
  BY DEF Respond
<1>4. d \in Nat
  BY DEF Increment
<1>5. PICK state : /\ Update(w, state)
                   /\ state = IF d > 0 THEN [me EXCEPT !.pc = "reward", !.delta = d]
                              ELSE [me EXCEPT !.i = @ + 1]
  BY DEF Respond
<1>6. /\ state.pc \in {"respond", "reward"} /\ state.task = me.task /\ state.ops = me.ops
      /\ Owed(state) = d
  <2>1. CASE d > 0
    <3>1. state = [me EXCEPT !.pc = "reward", !.delta = d]
      BY <1>5, <2>1
    <3>2. state.pc = "reward" /\ state.task = me.task /\ state.ops = me.ops /\ state.delta = d
      BY <1>2, <3>1
    <3> HIDE DEF me, s, result, d
    <3> QED BY <3>2 DEF Owed
  <2>2. CASE ~(d > 0)
    <3>1. state = [me EXCEPT !.i = @ + 1] /\ d = 0
      BY <1>4, <1>5, <2>2
    <3>2. state.pc = "respond" /\ state.task = me.task /\ state.ops = me.ops
      BY <1>1, <1>2, <3>1
    <3> HIDE DEF me, s, result, d
    <3> QED BY <3>1, <3>2 DEF Owed
  <2> QED BY <2>1, <2>2
<1>7. Shape(state)
  <2>1. /\ Shape([me EXCEPT !.i = @ + 1])
        /\ \A e \in Nat : Shape([me EXCEPT !.pc = "reward", !.delta = e])
    BY <1>1, <1>2, ShapeMoves
  <2> HIDE DEF me, s, result, d
  <2> QED BY <1>4, <1>5, <2>1
<1>8. Owed(me) = 0
  BY <1>1 DEF Owed
<1>9. interest \in [SeedIds -> Nat] /\ interest' = [interest EXCEPT ![s] = @ + d]
  BY <1>3 DEF RecordResponse, Accounts, SeedsInv
<1>10. \A r \in SeedIds : Unrecorded(r)' = Unrecorded(r) /\ Unrecorded(r) \in Nat
  <2>1. \A r : ~Waits(me, r) /\ ~Waits(state, r)
    BY <1>1, <1>6 DEF Waits
  <2> QED BY <1>5, <2>1, WaitingChange
<1>11. ASSUME NEW r \in SeedIds
       PROVE  /\ IsFiniteSet(statuses'[r]) /\ IsFiniteSet(errors'[r])
              /\ interest'[r] = 2 * Cardinality(statuses'[r]) + 3 * Cardinality(errors'[r])
                                + FindingReward * (found[r] - Unrecorded(r))
  <2>1. /\ IsFiniteSet(statuses[r]) /\ IsFiniteSet(errors[r])
        /\ interest[r] = 2 * Cardinality(statuses[r]) + 3 * Cardinality(errors[r])
                         + FindingReward * (found[r] - Unrecorded(r))
        /\ statuses = [q \in SeedIds |-> statuses[q]] /\ errors = [q \in SeedIds |-> errors[q]]
        /\ interest[r] \in Nat /\ found[r] \in Nat
    BY DEF Accounts, SeedsInv
  <2>2. Cardinality(statuses[r]) \in Nat /\ Cardinality(errors[r]) \in Nat
    BY <2>1, FS_CardinalityType
  <2>3. CASE r # s
    <3>1. interest'[r] = interest[r] /\ statuses'[r] = statuses[r] /\ errors'[r] = errors[r]
      BY <1>2, <1>3, <1>9, <2>1, <2>3 DEF RecordResponse
    <3> HIDE DEF me, s, result, d
    <3> QED BY <2>1, <3>1
  <2>4. CASE r = s
    <3> DEFINE new == NovelStatus(s, result)
               bad == NovelError(s, result)
    <3>1. /\ statuses'[r] = statuses[r] \cup {result.status}
          /\ errors'[r] = IF bad THEN errors[r] \cup {result.body} ELSE errors[r]
      <4>1. /\ statuses'[r] = statuses[r] \cup {result.status}
            /\ errors'[r] = errors[r] \cup (IF bad THEN {result.body} ELSE {})
        BY <1>2, <1>3, <2>1, <2>4 DEF RecordResponse
      <4> QED BY <4>1
    <3>2. new <=> result.status \notin statuses[r]
      BY <2>4 DEF NovelStatus
    <3>3. bad => result.body \notin errors[r]
      BY <2>4 DEF NovelError
    <3>4. d = (IF new THEN 2 ELSE 0) + (IF bad THEN 3 ELSE 0)
      BY DEF Increment
    <3>5. interest'[r] = interest[r] + d
      BY <1>9, <2>4
    <3> HIDE DEF me, s, result, d, new, bad
    <3>6. /\ IsFiniteSet(statuses[r] \cup {result.status})
          /\ Cardinality(statuses[r] \cup {result.status}) = Cardinality(statuses[r]) + IF new THEN 1 ELSE 0
      <4>1. /\ IsFiniteSet(statuses[r] \cup {result.status})
            /\ Cardinality(statuses[r] \cup {result.status}) =
                 IF result.status \in statuses[r] THEN Cardinality(statuses[r]) ELSE Cardinality(statuses[r]) + 1
        BY <2>1, FS_AddElement
      <4> QED BY <2>2, <3>2, <4>1
    <3>7. /\ IsFiniteSet(errors'[r])
          /\ Cardinality(errors'[r]) = Cardinality(errors[r]) + IF bad THEN 1 ELSE 0
      <4>1. CASE bad
        <5>1. /\ IsFiniteSet(errors[r] \cup {result.body})
              /\ Cardinality(errors[r] \cup {result.body}) = Cardinality(errors[r]) + 1
          BY <2>1, <3>3, <4>1, FS_AddElement
        <5> QED BY <3>1, <4>1, <5>1
      <4>2. CASE ~bad
        BY <2>1, <2>2, <3>1, <4>2
      <4> QED BY <4>1, <4>2
    <3>8. FindingReward * (found[r] - Unrecorded(r)) \in Int
      BY <1>10, <2>1 DEF FindingReward
    <3>9. /\ Cardinality(statuses'[r]) = Cardinality(statuses[r]) + IF new THEN 1 ELSE 0
          /\ IsFiniteSet(statuses'[r])
      BY <3>1, <3>6
    <3> DEFINE rest == FindingReward * (found[r] - Unrecorded(r))
    <3> HIDE DEF rest
    <3>10. interest[r] = 2 * Cardinality(statuses[r]) + 3 * Cardinality(errors[r]) + rest /\ rest \in Int
      BY <2>1, <3>8 DEF rest
    <3>11. interest'[r] = 2 * Cardinality(statuses'[r]) + 3 * Cardinality(errors'[r]) + rest
      BY <2>1, <2>2, <3>4, <3>5, <3>7, <3>9, <3>10
    <3> QED BY <3>7, <3>9, <3>11 DEF rest
  <2> QED BY <2>3, <2>4
<1>12. SeedsInv'
  <2>1. statuses' = [r \in SeedIds |-> statuses'[r]] /\ errors' = [r \in SeedIds |-> errors'[r]]
    BY <1>3 DEF RecordResponse, Accounts, SeedsInv
  <2>2. interest' \in [SeedIds -> Nat]
    BY <1>2, <1>4, <1>9, InterestChange
  <2>3. found' = found /\ found \in [SeedIds -> Nat] /\ SeedIds' = SeedIds
    BY <1>3 DEF Accounts, SeedsInv, SeedIds
  <2>4. \A r \in SeedIds : Unrecorded(r)' = Unrecorded(r)
    BY <1>10
  <2> HIDE DEF me, s, result, d
  <2> QED BY <1>11, <2>1, <2>2, <2>3, <2>4, Zenon DEF SeedsInv
<1>13. RewardInv'
  <2>1. Pending' = Pending + (Owed(state) - Owed(me)) /\ Pending \in Int
    BY <1>5, <1>7, PendingChange
  <2>2. /\ SumFunction(interest)' = SumFunction(interest) + d /\ SumFunction(interest) \in Nat
        /\ interest' \in [SeedIds -> Nat]
    BY <1>2, <1>4, <1>9, InterestChange
  <2>3. reward' = reward /\ tests' = tests /\ lost' = lost
    BY <1>3 DEF plannerVars
  <2>4. /\ Enabled \subseteq SeedKeys /\ reward \in [Enabled -> Nat] /\ lost \in Nat
        /\ SumFunction(reward) + Pending + lost = SumFunction(interest)
    BY DEF Accounts, RewardInv
  <2>5. SumFunction(reward) \in Nat
    BY <2>4, RewardSum
  <2>6. SumFunction(reward)' = SumFunction(reward) /\ Enabled' = Enabled /\ SeedKeys' = SeedKeys /\ SeedIds' = SeedIds
    BY <2>3 DEF Enabled, SumFunction, SumFunctionOnSet, FoldFunctionOnSet, MapThenFoldSet
  <2> HIDE DEF me, s, result, d
  <2>7. SumFunction(reward)' + Pending' + lost' = SumFunction(interest)'
    BY <1>4, <1>6, <1>8, <2>1, <2>2, <2>3, <2>4, <2>5, <2>6
  <2> QED BY <2>2, <2>3, <2>4, <2>6, <2>7, Zenon DEF RewardInv
<1>14. OperatorInv'
  <2>1. ASSUME NEW p PROVE Left(state, p) <= Left(worker[w], p)
    <3>1. me.pc \in Replaying /\ state.pc \in Replaying /\ state.ops = me.ops
      BY <1>1, <1>6 DEF Replaying
    <3>2. Left(me, p) = 3 * Cardinality(Uses(me.ops, p))
      BY <3>1, LeftWhen
    <3>3. Left(state, p) = 3 * Cardinality(Uses(state.ops, p))
      BY <3>1, LeftWhen
    <3>4. Left(me, p) \in Nat
      BY <1>1, LeftNat
    <3>5. Left(state, p) = Left(me, p)
      BY <3>1, <3>2, <3>3
    <3> QED BY <3>4, <3>5
  <2>2. \A p : Left(state, p) <= Left(worker[w], p)
    BY <2>1
  <2>3. UNCHANGED <<applied, produced>>
    BY <1>3 DEF intensityVars
  <2> HIDE DEF me, s, result, d
  <2> QED BY <1>5, <1>7, <2>2, <2>3, OperatorsKept DEF Accounts
<1> QED BY <1>12, <1>13, <1>14 DEF Accounts

\* The endpoint of the response gets what was owed to it.
LEMMA RewardAccounts ==
  ASSUME TaskInv, ShapeInv, Accounts, NEW w \in Workers, RewardEndpoint(w)
  PROVE  Accounts'
<1> DEFINE me == worker[w]
           state == [me EXCEPT !.pc = "respond", !.i = @ + 1, !.delta = 0]
<1>1. Shape(me) /\ me.pc = "reward" /\ Update(w, state)
  BY DEF RewardEndpoint, ShapeInv
<1>2. /\ {"pc", "task", "entries", "ops"} \subseteq DOMAIN me /\ {"i", "delta"} \subseteq DOMAIN me
      /\ me.delta \in Nat /\ me.pc \notin {"free", "off"}
  BY <1>1 DEF Shape
<1>3. PICK k : Credit(k, me.delta)
  BY DEF RewardEndpoint
<1>4. UNCHANGED <<feedbackVars, intensityVars, found>>
  BY DEF RewardEndpoint
<1>5. state.pc = "respond" /\ state.task = me.task /\ state.ops = me.ops
  BY <1>2
<1>6. Shape(state)
  BY <1>1, <1>2, ShapeMoves
<1> HIDE DEF state
<1>7. SeedsInv'
  <2>1. \A s : Waits(state, s) <=> Waits(worker[w], s)
    BY <1>1, <1>5 DEF Waits
  <2> QED BY <1>1, <1>4, <2>1, SeedsKept DEF Accounts
<1>8. RewardInv'
  <2>1. Owed(state) = 0 /\ Owed(worker[w]) = me.delta
    BY <1>1, <1>5 DEF Owed
  <2> QED BY <1>1, <1>2, <1>3, <1>4, <1>6, <2>1, Credited DEF Accounts, feedbackVars
<1>9. OperatorInv'
  <2>1. ASSUME NEW p PROVE Left(state, p) <= Left(worker[w], p)
    <3>1. me.pc \in Replaying /\ state.pc \in Replaying /\ state.ops = me.ops
      BY <1>1, <1>5 DEF Replaying
    <3>2. Left(me, p) = 3 * Cardinality(Uses(me.ops, p))
      BY <3>1, LeftWhen
    <3>3. Left(state, p) = 3 * Cardinality(Uses(state.ops, p))
      BY <3>1, LeftWhen
    <3>4. Left(me, p) \in Nat
      BY <1>1, LeftNat
    <3>5. Left(state, p) = Left(me, p)
      BY <3>1, <3>2, <3>3
    <3> QED BY <3>4, <3>5
  <2>2. UNCHANGED <<applied, produced>>
    BY <1>4 DEF intensityVars
  <2> QED BY <1>1, <1>6, <2>1, <2>2, OperatorsKept DEF Accounts
<1> QED BY <1>7, <1>8, <1>9 DEF Accounts

\* Feedback hears of a finding; the planner will.
LEMMA FeedbackAccounts ==
  ASSUME TaskInv, ShapeInv, Accounts, NEW w \in Workers, FindingToFeedback(w)
  PROVE  Accounts'
<1> DEFINE me == worker[w]
           state == [me EXCEPT !.pc = "credit"]
           s == me.task.seed
<1>1. Shape(me) /\ me.pc = "found" /\ Update(w, state)
  BY DEF FindingToFeedback, ShapeInv
<1>2. /\ {"pc", "task", "entries", "ops", "hits"} \subseteq DOMAIN me
      /\ s \in SeedIds /\ me.pc \notin {"free", "off"} /\ me.pc \in Handling \cup {"hits"}
      /\ me.hits # <<>> /\ "credit" \in Handling
  BY <1>1 DEF Shape, Handling
<1>3. RecordFinding(s) /\ UNCHANGED <<plannerVars, intensityVars, found, lost>>
  BY DEF FindingToFeedback
<1>4. state.pc = "credit" /\ state.task = me.task /\ state.ops = me.ops /\ state.hits = me.hits
  BY <1>2
<1>5. Shape(state)
  <2> HIDE DEF me
  <2>1. \A pc \in Handling : Shape([me EXCEPT !.pc = pc])
    BY <1>1, <1>2, ShapeMoves, Zenon
  <2> QED BY <1>2, <2>1
<1> HIDE DEF state
<1>6. interest \in [SeedIds -> Nat] /\ interest' = [interest EXCEPT ![s] = @ + FindingReward]
      /\ FindingReward \in Nat /\ UNCHANGED <<statuses, errors>>
  BY <1>3 DEF RecordFinding, Accounts, SeedsInv, FindingReward
<1>7. ASSUME NEW r \in SeedIds
      PROVE  interest'[r] = 2 * Cardinality(statuses[r]) + 3 * Cardinality(errors[r])
                            + FindingReward * (found[r] - Unrecorded(r)')
  <2>1. Waits(me, r) <=> r = s
    BY <1>1 DEF Waits
  <2>2. ~Waits(state, r)
    BY <1>4 DEF Waits
  <2> HIDE DEF me, s
  <2>3. Unrecorded(r) \in Nat /\ Unrecorded(r)' = Unrecorded(r) - IF r = s THEN 1 ELSE 0
    <3>1. (r = s) => Unrecorded(r)' = Unrecorded(r) - 1
      BY <1>1, <2>1, <2>2, WaitingChange DEF me
    <3>2. (r # s) => Unrecorded(r)' = Unrecorded(r)
      BY <1>1, <2>1, <2>2, WaitingChange DEF me
    <3>3. Unrecorded(r) \in Nat
      BY <1>1, WaitingChange
    <3> QED BY <3>1, <3>2, <3>3
  <2>4. /\ interest[r] = 2 * Cardinality(statuses[r]) + 3 * Cardinality(errors[r])
                         + FindingReward * (found[r] - Unrecorded(r))
        /\ interest[r] \in Nat /\ found[r] \in Nat
        /\ IsFiniteSet(statuses[r]) /\ IsFiniteSet(errors[r])
    BY DEF Accounts, SeedsInv
  <2>5. interest'[r] = interest[r] + IF r = s THEN FindingReward ELSE 0
    BY <1>2, <1>6
  <2>6. Cardinality(statuses[r]) \in Nat /\ Cardinality(errors[r]) \in Nat
    BY <2>4, FS_CardinalityType
  <2> QED BY <2>3, <2>4, <2>5, <2>6 DEF FindingReward
<1>8. SeedsInv'
  <2>1. interest' \in [SeedIds -> Nat]
    BY <1>2, <1>6, InterestChange
  <2>2. found' = found /\ SeedIds' = SeedIds
    BY <1>3 DEF SeedIds
  <2> HIDE DEF me, s
  <2> QED BY <1>6, <1>7, <2>1, <2>2, Zenon DEF SeedsInv, Accounts
<1>9. RewardInv'
  <2>1. Pending' = Pending + (Owed(state) - Owed(me)) /\ Pending \in Int
    BY <1>1, <1>5, PendingChange
  <2>2. Owed(state) = FindingReward /\ Owed(me) = 0
    BY <1>1, <1>4 DEF Owed
  <2>3. /\ SumFunction(interest)' = SumFunction(interest) + FindingReward
        /\ SumFunction(interest) \in Nat /\ interest' \in [SeedIds -> Nat]
    BY <1>2, <1>6, InterestChange
  <2>4. /\ reward' = reward /\ tests' = tests /\ lost' = lost
    BY <1>3 DEF plannerVars
  <2>5. /\ Enabled \subseteq SeedKeys /\ reward \in [Enabled -> Nat] /\ lost \in Nat
        /\ SumFunction(reward) + Pending + lost = SumFunction(interest)
    BY DEF Accounts, RewardInv
  <2>6. SumFunction(reward) \in Nat
    BY <2>5, RewardSum
  <2>7. SumFunction(reward)' = SumFunction(reward) /\ Enabled' = Enabled /\ SeedKeys' = SeedKeys /\ SeedIds' = SeedIds
    BY <2>4 DEF Enabled, SumFunction, SumFunctionOnSet, FoldFunctionOnSet, MapThenFoldSet
  <2> HIDE DEF me, s
  <2>8. SumFunction(reward)' + Pending' + lost' = SumFunction(interest)'
    BY <1>6, <2>1, <2>2, <2>3, <2>4, <2>5, <2>6, <2>7
  <2> QED BY <2>3, <2>4, <2>5, <2>7, <2>8, Zenon DEF RewardInv
<1>10. OperatorInv'
  <2>1. ASSUME NEW p PROVE Left(state, p) <= Left(worker[w], p)
    <3>1. Left(state, p) = Left(me, p)
      BY <1>1, <1>4 DEF Left, Replaying, Handling
    <3>2. Left(me, p) \in Nat
      BY <1>1, LeftNat
    <3> QED BY <3>1, <3>2
  <2>2. UNCHANGED <<applied, produced>>
    BY <1>3 DEF intensityVars
  <2> HIDE DEF me
  <2> QED BY <1>1, <1>5, <2>1, <2>2, OperatorsKept DEF Accounts, me
<1> QED BY <1>8, <1>9, <1>10 DEF Accounts

\* The planner hears of a finding: its hit is over, or triaged.
LEMMA PlannerAccounts ==
  ASSUME TaskInv, ShapeInv, ShapeInv', Accounts, NEW w \in Workers, FindingToPlanner(w)
  PROVE  Accounts'
<1> DEFINE me == worker[w]
<1>1. Shape(me) /\ me.pc = "credit"
  BY DEF FindingToPlanner, ShapeInv
<1>2. {"pc", "task", "entries", "ops", "hits"} \subseteq DOMAIN me
  BY <1>1 DEF Shape, Handling
<1>3. PICK k : Credit(k, FindingReward)
  BY DEF FindingToPlanner
<1>4. UNCHANGED <<feedbackVars, intensityVars, found>>
  BY DEF FindingToPlanner
<1>5. PICK state : /\ Update(w, state)
                   /\ \/ state = [me EXCEPT !.pc = "hits", !.hits = Tail(@)]
                      \/ state = [me EXCEPT !.pc = "triage"]
  BY DEF FindingToPlanner
<1>6. /\ state.pc \in {"hits", "triage"} /\ state.ops = me.ops
      /\ state.pc = "hits" => state.hits = Tail(me.hits)
      /\ state.pc = "triage" => state.hits = me.hits
  <2>1. CASE state = [me EXCEPT !.pc = "hits", !.hits = Tail(@)]
    BY <1>2, <2>1
  <2>2. CASE state = [me EXCEPT !.pc = "triage"]
    BY <1>2, <2>2
  <2> QED BY <1>5, <2>1, <2>2
<1>7. Shape(state)
  <2>1. worker'[w] = state
    BY <1>5, Updated
  <2>2. Shape(worker'[w])
    BY DEF ShapeInv, Shape
  <2> QED BY <2>1, <2>2
<1>8. SeedsInv'
  <2>1. \A s : Waits(state, s) <=> Waits(worker[w], s)
    BY <1>1, <1>6 DEF Waits
  <2> QED BY <1>4, <1>5, <2>1, SeedsKept DEF Accounts
<1>9. RewardInv'
  <2>1. Owed(state) = 0 /\ Owed(worker[w]) = FindingReward
    BY <1>1, <1>6 DEF Owed
  <2> QED BY <1>3, <1>4, <1>5, <1>7, <2>1, Credited DEF Accounts, feedbackVars
<1>10. OperatorInv'
  <2>1. ASSUME NEW p PROVE Left(state, p) <= Left(worker[w], p)
    <3>1. "credit" \in Handling /\ "triage" \in Handling
      BY DEF Handling
    <3>2. Left(me, p) = Cardinality(On(Tail(me.hits), Uses(me.ops, p)))
      BY <1>1, <3>1, LeftWhen
    <3>3. Left(state, p) = Cardinality(On(Tail(me.hits), Uses(me.ops, p)))
      BY <1>6, <3>1, LeftWhen
    <3>4. Left(me, p) \in Nat
      BY <1>1, LeftNat
    <3> QED BY <3>2, <3>3, <3>4
  <2>2. UNCHANGED <<applied, produced>>
    BY <1>4 DEF intensityVars
  <2> QED BY <1>5, <1>7, <2>1, <2>2, OperatorsKept DEF Accounts
<1> QED BY <1>8, <1>9, <1>10 DEF Accounts

\* A worker goes on, and nothing is earned: the findings it may still have do not increase.
LEMMA QuietAccounts ==
  ASSUME TaskInv, ShapeInv, ShapeInv', Accounts, NEW w \in Workers, NEW state, Update(w, state),
         UNCHANGED <<tests, reward, feedbackVars, intensityVars, found, lost>>,
         worker[w].pc \notin {"found", "reward", "credit"}, state.pc \notin {"found", "reward", "credit"},
         \A p : Left(state, p) <= Left(worker[w], p)
  PROVE  Accounts'
<1>1. Shape(state)
  <2>1. worker'[w] = state
    BY Updated
  <2>2. Shape(worker'[w])
    BY DEF ShapeInv, Shape
  <2> QED BY <2>1, <2>2
<1>2. SeedsInv'
  <2>1. \A s : Waits(state, s) <=> Waits(worker[w], s)
    BY DEF Waits
  <2> QED BY <2>1, SeedsKept DEF Accounts
<1>3. RewardInv'
  <2>1. Owed(state) = Owed(worker[w])
    BY DEF Owed
  <2> QED BY <1>1, <2>1, RewardKept DEF Accounts, feedbackVars
<1>4. OperatorInv'
  BY <1>1, OperatorsKept DEF Accounts, intensityVars
<1> QED BY <1>2, <1>3, <1>4 DEF Accounts

\* The steps of a worker that touch no account.
LEMMA QuietSteps ==
  ASSUME TaskInv, ShapeInv, ShapeInv', Accounts, NEW w \in Workers,
         Replay(w) \/ DetectAll(w) \/ SkipHit(w) \/ HitDone(w) \/ TaskDone(w)
  PROVE  Accounts'
<1> DEFINE me == worker[w]
<1>1. Shape(me) /\ UNCHANGED <<tests, reward, feedbackVars, intensityVars, found, lost>>
  BY DEF ShapeInv, Replay, DetectAll, SkipHit, HitDone, TaskDone, plannerVars
<1>2. me.pc \notin {"found", "reward", "credit"}
  BY DEF Replay, DetectAll, SkipHit, HitDone, TaskDone
<1>3. \A p : Left(me, p) \in Nat
  BY <1>1, LeftNat
<1>4. CASE Update(w, Free)
  <2>1. Free.pc = "free"
    BY DEF Free
  <2>2. \A p : Left(Free, p) = 0
    BY <2>1, LeftWhen
  <2>3. \A p : Left(Free, p) <= Left(worker[w], p)
    BY <1>3, <2>2
  <2> QED BY <1>1, <1>2, <1>4, <2>1, <2>3, QuietAccounts
<1>5. ASSUME Replay(w), ~Update(w, Free) PROVE Accounts'
  <2>1. PICK rs : Update(w, [pc |-> "respond", task |-> me.task, entries |-> me.entries,
                             ops |-> me.ops, results |-> rs, i |-> 1, delta |-> 0])
    BY <1>5 DEF Replay
  <2> DEFINE state == [pc |-> "respond", task |-> me.task, entries |-> me.entries,
                       ops |-> me.ops, results |-> rs, i |-> 1, delta |-> 0]
  <2>2. /\ state.pc = "respond" /\ state.ops = me.ops /\ me.pc = "replay"
        /\ "respond" \in Replaying /\ "replay" \in Replaying
    BY <1>5 DEF Replay, Replaying
  <2> HIDE DEF state
  <2>3. ASSUME NEW p PROVE Left(state, p) <= Left(worker[w], p)
    <3>1. Left(state, p) = Left(me, p)
      BY <2>2, LeftWhen
    <3> QED BY <1>3, <3>1
  <2> QED BY <1>1, <1>2, <2>1, <2>2, <2>3, QuietAccounts DEF state
<1>6. CASE DetectAll(w)
  <2> DEFINE state == [pc |-> "hits", task |-> me.task, entries |-> me.entries,
                       ops |-> me.ops, hits |-> Hits(me)]
  <2>1. Update(w, state) /\ me.pc = "respond"
    BY <1>6 DEF DetectAll
  <2>2. state.pc = "hits" /\ state.ops = me.ops /\ state.hits = Hits(me)
    OBVIOUS
  <2>3. PICK m \in Nat : DOMAIN me.results = 1..m
    BY <1>1, <2>1 DEF Shape
  <2>4. IsFiniteSet(DOMAIN me.ops)
    BY <1>1, <2>1 DEF Shape
  <2> HIDE DEF state
  <2>5. ASSUME NEW p PROVE Left(state, p) <= Left(worker[w], p)
    <3>1. IsFiniteSet(Uses(me.ops, p))
      BY <2>4, UsesFinite
    <3>2. Cardinality(On(Hits(me), Uses(me.ops, p))) <= 3 * Cardinality(Uses(me.ops, p))
      BY <2>3, <3>1, HitsFacts
    <3>3. Left(state, p) = Cardinality(On(Hits(me), Uses(me.ops, p)))
      BY <2>2, LeftWhen
    <3>4. Left(me, p) = 3 * Cardinality(Uses(me.ops, p))
      <4>1. me.pc \in Replaying
        BY <2>1 DEF Replaying
      <4> QED BY <4>1, LeftWhen
    <3> QED BY <3>2, <3>3, <3>4
  <2> QED BY <1>1, <1>2, <2>1, <2>2, <2>5, QuietAccounts
<1>7. CASE SkipHit(w)
  <2> DEFINE state == [me EXCEPT !.hits = Tail(@)]
  <2>1. Update(w, state) /\ me.pc = "hits" /\ me.hits # <<>>
    BY <1>7 DEF SkipHit
  <2>2. {"pc", "task", "entries", "ops", "hits"} \subseteq DOMAIN me /\ me.hits \in Seq(HitSet)
    BY <1>1, <2>1 DEF Shape, HitSet
  <2>3. state.pc = "hits" /\ state.ops = me.ops /\ state.hits = Tail(me.hits)
    BY <2>1, <2>2
  <2> HIDE DEF state
  <2>4. ASSUME NEW p PROVE Left(state, p) <= Left(worker[w], p)
    <3> DEFINE U == Uses(me.ops, p)
    <3>1. Left(state, p) = Cardinality(On(Tail(me.hits), U)) /\ Left(me, p) = Cardinality(On(me.hits, U))
      BY <2>1, <2>3, LeftWhen
    <3>2. Cardinality(On(Tail(me.hits), U)) + (IF Head(me.hits).idx \in U THEN 1 ELSE 0) <= Cardinality(On(me.hits, U))
      BY <2>1, <2>2, OnTail
    <3>3. Cardinality(On(Tail(me.hits), U)) \in Nat /\ Cardinality(On(me.hits, U)) \in Nat
      <4>1. Tail(me.hits) \in Seq(HitSet)
        BY <2>1, <2>2
      <4> QED BY <2>2, <4>1, OnFinite
    <3> HIDE DEF U
    <3> QED BY <3>1, <3>2, <3>3
  <2> QED BY <1>1, <1>2, <2>1, <2>3, <2>4, QuietAccounts
<1>8. CASE HitDone(w)
  <2> DEFINE state == [me EXCEPT !.pc = "hits", !.hits = Tail(@)]
  <2>1. Update(w, state) /\ me.pc = "triage"
    BY <1>8 DEF HitDone
  <2>2. {"pc", "task", "entries", "ops", "hits"} \subseteq DOMAIN me /\ me.pc \in Handling
    BY <1>1, <2>1 DEF Shape, Handling
  <2>3. state.pc = "hits" /\ state.ops = me.ops /\ state.hits = Tail(me.hits)
    BY <2>2
  <2> HIDE DEF state
  <2>4. ASSUME NEW p PROVE Left(state, p) <= Left(worker[w], p)
    <3>1. Left(state, p) = Left(me, p)
      BY <2>2, <2>3, LeftWhen
    <3> QED BY <1>3, <3>1
  <2> QED BY <1>1, <1>2, <2>1, <2>3, <2>4, QuietAccounts
<1>9. CASE TaskDone(w)
  BY <1>4, <1>9 DEF TaskDone
<1> QED BY <1>4, <1>5, <1>6, <1>7, <1>8, <1>9

\* The worker stays where it is, and so does all that is earned.
LEMMA UnmovedAccounts ==
  ASSUME Accounts, Enabled' = Enabled,
         UNCHANGED <<worker, reward, feedbackVars, intensityVars, found, lost>>
  PROVE  Accounts'
<1>1. /\ \A s \in SeedIds : Unrecorded(s)' = Unrecorded(s)
      /\ SeedIds' = SeedIds /\ SeedKeys' = SeedKeys
  BY DEF Unrecorded, Team
<1>2. SeedsInv'
  BY <1>1, Zenon DEF Accounts, SeedsInv, feedbackVars
<1>3. RewardInv'
  <2>1. Pending' = Pending
    BY DEF Pending
  <2> QED BY <1>1, <2>1, Zenon DEF Accounts, RewardInv, feedbackVars
<1>4. OperatorInv'
  <2>1. \A p : AllLeft(p)' = AllLeft(p)
    BY DEF AllLeft, Left
  <2> QED BY <2>1, Zenon DEF Accounts, OperatorInv, intensityVars
<1> QED BY <1>2, <1>3, <1>4 DEF Accounts

\* Every step keeps the accounts.
LEMMA NextAccounts == TaskInv /\ ShapeInv /\ Accounts /\ [Next]_vars => Accounts'
<1> SUFFICES ASSUME TaskInv, ShapeInv, Accounts, [Next]_vars PROVE Accounts'
  OBVIOUS
<1>0. ShapeInv'
  BY NextShape
<1>1. CASE Generate
  <2>1. UNCHANGED <<worker, reward, feedbackVars, intensityVars, found, lost>>
    BY <1>1 DEF Generate, plannerVars, Pick
  <2>2. Enabled' = Enabled
    <3>1. CASE UNCHANGED plannerVars
      BY <3>1 DEF plannerVars, Enabled
    <3>2. CASE ~UNCHANGED plannerVars
      <4>1. PICK k : tests' = [tests EXCEPT ![k] = @ + 1]
        BY <1>1, <3>2 DEF Generate, Pick
      <4> QED BY <4>1 DEF Enabled
    <3> QED BY <3>1, <3>2
  <2> QED BY <2>1, <2>2, UnmovedAccounts
<1>2. CASE Send \/ Cancel \/ UNCHANGED vars
  <2>1. UNCHANGED <<worker, reward, feedbackVars, intensityVars, found, lost, tests>>
    BY <1>2 DEF Send, Cancel, vars, plannerVars
  <2>2. Enabled' = Enabled
    BY <2>1 DEF Enabled
  <2> QED BY <2>1, <2>2, UnmovedAccounts
<1>3. ASSUME NEW w \in Workers, Triaging(w) PROVE Accounts'
  <2>1. UNCHANGED <<worker, reward, feedbackVars, intensityVars, found, lost, tests>>
    BY <1>3 DEF Triaging, plannerVars
  <2>2. Enabled' = Enabled
    BY <2>1 DEF Enabled
  <2> QED BY <2>1, <2>2, UnmovedAccounts
<1>4. ASSUME NEW w \in Workers, WorkerStep(w) PROVE Accounts'
  <2>1. CASE Receive(w)
    BY <1>0, <2>1, ReceiveAccounts
  <2>2. CASE Respond(w)
    BY <2>2, RespondAccounts
  <2>3. CASE RewardEndpoint(w)
    BY <2>3, RewardAccounts
  <2>4. CASE CreateFinding(w)
    BY <2>4, CreateAccounts
  <2>5. CASE FindingToFeedback(w)
    BY <2>5, FeedbackAccounts
  <2>6. CASE FindingToPlanner(w)
    BY <1>0, <2>6, PlannerAccounts
  <2>7. CASE Replay(w) \/ DetectAll(w) \/ SkipHit(w) \/ HitDone(w) \/ TaskDone(w)
    BY <1>0, <2>7, QuietSteps
  <2> QED BY <1>3, <1>4, <2>1, <2>2, <2>3, <2>4, <2>5, <2>6, <2>7 DEF WorkerStep
<1> QED BY <1>1, <1>2, <1>4 DEF Next

\* At first all accounts are zero.
LEMMA InitAccounts == Init => ShapeInv /\ Accounts
<1> SUFFICES ASSUME Init PROVE ShapeInv /\ Accounts
  OBVIOUS
<1>1. worker = [w \in Workers |-> worker[w]] /\ \A w \in Workers : worker[w].pc \in {"free", "off"}
  BY DEF Init, Free
<1>2. ShapeInv
  BY <1>1 DEF ShapeInv, Shape, Replaying, Handling
<1>3. IsFiniteSet(Workers) /\ IsFiniteSet(SeedIds)
  BY TriageAssumption, FiniteData
<1>4. /\ statuses = [s \in SeedIds |-> {}] /\ errors = [s \in SeedIds |-> {}]
      /\ interest = [s \in SeedIds |-> 0] /\ found = [s \in SeedIds |-> 0]
  BY DEF Init, NewSeedInterestTracker
<1>5. SeedsInv
  <2>1. \A s \in SeedIds : Unrecorded(s) = 0
    <3>1. \A s \in SeedIds : {w \in Team : worker[w].pc = "found" /\ worker[w].task.seed = s} = {}
      BY <1>1 DEF Team
    <3> QED BY <3>1, FS_EmptySet DEF Unrecorded
  <2>2. ASSUME NEW s \in SeedIds
        PROVE  /\ IsFiniteSet(statuses[s]) /\ IsFiniteSet(errors[s])
               /\ interest[s] = 2 * Cardinality(statuses[s]) + 3 * Cardinality(errors[s])
                                + FindingReward * (found[s] - Unrecorded(s))
    <3>1. statuses[s] = {} /\ errors[s] = {} /\ interest[s] = 0 /\ found[s] = 0 /\ Unrecorded(s) = 0
      BY <1>4, <2>1
    <3>2. IsFiniteSet({}) /\ Cardinality({}) = 0
      BY FS_EmptySet
    <3> QED BY <3>1, <3>2 DEF FindingReward
  <2>3. /\ interest \in [SeedIds -> Nat] /\ found \in [SeedIds -> Nat]
        /\ statuses = [s \in SeedIds |-> statuses[s]] /\ errors = [s \in SeedIds |-> errors[s]]
    BY <1>4
  <2> QED BY <2>2, <2>3 DEF SeedsInv
<1>6. RewardInv
  <2>1. PICK keys \in SUBSET SeedKeys : tests = [k \in keys |-> 0] /\ reward = [k \in keys |-> 0]
    BY DEF Init, NewEndpointPlanner
  <2>2. Enabled = keys /\ DOMAIN reward = Enabled /\ reward \in [Enabled -> Nat] /\ \A k \in Enabled : reward[k] = 0
    BY <2>1 DEF Enabled
  <2>3. SumFunction(reward) = 0
    <3>1. IsFiniteSet(Enabled)
      BY <2>1, <2>2, FiniteData, FS_Subset
    <3>2. SumFunctionOnSet(reward, Enabled) = 0
      BY <2>2, <3>1, SumZero
    <3> QED BY <2>2, <3>2 DEF SumFunction
  <2>4. Pending = 0
    <3> DEFINE f == [w \in Workers |-> Owed(worker[w])]
    <3>1. Pending = SumFunction(f)
      BY DEF Pending, Owed
    <3>2. \A w \in Workers : f[w] = 0
      BY <1>1 DEF Owed
    <3>3. DOMAIN f = Workers
      OBVIOUS
    <3> HIDE DEF f
    <3>4. SumFunctionOnSet(f, Workers) = 0
      BY <1>3, <3>2, SumZero
    <3> QED BY <3>1, <3>3, <3>4 DEF SumFunction
  <2>5. SumFunction(interest) = 0
    <3>1. DOMAIN interest = SeedIds /\ \A s \in SeedIds : interest[s] = 0
      BY <1>4
    <3>2. SumFunctionOnSet(interest, SeedIds) = 0
      BY <1>3, <3>1, SumZero
    <3> QED BY <3>1, <3>2 DEF SumFunction
  <2>6. lost = 0 /\ lost \in Nat /\ interest \in [SeedIds -> Nat]
    BY <1>4 DEF Init
  <2> QED BY <2>1, <2>2, <2>3, <2>4, <2>5, <2>6 DEF RewardInv
<1>7. OperatorInv
  <2>1. /\ applied = [p \in OperatorPrefixes |-> 0]
        /\ produced = [p \in OperatorPrefixes |-> 0]
    BY DEF Init
  <2>2. ASSUME NEW p PROVE AllLeft(p) = 0
    <3> DEFINE f == [w \in Workers |-> Left(worker[w], p)]
    <3>1. AllLeft(p) = SumFunction(f)
      BY DEF AllLeft
    <3>2. \A w \in Workers : f[w] = 0
      BY <1>1, LeftWhen
    <3>3. DOMAIN f = Workers
      OBVIOUS
    <3> HIDE DEF f
    <3>4. SumFunctionOnSet(f, Workers) = 0
      BY <1>3, <3>2, SumZero
    <3> QED BY <3>1, <3>3, <3>4 DEF SumFunction
  <2>3. \A p \in OperatorPrefixes : produced[p] = 0 /\ applied[p] = 0
    BY <2>1
  <2>4. \A p \in OperatorPrefixes : produced[p] + AllLeft(p) <= 3 * applied[p]
    BY <2>2, <2>3
  <2>5. applied \in [OperatorPrefixes -> Nat] /\ produced \in [OperatorPrefixes -> Nat]
    BY <2>1
  <2> QED BY <2>4, <2>5 DEF OperatorInv
<1> QED BY <1>2, <1>5, <1>6, <1>7 DEF Accounts

\* Seeds and endpoints are credited alike, each novelty and each finding once, but for the
\* keys the planner lacks, and no operator has more than three findings for an exchange it
\* was tried on: processTask tells SeedInterestTracker, EndpointPlanner and
\* IntensityTracker of the same events, at different times.
THEOREM TaskCalibrated == Spec => []Calibrated
<1>1. Init => TaskInv
  BY InitTask
<1>2. ShapeInv /\ Accounts => Calibrated
  <2> SUFFICES ASSUME ShapeInv, Accounts PROVE Calibrated
    OBVIOUS
  <2>1. ASSUME NEW p \in OperatorPrefixes PROVE produced[p] <= 3 * applied[p]
    <3> DEFINE f == [w \in Workers |-> Left(worker[w], p)]
    <3>1. AllLeft(p) = SumFunction(f) /\ DOMAIN f = Workers
      BY DEF AllLeft
    <3>2. \A w \in Workers : f[w] \in Nat
      BY LeftNat DEF ShapeInv
    <3>3. IsFiniteSet(Workers)
      BY TriageAssumption
    <3> HIDE DEF f
    <3>4. SumFunctionOnSet(f, Workers) \in Nat
      BY <3>2, <3>3, SumNat
    <3>5. AllLeft(p) \in Nat
      BY <3>1, <3>4 DEF SumFunction
    <3>6. produced[p] \in Nat /\ applied[p] \in Nat /\ produced[p] + AllLeft(p) <= 3 * applied[p]
      BY DEF Accounts, OperatorInv
    <3> QED BY <3>5, <3>6
  <2> QED BY <2>1 DEF Accounts, SeedsInv, RewardInv, Calibrated
<1>3. TaskInv /\ ShapeInv /\ Accounts /\ [Next]_vars => TaskInv' /\ ShapeInv' /\ Accounts'
  BY NextTask, NextShape, NextAccounts
<1> QED BY <1>1, <1>2, <1>3, InitAccounts, PTL DEF Spec

-----------------------------------------------------------------------------
(* What triage leaves: a session without anything that could go.           *)

\* cfg never changes, and a triage that is stopped is under no obligation.
MinimalInv ==
  /\ cfg \in Configs
  /\ ~cancelled => \A w \in Workers : triage[w] = Idle \/ Reduced(triage[w])

\* What is replayed of recorded requests is a finite tree.
LEMMA ContentSession ==
  ASSUME NEW entries \in Seq(AllEntries)
  PROVE  Session(Content(entries))
<1> DEFINE D == DOMAIN entries
           Inside(i) == {<<i>> \o p : p \in entries[i].body}
           F == [i \in D |-> {<<i>>} \cup Inside(i)]
<1>1. /\ D = 1..Len(entries) /\ Len(entries) \in Nat
      /\ \A i \in D : i \in Nat /\ entries[i] \in AllEntries
  OBVIOUS
<1>2. ASSUME NEW i \in D
      PROVE  IsFiniteSet(entries[i].body) /\ entries[i].body \subseteq Paths
  <2>1. PICK ref \in Refs : entries[i] = Exchange(ref)
    BY <1>1 DEF AllEntries
  <2> QED BY <2>1, BodyAssumption DEF Paths
<1>3. ASSUME NEW i \in D PROVE F[i] \subseteq Paths /\ IsFiniteSet(F[i])
  <2>1. i \in Nat /\ <<i>> \in Paths
    BY <1>1 DEF Paths
  <2>2. ASSUME NEW p \in Paths PROVE <<i>> \o p \in Paths
    <3>1. p \in Seq(Nat) /\ <<i>> \in Seq(Nat)
      BY <2>1 DEF Paths
    <3>2. <<i>> \o p \in Seq(Nat) /\ (<<i>> \o p)[1] = i /\ 1 \in DOMAIN (<<i>> \o p)
      BY <3>1
    <3>3. <<i>> \o p # <<>>
      BY <3>2
    <3> QED BY <3>2, <3>3 DEF Paths
  <2> DEFINE body == entries[i].body
             g == [p \in body |-> <<i>> \o p]
  <2>3. Inside(i) = {g[p] : p \in body}
    OBVIOUS
  <2>4. IsFiniteSet(body) /\ body \subseteq Paths
    BY <1>2
  <2>5. Inside(i) \subseteq Paths
    BY <2>2, <2>4
  <2> HIDE DEF g, body
  <2>6. IsFiniteSet(Inside(i))
    BY <2>3, <2>4, ValuesFinite
  <2>7. F[i] = {<<i>>} \cup Inside(i)
    OBVIOUS
  <2> HIDE DEF Inside, F
  <2>8. IsFiniteSet({<<i>>}) /\ IsFiniteSet({<<i>>} \cup Inside(i))
    BY <2>6, FS_Singleton, FS_Union
  <2> QED BY <2>1, <2>5, <2>7, <2>8
<1>4. Content(entries) = UNION {F[i] : i \in D}
  BY DEF Content
<1> HIDE DEF F
<1>5. IsFiniteSet(D)
  <2> DEFINE n == Len(entries)
  <2>1. D = 1..n /\ 1 \in Int /\ n \in Int
    BY <1>1
  <2> HIDE DEF n, D
  <2> QED BY <2>1, FS_Interval
<1> HIDE DEF D
<1>6. IsFiniteSet({F[i] : i \in D})
  BY <1>5, ValuesFinite
<1>7. IsFiniteSet(UNION {F[i] : i \in D})
  <2> DEFINE FF == {F[i] : i \in D}
  <2>1. \A T \in FF : IsFiniteSet(T)
    BY <1>3
  <2>2. IsFiniteSet(FF)
    BY <1>6
  <2> HIDE DEF FF
  <2>3. IsFiniteSet(UNION FF)
    BY <2>1, <2>2, FS_UNION
  <2> QED BY <2>3 DEF FF
<1>8. UNION {F[i] : i \in D} \subseteq Paths
  BY <1>3
<1> QED BY <1>4, <1>7, <1>8 DEF Session

\* Every step of the run keeps account of what was tried.
LEMMA NextMinimal == ShapeInv /\ TriageInv /\ MinimalInv /\ [Next]_vars => MinimalInv'
<1> SUFFICES ASSUME ShapeInv, TriageInv, MinimalInv, [Next]_vars PROVE MinimalInv'
  OBVIOUS
<1>1. CASE UNCHANGED <<cfg, triage, cancelled>>
  BY <1>1 DEF MinimalInv
<1>2. ASSUME NEW w \in Workers, cfg' = cfg, cancelled' = cancelled,
             ~cancelled => Reduced(triage'[w]) \/ triage'[w] = Idle,
             Alone(w)
      PROVE  MinimalInv'
  <2>1. ASSUME ~cancelled, NEW v \in Workers PROVE triage'[v] = Idle \/ Reduced(triage'[v])
    <3>1. CASE v = w
      BY <1>2, <2>1, <3>1
    <3>2. CASE v # w
      <4>1. triage'[v] = triage[v]
        BY <1>2, <3>2 DEF TriageInv, Alone
      <4> QED BY <2>1, <4>1 DEF MinimalInv
    <3> QED BY <3>1, <3>2
  <2> QED BY <1>2, <2>1 DEF MinimalInv
<1>3. CASE Cancel
  BY <1>3 DEF Cancel, runVars, MinimalInv
<1>4. ASSUME NEW w \in Workers, WorkerStep(w) PROVE MinimalInv'
  <2>1. CASE FindingToPlanner(w)
    <3> DEFINE me == worker[w]
    <3>1. cfg' = cfg /\ cancelled' = cancelled /\ me.pc = "credit"
      BY <2>1 DEF FindingToPlanner, runVars
    <3>2. CASE UNCHANGED triage
      BY <1>1, <3>1, <3>2
    <3>3. ASSUME NEW broken, Begin(w, Content(me.entries), Kinds(me.entries, broken), cfg.confirmRuns, cfg.minimize)
          PROVE  MinimalInv'
      <4>1. me.entries \in Seq(AllEntries)
        BY <3>1 DEF ShapeInv, Shape, Handling
      <4>2. cfg.confirmRuns \in Nat
        BY LimitsAssumption DEF MinimalInv
      <4>3. Session(Content(me.entries))
        BY <4>1, ContentSession
      <4> HIDE DEF me
      <4>4. Reduced(triage'[w]) /\ Alone(w)
        BY <3>3, <4>2, <4>3, BeginReduced
      <4> QED BY <1>2, <3>1, <4>4
    <3> QED BY <2>1, <3>2, <3>3 DEF FindingToPlanner
  <2>2. CASE Triaging(w)
    <3>1. TriageStep(w) /\ cfg' = cfg /\ cancelled' = cancelled
      BY <2>2 DEF Triaging, runVars
    <3>2. triage[w].phase # "idle"
      BY Zenon, <3>1 DEF TriageStep, ConfirmRun, ConfirmEnd, DropExchange, SessionEnd, MinimizeJSONBody,
             MinimizeQueryParams, MinimizeXMLBody, MinimizeMultipartBody, SkipBody, Body, RemoveKeys, Descend,
             KeysEnd, RemovePart, PartsEnd, BodiesEnd
    <3>3. triage[w] # Idle
      BY <3>2 DEF Idle
    <3>4. ~cancelled => Reduced(triage'[w])
      BY <3>1, <3>3, StepReduced DEF MinimalInv
    <3>5. Alone(w)
      BY <3>1, TriageStepAlone
    <3> QED BY <1>2, <3>1, <3>4, <3>5
  <2>3. CASE HitDone(w)
    <3>1. triage' = [triage EXCEPT ![w] = Idle] /\ cfg' = cfg /\ cancelled' = cancelled
      BY <2>3 DEF HitDone, runVars
    <3>2. triage'[w] = Idle
      BY <3>1 DEF TriageInv
    <3>3. Alone(w)
      BY Zenon, <3>1 DEF Alone
    <3> QED BY <1>2, <3>1, <3>2, <3>3
  <2>4. CASE UNCHANGED <<cfg, triage, cancelled>>
    BY <1>1, <2>4
  <2> QED
    BY <1>4, <2>1, <2>2, <2>3, <2>4
       DEF WorkerStep, Receive, Replay, Respond, RewardEndpoint, DetectAll, SkipHit, CreateFinding,
           FindingToFeedback, TaskDone, runVars
<1>5. CASE Generate \/ Send \/ UNCHANGED vars
  BY <1>1, <1>5 DEF Generate, Send, vars, runVars
<1> QED BY <1>3, <1>4, <1>5 DEF Next

\* A minimisation that was not stopped leaves nothing in the session that could be left
\* out: removeKeys, the passes over exchanges, parts and nested objects try every one of
\* them, and what was needed once is needed still when others are gone.
THEOREM TriageMinimal == Spec => []MinimalTrigger
<1>1. Init => TaskInv /\ ShapeInv /\ TriageInv /\ MinimalInv
  BY InitTask, InitAccounts DEF Init, TriageInv, MinimalInv
<1>2. ASSUME TriageInv, MinimalInv PROVE MinimalTrigger
  <2>1. ShowsAnomaly
    BY <1>2 DEF TriageInv, ShowsAnomaly, Shown
  <2>2. ASSUME NEW w \in Workers, triage[w] # Idle, ~triage[w].flaky, triage[w].phase = "done",
               triage[w].minimize, ~cancelled, NEW p \in triage[w].content, Reducible(triage[w], p)
        PROVE  ~Triggers(triage[w], LeftOut(triage[w], p))
    <3>1. Tried(triage[w])
      BY <1>2, <2>2 DEF MinimalInv, Reduced
    <3>2. ~Ahead(triage[w], p)
      BY <2>2 DEF Ahead
    <3> QED BY <2>2, <3>1, <3>2 DEF Tried
  <2> QED BY <2>1, <2>2 DEF MinimalTrigger
<1> QED BY <1>1, <1>2, NextTask, NextShape, NextTriage, NextMinimal, PTL DEF Spec

-----------------------------------------------------------------------------
(* What the replays of one finding come to.  Each key of the session may be  *)
(* asked about three times: left out alone, and at the border of two halves  *)
(* when the right half or the left half is left out.                        *)

\* What a frame may still ask.
May(f, p, c) ==
  /\ p \in Paths
  /\ Scope(f, p)
  /\ f.kind # "nested" /\ c # 1 => p[Len(p)] # f.keys[1]
  /\ f.kind = "left" /\ c = 2 => p[Len(p)] # f.keys[Len(f.keys) \div 2 + 1]

\* What a stack of frames may still ask.
MayWork(work, p, c) == \E j \in DOMAIN work : May(work[j], p, c)

\* No two frames ask the same.
Apart(work) ==
  \A j, k \in DOMAIN work : j # k => \A p, c : ~(May(work[j], p, c) /\ May(work[k], p, c))

\* Two stacks that share no question, one on the other.
LEMMA MayConcat ==
  ASSUME NEW S, NEW a \in Seq(S), NEW b \in Seq(S)
  PROVE  /\ \A p, c : MayWork(a \o b, p, c) <=> MayWork(a, p, c) \/ MayWork(b, p, c)
         /\ Apart(a) /\ Apart(b) /\ (\A p, c : ~(MayWork(a, p, c) /\ MayWork(b, p, c))) => Apart(a \o b)
<1> DEFINE n == Len(a)
           m == Len(b)
           ab == a \o b
<1>1. /\ n \in Nat /\ m \in Nat /\ DOMAIN a = 1..n /\ DOMAIN b = 1..m /\ DOMAIN ab = 1..(n + m)
      /\ \A j \in 1..n : ab[j] = a[j]
      /\ \A j \in 1..m : ab[n + j] = b[j]
  OBVIOUS
<1> HIDE DEF n, m, ab
<1>2. \A j \in 1..(n + m) : j \in 1..n \/ (j - n \in 1..m /\ n + (j - n) = j)
  BY <1>1
<1>3. \A j \in 1..n : j \in 1..(n + m)
  BY <1>1
<1>4. \A j \in 1..m : n + j \in 1..(n + m)
  BY <1>1
<1>5. \A p, c : MayWork(ab, p, c) <=> MayWork(a, p, c) \/ MayWork(b, p, c)
  <2> SUFFICES ASSUME NEW p, NEW c PROVE MayWork(ab, p, c) <=> MayWork(a, p, c) \/ MayWork(b, p, c)
    OBVIOUS
  <2>1. ASSUME NEW j \in 1..(n + m), May(ab[j], p, c) PROVE MayWork(a, p, c) \/ MayWork(b, p, c)
    <3>1. CASE j \in 1..n
      BY <1>1, <2>1, <3>1 DEF MayWork
    <3>2. CASE j - n \in 1..m /\ n + (j - n) = j
      <4>1. ab[j] = b[j - n]
        BY <1>1, <3>2
      <4> QED BY <1>1, <2>1, <3>2, <4>1 DEF MayWork
    <3> QED BY <1>2, <3>1, <3>2
  <2>2. ASSUME NEW j \in 1..n, May(a[j], p, c) PROVE MayWork(ab, p, c)
    BY <1>1, <1>3, <2>2 DEF MayWork
  <2>3. ASSUME NEW j \in 1..m, May(b[j], p, c) PROVE MayWork(ab, p, c)
    BY <1>1, <1>4, <2>3 DEF MayWork
  <2> QED BY <1>1, <2>1, <2>2, <2>3 DEF MayWork
<1>6. ASSUME Apart(a), Apart(b), \A p, c : ~(MayWork(a, p, c) /\ MayWork(b, p, c)),
             NEW j \in 1..(n + m), NEW k \in 1..(n + m), j # k, NEW p, NEW c, May(ab[j], p, c), May(ab[k], p, c)
      PROVE  FALSE
  <2>1. ASSUME NEW x \in 1..n, NEW y \in 1..(n + m), y - n \in 1..m, n + (y - n) = y,
               May(ab[x], p, c), May(ab[y], p, c)
        PROVE  FALSE
    <3>1. May(a[x], p, c) /\ May(b[y - n], p, c)
      BY <1>1, <2>1
    <3> QED BY <1>1, <1>6, <2>1, <3>1 DEF MayWork
  <2>2. CASE j \in 1..n /\ k \in 1..n
    BY <1>1, <1>6, <2>2 DEF Apart
  <2>3. CASE j - n \in 1..m /\ k - n \in 1..m /\ n + (j - n) = j /\ n + (k - n) = k
    <3>1. j - n # k - n
      BY <1>6, <2>3
    <3>2. ab[j] = b[j - n] /\ ab[k] = b[k - n]
      BY <1>1, <2>3
    <3> QED BY <1>1, <1>6, <2>3, <3>1, <3>2 DEF Apart
  <2> QED BY <1>2, <1>6, <2>1, <2>2, <2>3
<1>7. Apart(a) /\ Apart(b) /\ (\A p, c : ~(MayWork(a, p, c) /\ MayWork(b, p, c))) => Apart(ab)
  BY <1>1, <1>6 DEF Apart
<1> QED BY <1>5, <1>7 DEF ab

\* A stack asks what its first frame and the others ask, and no question twice.
LEMMA MayHead ==
  ASSUME NEW S, NEW work \in Seq(S), work # <<>>
  PROVE  /\ Head(work) \in S /\ Tail(work) \in Seq(S)
         /\ \A p, c : MayWork(work, p, c) <=> May(Head(work), p, c) \/ MayWork(Tail(work), p, c)
         /\ Apart(work) => /\ Apart(Tail(work))
                           /\ \A p, c : ~(May(Head(work), p, c) /\ MayWork(Tail(work), p, c))
<1> DEFINE r == Tail(work)
           n == Len(work)
<1>1. /\ Head(work) \in S /\ r \in Seq(S) /\ Head(work) = work[1] /\ n \in Nat /\ n # 0
      /\ DOMAIN work = 1..n /\ DOMAIN r = 1..(n - 1)
      /\ \A j \in 1..(n - 1) : r[j] = work[j + 1]
  OBVIOUS
<1> HIDE DEF r, n
<1>2. \A j \in 1..n : j = 1 \/ (j - 1 \in 1..(n - 1) /\ r[j - 1] = work[j])
  <2> SUFFICES ASSUME NEW j \in 1..n, j # 1 PROVE j - 1 \in 1..(n - 1) /\ r[j - 1] = work[j]
    OBVIOUS
  <2>1. j - 1 \in 1..(n - 1) /\ (j - 1) + 1 = j
    BY <1>1
  <2> QED BY <1>1, <2>1
<1>3. 1 \in 1..n /\ \A j \in 1..(n - 1) : j + 1 \in 1..n /\ j + 1 # 1
  BY <1>1
<1>4. \A p, c : MayWork(work, p, c) <=> May(Head(work), p, c) \/ MayWork(r, p, c)
  BY <1>1, <1>2, <1>3 DEF MayWork
<1>5. ASSUME Apart(work) PROVE Apart(r)
  <2>1. ASSUME NEW j \in 1..(n - 1), NEW k \in 1..(n - 1), j # k, NEW p, NEW c, May(r[j], p, c), May(r[k], p, c)
        PROVE  FALSE
    <3>1. /\ j + 1 # k + 1 /\ j + 1 \in DOMAIN work /\ k + 1 \in DOMAIN work
          /\ r[j] = work[j + 1] /\ r[k] = work[k + 1]
      BY <1>1, <1>3, <2>1
    <3> QED BY <1>5, <2>1, <3>1 DEF Apart
  <2> QED BY <1>1, <2>1 DEF Apart
<1>6. ASSUME Apart(work), NEW p, NEW c, May(Head(work), p, c), MayWork(r, p, c) PROVE FALSE
  <2>1. PICK j \in 1..(n - 1) : May(r[j], p, c)
    BY <1>1, <1>6 DEF MayWork
  <2>2. May(work[1], p, c) /\ May(work[j + 1], p, c) /\ 1 \in 1..n /\ j + 1 \in 1..n /\ j + 1 # 1
    BY <1>1, <1>3, <1>6, <2>1
  <2> QED BY <1>1, <1>6, <2>2 DEF Apart
<1> QED BY <1>1, <1>4, <1>5, <1>6 DEF r

\* The questions of stacks of none, one and two frames.
LEMMA MayShort ==
  ASSUME NEW f, NEW g
  PROVE  /\ \A p, c : ~MayWork(<<>>, p, c)
         /\ \A p, c : MayWork(<<f>>, p, c) <=> May(f, p, c)
         /\ \A p, c : MayWork(<<f, g>>, p, c) <=> May(f, p, c) \/ May(g, p, c)
         /\ Apart(<<>>) /\ Apart(<<f>>)
         /\ (\A p, c : ~(May(f, p, c) /\ May(g, p, c))) => Apart(<<f, g>>)
<1>1. /\ DOMAIN <<>> = {}
      /\ DOMAIN <<f>> = {1} /\ <<f>>[1] = f
      /\ DOMAIN <<f, g>> = {1, 2} /\ <<f, g>>[1] = f /\ <<f, g>>[2] = g
  OBVIOUS
<1>2. /\ \A p, c : ~MayWork(<<>>, p, c)
      /\ \A p, c : MayWork(<<f>>, p, c) <=> May(f, p, c)
      /\ \A p, c : MayWork(<<f, g>>, p, c) <=> May(f, p, c) \/ May(g, p, c)
  BY Zenon, <1>1 DEF MayWork
<1>3. Apart(<<>>) /\ Apart(<<f>>)
  BY Zenon, <1>1 DEF Apart
<1>4. ASSUME \A p, c : ~(May(f, p, c) /\ May(g, p, c)) PROVE Apart(<<f, g>>)
  <2> DEFINE fg == <<f, g>>
  <2>1. DOMAIN fg = {1, 2} /\ fg[1] = f /\ fg[2] = g
    BY <1>1
  <2> HIDE DEF fg
  <2>2. ASSUME NEW j \in {1, 2}, NEW k \in {1, 2}, j # k, NEW p, NEW c, May(fg[j], p, c), May(fg[k], p, c)
        PROVE  FALSE
    <3>1. (j = 1 /\ k = 2) \/ (j = 2 /\ k = 1)
      BY <2>2
    <3> QED BY <1>4, <2>1, <2>2, <3>1
  <2>3. Apart(fg)
    BY <2>1, <2>2 DEF Apart
  <2> QED BY <2>3 DEF fg
<1> QED BY <1>2, <1>3, <1>4

\* A frame gives way to frames that ask no more than it did: what is asked at this step
\* is asked no more.
LEMMA Pushed ==
  ASSUME NEW S, NEW work \in Seq(S), work # <<>>, Apart(work), NEW frames \in Seq(S), Apart(frames),
         \A p, c : MayWork(frames, p, c) => May(Head(work), p, c)
  PROVE  /\ frames \o Tail(work) \in Seq(S) /\ Apart(frames \o Tail(work))
         /\ \A p, c : MayWork(frames \o Tail(work), p, c) => MayWork(work, p, c)
         /\ \A p, c : May(Head(work), p, c) => /\ MayWork(work, p, c)
                                               /\ MayWork(frames \o Tail(work), p, c) => MayWork(frames, p, c)
<1> DEFINE r == Tail(work)
           fr == frames \o r
<1>1. /\ r \in Seq(S) /\ Apart(r)
      /\ \A p, c : MayWork(work, p, c) <=> May(Head(work), p, c) \/ MayWork(r, p, c)
      /\ \A p, c : ~(May(Head(work), p, c) /\ MayWork(r, p, c))
  BY MayHead
<1> HIDE DEF r
<1>2. fr \in Seq(S)
  BY <1>1
<1>3. /\ \A p, c : MayWork(fr, p, c) <=> MayWork(frames, p, c) \/ MayWork(r, p, c)
      /\ (\A p, c : ~(MayWork(frames, p, c) /\ MayWork(r, p, c))) => Apart(fr)
  BY <1>1, MayConcat
<1> HIDE DEF fr
<1>4. \A p, c : ~(MayWork(frames, p, c) /\ MayWork(r, p, c))
  BY Zenon, <1>1
<1>5. Apart(fr)
  BY <1>3, <1>4
<1>6. /\ \A p, c : MayWork(fr, p, c) => MayWork(work, p, c)
      /\ \A p, c : May(Head(work), p, c) => MayWork(work, p, c) /\ (MayWork(fr, p, c) => MayWork(frames, p, c))
  BY Zenon, <1>1, <1>3
<1> QED BY <1>2, <1>5, <1>6 DEF fr, r

\* Lists without repetition.
LEMMA SortedOnce ==
  ASSUME NEW S \in SUBSET Nat, IsFiniteSet(S)
  PROVE  IsInjective(Sorted(S))
<1>1. Sorted(S) \in SetToSeqs(S)
  BY SortedExists DEF Sorted, Increasing
<1> DEFINE s == Sorted(S)
           n == Cardinality(S)
<1>2. s \in [1..n -> S] /\ \A i, j \in 1..n : i # j => s[i] # s[j]
  BY <1>1 DEF SetToSeqs
<1> HIDE DEF s, n
<1>3. IsInjective(s)
  BY <1>2 DEF IsInjective
<1> QED BY <1>3 DEF s

\* Reversing repeats nothing.
LEMMA ReversedOnce ==
  ASSUME NEW q \in Seq(Nat), IsInjective(q)
  PROVE  IsInjective(Reverse(q))
<1> DEFINE r == Reverse(q)
           n == Len(q)
<1>1. /\ n \in Nat /\ DOMAIN q = 1..n /\ DOMAIN r = 1..n
      /\ \A i \in 1..n : r[i] = q[n - i + 1]
  BY DEF Reverse
<1> HIDE DEF r, n
<1>2. ASSUME NEW i \in 1..n, NEW j \in 1..n, r[i] = r[j] PROVE i = j
  <2>1. n - i + 1 \in 1..n /\ n - j + 1 \in 1..n
    BY <1>1
  <2>2. n - i + 1 = n - j + 1
    BY <1>1, <1>2, <2>1 DEF IsInjective
  <2> QED BY <1>1, <2>2
<1>3. IsInjective(r)
  BY <1>1, <1>2 DEF IsInjective
<1> QED BY <1>3 DEF r

\* The first of a list without repetitions is not among the others.
LEMMA FirstOnce ==
  ASSUME NEW s \in Seq(Nat), s # <<>>, IsInjective(s)
  PROVE  /\ Head(s) \in Nat /\ Head(s) \in Range(s)
         /\ Tail(s) \in Seq(Nat) /\ IsInjective(Tail(s))
         /\ Range(Tail(s)) \subseteq Range(s) /\ Head(s) \notin Range(Tail(s))
<1> DEFINE r == Tail(s)
           n == Len(s)
<1>1. /\ Head(s) \in Nat /\ r \in Seq(Nat) /\ Head(s) = s[1] /\ n \in Nat /\ n # 0
      /\ DOMAIN s = 1..n /\ DOMAIN r = 1..(n - 1)
      /\ \A j \in 1..(n - 1) : r[j] = s[j + 1]
  OBVIOUS
<1> HIDE DEF r, n
<1>2. 1 \in 1..n /\ \A j \in 1..(n - 1) : j + 1 \in 1..n /\ j + 1 # 1
  BY <1>1
<1>3. Head(s) \in Range(s)
  BY <1>1, <1>2 DEF Range
<1>4. ASSUME NEW i \in 1..(n - 1), NEW j \in 1..(n - 1), r[i] = r[j] PROVE i = j
  <2>1. i + 1 = j + 1
    BY <1>1, <1>2, <1>4 DEF IsInjective
  <2> QED BY <2>1
<1>5. IsInjective(r)
  BY <1>1, <1>4 DEF IsInjective
<1>6. ASSUME NEW k \in Range(r) PROVE k \in Range(s) /\ k # Head(s)
  <2>1. PICK j \in 1..(n - 1) : k = r[j]
    BY <1>1, <1>6 DEF Range
  <2>2. k = s[j + 1] /\ j + 1 \in 1..n /\ j + 1 # 1
    BY <1>1, <1>2, <2>1
  <2> QED BY <1>1, <1>2, <2>2 DEF Range, IsInjective
<1> QED BY <1>1, <1>3, <1>5, <1>6 DEF r

\* The halves of a list of two or more, and the key at their border.
LEMMA HalvesOnce ==
  ASSUME NEW keys \in Seq(Nat), IsInjective(keys), Len(keys) > 1
  PROVE  LET mid == Len(keys) \div 2
             left == SubSeq(keys, 1, mid)
             right == SubSeq(keys, mid + 1, Len(keys))
         IN  /\ left \in Seq(Nat) /\ IsInjective(left) /\ Range(left) \subseteq Range(keys)
             /\ right \in Seq(Nat) /\ IsInjective(right) /\ Range(right) \subseteq Range(keys)
             /\ Range(left) \cap Range(right) = {}
             /\ left[1] = keys[1] /\ keys[1] \in Range(left)
             /\ right[1] = keys[mid + 1] /\ keys[mid + 1] \in Range(right)
<1> DEFINE n == Len(keys)
           mid == n \div 2
           left == SubSeq(keys, 1, mid)
           right == SubSeq(keys, mid + 1, n)
<1>1. n \in Nat /\ n > 1 /\ DOMAIN keys = 1..n /\ \A j \in 1..n : keys[j] \in Nat
  OBVIOUS
<1>2. mid \in 1..(n - 1)
  <2> HIDE DEF n
  <2> QED BY <1>1
<1>3. /\ left \in Seq(Nat) /\ DOMAIN left = 1..mid /\ \A j \in 1..mid : left[j] = keys[j]
      /\ right \in Seq(Nat) /\ DOMAIN right = 1..(n - mid) /\ \A j \in 1..(n - mid) : right[j] = keys[j + mid]
  <2> HIDE DEF mid
  <2>1. mid \in 0..n
    <3> HIDE DEF n
    <3> QED BY <1>1, <1>2
  <2>2. left \in Seq(Nat) /\ DOMAIN left = 1..mid /\ \A j \in 1..mid : left[j] = keys[j]
    BY <2>1
  <2>3. right \in Seq(Nat) /\ DOMAIN right = 1..(n - mid) /\ \A j \in 1..(n - mid) : right[j] = keys[j + mid]
    <3> DEFINE m == mid + 1
               half == SubSeq(keys, m, n)
    <3>1. m \in 1..(n + 1) /\ n \in Nat /\ m = mid + 1 /\ mid \in Nat
      BY <1>1, <2>1
    <3> HIDE DEF m
    <3>2. half \in Seq(Nat) /\ Len(half) = n - m + 1
      BY <3>1
    <3>3. \A j \in 1..(n - m + 1) : half[j] = keys[j + m - 1]
      BY <3>1
    <3>4. DOMAIN half = 1..Len(half)
      BY <3>2
    <3>5. right = half
      BY DEF m
    <3> HIDE DEF half, right, n
    <3>6. n - m + 1 = n - mid /\ \A j \in 1..(n - mid) : j + m - 1 = j + mid
      BY <3>1
    <3> QED BY <3>2, <3>3, <3>4, <3>5, <3>6
  <2> QED BY <2>2, <2>3
<1> HIDE DEF left, right, mid, n
<1>4. /\ 1 \in 1..n /\ 1 \in 1..mid /\ 1 \in 1..(n - mid) /\ 1 + mid = mid + 1
      /\ \A j \in 1..mid : j \in 1..n
      /\ \A j \in 1..(n - mid) : j + mid \in 1..n
  BY <1>1, <1>2
<1>5. IsInjective(left)
  BY <1>1, <1>3, <1>4 DEF IsInjective
<1>6. IsInjective(right)
  <2> SUFFICES ASSUME NEW i \in 1..(n - mid), NEW j \in 1..(n - mid), right[i] = right[j] PROVE i = j
    BY <1>3 DEF IsInjective
  <2>1. i + mid = j + mid
    BY <1>1, <1>3, <1>4 DEF IsInjective
  <2> QED BY <1>1, <1>2, <2>1
<1>7. Range(left) \subseteq Range(keys) /\ Range(right) \subseteq Range(keys)
  <2>1. ASSUME NEW k \in Range(left) PROVE k \in Range(keys)
    <3>1. PICK i \in 1..mid : k = left[i]
      BY <1>3, <2>1 DEF Range
    <3>2. i \in DOMAIN keys /\ k = keys[i]
      BY <1>1, <1>3, <1>4, <3>1
    <3> QED BY <3>2 DEF Range
  <2>2. ASSUME NEW k \in Range(right) PROVE k \in Range(keys)
    <3>1. PICK j \in 1..(n - mid) : k = right[j]
      BY <1>3, <2>2 DEF Range
    <3>2. j + mid \in DOMAIN keys /\ k = keys[j + mid]
      BY <1>1, <1>3, <1>4, <3>1
    <3> QED BY <3>2 DEF Range
  <2> QED BY <2>1, <2>2
<1>8. ASSUME NEW k \in Range(left), k \in Range(right) PROVE FALSE
  <2>1. PICK i \in 1..mid : k = left[i]
    BY <1>3 DEF Range
  <2>2. PICK j \in 1..(n - mid) : k = right[j]
    BY <1>3, <1>8 DEF Range
  <2>3. i \in DOMAIN keys /\ j + mid \in DOMAIN keys /\ keys[i] = keys[j + mid]
    <3>1. i \in DOMAIN keys /\ keys[i] = k
      BY <1>1, <1>3, <1>4, <2>1
    <3>2. j + mid \in DOMAIN keys /\ keys[j + mid] = k
      BY <1>1, <1>3, <1>4, <2>2
    <3> QED BY <3>1, <3>2
  <2>4. i = j + mid
    BY <2>3 DEF IsInjective
  <2> QED BY <1>1, <1>2, <2>4
<1>9. left[1] = keys[1] /\ keys[1] \in Range(left)
  BY <1>3, <1>4 DEF Range
<1>10. right[1] = keys[mid + 1] /\ keys[mid + 1] \in Range(right)
  <2>1. right[1] = keys[mid + 1] /\ 1 \in DOMAIN right
    BY <1>3, <1>4
  <2> QED BY <2>1 DEF Range
<1>11. Range(left) \cap Range(right) = {}
  BY <1>8
<1> QED BY <1>3, <1>5, <1>6, <1>7, <1>9, <1>10, <1>11 DEF left, right, mid, n

\* A session with everything that is on the way to what it has.
Tree(content) ==
  /\ Session(content)
  /\ \A p \in content : \A n \in 1..Len(p) : SubSeq(p, 1, n) \in content

\* Frames with keys of their own, out of a session.
Stocked(content, i) ==
  {f \in Frames(i) :
     /\ IsInjective(f.keys)
     /\ f.kind = "left" => Len(f.keys) > 1
     /\ \A k \in Range(f.keys) : Append(f.at, k) \in content}

\* What a minimisation has before it: each exchange, key and part listed once.
Ready(t) ==
  /\ t.todo \in Seq(Nat) /\ IsInjective(t.todo)
  /\ t.phase = "session" => \A k \in Range(t.todo) : <<k>> \in t.original
  /\ t.phase \in {"keys", "parts"} => t.todo # <<>>
  /\ t.phase = "keys" => t.work \in Seq(Stocked(t.original, Head(t.todo))) /\ Apart(t.work)
  /\ t.phase = "parts" =>
       t.work \in Seq(Nat) /\ IsInjective(t.work) /\ \A k \in Range(t.work) : <<Head(t.todo), k>> \in t.original

\* What a minimisation may still ask: about an exchange or a part once.
MayAsk(t, p, c) ==
  CASE t.phase = "session" -> Len(p) > 1 \/ (c = 1 /\ p[1] \in Range(t.todo))
    [] t.phase = "bodies" -> Len(p) > 1 /\ p[1] \in Range(t.todo)
    [] t.phase = "keys" -> Len(p) > 1 /\ (p[1] \in Range(Tail(t.todo)) \/ MayWork(t.work, p, c))
    [] t.phase = "parts" ->
         /\ Len(p) > 1
         /\ \/ p[1] \in Range(Tail(t.todo))
            \/ c = 1 /\ Len(p) = 2 /\ p[1] = Head(t.todo) /\ p[2] \in Range(t.work)
    [] OTHER -> FALSE

\* The questions left, of the three that each place of the session has.
Stock(t) == {x \in t.original \X (1..3) : MayAsk(t, x[1], x[2])}

\* All that the bound reads of a finding.
BudgetFields == AllFields \cup {"original"}

\* The replays so far and those that may come stay within the bound.
Bounded(t) ==
  /\ BudgetFields \subseteq DOMAIN t
  /\ Tree(t.original) /\ t.content \subseteq t.original /\ t.base \subseteq t.original
  /\ t.runs \in Nat /\ t.asked \in Nat
  /\ \/ t.phase = "confirm" /\ t.left \in Nat /\ t.asked + t.left <= t.runs
     \/ t.phase \in Minimising /\ Ready(t) /\ t.asked + Cardinality(Stock(t)) <= MaxAsked(t)
     \/ t.phase = "done" /\ t.asked <= MaxAsked(t)

\* A way on that asks nothing new.
Follows(t, u) ==
  /\ BudgetFields \subseteq DOMAIN u
  /\ u.original = t.original /\ u.runs = t.runs /\ u.asked = t.asked
  /\ u.content \subseteq t.original /\ u.base \subseteq t.original
  /\ (u.phase \in Minimising /\ Ready(u)) \/ u.phase = "done"
  /\ \A p \in t.original, c \in 1..3 : MayAsk(u, p, c) => MayAsk(t, p, c)

\* No more questions are left than three for each place.
LEMMA StockFacts ==
  ASSUME NEW t, Tree(t.original)
  PROVE  /\ IsFiniteSet(Stock(t)) /\ Cardinality(Stock(t)) \in Nat
         /\ Cardinality(t.original) \in Nat /\ Cardinality(Stock(t)) <= 3 * Cardinality(t.original)
<1> DEFINE O == t.original
           A == O \X (1..3)
           S == Stock(t)
<1>1. IsFiniteSet(O)
  BY DEF Tree, Session
<1>2. IsFiniteSet(1..3) /\ Cardinality(1..3) = 3
  <2>1. 1 \in Int /\ 3 \in Int
    OBVIOUS
  <2>2. IsFiniteSet(1..3) /\ Cardinality(1..3) = IF 1 > 3 THEN 0 ELSE 3 - 1 + 1
    BY <2>1, FS_Interval
  <2> QED BY <2>2
<1>3. S \subseteq A
  BY DEF Stock
<1> HIDE DEF O, S
<1>4. IsFiniteSet(A) /\ Cardinality(A) = Cardinality(O) * Cardinality(1..3)
  BY <1>1, <1>2, FS_Product
<1> HIDE DEF A
<1>5. IsFiniteSet(S) /\ Cardinality(S) <= Cardinality(A)
  BY <1>3, <1>4, FS_Subset
<1>6. Cardinality(S) \in Nat /\ Cardinality(O) \in Nat
  BY <1>1, <1>5, FS_CardinalityType
<1>7. Cardinality(A) = 3 * Cardinality(O)
  BY <1>2, <1>4, <1>6
<1> QED BY <1>5, <1>6, <1>7 DEF O, S

\* A finding that is bounded is within the bound.
LEMMA WithinBound ==
  ASSUME NEW t, Bounded(t)
  PROVE  t.asked <= MaxAsked(t) /\ t.content \subseteq t.original
<1> DEFINE n == Cardinality(Stock(t))
           m == Cardinality(t.original)
<1>1. n \in Nat /\ m \in Nat /\ t.runs \in Nat /\ t.asked \in Nat
  BY StockFacts DEF Bounded
<1>2. MaxAsked(t) = t.runs + 3 * m
  BY DEF MaxAsked
<1>3. \/ t.left \in Nat /\ t.asked + t.left <= t.runs
      \/ t.asked + n <= MaxAsked(t)
      \/ t.asked <= MaxAsked(t)
  BY DEF Bounded
<1> HIDE DEF n, m
<1>4. t.asked <= MaxAsked(t)
  BY <1>1, <1>2, <1>3
<1> QED BY <1>4 DEF Bounded

\* The ways on of a minimisation, without a replay and with one.
LEMMA FollowsBounded ==
  ASSUME NEW t, Bounded(t), t.phase \in Minimising, NEW u, Follows(t, u),
         NEW v, BudgetFields \subseteq DOMAIN v, v.phase = u.phase, v.todo = u.todo, v.work = u.work,
         v.original = u.original, v.runs = u.runs, v.base = u.base, v.content \subseteq t.original,
         \/ v.asked = u.asked
         \/ /\ v.asked = u.asked + 1
            /\ \E p \in t.original, c \in 1..3 : MayAsk(t, p, c) /\ ~MayAsk(u, p, c)
  PROVE  Bounded(v)
<1> DEFINE S == Stock(t)
           R == Stock(v)
<1>1. /\ Tree(t.original) /\ t.runs \in Nat /\ t.asked \in Nat
      /\ t.asked + Cardinality(S) <= MaxAsked(t)
  BY DEF Bounded, Minimising
<1>2. /\ v.original = t.original /\ v.runs = t.runs /\ v.base \subseteq t.original
      /\ \A p, c : MayAsk(v, p, c) <=> MayAsk(u, p, c)
      /\ Ready(v) <=> Ready(u)
  BY DEF Follows, MayAsk, Ready
<1>3. MaxAsked(v) = MaxAsked(t)
  BY <1>2 DEF MaxAsked
<1>4. R \subseteq S
  BY <1>2 DEF Stock, Follows
<1>5. /\ IsFiniteSet(S) /\ Cardinality(S) \in Nat /\ IsFiniteSet(R) /\ Cardinality(R) \in Nat
      /\ Cardinality(t.original) \in Nat
  BY <1>1, <1>2, StockFacts
<1>6. \/ v.asked = t.asked /\ Cardinality(R) <= Cardinality(S)
      \/ v.asked = t.asked + 1 /\ Cardinality(R) + 1 <= Cardinality(S)
  <2>1. CASE v.asked = u.asked
    <3>1. Cardinality(R) <= Cardinality(S)
      BY <1>4, <1>5, FS_Subset
    <3> QED BY <2>1, <3>1 DEF Follows
  <2>2. CASE v.asked = u.asked + 1 /\ \E p \in t.original, c \in 1..3 : MayAsk(t, p, c) /\ ~MayAsk(u, p, c)
    <3>1. PICK p \in t.original, c \in 1..3 : MayAsk(t, p, c) /\ ~MayAsk(u, p, c)
      BY <2>2
    <3> DEFINE x == <<p, c>>
    <3>2. x \in S /\ x \notin R
      BY <1>2, <3>1 DEF Stock
    <3> HIDE DEF x, R, S
    <3>3. R \subseteq S \ {x}
      BY <1>4, <3>2
    <3>4. IsFiniteSet(S \ {x}) /\ Cardinality(S \ {x}) = Cardinality(S) - 1
      BY <1>5, <3>2, FS_RemoveElement
    <3>5. Cardinality(R) <= Cardinality(S \ {x})
      BY <3>3, <3>4, FS_Subset
    <3> QED BY <1>5, <2>2, <3>4, <3>5 DEF Follows
  <2> QED BY <2>1, <2>2
<1> HIDE DEF R, S
<1>7. v.asked \in Nat /\ v.asked + Cardinality(R) <= MaxAsked(v)
  <2> DEFINE r == Cardinality(R)
             s == Cardinality(S)
             a == t.asked
             b == v.asked
             most == MaxAsked(t)
  <2>1. /\ a \in Nat /\ r \in Nat /\ s \in Nat /\ most \in Nat /\ a + s <= most
        /\ (b = a /\ r <= s) \/ (b = a + 1 /\ r + 1 <= s)
    <3>1. most \in Nat
      BY <1>1, <1>5 DEF MaxAsked
    <3> QED BY <1>1, <1>5, <1>6, <3>1
  <2>2. MaxAsked(v) = most
    BY <1>3
  <2> HIDE DEF r, s, a, b, most
  <2>3. b \in Nat /\ b + r <= most
    BY <2>1
  <2> QED BY <2>2, <2>3 DEF r, b
<1>8. v.asked <= MaxAsked(v)
  <2>1. MaxAsked(v) \in Nat
    BY <1>1, <1>2, <1>5 DEF MaxAsked
  <2> QED BY <1>5, <1>7, <2>1
<1>9. CASE v.phase = "done"
  BY <1>1, <1>2, <1>7, <1>8, <1>9 DEF Bounded
<1>10. CASE v.phase # "done"
  <2>1. v.phase \in Minimising /\ Ready(v)
    BY <1>2, <1>10 DEF Follows
  <2> QED BY <1>1, <1>2, <1>7, <2>1 DEF Bounded, R
<1> QED BY <1>9, <1>10

\* What lies below a place of a session is in the session.
LEMMA OnTheWay ==
  ASSUME NEW original, Tree(original), NEW content \in SUBSET original, NEW at \in Seq(Nat), NEW k \in Children(content, at)
  PROVE  k \in Nat /\ Append(at, k) \in original
<1> DEFINE n == Len(at)
<1>1. PICK q \in content : Under(at, q) /\ k = q[n + 1]
  BY Zenon DEF Children
<1> DEFINE m == Len(q)
           s == SubSeq(q, 1, n + 1)
           a == Append(at, k)
<1>2. /\ q \in Seq(Nat) /\ n \in Nat /\ m \in Nat /\ m > n
      /\ SubSeq(at, 1, n) = SubSeq(q, 1, n)
  BY <1>1 DEF Tree, Session, Paths, Under, IsPrefix
<1>3. n + 1 \in 1..m /\ n <= m
  <2> HIDE DEF n, m
  <2> QED BY <1>2
<1>4. s \in original
  BY <1>3 DEF Tree
<1>5. k \in Nat /\ \A j \in 1..m : q[j] \in Nat
  BY <1>1, <1>2, <1>3
<1>6. \A j \in 1..n : SubSeq(at, 1, n)[j] = at[j] /\ SubSeq(q, 1, n)[j] = q[j]
  BY <1>2, <1>3
<1>7. s \in Seq(Nat) /\ Len(s) = n + 1 /\ \A j \in 1..(n + 1) : s[j] = q[j]
  BY <1>2, <1>3
<1>8. a \in Seq(Nat) /\ Len(a) = n + 1 /\ a[n + 1] = k /\ \A j \in 1..n : a[j] = at[j]
  BY <1>5
<1> HIDE DEF s, a, n, m
<1>9. \A j \in 1..(n + 1) : s[j] = a[j]
  <2> SUFFICES ASSUME NEW j \in 1..(n + 1) PROVE s[j] = a[j]
    OBVIOUS
  <2>1. j \in 1..n \/ j = n + 1
    BY <1>2
  <2> QED BY <1>1, <1>2, <1>6, <1>7, <1>8, <2>1
<1>10. s = a
  BY <1>7, <1>8, <1>9
<1> QED BY <1>4, <1>5, <1>10 DEF a

\* The children of a path, listed in order, once each.
LEMMA ListedOnce ==
  ASSUME NEW original, Tree(original), NEW content \in SUBSET original, NEW at \in Seq(Nat)
  PROVE  LET list == Sorted(Children(content, at))
         IN  /\ list \in Seq(Nat) /\ IsInjective(list) /\ Range(list) = Children(content, at)
             /\ \A k \in Range(list) : Append(at, k) \in original
<1>1. Session(content)
  BY SessionSmaller DEF Tree
<1>2. Children(content, at) \subseteq Nat /\ IsFiniteSet(Children(content, at))
  BY <1>1, ChildrenFacts
<1> QED BY <1>1, <1>2, Listed, SortedOnce, OnTheWay

\* A step without a replay, and one with a replay and its two ways on.
LEMMA BecomeBounded ==
  ASSUME TriageInv, NEW w \in Workers, Bounded(triage[w]), triage[w].phase \in Minimising,
         NEW u, Become(w, u), Follows(triage[w], u)
  PROVE  Bounded(triage'[w])
<1>1. triage'[w] = u
  BY DEF TriageInv, Become
<1>2. /\ BudgetFields \subseteq DOMAIN u /\ u.content \subseteq triage[w].original
      /\ u.phase = u.phase /\ u.todo = u.todo /\ u.work = u.work /\ u.original = u.original /\ u.runs = u.runs
      /\ u.base = u.base /\ u.asked = u.asked
  BY DEF Follows
<1>3. Bounded(u)
  BY Zenon, <1>2, FollowsBounded
<1> QED BY <1>1, <1>3

\* A replay that uses up a question stays within the bound.
LEMMA AskBounded ==
  ASSUME TriageInv, NEW w \in Workers, Bounded(triage[w]), triage[w].phase \in Minimising,
         NEW content \in SUBSET triage[w].original, NEW yes, NEW no, Ask(w, content, yes, no),
         Follows(triage[w], yes), Follows(triage[w], no),
         \E p \in triage[w].original, c \in 1..3 : MayAsk(triage[w], p, c) /\ ~MayAsk(yes, p, c) /\ ~MayAsk(no, p, c)
  PROVE  Bounded(triage'[w])
<1> DEFINE t == triage[w]
<1>1. PICK answer \in Answers(t, content) :
        triage' = [triage EXCEPT ![w] =
          [(IF answer THEN [yes EXCEPT !.content = content] ELSE no) EXCEPT !.asked = @ + 1]]
  BY DEF Ask
<1> DEFINE x == IF answer THEN [yes EXCEPT !.content = content] ELSE no
           v == [x EXCEPT !.asked = @ + 1]
           u == IF answer THEN yes ELSE no
<1>2. triage'[w] = v
  <2> HIDE DEF x
  <2>1. triage' = [triage EXCEPT ![w] = v]
    BY <1>1 DEF x
  <2> QED BY <2>1 DEF TriageInv
<1>3. Follows(t, u) /\ \E p \in t.original, c \in 1..3 : MayAsk(t, p, c) /\ ~MayAsk(u, p, c)
  OBVIOUS
<1>4. /\ BudgetFields \subseteq DOMAIN v /\ v.phase = u.phase /\ v.todo = u.todo /\ v.work = u.work
      /\ v.original = u.original /\ v.runs = u.runs /\ v.base = u.base
      /\ v.content \in {content, u.content} /\ v.asked = u.asked + 1
  <2>1. BudgetFields \subseteq DOMAIN u
    BY <1>3 DEF Follows
  <2>2. /\ BudgetFields \subseteq DOMAIN x /\ x.phase = u.phase /\ x.todo = u.todo /\ x.work = u.work
        /\ x.original = u.original /\ x.runs = u.runs /\ x.base = u.base
        /\ x.content \in {content, u.content} /\ x.asked = u.asked
    BY <2>1 DEF BudgetFields, AllFields, Fields
  <2> HIDE DEF x, u
  <2> QED BY <2>2 DEF BudgetFields, AllFields, Fields
<1> HIDE DEF v, u, x
<1>5. v.content \subseteq t.original
  BY <1>3, <1>4 DEF Follows
<1>6. Bounded(v)
  BY Zenon, <1>3, <1>4, <1>5, FollowsBounded
<1> QED BY <1>2, <1>6

-----------------------------------------------------------------------------
(* The steps of a triage within the bound.                                 *)

\* A run of the confirmation uses up one of its runs.
LEMMA ConfirmRunBounded ==
  ASSUME TriageInv, NEW w \in Workers, Bounded(triage[w]), ConfirmRun(w)
  PROVE  Bounded(triage'[w])
<1> DEFINE t == triage[w]
           next == [t EXCEPT !.left = @ - 1]
           yes == [next EXCEPT !.reproduced = @ + 1]
<1>1. /\ t.phase = "confirm" /\ t.left > 0
      /\ IF cancelled THEN Become(w, [t EXCEPT !.phase = "done"]) ELSE Ask(w, t.content, yes, next)
  BY DEF ConfirmRun
<1>2. /\ BudgetFields \subseteq DOMAIN t /\ Tree(t.original) /\ t.content \subseteq t.original
      /\ t.base \subseteq t.original /\ t.runs \in Nat /\ t.asked \in Nat /\ t.left \in Nat
      /\ t.asked + t.left <= t.runs
  BY <1>1 DEF Bounded, Minimising
<1>3. CASE cancelled
  <2> DEFINE u == [t EXCEPT !.phase = "done"]
  <2>1. triage'[w] = u
    BY <1>1, <1>3 DEF TriageInv, Become
  <2>2. /\ BudgetFields \subseteq DOMAIN u /\ u.original = t.original /\ u.content = t.content /\ u.base = t.base
        /\ u.runs = t.runs /\ u.asked = t.asked /\ u.phase = "done"
    BY <1>2 DEF BudgetFields, AllFields, Fields
  <2> HIDE DEF u
  <2>3. t.asked <= MaxAsked(u)
    <3>1. t.asked <= MaxAsked(t)
      BY WithinBound
    <3> QED BY <2>2, <3>1 DEF MaxAsked
  <2> QED BY <1>2, <2>1, <2>2, <2>3 DEF Bounded
<1>4. CASE ~cancelled
  <2>1. PICK answer \in Answers(t, t.content) :
          triage' = [triage EXCEPT ![w] =
            [(IF answer THEN [yes EXCEPT !.content = t.content] ELSE next) EXCEPT !.asked = @ + 1]]
    BY <1>1, <1>4 DEF Ask
  <2> DEFINE x == IF answer THEN [yes EXCEPT !.content = t.content] ELSE next
             v == [x EXCEPT !.asked = @ + 1]
  <2>2. triage'[w] = v
    <3> HIDE DEF x
    <3>1. triage' = [triage EXCEPT ![w] = v]
      BY <2>1 DEF x
    <3> QED BY <3>1 DEF TriageInv
  <2>3. /\ BudgetFields \subseteq DOMAIN x /\ x.phase = "confirm" /\ x.original = t.original /\ x.content = t.content
        /\ x.base = t.base /\ x.runs = t.runs /\ x.asked = t.asked /\ x.left = t.left - 1
    BY <1>1, <1>2 DEF BudgetFields, AllFields, Fields
  <2> HIDE DEF x
  <2>4. /\ BudgetFields \subseteq DOMAIN v /\ v.phase = "confirm" /\ v.original = t.original /\ v.content = t.content
        /\ v.base = t.base /\ v.runs = t.runs /\ v.asked = t.asked + 1 /\ v.left = t.left - 1
    BY <2>3 DEF BudgetFields, AllFields, Fields
  <2> HIDE DEF v
  <2>5. v.asked \in Nat /\ v.left \in Nat /\ v.asked + v.left <= v.runs
    BY <1>1, <1>2, <2>4
  <2> QED BY <1>2, <2>2, <2>4, <2>5 DEF Bounded
<1> QED BY <1>3, <1>4

\* The confirmation ends, or the minimisation begins with all of its questions.
LEMMA ConfirmEndBounded ==
  ASSUME TriageInv, NEW w \in Workers, Bounded(triage[w]), ConfirmEnd(w)
  PROVE  Bounded(triage'[w])
<1> DEFINE t == triage[w]
           S == Children(t.content, <<>>) \ {1}
           rest == Reverse(Sorted(S))
           go == [t EXCEPT !.phase = "session", !.todo = rest]
           stop == [t EXCEPT !.phase = "done"]
<1>1. /\ t.phase = "confirm" /\ t.left = 0
      /\ Become(w, IF t.reproduced >= (t.runs + 1) \div 2 /\ t.minimize THEN go ELSE stop)
  BY DEF ConfirmEnd
<1>2. /\ BudgetFields \subseteq DOMAIN t /\ Tree(t.original) /\ t.content \subseteq t.original
      /\ t.base \subseteq t.original /\ t.runs \in Nat /\ t.asked \in Nat /\ t.asked <= t.runs
  BY <1>1 DEF Bounded, Minimising
<1>3. /\ BudgetFields \subseteq DOMAIN go /\ go.original = t.original /\ go.content = t.content /\ go.base = t.base
      /\ go.runs = t.runs /\ go.asked = t.asked /\ go.phase = "session" /\ go.todo = rest
  BY <1>2 DEF BudgetFields, AllFields, Fields
<1>4. /\ BudgetFields \subseteq DOMAIN stop /\ stop.original = t.original /\ stop.content = t.content
      /\ stop.base = t.base /\ stop.runs = t.runs /\ stop.asked = t.asked /\ stop.phase = "done"
  BY <1>2 DEF BudgetFields, AllFields, Fields
<1>5. /\ rest \in Seq(Nat) /\ IsInjective(rest)
      /\ \A k \in Range(rest) : <<k>> \in t.original
  <2>1. <<>> \in Seq(Nat) /\ \A k : Append(<<>>, k) = <<k>>
    OBVIOUS
  <2>2. Session(t.content)
    BY <1>2, SessionSmaller DEF Tree
  <2>3. S \subseteq Nat /\ IsFiniteSet(S)
    <3>1. Children(t.content, <<>>) \subseteq Nat /\ IsFiniteSet(Children(t.content, <<>>))
      BY <2>1, <2>2, ChildrenFacts
    <3> QED BY <3>1, FS_Subset
  <2>4. \A k \in S : <<k>> \in t.original
    <3> SUFFICES ASSUME NEW k \in S PROVE <<k>> \in t.original
      OBVIOUS
    <3>1. Append(<<>>, k) \in t.original
      BY <1>2, <2>1, OnTheWay
    <3> QED BY <2>1, <3>1
  <2> HIDE DEF S
  <2>5. Sorted(S) \in Seq(Nat) /\ IsInjective(Sorted(S)) /\ Range(Sorted(S)) = S
    BY <2>3, SortedFacts, SortedOnce
  <2>6. Range(rest) = S
    BY <2>5, Reversed
  <2> QED BY <2>4, <2>5, <2>6, Reversed, ReversedOnce
<1> HIDE DEF rest, go, stop
<1>6. Bounded(go)
  <2>1. Ready(go)
    BY <1>3, <1>5 DEF Ready
  <2> DEFINE n == Cardinality(Stock(go))
             m == Cardinality(go.original)
  <2>2. n \in Nat /\ m \in Nat /\ n <= 3 * m
    BY <1>2, <1>3, StockFacts
  <2>3. MaxAsked(go) = t.runs + 3 * m
    BY <1>3 DEF MaxAsked
  <2> HIDE DEF n, m
  <2>4. t.asked + n <= MaxAsked(go)
    BY <1>2, <2>2, <2>3
  <2> QED BY <1>2, <1>3, <2>1, <2>4 DEF Bounded, Minimising, n
<1>7. Bounded(stop)
  <2>1. t.asked <= MaxAsked(stop)
    <3>1. t.asked <= MaxAsked(t)
      BY WithinBound
    <3> QED BY <1>4, <3>1 DEF MaxAsked
  <2> QED BY <1>2, <1>4, <2>1 DEF Bounded
<1>8. triage'[w] = go \/ triage'[w] = stop
  BY <1>1 DEF TriageInv, Become
<1> QED BY <1>6, <1>7, <1>8

\* Leaving out an exchange is asked once.
LEMMA DropExchangeBounded ==
  ASSUME TriageInv, NEW w \in Workers, Bounded(triage[w]), DropExchange(w)
  PROVE  Bounded(triage'[w])
<1> DEFINE t == triage[w]
           i == <<Head(t.todo)>>
           next == [t EXCEPT !.todo = Tail(@)]
<1>1. t.phase = "session" /\ t.todo # <<>> /\ Ask(w, Without(t.content, i), next, next)
  BY DEF DropExchange
<1>2. /\ BudgetFields \subseteq DOMAIN t /\ t.content \subseteq t.original /\ t.base \subseteq t.original
      /\ t.phase \in Minimising /\ Ready(t)
  BY <1>1 DEF Bounded, Minimising
<1>3. /\ BudgetFields \subseteq DOMAIN next /\ next.original = t.original /\ next.content = t.content
      /\ next.base = t.base /\ next.runs = t.runs /\ next.asked = t.asked /\ next.phase = "session"
      /\ next.todo = Tail(t.todo)
  BY <1>1, <1>2 DEF BudgetFields, AllFields, Fields
<1> HIDE DEF next
<1>4. /\ Tail(t.todo) \in Seq(Nat) /\ IsInjective(Tail(t.todo)) /\ Range(Tail(t.todo)) \subseteq Range(t.todo)
      /\ Head(t.todo) \in Range(t.todo) /\ Head(t.todo) \notin Range(Tail(t.todo))
  BY <1>1, <1>2, FirstOnce DEF Ready
<1>5. \A k \in Range(t.todo) : <<k>> \in t.original
  BY <1>1, <1>2 DEF Ready
<1>6. Ready(next)
  BY <1>3, <1>4, <1>5 DEF Ready
<1>7. \A p, c : MayAsk(next, p, c) => MayAsk(t, p, c)
  BY <1>1, <1>3, <1>4 DEF MayAsk
<1>8. Follows(t, next)
  BY <1>2, <1>3, <1>6, <1>7 DEF Follows, Minimising
<1>9. i \in t.original /\ Len(i) = 1 /\ i[1] = Head(t.todo) /\ ~(1 > 1) /\ 1 \in 1..3
  BY <1>4, <1>5
<1> HIDE DEF i
<1>10. MayAsk(t, i, 1) /\ ~MayAsk(next, i, 1)
  BY <1>1, <1>3, <1>4, <1>9 DEF MayAsk
<1>11. Without(t.content, i) \subseteq t.original
  BY <1>2, Smaller
<1> QED BY <1>1, <1>2, <1>8, <1>9, <1>10, <1>11, AskBounded

\* The exchanges are done and the bodies begin.
LEMMA SessionEndBounded ==
  ASSUME TriageInv, NEW w \in Workers, Bounded(triage[w]), SessionEnd(w)
  PROVE  Bounded(triage'[w])
<1> DEFINE t == triage[w]
           list == Sorted(Children(t.content, <<>>))
           u == [t EXCEPT !.phase = "bodies", !.todo = list]
<1>1. t.phase = "session" /\ Become(w, u)
  BY DEF SessionEnd
<1>2. /\ BudgetFields \subseteq DOMAIN t /\ Tree(t.original) /\ t.content \subseteq t.original
      /\ t.base \subseteq t.original /\ t.phase \in Minimising
  BY <1>1 DEF Bounded, Minimising
<1>3. /\ BudgetFields \subseteq DOMAIN u /\ u.original = t.original /\ u.content = t.content
      /\ u.base = t.base /\ u.runs = t.runs /\ u.asked = t.asked /\ u.phase = "bodies" /\ u.todo = list
  BY <1>1, <1>2 DEF BudgetFields, AllFields, Fields
<1>4. list \in Seq(Nat) /\ IsInjective(list)
  <2>1. <<>> \in Seq(Nat)
    OBVIOUS
  <2> QED BY <1>2, <2>1, ListedOnce
<1> HIDE DEF u, list
<1>5. Ready(u)
  BY <1>3, <1>4 DEF Ready
<1>6. \A p, c : MayAsk(u, p, c) => MayAsk(t, p, c)
  BY <1>1, <1>3 DEF MayAsk
<1>7. Follows(t, u)
  BY <1>2, <1>3, <1>5, <1>6 DEF Follows, Minimising
<1> QED BY <1>1, <1>2, <1>7, BecomeBounded

\* What frames may ask lies in the body they belong to.
LEMMA MayPath ==
  ASSUME NEW original, NEW i, NEW work \in Seq(Stocked(original, i)), NEW p \in Paths, NEW c, MayWork(work, p, c)
  PROVE  Len(p) > 1 /\ p[1] = i
<1>1. PICK j \in DOMAIN work : May(work[j], p, c)
  BY DEF MayWork
<1>2. work[j] \in Frames(i)
  BY DEF Stocked
<1>3. Scope(work[j], p)
  BY <1>1 DEF May
<1> QED BY <1>2, <1>3, ScopeBelow

\* The keys of a place, and what is nested under them.
LEMMA PlaceStocked ==
  ASSUME NEW original, Tree(original), NEW content \in SUBSET original, NEW at \in Paths
  PROVE  /\ KeysOf(content, at) \in Stocked(original, at[1]) /\ Nested(at) \in Stocked(original, at[1])
         /\ \A p, c : May(KeysOf(content, at), p, c) => p \in Paths /\ IsPrefix(at, p) /\ Len(p) = Len(at) + 1
         /\ \A p, c : May(Nested(at), p, c) <=> p \in Paths /\ IsPrefix(at, p) /\ Len(p) >= Len(at) + 2
         /\ Apart(<<KeysOf(content, at), Nested(at)>>)
<1> DEFINE f == KeysOf(content, at)
           g == Nested(at)
           list == Sorted(Children(content, at))
           n == Len(at)
<1>1. at \in Seq(Nat) /\ n \in Nat
  BY DEF Paths
<1>2. list \in Seq(Nat) /\ IsInjective(list) /\ \A k \in Range(list) : Append(at, k) \in original
  BY <1>1, ListedOnce
<1> HIDE DEF list
<1>3. f = [kind |-> "keys", at |-> at, keys |-> list] /\ g = [kind |-> "nested", at |-> at, keys |-> <<>>]
  BY DEF KeysOf, Nested, Frame, list
<1>4. f \in Stocked(original, at[1])
  BY <1>2, <1>3 DEF Stocked, Frames
<1>5. <<>> \in Seq(Nat) /\ IsInjective(<<>>) /\ Range(<<>>) = {}
  BY DEF IsInjective, Range
<1>6. g \in Stocked(original, at[1])
  BY <1>3, <1>5 DEF Stocked, Frames
<1>7. \A p, c : May(f, p, c) => p \in Paths /\ IsPrefix(at, p) /\ Len(p) = n + 1
  BY <1>3 DEF May, Scope
<1>8. \A p, c : May(g, p, c) <=> p \in Paths /\ IsPrefix(at, p) /\ Len(p) >= n + 2
  BY <1>3 DEF May, Scope
<1> HIDE DEF f, g, n
<1>9. ~(n + 1 >= n + 2)
  BY <1>1
<1>10. \A p, c : ~(May(f, p, c) /\ May(g, p, c))
  BY <1>7, <1>8, <1>9
<1>11. Apart(<<f, g>>)
  BY <1>10, MayShort
<1> QED BY <1>4, <1>6, <1>7, <1>8, <1>11 DEF f, g, n

\* A body begins with frames that share no question.
LEMMA ReduceBounded ==
  ASSUME TriageInv, NEW w \in Workers, Bounded(triage[w]), triage[w].phase = "bodies", triage[w].todo # <<>>,
         NEW frames \in Seq(Stocked(triage[w].original, Head(triage[w].todo))), Apart(frames), Reduce(w, frames)
  PROVE  Bounded(triage'[w])
<1> DEFINE t == triage[w]
           i == Head(t.todo)
           u == [t EXCEPT !.phase = "keys", !.work = frames]
<1>1. Become(w, u)
  BY DEF Reduce
<1>2. /\ BudgetFields \subseteq DOMAIN t /\ Tree(t.original) /\ t.content \subseteq t.original
      /\ t.base \subseteq t.original /\ t.phase \in Minimising /\ Ready(t)
  BY DEF Bounded, Minimising
<1>3. /\ BudgetFields \subseteq DOMAIN u /\ u.original = t.original /\ u.content = t.content
      /\ u.base = t.base /\ u.runs = t.runs /\ u.asked = t.asked /\ u.phase = "keys" /\ u.todo = t.todo
      /\ u.work = frames
  BY <1>2 DEF BudgetFields, AllFields, Fields
<1> HIDE DEF u
<1>4. /\ t.todo \in Seq(Nat) /\ IsInjective(t.todo) /\ i \in Range(t.todo)
      /\ Range(Tail(t.todo)) \subseteq Range(t.todo)
  BY <1>2, FirstOnce DEF Ready
<1>5. Ready(u)
  BY <1>3, <1>4 DEF Ready
<1>6. ASSUME NEW p \in t.original, NEW c, MayAsk(u, p, c) PROVE MayAsk(t, p, c)
  <2>1. p \in Paths
    BY <1>2 DEF Tree, Session
  <2>2. Len(p) > 1 /\ (p[1] \in Range(Tail(t.todo)) \/ MayWork(frames, p, c))
    BY <1>3, <1>6 DEF MayAsk
  <2>3. MayWork(frames, p, c) => p[1] = i
    BY <2>1, MayPath
  <2>4. p[1] \in Range(t.todo)
    BY <1>4, <2>2, <2>3
  <2> QED BY <2>2, <2>4 DEF MayAsk
<1>7. Follows(t, u)
  BY <1>2, <1>3, <1>5, <1>6 DEF Follows, Minimising
<1> QED BY <1>1, <1>2, <1>7, BecomeBounded

\* Beginning with a JSON, query or XML body.
LEMMA BodyBounded ==
  ASSUME TriageInv, NEW w \in Workers, Bounded(triage[w]),
         MinimizeJSONBody(w) \/ MinimizeQueryParams(w) \/ MinimizeXMLBody(w)
  PROVE  Bounded(triage'[w])
<1> DEFINE t == triage[w]
           i == Head(t.todo)
           f == KeysOf(t.content, <<i>>)
           g == Nested(<<i>>)
<1>1. t.phase = "bodies" /\ t.todo # <<>> /\ (Reduce(w, <<f, g>>) \/ Reduce(w, <<f>>))
  BY DEF MinimizeJSONBody, MinimizeQueryParams, MinimizeXMLBody, Body, Keys, Current
<1>2. Tree(t.original) /\ t.content \subseteq t.original /\ Ready(t)
  BY <1>1 DEF Bounded, Minimising
<1>3. i \in Nat
  BY <1>1, <1>2, FirstOnce DEF Ready
<1>4. <<i>> \in Paths /\ <<i>>[1] = i
  BY <1>3 DEF Paths
<1> DEFINE at == <<i>>
<1>5. at \in Paths /\ at[1] = i
  BY <1>4
<1> HIDE DEF at
<1>6. /\ KeysOf(t.content, at) \in Stocked(t.original, at[1]) /\ Nested(at) \in Stocked(t.original, at[1])
      /\ Apart(<<KeysOf(t.content, at), Nested(at)>>)
  BY <1>2, <1>5, PlaceStocked
<1>7. f \in Stocked(t.original, i) /\ g \in Stocked(t.original, i) /\ Apart(<<f, g>>)
  BY <1>5, <1>6 DEF at
<1> HIDE DEF f, g
<1>8. <<f, g>> \in Seq(Stocked(t.original, i)) /\ <<f>> \in Seq(Stocked(t.original, i))
  BY <1>7
<1>9. Apart(<<f>>)
  BY MayShort
<1> QED BY <1>1, <1>7, <1>8, <1>9, ReduceBounded

\* The next body.
LEMMA NextBounded ==
  ASSUME TriageInv, NEW w \in Workers, Bounded(triage[w]), triage[w].phase \in {"bodies", "keys", "parts"},
         triage[w].todo # <<>>,
         NEW u, Become(w, u), BudgetFields \subseteq DOMAIN u, u.original = triage[w].original,
         u.content \subseteq u.original, u.base \subseteq u.original, u.runs = triage[w].runs,
         u.asked = triage[w].asked, u.phase = "bodies", u.todo = Tail(triage[w].todo)
  PROVE  Bounded(triage'[w])
<1> DEFINE t == triage[w]
<1>1. t.phase \in Minimising /\ Ready(t)
  BY DEF Bounded, Minimising
<1>2. /\ Tail(t.todo) \in Seq(Nat) /\ IsInjective(Tail(t.todo))
      /\ Range(Tail(t.todo)) \subseteq Range(t.todo)
  BY <1>1, FirstOnce DEF Ready
<1>3. Ready(u)
  BY <1>2 DEF Ready
<1>4. \A p, c : MayAsk(u, p, c) => MayAsk(t, p, c)
  BY <1>2 DEF MayAsk
<1>5. Follows(t, u)
  BY <1>3, <1>4 DEF Follows, Minimising
<1> QED BY <1>1, <1>5, BecomeBounded

\* A body skipped, or done.
LEMMA SkipBounded ==
  ASSUME TriageInv, NEW w \in Workers, Bounded(triage[w]), SkipBody(w) \/ KeysEnd(w) \/ PartsEnd(w)
  PROVE  Bounded(triage'[w])
<1> DEFINE t == triage[w]
           a == [t EXCEPT !.todo = Tail(@)]
           b == BodyEnd(t)
<1>1. \/ t.phase = "bodies" /\ t.todo # <<>> /\ Become(w, a)
      \/ t.phase \in {"keys", "parts"} /\ Become(w, b)
  BY DEF SkipBody, Body, KeysEnd, PartsEnd
<1>2. /\ BudgetFields \subseteq DOMAIN t /\ t.content \subseteq t.original /\ t.base \subseteq t.original
      /\ Ready(t)
  BY <1>1 DEF Bounded, Minimising
<1>3. t.phase \in {"keys", "parts"} => t.todo # <<>>
  BY <1>2 DEF Ready
<1>4. /\ BudgetFields \subseteq DOMAIN a /\ a.original = t.original /\ a.content = t.content
      /\ a.base = t.base /\ a.runs = t.runs /\ a.asked = t.asked /\ a.phase = t.phase /\ a.todo = Tail(t.todo)
  BY <1>2 DEF BudgetFields, AllFields, Fields
<1>5. /\ BudgetFields \subseteq DOMAIN b /\ b.original = t.original /\ b.content = t.content
      /\ b.base = t.base /\ b.runs = t.runs /\ b.asked = t.asked /\ b.phase = "bodies" /\ b.todo = Tail(t.todo)
  BY <1>2 DEF BodyEnd, BudgetFields, AllFields, Fields
<1> HIDE DEF a, b
<1>6. CASE t.phase = "bodies" /\ t.todo # <<>> /\ Become(w, a)
  BY <1>2, <1>4, <1>6, NextBounded
<1>7. CASE t.phase \in {"keys", "parts"} /\ Become(w, b)
  BY <1>2, <1>3, <1>5, <1>7, NextBounded
<1> QED BY <1>1, <1>6, <1>7

\* The end of the bodies.
LEMMA BodiesEndBounded ==
  ASSUME TriageInv, NEW w \in Workers, Bounded(triage[w]), BodiesEnd(w)
  PROVE  Bounded(triage'[w])
<1> DEFINE t == triage[w]
           u == [t EXCEPT !.phase = "done"]
<1>1. t.phase = "bodies" /\ Become(w, u)
  BY DEF BodiesEnd
<1>2. /\ BudgetFields \subseteq DOMAIN t /\ t.content \subseteq t.original /\ t.base \subseteq t.original
      /\ t.phase \in Minimising
  BY <1>1 DEF Bounded, Minimising
<1>3. /\ BudgetFields \subseteq DOMAIN u /\ u.original = t.original /\ u.content = t.content
      /\ u.base = t.base /\ u.runs = t.runs /\ u.asked = t.asked /\ u.phase = "done"
  BY <1>2 DEF BudgetFields, AllFields, Fields
<1> HIDE DEF u
<1>4. Follows(t, u)
  BY <1>2, <1>3 DEF Follows, MayAsk
<1> QED BY <1>1, <1>2, <1>4, BecomeBounded

\* Two paths are equal when they take the same steps.
LEMMA SamePath ==
  ASSUME NEW x \in Seq(Nat), NEW y \in Seq(Nat), Len(x) = Len(y), \A j \in 1..Len(x) : x[j] = y[j]
  PROVE  x = y
OBVIOUS

\* A part of an exchange is two steps from the session.
LEMMA OneMore == ASSUME NEW x \in Nat, NEW k \in Nat PROVE Append(<<x>>, k) = <<x, k>>
<1>1. ASSUME NEW s \in Seq(Nat), NEW n, Len(s) = n
      PROVE  /\ Append(s, k) \in Seq(Nat) /\ Len(Append(s, k)) = n + 1
             /\ Append(s, k)[n + 1] = k /\ \A j \in 1..n : Append(s, k)[j] = s[j]
  BY <1>1
<1> DEFINE s == <<x>>
           a == Append(s, k)
           b == <<x, k>>
<1>2. s \in Seq(Nat) /\ Len(s) = 1 /\ s[1] = x
  OBVIOUS
<1>3. b \in Seq(Nat) /\ Len(b) = 2 /\ b[1] = x /\ b[2] = k
  OBVIOUS
<1> HIDE DEF s
<1>4. a \in Seq(Nat) /\ Len(a) = 1 + 1 /\ a[1 + 1] = k /\ \A j \in 1..1 : a[j] = s[j]
  BY Zenon, <1>1, <1>2
<1> HIDE DEF a, b
<1>5. Len(a) = 2 /\ \A j \in 1..2 : a[j] = b[j]
  <2>1. \A j \in 1..2 : j = 1 \/ j = 2
    OBVIOUS
  <2>2. 1 \in 1..1 /\ 1 + 1 = 2
    OBVIOUS
  <2> QED BY <1>2, <1>3, <1>4, <2>1, <2>2
<1>6. a = b
  BY Zenon, <1>3, <1>4, <1>5, SamePath
<1> QED BY <1>6 DEF a, b, s

\* Beginning with a multipart body.
LEMMA MultipartBounded ==
  ASSUME TriageInv, NEW w \in Workers, Bounded(triage[w]), MinimizeMultipartBody(w)
  PROVE  Bounded(triage'[w])
<1> DEFINE t == triage[w]
           i == Head(t.todo)
           parts == Reverse(Sorted(Children(t.content, <<i>>)))
           u == [t EXCEPT !.phase = "parts", !.work = parts, !.base = t.content]
           v == [t EXCEPT !.todo = Tail(@)]
<1>1. t.phase = "bodies" /\ t.todo # <<>> /\ (Become(w, u) \/ Become(w, v))
  BY DEF MinimizeMultipartBody, Body, Current
<1>2. /\ BudgetFields \subseteq DOMAIN t /\ Tree(t.original) /\ t.content \subseteq t.original
      /\ t.base \subseteq t.original /\ t.phase \in Minimising /\ Ready(t)
  BY <1>1 DEF Bounded, Minimising
<1>3. /\ BudgetFields \subseteq DOMAIN u /\ u.original = t.original /\ u.content = t.content
      /\ u.base = t.content /\ u.runs = t.runs /\ u.asked = t.asked /\ u.phase = "parts" /\ u.todo = t.todo
      /\ u.work = parts
  BY <1>2 DEF BudgetFields, AllFields, Fields
<1>4. /\ BudgetFields \subseteq DOMAIN v /\ v.original = t.original /\ v.content = t.content
      /\ v.base = t.base /\ v.runs = t.runs /\ v.asked = t.asked /\ v.phase = "bodies" /\ v.todo = Tail(t.todo)
  BY <1>1, <1>2 DEF BudgetFields, AllFields, Fields
<1>5. /\ t.todo \in Seq(Nat) /\ IsInjective(t.todo) /\ i \in Nat /\ i \in Range(t.todo)
      /\ Range(Tail(t.todo)) \subseteq Range(t.todo)
  BY <1>1, <1>2, FirstOnce DEF Ready
<1>6. /\ parts \in Seq(Nat) /\ IsInjective(parts)
      /\ \A k \in Range(parts) : <<i, k>> \in t.original
  <2> DEFINE at == <<i>>
             list == Sorted(Children(t.content, at))
  <2>1. at \in Seq(Nat) /\ \A k \in Nat : Append(at, k) = <<i, k>>
    BY <1>5, OneMore
  <2> HIDE DEF at
  <2>2. list \in Seq(Nat) /\ IsInjective(list) /\ \A k \in Range(list) : Append(at, k) \in t.original
    BY <1>2, <2>1, ListedOnce
  <2>4. \A k \in Range(list) : k \in Nat
    BY <2>2 DEF Range
  <2>3. parts = Reverse(list)
    BY DEF at
  <2> HIDE DEF list, parts
  <2> QED BY <2>1, <2>2, <2>3, <2>4, Reversed, ReversedOnce
<1> HIDE DEF u, v, parts, i
<1>7. Ready(u)
  BY <1>1, <1>3, <1>5, <1>6 DEF Ready, i
<1>8. \A p, c : MayAsk(u, p, c) => MayAsk(t, p, c)
  BY <1>1, <1>3, <1>5 DEF MayAsk, i
<1>9. Follows(t, u)
  BY <1>2, <1>3, <1>7, <1>8 DEF Follows, Minimising
<1>10. CASE Become(w, u)
  BY <1>2, <1>9, <1>10, BecomeBounded
<1>11. CASE Become(w, v)
  BY <1>1, <1>2, <1>4, <1>11, NextBounded
<1> QED BY <1>1, <1>10, <1>11

\* Leaving out a part is asked once.
LEMMA RemovePartBounded ==
  ASSUME TriageInv, NEW w \in Workers, Bounded(triage[w]), RemovePart(w)
  PROVE  Bounded(triage'[w])
<1> DEFINE t == triage[w]
           i == Head(t.todo)
           k == Head(t.work)
           next == [t EXCEPT !.work = Tail(@)]
           c == Reencode(Without(t.content, <<i, k>>), i, "multipart")
           back == [t EXCEPT !.content = t.base]
           u == BodyEnd(back)
<1>1. t.phase = "parts" /\ t.work # <<>> /\ IF cancelled THEN Become(w, u) ELSE Ask(w, c, next, next)
  BY DEF RemovePart
<1>2. /\ BudgetFields \subseteq DOMAIN t /\ t.content \subseteq t.original /\ t.base \subseteq t.original
      /\ t.phase \in Minimising /\ Ready(t)
  BY <1>1 DEF Bounded, Minimising
<1>3. /\ BudgetFields \subseteq DOMAIN next /\ next.original = t.original /\ next.content = t.content
      /\ next.base = t.base /\ next.runs = t.runs /\ next.asked = t.asked /\ next.phase = "parts"
      /\ next.todo = t.todo /\ next.work = Tail(t.work)
  BY <1>1, <1>2 DEF BudgetFields, AllFields, Fields
<1>4. /\ BudgetFields \subseteq DOMAIN u /\ u.original = t.original /\ u.content = t.base
      /\ u.base = t.base /\ u.runs = t.runs /\ u.asked = t.asked /\ u.phase = "bodies"
      /\ u.todo = Tail(t.todo)
  <2>1. /\ BudgetFields \subseteq DOMAIN back /\ back.original = t.original /\ back.content = t.base
        /\ back.base = t.base /\ back.runs = t.runs /\ back.asked = t.asked /\ back.todo = t.todo
    BY <1>2 DEF BudgetFields, AllFields, Fields
  <2> HIDE DEF back
  <2> QED BY <2>1 DEF BodyEnd, BudgetFields, AllFields, Fields
<1> HIDE DEF next, u, back
<1>5. /\ t.todo \in Seq(Nat) /\ IsInjective(t.todo) /\ t.todo # <<>>
      /\ t.work \in Seq(Nat) /\ IsInjective(t.work) /\ \A x \in Range(t.work) : <<i, x>> \in t.original
  BY <1>1, <1>2 DEF Ready
<1>6. i \in Nat /\ i \notin Range(Tail(t.todo))
  BY <1>5, FirstOnce
<1>7. /\ k \in Nat /\ k \in Range(t.work) /\ k \notin Range(Tail(t.work))
      /\ Tail(t.work) \in Seq(Nat) /\ IsInjective(Tail(t.work)) /\ Range(Tail(t.work)) \subseteq Range(t.work)
  BY <1>1, <1>5, FirstOnce
<1>8. CASE cancelled
  BY <1>1, <1>2, <1>4, <1>5, <1>8, NextBounded
<1>9. CASE ~cancelled
  <2>1. Ready(next)
    BY <1>3, <1>5, <1>7 DEF Ready
  <2>2. \A p, x : MayAsk(next, p, x) => MayAsk(t, p, x)
    BY <1>1, <1>3, <1>7 DEF MayAsk
  <2>3. Follows(t, next)
    BY <1>2, <1>3, <2>1, <2>2 DEF Follows, Minimising
  <2> DEFINE q == <<i, k>>
  <2>4. q \in t.original /\ q[1] = i /\ q[2] = k /\ Len(q) = 2 /\ 2 > 1 /\ 1 \in 1..3
    BY <1>5, <1>7
  <2>5. c \subseteq t.original
    BY <1>2, Smaller
  <2> HIDE DEF q, c, i, k
  <2>6. MayAsk(t, q, 1)
    BY <1>1, <1>7, <2>4 DEF MayAsk, i
  <2>7. ~MayAsk(next, q, 1)
    BY <1>3, <1>6, <1>7, <2>4 DEF MayAsk
  <2>8. Ask(w, c, next, next)
    BY <1>1, <1>9
  <2> QED BY <1>2, <2>3, <2>4, <2>5, <2>6, <2>7, <2>8, AskBounded
<1> QED BY <1>8, <1>9

\* Frames that ask no more than the one they replace.
LEMMA FramesFollow ==
  ASSUME NEW t, Bounded(t), t.phase = "keys", t.work # <<>>,
         NEW frames \in Seq(Stocked(t.original, Head(t.todo))), Apart(frames),
         \A p, x : MayWork(frames, p, x) => May(Head(t.work), p, x),
         NEW u, BudgetFields \subseteq DOMAIN u, u.original = t.original, u.content = t.content,
         u.base = t.base, u.runs = t.runs, u.asked = t.asked, u.phase = "keys", u.todo = t.todo,
         u.work = frames \o Tail(t.work)
  PROVE  /\ Follows(t, u) /\ t.phase \in Minimising
         /\ \A p \in t.original : \A x : May(Head(t.work), p, x) =>
              MayAsk(t, p, x) /\ (MayAsk(u, p, x) => MayWork(frames, p, x))
<1> DEFINE i == Head(t.todo)
           S == Stocked(t.original, i)
<1>1. /\ Tree(t.original) /\ t.content \subseteq t.original /\ t.base \subseteq t.original
      /\ t.phase \in Minimising /\ Ready(t)
  BY DEF Bounded, Minimising
<1>2. /\ t.todo \in Seq(Nat) /\ IsInjective(t.todo) /\ t.todo # <<>>
      /\ t.work \in Seq(S) /\ Apart(t.work)
  BY <1>1 DEF Ready
<1>3. i \notin Range(Tail(t.todo)) /\ Head(t.work) \in S
  BY <1>2, FirstOnce, MayHead
<1> HIDE DEF S
<1>4. /\ u.work \in Seq(S) /\ Apart(u.work)
      /\ \A p, x : MayWork(u.work, p, x) => MayWork(t.work, p, x)
      /\ \A p, x : May(Head(t.work), p, x) =>
           MayWork(t.work, p, x) /\ (MayWork(u.work, p, x) => MayWork(frames, p, x))
  <2>1. frames \in Seq(S)
    BY DEF S
  <2> DEFINE work == frames \o Tail(t.work)
  <2>2. /\ work \in Seq(S) /\ Apart(work)
        /\ \A p, x : MayWork(work, p, x) => MayWork(t.work, p, x)
        /\ \A p, x : May(Head(t.work), p, x) => /\ MayWork(t.work, p, x)
                                                /\ MayWork(work, p, x) => MayWork(frames, p, x)
    BY Zenon, <1>2, <2>1, Pushed
  <2>3. u.work = work
    OBVIOUS
  <2> HIDE DEF work
  <2> QED BY <2>2, <2>3
<1>5. Ready(u)
  BY <1>2, <1>4 DEF Ready, S
<1>6. \A p, x : MayAsk(u, p, x) => MayAsk(t, p, x)
  BY <1>4 DEF MayAsk
<1>7. Follows(t, u)
  BY <1>1, <1>5, <1>6 DEF Follows, Minimising
<1>8. ASSUME NEW p \in t.original, NEW x, May(Head(t.work), p, x)
      PROVE  MayAsk(t, p, x) /\ (MayAsk(u, p, x) => MayWork(frames, p, x))
  <2>1. p \in Paths
    BY <1>1 DEF Tree, Session
  <2>2. Len(p) > 1 /\ p[1] = i
    <3>1. Head(t.work) \in Frames(i) /\ Scope(Head(t.work), p)
      BY <1>3, <1>8 DEF S, Stocked, May
    <3> QED BY <2>1, <3>1, ScopeBelow
  <2>3. MayAsk(t, p, x)
    BY <1>4, <1>8, <2>2 DEF MayAsk
  <2>4. MayAsk(u, p, x) => MayWork(u.work, p, x)
    BY <1>3, <2>2 DEF MayAsk
  <2> QED BY <1>4, <1>8, <2>3, <2>4
<1> QED BY <1>1, <1>7, <1>8

\* A body without some of its keys: what is asked is asked of no frame that is left.
LEMMA VerifyBounded ==
  ASSUME TriageInv, NEW w \in Workers, Bounded(triage[w]),
         triage[w].phase = "keys", triage[w].work # <<>>,
         NEW content \in SUBSET triage[w].original,
         NEW a \in Seq(Stocked(triage[w].original, Head(triage[w].todo))), Apart(a),
         NEW b \in Seq(Stocked(triage[w].original, Head(triage[w].todo))), Apart(b),
         Verify(w, content, [triage[w] EXCEPT !.work = a \o Tail(@)], [triage[w] EXCEPT !.work = b \o Tail(@)]),
         \A p, x : MayWork(a, p, x) => May(Head(triage[w].work), p, x),
         \A p, x : MayWork(b, p, x) => May(Head(triage[w].work), p, x),
         NEW q \in triage[w].original, NEW z \in 1..3, May(Head(triage[w].work), q, z),
         ~MayWork(a, q, z), ~MayWork(b, q, z)
  PROVE  Bounded(triage'[w])
<1> DEFINE t == triage[w]
           i == Head(t.todo)
           trial == Reencode(content, i, t.kinds[i])
           yes == [t EXCEPT !.work = a \o Tail(@)]
           no == [t EXCEPT !.work = b \o Tail(@)]
<1>1. IF t.kinds[i] = "xml" /\ Children(content, <<i>>) = {} THEN Become(w, no) ELSE Ask(w, trial, yes, no)
  BY DEF Verify
<1>2. BudgetFields \subseteq DOMAIN t
  BY DEF Bounded
<1>3. /\ BudgetFields \subseteq DOMAIN yes /\ yes.original = t.original /\ yes.content = t.content
      /\ yes.base = t.base /\ yes.runs = t.runs /\ yes.asked = t.asked /\ yes.phase = "keys"
      /\ yes.todo = t.todo /\ yes.work = a \o Tail(t.work)
  BY <1>2 DEF BudgetFields, AllFields, Fields
<1>4. /\ BudgetFields \subseteq DOMAIN no /\ no.original = t.original /\ no.content = t.content
      /\ no.base = t.base /\ no.runs = t.runs /\ no.asked = t.asked /\ no.phase = "keys"
      /\ no.todo = t.todo /\ no.work = b \o Tail(t.work)
  BY <1>2 DEF BudgetFields, AllFields, Fields
<1>5. trial \subseteq t.original
  BY Smaller
<1> HIDE DEF yes, no, trial
<1>6. Follows(t, yes) /\ t.phase \in Minimising /\ MayAsk(t, q, z) /\ ~MayAsk(yes, q, z)
  BY <1>3, FramesFollow
<1>7. Follows(t, no) /\ ~MayAsk(no, q, z)
  BY <1>4, FramesFollow
<1>8. CASE t.kinds[i] = "xml" /\ Children(content, <<i>>) = {}
  BY <1>1, <1>6, <1>7, <1>8, BecomeBounded
<1>9. CASE ~(t.kinds[i] = "xml" /\ Children(content, <<i>>) = {})
  <2>1. Ask(w, trial, yes, no)
    BY <1>1, <1>9
  <2> QED BY <1>5, <1>6, <1>7, <2>1, AskBounded
<1> QED BY <1>8, <1>9

\* The questions of a frame, by its kind.
LEMMA MayFrame ==
  ASSUME NEW at, NEW keys, NEW p, NEW x
  PROVE  /\ May(Frame("keys", at, keys), p, x) <=>
              /\ p \in Paths /\ IsPrefix(at, p) /\ Len(p) = Len(at) + 1 /\ p[Len(p)] \in Range(keys)
              /\ x # 1 => p[Len(p)] # keys[1]
         /\ May(Frame("left", at, keys), p, x) <=>
              /\ p \in Paths /\ IsPrefix(at, p) /\ Len(p) = Len(at) + 1 /\ p[Len(p)] \in Range(keys)
              /\ x # 1 => p[Len(p)] # keys[1]
              /\ x = 2 => p[Len(p)] # keys[Len(keys) \div 2 + 1]
<1> DEFINE mid == Len(keys) \div 2
<1> HIDE DEF mid
<1> QED BY DEF May, Scope, Frame, mid

\* A key of a place.
LEMMA KeyPath ==
  ASSUME NEW at \in Paths, NEW k \in Nat
  PROVE  LET q == Append(at, k)
         IN  q \in Paths /\ IsPrefix(at, q) /\ IsPrefix(q, q) /\ Len(q) = Len(at) + 1 /\ q[Len(q)] = k
<1> DEFINE q == Append(at, k)
           n == Len(at)
<1>1. at \in Seq(Nat) /\ n \in Nat /\ DOMAIN at = 1..n
  BY DEF Paths
<1>2. q \in Seq(Nat) /\ Len(q) = n + 1 /\ q[n + 1] = k /\ \A j \in 1..n : q[j] = at[j]
  BY <1>1
<1>3. q \in Paths
  <2>1. n + 1 # 0 /\ Len(<<>>) = 0
    BY <1>1
  <2>2. q # <<>>
    BY Zenon, <1>2, <2>1
  <2> QED BY <1>2, <2>2 DEF Paths
<1>4. n <= n + 1 /\ n \in 0..(n + 1)
  BY <1>1
<1>5. SubSeq(at, 1, n) = SubSeq(q, 1, n)
  <2> DEFINE a == SubSeq(at, 1, n)
             b == SubSeq(q, 1, n)
  <2>1. a \in Seq(Nat) /\ Len(a) = n /\ \A j \in 1..n : a[j] = at[j]
    BY <1>1
  <2>2. b \in Seq(Nat) /\ Len(b) = n /\ \A j \in 1..n : b[j] = q[j]
    <3> HIDE DEF q, n
    <3> QED BY <1>1, <1>2, <1>4
  <2> HIDE DEF a, b, q, n
  <2>3. a = b
    BY <1>1, <1>2, <2>1, <2>2
  <2> QED BY <2>3 DEF a, b
<1> HIDE DEF q, n
<1>6. IsPrefix(at, q)
  BY <1>2, <1>4, <1>5 DEF IsPrefix, n
<1>7. IsPrefix(q, q)
  BY <1>1, <1>2 DEF IsPrefix
<1> QED BY <1>2, <1>3, <1>6, <1>7 DEF q, n

\* The frames that halving comes to, and the question that none of them repeats.
LEMMA HalfFrames ==
  ASSUME NEW original, NEW i, NEW at \in Paths, at[1] = i,
         NEW keys \in Seq(Nat), IsInjective(keys), Len(keys) > 1,
         \A k \in Range(keys) : Append(at, k) \in original
  PROVE  LET mid == Len(keys) \div 2
             left == SubSeq(keys, 1, mid)
             right == SubSeq(keys, mid + 1, Len(keys))
             whole == Frame("keys", at, keys)
             rest == Frame("left", at, keys)
             g == Frame("keys", at, left)
             h == Frame("keys", at, right)
             q == Append(at, keys[mid + 1])
         IN  /\ {rest, g, h} \subseteq Stocked(original, i) /\ q \in original
             /\ \A p, x : /\ May(rest, p, x) => May(whole, p, x)
                          /\ May(g, p, x) \/ May(h, p, x) => May(rest, p, x)
                          /\ ~(May(g, p, x) /\ May(h, p, x))
             /\ May(whole, q, 2) /\ ~May(rest, q, 2) /\ ~May(h, q, 2)
             /\ May(rest, q, 3) /\ ~May(g, q, 3) /\ ~May(h, q, 3)
<1> DEFINE mid == Len(keys) \div 2
           left == SubSeq(keys, 1, mid)
           right == SubSeq(keys, mid + 1, Len(keys))
           whole == Frame("keys", at, keys)
           rest == Frame("left", at, keys)
           g == Frame("keys", at, left)
           h == Frame("keys", at, right)
           k == keys[mid + 1]
           q == Append(at, k)
           first == keys[1]
<1>1. /\ left \in Seq(Nat) /\ IsInjective(left) /\ Range(left) \subseteq Range(keys)
      /\ right \in Seq(Nat) /\ IsInjective(right) /\ Range(right) \subseteq Range(keys)
      /\ Range(left) \cap Range(right) = {}
      /\ left[1] = first /\ first \in Range(left)
      /\ right[1] = k /\ k \in Range(right)
  BY HalvesOnce
<1>2. k \in Nat /\ k \in Range(keys)
  <2>1. \A x \in Range(keys) : x \in Nat
    BY DEF Range
  <2> HIDE DEF k, right
  <2> QED BY <1>1, <2>1
<1> HIDE DEF left, right, k, first
<1>3. q \in Paths /\ IsPrefix(at, q) /\ Len(q) = Len(at) + 1 /\ q[Len(q)] = k
  BY <1>2, KeyPath
<1>4. q \in original
  BY <1>2
<1>5. {rest, g, h} \subseteq Stocked(original, i)
  <2>1. rest \in Stocked(original, i)
    BY DEF Frame, Frames, Stocked
  <2>2. ASSUME NEW half \in Seq(Nat), IsInjective(half), Range(half) \subseteq Range(keys)
        PROVE  Frame("keys", at, half) \in Stocked(original, i)
    BY <2>2 DEF Frame, Frames, Stocked
  <2>3. g \in Stocked(original, i) /\ h \in Stocked(original, i)
    BY <1>1, <2>2
  <2> QED BY <2>1, <2>3
<1> DEFINE Place(p) == p \in Paths /\ IsPrefix(at, p) /\ Len(p) = Len(at) + 1
           Key(p) == p[Len(p)]
<1>6. ASSUME NEW p, NEW x
      PROVE  /\ May(whole, p, x) <=> Place(p) /\ Key(p) \in Range(keys) /\ (x # 1 => Key(p) # first)
             /\ May(rest, p, x) <=> /\ Place(p) /\ Key(p) \in Range(keys)
                                    /\ x # 1 => Key(p) # first
                                    /\ x = 2 => Key(p) # k
             /\ May(g, p, x) <=> Place(p) /\ Key(p) \in Range(left) /\ (x # 1 => Key(p) # first)
             /\ May(h, p, x) <=> Place(p) /\ Key(p) \in Range(right) /\ (x # 1 => Key(p) # k)
  <2>1. May(whole, p, x) <=> Place(p) /\ Key(p) \in Range(keys) /\ (x # 1 => Key(p) # first)
    BY Zenon, MayFrame DEF first
  <2>2. May(rest, p, x) <=> /\ Place(p) /\ Key(p) \in Range(keys)
                            /\ x # 1 => Key(p) # first
                            /\ x = 2 => Key(p) # k
    BY Zenon, MayFrame DEF first, k
  <2>3. ASSUME NEW ks
        PROVE  May(Frame("keys", at, ks), p, x) <=> Place(p) /\ Key(p) \in Range(ks) /\ (x # 1 => Key(p) # ks[1])
    BY Zenon, MayFrame
  <2>4. left[1] = first /\ right[1] = k
    BY <1>1
  <2>5. May(g, p, x) <=> Place(p) /\ Key(p) \in Range(left) /\ (x # 1 => Key(p) # first)
    <3>1. May(g, p, x) <=> Place(p) /\ Key(p) \in Range(left) /\ (x # 1 => Key(p) # left[1])
      BY Zenon, <2>3
    <3> HIDE DEF g, Place, Key
    <3> QED BY <2>4, <3>1
  <2>6. May(h, p, x) <=> Place(p) /\ Key(p) \in Range(right) /\ (x # 1 => Key(p) # k)
    <3>1. May(h, p, x) <=> Place(p) /\ Key(p) \in Range(right) /\ (x # 1 => Key(p) # right[1])
      BY Zenon, <2>3
    <3> HIDE DEF h, Place, Key
    <3> QED BY <2>4, <3>1
  <2> QED BY Zenon, <2>1, <2>2, <2>5, <2>6
<1>7. Place(q) /\ Key(q) = k
  BY <1>3
<1>8. k # first /\ k \notin Range(left)
  BY <1>1
<1> HIDE DEF whole, rest, g, h, q, Place, Key
<1>9. ASSUME NEW p, NEW x
      PROVE  /\ May(rest, p, x) => May(whole, p, x)
             /\ May(g, p, x) \/ May(h, p, x) => May(rest, p, x)
             /\ ~(May(g, p, x) /\ May(h, p, x))
  <2> DEFINE z == Key(p)
             here == Place(p)
  <2>1. /\ May(whole, p, x) <=> here /\ z \in Range(keys) /\ (x # 1 => z # first)
        /\ May(rest, p, x) <=> here /\ z \in Range(keys) /\ (x # 1 => z # first) /\ (x = 2 => z # k)
        /\ May(g, p, x) <=> here /\ z \in Range(left) /\ (x # 1 => z # first)
        /\ May(h, p, x) <=> here /\ z \in Range(right) /\ (x # 1 => z # k)
    BY <1>6
  <2> HIDE DEF z
  <2> QED BY <1>1, <2>1
<1>10. /\ May(whole, q, 2) /\ ~May(rest, q, 2) /\ ~May(h, q, 2)
       /\ May(rest, q, 3) /\ ~May(g, q, 3) /\ ~May(h, q, 3)
  <2>1. 2 # 1 /\ 3 # 1 /\ 3 # 2
    OBVIOUS
  <2> QED BY Zenon, <1>2, <1>6, <1>7, <1>8, <2>1
<1> QED BY <1>4, <1>5, <1>9, <1>10 DEF mid, left, right, whole, rest, g, h, k, q

\* One frame or two in the place of another.
LEMMA OneFrame ==
  ASSUME NEW S, NEW f, NEW g \in S, \A p, x : May(g, p, x) => May(f, p, x)
  PROVE  /\ <<g>> \in Seq(S) /\ Apart(<<g>>)
         /\ \A p, x : MayWork(<<g>>, p, x) => May(f, p, x)
         /\ \A p, x : ~May(g, p, x) => ~MayWork(<<g>>, p, x)
<1>1. <<g>> \in Seq(S)
  OBVIOUS
<1>2. Apart(<<g>>) /\ \A p, x : MayWork(<<g>>, p, x) <=> May(g, p, x)
  BY Zenon, MayShort
<1> QED BY Zenon, <1>1, <1>2

\* Two frames that share out the questions of one.
LEMMA TwoFrames ==
  ASSUME NEW S, NEW f, NEW g \in S, NEW h \in S, \A p, x : May(g, p, x) \/ May(h, p, x) => May(f, p, x),
         \A p, x : ~(May(g, p, x) /\ May(h, p, x))
  PROVE  /\ <<g, h>> \in Seq(S) /\ Apart(<<g, h>>)
         /\ \A p, x : MayWork(<<g, h>>, p, x) => May(f, p, x)
         /\ \A p, x : ~May(g, p, x) /\ ~May(h, p, x) => ~MayWork(<<g, h>>, p, x)
<1>1. <<g, h>> \in Seq(S)
  OBVIOUS
<1>2. Apart(<<g, h>>) /\ \A p, x : MayWork(<<g, h>>, p, x) <=> May(g, p, x) \/ May(h, p, x)
  BY Zenon, MayShort
<1> QED BY Zenon, <1>1, <1>2

\* Leaving out a key, or the one half of them and then the other.
LEMMA RemoveKeysBounded ==
  ASSUME TriageInv, NEW w \in Workers, Bounded(triage[w]), RemoveKeys(w)
  PROVE  Bounded(triage'[w])
<1> DEFINE t == triage[w]
           i == Head(t.todo)
           f == Head(t.work)
           at == f.at
           keys == f.keys
           Do(frames) == [t EXCEPT !.work = frames \o Tail(@)]
           mid == Len(keys) \div 2
           left == SubSeq(keys, 1, mid)
           right == SubSeq(keys, mid + 1, Len(keys))
           Half(ks) == Frame("keys", at, ks)
           Keep(ks) == Only(t.content, at, Range(ks))
           S == Stocked(t.original, i)
<1>1. /\ t.phase = "keys" /\ t.work # <<>>
      /\ \/ /\ f.kind = "keys" /\ Len(keys) = 0
            /\ Become(w, Do(<<>>))
         \/ /\ f.kind = "keys" /\ Len(keys) = 1
            /\ Verify(w, Without(t.content, Append(at, keys[1])), Do(<<>>), Do(<<>>))
         \/ /\ f.kind = "keys" /\ Len(keys) > 1
            /\ Verify(w, Keep(right), Do(<<Half(right)>>), Do(<<Frame("left", at, keys)>>))
         \/ /\ f.kind = "left"
            /\ Verify(w, Keep(left), Do(<<Half(left)>>),
                      Do(IF cancelled THEN <<>> ELSE <<Half(left), Half(right)>>))
  BY DEF RemoveKeys
<1>2. /\ BudgetFields \subseteq DOMAIN t /\ t.content \subseteq t.original /\ t.base \subseteq t.original
      /\ Ready(t)
  BY <1>1 DEF Bounded, Minimising
<1>3. t.work \in Seq(S) /\ Apart(t.work) /\ f \in S
  <2>1. t.work \in Seq(S) /\ Apart(t.work)
    BY <1>1, <1>2 DEF Ready
  <2> HIDE DEF S
  <2> QED BY <1>1, <2>1, MayHead
<1>4. /\ at \in Paths /\ at[1] = i /\ keys \in Seq(Nat) /\ IsInjective(keys)
      /\ f.kind = "left" => Len(keys) > 1
      /\ \A k \in Range(keys) : Append(at, k) \in t.original
      /\ f = Frame(f.kind, at, keys)
  BY <1>3 DEF Stocked, Frames, Frame
<1>5. <<>> \in Seq(S) /\ Apart(<<>>) /\ \A p, x : ~MayWork(<<>>, p, x)
  <2>1. <<>> \in Seq(S)
    OBVIOUS
  <2> QED BY Zenon, <2>1, MayShort
<1>7. /\ \A ks : Keep(ks) \subseteq t.original
      /\ \A q : Without(t.content, q) \subseteq t.original
  BY <1>2, Smaller
<1>8. ASSUME f.kind = "keys", Len(keys) = 0, Become(w, Do(<<>>)) PROVE Bounded(triage'[w])
  <2> DEFINE u == Do(<<>>)
  <2>1. Become(w, u)
    BY <1>8
  <2>2. /\ BudgetFields \subseteq DOMAIN u /\ u.original = t.original /\ u.content = t.content
        /\ u.base = t.base /\ u.runs = t.runs /\ u.asked = t.asked /\ u.phase = "keys"
        /\ u.todo = t.todo /\ u.work = <<>> \o Tail(t.work)
    BY <1>1, <1>2 DEF BudgetFields, AllFields, Fields
  <2> HIDE DEF u
  <2>3. \A p, x : MayWork(<<>>, p, x) => May(f, p, x)
    BY <1>5
  <2>4. Follows(t, u) /\ t.phase \in Minimising
    BY <1>1, <1>5, <2>2, <2>3, FramesFollow
  <2> QED BY <2>1, <2>4, BecomeBounded
<1>9. ASSUME f.kind = "keys", Len(keys) = 1,
             Verify(w, Without(t.content, Append(at, keys[1])), Do(<<>>), Do(<<>>))
      PROVE  Bounded(triage'[w])
  <2> DEFINE k == keys[1]
             q == Append(at, k)
             c == Without(t.content, q)
  <2>1. Verify(w, c, Do(<<>>), Do(<<>>)) /\ c \subseteq t.original
    BY <1>7, <1>9
  <2>2. k \in Nat /\ k \in Range(keys)
    BY <1>4, <1>9 DEF Range
  <2> HIDE DEF k
  <2>3. q \in t.original /\ q \in Paths /\ IsPrefix(at, q) /\ Len(q) = Len(at) + 1 /\ q[Len(q)] = k
    BY <1>4, <2>2, KeyPath
  <2> HIDE DEF q, c
  <2>4. May(f, q, 1)
    <3>1. May(Frame("keys", at, keys), q, 1)
      <4> HIDE DEF at, keys
      <4> QED BY <2>2, <2>3, MayFrame
    <3> QED BY <1>4, <1>9, <3>1
  <2>5. 1 \in 1..3
    OBVIOUS
  <2>6. \A p, x : MayWork(<<>>, p, x) => May(f, p, x)
    BY <1>5
  <2> QED BY <1>1, <1>5, <2>1, <2>3, <2>4, <2>5, <2>6, VerifyBounded
<1>10. ASSUME Len(keys) > 1
       PROVE  LET whole == Frame("keys", at, keys)
                  rest == Frame("left", at, keys)
                  g == Half(left)
                  h == Half(right)
                  q == Append(at, keys[mid + 1])
              IN  /\ rest \in S /\ g \in S /\ h \in S /\ q \in t.original
                  /\ \A p, x : /\ May(rest, p, x) => May(whole, p, x)
                               /\ May(g, p, x) \/ May(h, p, x) => May(rest, p, x)
                               /\ ~(May(g, p, x) /\ May(h, p, x))
                  /\ May(whole, q, 2) /\ ~May(rest, q, 2) /\ ~May(h, q, 2)
                  /\ May(rest, q, 3) /\ ~May(g, q, 3) /\ ~May(h, q, 3)
  <2> HIDE DEF at, keys, i
  <2> QED BY <1>4, <1>10, HalfFrames
<1> HIDE DEF left, right, mid, Half, Keep
<1>11. ASSUME f.kind = "keys", Len(keys) > 1,
              Verify(w, Keep(right), Do(<<Half(right)>>), Do(<<Frame("left", at, keys)>>))
       PROVE  Bounded(triage'[w])
  <2> DEFINE h == Half(right)
             rest == Frame("left", at, keys)
             q == Append(at, keys[mid + 1])
             c == Keep(right)
  <2>1. Verify(w, c, Do(<<h>>), Do(<<rest>>)) /\ c \subseteq t.original
    BY <1>7, <1>11
  <2>2. f = Frame("keys", at, keys)
    BY <1>4, <1>11
  <2>3. /\ rest \in S /\ h \in S /\ q \in t.original
        /\ \A p, x : (May(rest, p, x) => May(f, p, x)) /\ (May(h, p, x) => May(rest, p, x))
        /\ May(f, q, 2) /\ ~May(rest, q, 2) /\ ~May(h, q, 2)
    BY Zenon, <1>10, <1>11, <2>2
  <2> HIDE DEF h, rest, q, c
  <2>4. /\ <<h>> \in Seq(S) /\ Apart(<<h>>) /\ <<rest>> \in Seq(S) /\ Apart(<<rest>>)
        /\ \A p, x : MayWork(<<h>>, p, x) => May(f, p, x)
        /\ \A p, x : MayWork(<<rest>>, p, x) => May(f, p, x)
        /\ ~MayWork(<<h>>, q, 2) /\ ~MayWork(<<rest>>, q, 2)
    <3>1. \A p, x : May(h, p, x) => May(f, p, x)
      BY Zenon, <2>3
    <3> QED BY Zenon, <2>3, <3>1, OneFrame
  <2>5. 2 \in 1..3
    OBVIOUS
  <2> QED BY <1>1, <2>1, <2>3, <2>4, <2>5, VerifyBounded
<1>12. ASSUME f.kind = "left",
              Verify(w, Keep(left), Do(<<Half(left)>>),
                     Do(IF cancelled THEN <<>> ELSE <<Half(left), Half(right)>>))
       PROVE  Bounded(triage'[w])
  <2> DEFINE g == Half(left)
             h == Half(right)
             q == Append(at, keys[mid + 1])
             c == Keep(left)
             b == IF cancelled THEN <<>> ELSE <<g, h>>
  <2>1. Verify(w, c, Do(<<g>>), Do(b)) /\ c \subseteq t.original
    BY <1>7, <1>12
  <2>2. f = Frame("left", at, keys) /\ Len(keys) > 1
    BY <1>4, <1>12
  <2>3. /\ g \in S /\ h \in S /\ q \in t.original
        /\ \A p, x : May(g, p, x) \/ May(h, p, x) => May(f, p, x)
        /\ \A p, x : ~(May(g, p, x) /\ May(h, p, x))
        /\ May(f, q, 3) /\ ~May(g, q, 3) /\ ~May(h, q, 3)
    BY Zenon, <1>10, <2>2
  <2> HIDE DEF g, h, q, c
  <2>4. /\ <<g>> \in Seq(S) /\ Apart(<<g>>)
        /\ \A p, x : MayWork(<<g>>, p, x) => May(f, p, x)
        /\ ~MayWork(<<g>>, q, 3)
    <3>1. \A p, x : May(g, p, x) => May(f, p, x)
      BY Zenon, <2>3
    <3> QED BY Zenon, <2>3, <3>1, OneFrame
  <2>5. /\ <<g, h>> \in Seq(S) /\ Apart(<<g, h>>)
        /\ \A p, x : MayWork(<<g, h>>, p, x) => May(f, p, x)
        /\ ~MayWork(<<g, h>>, q, 3)
    <3>1. g \in S /\ h \in S
      BY <2>3
    <3>2. \A p, x : May(g, p, x) \/ May(h, p, x) => May(f, p, x)
      BY Zenon, <2>3
    <3>3. \A p, x : ~(May(g, p, x) /\ May(h, p, x))
      BY Zenon, <2>3
    <3>4. /\ <<g, h>> \in Seq(S) /\ Apart(<<g, h>>)
          /\ \A p, x : MayWork(<<g, h>>, p, x) => May(f, p, x)
          /\ \A p, x : ~May(g, p, x) /\ ~May(h, p, x) => ~MayWork(<<g, h>>, p, x)
      <4> HIDE DEF f, S, b
      <4> QED BY <3>1, <3>2, <3>3, TwoFrames
    <3> QED BY Zenon, <2>3, <3>4
  <2>6. /\ b \in Seq(S) /\ Apart(b)
        /\ \A p, x : MayWork(b, p, x) => May(f, p, x)
        /\ ~MayWork(b, q, 3)
    BY Zenon, <1>5, <2>5
  <2>7. 3 \in 1..3
    OBVIOUS
  <2> HIDE DEF b
  <2> QED BY <1>1, <2>1, <2>3, <2>4, <2>6, <2>7, VerifyBounded
<1> HIDE DEF Do
<1> QED BY Zenon, <1>1, <1>8, <1>9, <1>11, <1>12

\* Frames put one after the other ask what each of them asks.
LEMMA FlattenApart ==
  ASSUME NEW S, NEW ss \in Seq(Seq(S)), \A j \in DOMAIN ss : Apart(ss[j]),
         \A j, k \in DOMAIN ss : j # k => \A p, c : ~(MayWork(ss[j], p, c) /\ MayWork(ss[k], p, c))
  PROVE  /\ FlattenSeq(ss) \in Seq(S) /\ Apart(FlattenSeq(ss))
         /\ \A p, c : MayWork(FlattenSeq(ss), p, c) => \E j \in DOMAIN ss : MayWork(ss[j], p, c)
<1>1. CASE ss = <<>>
  <2>1. FlattenSeq(ss) = <<>>
    BY <1>1 DEF FlattenSeq
  <2>2. <<>> \in Seq(S)
    OBVIOUS
  <2>3. Apart(<<>>) /\ \A p, c : ~MayWork(<<>>, p, c)
    BY Zenon, MayShort
  <2> QED BY Zenon, <2>1, <2>2, <2>3
<1>2. CASE ss # <<>>
  <2> DEFINE n == Len(ss)
  <2>1. PICK g \in [1..n -> Seq(S)] :
          /\ FlattenSeq(ss) = g[n] /\ g[1] = ss[1]
          /\ \A j \in 2..n : g[j] = g[j - 1] \o ss[j]
    BY <1>2, FlattenFacts
  <2>2. n \in Nat /\ n >= 1 /\ DOMAIN ss = 1..n /\ \A j \in 1..n : ss[j] \in Seq(S)
    <3>1. n \in Nat /\ n # 0 /\ DOMAIN ss = 1..n /\ \A j \in 1..n : ss[j] \in Seq(S)
      BY <1>2
    <3> HIDE DEF n
    <3> QED BY <3>1
  <2> HIDE DEF n
  <2> DEFINE Upto(m) == \A p, c : MayWork(g[m], p, c) => \E j \in 1..m : MayWork(ss[j], p, c)
             B == {m \in 1..n : ~(Apart(g[m]) /\ Upto(m))}
  <2>3. B = {}
    <3> SUFFICES ASSUME B # {} PROVE FALSE
      OBVIOUS
    <3>1. B \in SUBSET Nat
      BY <2>2
    <3>2. PICK m \in B : \A o \in B : m <= o
      BY <3>1, NatLeast
    <3>3. m \in 1..n /\ ~(Apart(g[m]) /\ Upto(m))
      BY <3>2
    <3>4. CASE m = 1
      <4>1. 1 \in 1..1 /\ 1 \in DOMAIN ss
        BY <2>2
      <4>2. Apart(g[1]) /\ Upto(1)
        BY <2>1, <4>1
      <4> QED BY <3>3, <3>4, <4>2
    <3>5. CASE m # 1
      <4> DEFINE o == m - 1
      <4>1. m \in 2..n /\ o \in 1..n /\ ~(m <= o) /\ m \in DOMAIN ss
        BY <2>2, <3>3, <3>5
      <4>2. \A j \in 1..o : j # m /\ j \in DOMAIN ss /\ j \in 1..m
        BY <2>2, <3>3
      <4>3. m \in 1..m
        BY <3>3
      <4> DEFINE a == g[o]
                 b == ss[m]
      <4>4. a \in Seq(S) /\ b \in Seq(S) /\ g[m] = a \o b
        BY <2>1, <2>2, <4>1
      <4>5. Apart(a) /\ \A p, c : MayWork(a, p, c) => \E j \in 1..o : MayWork(ss[j], p, c)
        <5>1. o \notin B
          BY <3>2, <4>1
        <5> QED BY <4>1, <5>1
      <4>6. Apart(b)
        BY <4>1
      <4>7. ASSUME NEW p, NEW c, MayWork(a, p, c), MayWork(b, p, c) PROVE FALSE
        <5>1. PICK j \in 1..o : MayWork(ss[j], p, c)
          BY <4>5, <4>7
        <5>2. j # m /\ j \in DOMAIN ss
          BY <4>2
        <5> QED BY <4>1, <4>7, <5>1, <5>2
      <4> HIDE DEF a, o, B, Upto
      <4>8. /\ \A p, c : MayWork(a \o b, p, c) => MayWork(a, p, c) \/ MayWork(b, p, c)
            /\ Apart(a \o b)
        <5> HIDE DEF b
        <5>1. \A p, c : ~(MayWork(a, p, c) /\ MayWork(b, p, c))
          BY <4>7
        <5> QED BY <4>4, <4>5, <4>6, <5>1, MayConcat
      <4>9. ASSUME NEW p, NEW c, MayWork(g[m], p, c) PROVE \E j \in 1..m : MayWork(ss[j], p, c)
        <5>1. CASE MayWork(a, p, c)
          BY Zenon, <4>2, <4>5, <5>1
        <5>2. CASE MayWork(b, p, c)
          BY <4>3, <5>2
        <5> QED BY <4>4, <4>8, <4>9, <5>1, <5>2
      <4>10. Apart(g[m]) /\ Upto(m)
        BY <4>4, <4>8, <4>9 DEF Upto
      <4> QED BY <3>3, <4>10
    <3> QED BY <3>4, <3>5
  <2>4. n \in 1..n
    BY <2>2
  <2>5. g[n] \in Seq(S)
    BY <2>1, <2>4
  <2>6. Apart(g[n]) /\ Upto(n)
    BY <2>3, <2>4
  <2> QED BY <2>1, <2>2, <2>5, <2>6
<1> QED BY <1>1, <1>2

\* What lies below a key of a place.
LEMMA BelowKey ==
  ASSUME NEW at \in Paths, NEW k \in Nat, NEW p \in Paths, IsPrefix(Append(at, k), p)
  PROVE  IsPrefix(at, p) /\ p[Len(at) + 1] = k
<1> DEFINE n == Len(at)
           m == Len(p)
           q == Append(at, k)
           a == SubSeq(q, 1, n + 1)
           b == SubSeq(p, 1, n + 1)
<1>1. /\ at \in Seq(Nat) /\ p \in Seq(Nat) /\ n \in Nat /\ m \in Nat /\ DOMAIN p = 1..m
      /\ \A j \in 1..m : p[j] \in Nat
  BY DEF Paths
<1>2. q \in Seq(Nat) /\ Len(q) = n + 1 /\ q[n + 1] = k /\ \A j \in 1..n : q[j] = at[j]
  BY <1>1
<1>3. n + 1 <= m /\ a = b
  BY <1>2 DEF IsPrefix
<1>4. n <= m /\ n \in 0..m /\ n + 1 \in 0..m
  <2> HIDE DEF n, m, a, b
  <2> QED BY <1>1, <1>3
<1>5. \A j \in 1..(n + 1) : a[j] = q[j]
  <2> HIDE DEF q, n
  <2> QED BY <1>1, <1>2
<1>6. \A j \in 1..(n + 1) : b[j] = p[j]
  <2> HIDE DEF n
  <2> QED BY <1>1, <1>4
<1> DEFINE c == SubSeq(at, 1, n)
           d == SubSeq(p, 1, n)
<1>7. c \in Seq(Nat) /\ Len(c) = n /\ \A j \in 1..n : c[j] = at[j]
  BY <1>1
<1>8. d \in Seq(Nat) /\ Len(d) = n /\ \A j \in 1..n : d[j] = p[j]
  <2> HIDE DEF n
  <2> QED BY <1>1, <1>4
<1> HIDE DEF a, b, c, d, q, n, m
<1>9. \A j \in 1..n : j \in 1..(n + 1)
  BY <1>1
<1>10. n + 1 \in 1..(n + 1)
  BY <1>1
<1>11. c = d
  <2>1. ASSUME NEW j \in 1..n PROVE c[j] = d[j]
    <3>1. j \in 1..(n + 1)
      BY <1>9
    <3>2. c[j] = q[j]
      BY <1>2, <1>7
    <3>3. d[j] = b[j]
      BY <1>6, <1>8, <3>1
    <3> QED BY <1>3, <1>5, <3>1, <3>2, <3>3
  <2> QED BY <1>1, <1>7, <1>8, <2>1
<1>12. p[n + 1] = k
  BY <1>2, <1>3, <1>5, <1>6, <1>10
<1>13. IsPrefix(at, p)
  BY <1>4, <1>11 DEF IsPrefix, c, d, n, m
<1> QED BY <1>12, <1>13 DEF n

\* Going on below the keys that are left.
LEMMA DescendBounded ==
  ASSUME TriageInv, NEW w \in Workers, Bounded(triage[w]), Descend(w)
  PROVE  Bounded(triage'[w])
<1> DEFINE t == triage[w]
           i == Head(t.todo)
           f == Head(t.work)
           at == f.at
           inner(k) == Append(at, k)
           O == {k \in Children(t.content, at) : Children(t.content, inner(k)) # {}}
           objects == Sorted(O)
           Object(k) == <<KeysOf(t.content, inner(k)), Nested(inner(k))>>
           ss == [j \in DOMAIN objects |-> Object(objects[j])]
           frames == IF Len(at) - 1 < maxNestedDepth THEN FlattenSeq(ss) ELSE <<>>
           u == [t EXCEPT !.work = frames \o Tail(@)]
           S == Stocked(t.original, i)
<1>1. t.phase = "keys" /\ t.work # <<>> /\ f.kind = "nested" /\ Become(w, u)
  BY DEF Descend
<1>2. /\ BudgetFields \subseteq DOMAIN t /\ Tree(t.original) /\ t.content \subseteq t.original
      /\ t.base \subseteq t.original /\ Ready(t)
  BY <1>1 DEF Bounded, Minimising
<1>3. t.work \in Seq(S) /\ Apart(t.work) /\ f \in S
  <2>1. t.work \in Seq(S) /\ Apart(t.work)
    BY <1>1, <1>2 DEF Ready
  <2> HIDE DEF S
  <2> QED BY <1>1, <2>1, MayHead
<1>4. at \in Paths /\ at \in Seq(Nat) /\ at[1] = i /\ Len(at) \in Nat
  <2> HIDE DEF f, i
  <2>1. f \in Frames(i)
    BY <1>3 DEF Stocked
  <2>2. at \in Paths /\ at[1] = i
    BY <2>1 DEF Frames
  <2> QED BY <2>2 DEF Paths
<1>5. /\ BudgetFields \subseteq DOMAIN u /\ u.original = t.original /\ u.content = t.content
      /\ u.base = t.base /\ u.runs = t.runs /\ u.asked = t.asked /\ u.phase = "keys"
      /\ u.todo = t.todo /\ u.work = frames \o Tail(t.work)
  BY <1>1, <1>2 DEF BudgetFields, AllFields, Fields
<1> HIDE DEF u
<1>6. O \subseteq Nat /\ IsFiniteSet(O)
  <2>1. Session(t.content)
    BY <1>2, SessionSmaller DEF Tree
  <2>2. Children(t.content, at) \subseteq Nat /\ IsFiniteSet(Children(t.content, at))
    BY Zenon, <1>4, <2>1, ChildrenFacts
  <2> QED BY <2>2, FS_Subset
<1>7. objects \in Seq(Nat) /\ IsInjective(objects)
  <2> HIDE DEF O
  <2> QED BY <1>6, SortedFacts, SortedOnce
<1>8. ASSUME NEW p, NEW c PROVE May(f, p, c) <=> p \in Paths /\ IsPrefix(at, p) /\ Len(p) >= Len(at) + 2
  BY <1>1 DEF May, Scope
<1>9. ASSUME NEW k \in Nat
      PROVE  /\ Object(k) \in Seq(S) /\ Apart(Object(k))
             /\ \A p, c : MayWork(Object(k), p, c) => May(f, p, c) /\ p[Len(at) + 1] = k
  <2> DEFINE q == inner(k)
             x == KeysOf(t.content, q)
             y == Nested(q)
  <2>1. q \in Paths /\ Len(q) = Len(at) + 1
    BY <1>4, KeyPath
  <2>2. q[1] = i
    <3>1. at # <<>>
      BY <1>4 DEF Paths
    <3>2. \A a \in Seq(Nat) : a # <<>> => Append(a, k)[1] = a[1]
      <4> SUFFICES ASSUME NEW a \in Seq(Nat), a # <<>> PROVE Append(a, k)[1] = a[1]
        OBVIOUS
      <4> QED OBVIOUS
    <3> QED BY Zenon, <1>4, <3>1, <3>2
  <2>3. \A p \in Paths : IsPrefix(q, p) => IsPrefix(at, p) /\ p[Len(at) + 1] = k
    BY <1>4, BelowKey
  <2> HIDE DEF q
  <2>4. /\ x \in Stocked(t.original, q[1]) /\ y \in Stocked(t.original, q[1])
        /\ \A p, c : May(x, p, c) => p \in Paths /\ IsPrefix(q, p) /\ Len(p) = Len(q) + 1
        /\ \A p, c : May(y, p, c) <=> p \in Paths /\ IsPrefix(q, p) /\ Len(p) >= Len(q) + 2
        /\ Apart(<<x, y>>)
    BY <1>2, <2>1, PlaceStocked
  <2>5. x \in S /\ y \in S
    BY <2>2, <2>4
  <2> HIDE DEF x, y, S
  <2>6. <<x, y>> \in Seq(S)
    BY <2>5
  <2>7. \A p, c : MayWork(<<x, y>>, p, c) <=> May(x, p, c) \/ May(y, p, c)
    BY Zenon, MayShort
  <2>8. ASSUME NEW p, NEW c, MayWork(<<x, y>>, p, c) PROVE May(f, p, c) /\ p[Len(at) + 1] = k
    <3>1. p \in Paths /\ IsPrefix(q, p) /\ (Len(p) = Len(q) + 1 \/ Len(p) >= Len(q) + 2)
      BY <2>4, <2>7, <2>8
    <3>2. Len(p) >= Len(at) + 2
      <4> DEFINE m == Len(p)
                 n == Len(at)
      <4>1. m \in Nat /\ n \in Nat /\ (m = (n + 1) + 1 \/ m >= (n + 1) + 2)
        BY <1>4, <2>1, <3>1 DEF Paths
      <4> HIDE DEF m, n
      <4>2. m >= n + 2
        BY <4>1
      <4> QED BY <4>2 DEF m, n
    <3> QED BY <1>8, <2>3, <3>1, <3>2
  <2> QED BY <2>4, <2>6, <2>8 DEF x, y, q
<1> HIDE DEF objects
<1>10. /\ ss \in Seq(Seq(S)) /\ DOMAIN ss = DOMAIN objects
       /\ \A j \in DOMAIN ss : ss[j] = Object(objects[j]) /\ objects[j] \in Nat
  <2>1. \A j \in DOMAIN objects : objects[j] \in Nat
    BY <1>7
  <2>2. \A j \in DOMAIN objects : Object(objects[j]) \in Seq(S)
    BY <1>9, <2>1
  <2>3. DOMAIN objects = 1..Len(objects) /\ Len(objects) \in Nat
    BY <1>7
  <2> HIDE DEF Object, S
  <2> QED BY <2>1, <2>2, <2>3
<1> HIDE DEF ss, Object, S, f
<1>11. /\ FlattenSeq(ss) \in Seq(S) /\ Apart(FlattenSeq(ss))
       /\ \A p, c : MayWork(FlattenSeq(ss), p, c) => \E j \in DOMAIN ss : MayWork(ss[j], p, c)
  <2>1. \A j \in DOMAIN ss : Apart(ss[j])
    BY <1>9, <1>10
  <2>2. ASSUME NEW j \in DOMAIN ss, NEW k \in DOMAIN ss, j # k, NEW p, NEW c,
               MayWork(ss[j], p, c), MayWork(ss[k], p, c)
        PROVE  FALSE
    <3>1. p[Len(at) + 1] = objects[j] /\ p[Len(at) + 1] = objects[k]
      BY <1>9, <1>10, <2>2
    <3>2. objects[j] = objects[k] /\ j \in DOMAIN objects /\ k \in DOMAIN objects
      BY <1>10, <3>1
    <3> QED BY <1>7, <2>2, <3>2 DEF IsInjective
  <2> QED BY <1>10, <2>1, <2>2, FlattenApart
<1>12. frames \in Seq(S) /\ Apart(frames) /\ \A p, c : MayWork(frames, p, c) => May(f, p, c)
  <2>1. <<>> \in Seq(S)
    OBVIOUS
  <2>2. Apart(<<>>) /\ \A p, c : ~MayWork(<<>>, p, c)
    BY Zenon, MayShort
  <2>3. ASSUME NEW p, NEW c, MayWork(FlattenSeq(ss), p, c) PROVE May(f, p, c)
    <3>1. PICK j \in DOMAIN ss : MayWork(ss[j], p, c)
      BY <1>11, <2>3
    <3> QED BY <1>9, <1>10, <3>1
  <2> QED BY Zenon, <1>11, <2>1, <2>2, <2>3
<1> HIDE DEF frames
<1>13. Follows(t, u) /\ t.phase \in Minimising
  BY <1>1, <1>5, <1>12, FramesFollow DEF S, f
<1> QED BY <1>1, <1>13, BecomeBounded

\* Every step of a triage stays within the bound, stopped or not.
LEMMA StepBounded ==
  ASSUME TriageInv, NEW w \in Workers, Bounded(triage[w]), TriageStep(w)
  PROVE  Bounded(triage'[w])
<1>1. CASE ConfirmRun(w) \/ ConfirmEnd(w) \/ DropExchange(w) \/ SessionEnd(w)
  BY <1>1, ConfirmRunBounded, ConfirmEndBounded, DropExchangeBounded, SessionEndBounded
<1>2. CASE MinimizeJSONBody(w) \/ MinimizeQueryParams(w) \/ MinimizeXMLBody(w) \/ MinimizeMultipartBody(w)
  BY <1>2, BodyBounded, MultipartBounded
<1>3. CASE SkipBody(w) \/ KeysEnd(w) \/ PartsEnd(w) \/ BodiesEnd(w)
  BY <1>3, SkipBounded, BodiesEndBounded
<1>4. CASE RemoveKeys(w) \/ Descend(w) \/ RemovePart(w)
  BY <1>4, RemoveKeysBounded, DescendBounded, RemovePartBounded
<1> QED BY <1>1, <1>2, <1>3, <1>4 DEF TriageStep

\* One step more in front of a path.
LEMMA Longer ==
  ASSUME NEW i \in Nat, NEW b \in Seq(Nat)
  PROVE  LET r == <<i>> \o b
         IN  r \in Seq(Nat) /\ Len(r) = Len(b) + 1 /\ r[1] = i /\ \A j \in 1..Len(b) : r[j + 1] = b[j]
<1>1. ASSUME NEW a \in Seq(Nat), Len(a) = 1
      PROVE  /\ a \o b \in Seq(Nat) /\ Len(a \o b) = Len(b) + 1 /\ (a \o b)[1] = a[1]
             /\ \A j \in 1..Len(b) : (a \o b)[j + 1] = b[j]
  <2> DEFINE r == a \o b
             m == Len(b)
  <2>1. r \in Seq(Nat) /\ Len(r) = Len(a) + m /\ m \in Nat
    OBVIOUS
  <2>2. \A j \in 1..Len(a) : r[j] = a[j]
    OBVIOUS
  <2>3. \A j \in 1..m : r[Len(a) + j] = b[j]
    OBVIOUS
  <2> HIDE DEF r, m
  <2>4. 1 \in 1..Len(a) /\ \A j \in 1..m : Len(a) + j = j + 1
    BY <1>1, <2>1
  <2>5. r \in Seq(Nat) /\ Len(r) = m + 1 /\ r[1] = a[1] /\ \A j \in 1..m : r[j + 1] = b[j]
    BY <1>1, <2>1, <2>2, <2>3, <2>4
  <2> QED BY <2>5 DEF r, m
<1> DEFINE h == <<i>>
<1>2. h \in Seq(Nat) /\ Len(h) = 1 /\ h[1] = i
  OBVIOUS
<1> HIDE DEF h
<1>3. h \o b \in Seq(Nat) /\ Len(h \o b) = Len(b) + 1 /\ (h \o b)[1] = i /\ \A j \in 1..Len(b) : (h \o b)[j + 1] = b[j]
  BY <1>1, <1>2
<1> QED BY <1>3 DEF h

\* The way to a longer path.
LEMMA LongerWay ==
  ASSUME NEW i \in Nat, NEW b \in Seq(Nat), NEW n \in 1..(Len(b) + 1)
  PROVE  SubSeq(<<i>> \o b, 1, n) = IF n = 1 THEN <<i>> ELSE <<i>> \o SubSeq(b, 1, n - 1)
<1> DEFINE h == <<i>>
           m == Len(b)
           p == <<i>> \o b
           s == SubSeq(p, 1, n)
<1>1. m \in Nat /\ h \in Seq(Nat) /\ Len(h) = 1 /\ h[1] = i
  OBVIOUS
<1>2. p \in Seq(Nat) /\ Len(p) = m + 1 /\ p[1] = i /\ \A j \in 1..m : p[j + 1] = b[j]
  BY Longer
<1> HIDE DEF p
<1>3. n \in Nat /\ n >= 1 /\ n <= m + 1 /\ n \in 0..Len(p)
  <2> HIDE DEF m
  <2>1. n \in 1..(m + 1)
    BY DEF m
  <2> QED BY <1>1, <1>2, <2>1
<1>4. s \in Seq(Nat) /\ Len(s) = n /\ \A j \in 1..n : s[j] = p[j]
  <2> HIDE DEF m
  <2> QED BY <1>2, <1>3
<1>5. CASE n = 1
  <2> HIDE DEF s, h, m
  <2>1. \A j \in 1..1 : s[j] = h[j]
    <3>1. \A j \in 1..1 : j = 1
      OBVIOUS
    <3> QED BY <1>1, <1>2, <1>4, <1>5, <3>1
  <2>2. s = h
    BY <1>1, <1>4, <1>5, <2>1
  <2> QED BY <1>5, <2>2 DEF s, p, h
<1>6. CASE n # 1
  <2> DEFINE k == n - 1
             c == SubSeq(b, 1, k)
             r == h \o c
  <2>1. k \in Nat /\ k + 1 = n /\ k \in 0..m /\ \A j \in 1..k : j \in 1..m
    <3> HIDE DEF m
    <3> QED BY <1>1, <1>3, <1>6
  <2> HIDE DEF k
  <2>2. c \in Seq(Nat) /\ Len(c) = k /\ \A j \in 1..k : c[j] = b[j]
    BY <2>1
  <2> HIDE DEF c
  <2>3. r \in Seq(Nat) /\ Len(r) = k + 1 /\ r[1] = i /\ \A j \in 1..k : r[j + 1] = c[j]
    BY <2>2, Longer
  <2> HIDE DEF r, s, m, h
  <2>4. ASSUME NEW j \in 1..n PROVE s[j] = r[j]
    <3>1. CASE j = 1
      BY <1>2, <1>4, <2>3, <2>4, <3>1
    <3>2. CASE j # 1
      <4> DEFINE o == j - 1
      <4>1. o \in 1..k /\ o + 1 = j
        BY <1>3, <2>1, <3>2
      <4> HIDE DEF o
      <4>2. r[o + 1] = b[o] /\ p[o + 1] = b[o]
        BY <1>2, <2>1, <2>2, <2>3, <4>1
      <4> QED BY <1>4, <4>1, <4>2
    <3> QED BY <3>1, <3>2
  <2>5. s = r
    <3>1. s \in Seq(Nat) /\ r \in Seq(Nat) /\ Len(s) = Len(r) /\ Len(s) = n
      BY <1>4, <2>1, <2>3
    <3>2. \A j \in 1..Len(s) : s[j] = r[j]
      BY <2>4, <3>1
    <3> QED BY Zenon, <3>1, <3>2, SamePath
  <2> QED BY <1>6, <2>5 DEF s, r, c, k, h, p
<1> QED BY <1>5, <1>6

\* What is replayed of recorded requests has whatever its paths pass through.
LEMMA ContentTree ==
  ASSUME NEW entries \in Seq(AllEntries)
  PROVE  Tree(Content(entries))
<1>1. Session(Content(entries))
  BY ContentSession
<1>2. \A i \in DOMAIN entries : i \in Nat /\ entries[i] \in AllEntries
  OBVIOUS
<1>3. ASSUME NEW i \in DOMAIN entries
      PROVE  /\ entries[i].body \subseteq Seq(Nat)
             /\ \A b \in entries[i].body : \A m \in 1..Len(b) : SubSeq(b, 1, m) \in entries[i].body
  <2>1. PICK ref \in Refs : entries[i] = Exchange(ref)
    BY <1>2 DEF AllEntries
  <2> QED BY <2>1, BodyAssumption
<1> DEFINE F(j) == {<<j>>} \cup {<<j>> \o p : p \in entries[j].body}
<1>4. Content(entries) = UNION {F(j) : j \in DOMAIN entries}
  BY DEF Content
<1>5. ASSUME NEW i \in DOMAIN entries
      PROVE  <<i>> \in F(i) /\ \A b \in entries[i].body : <<i>> \o b \in F(i)
  OBVIOUS
<1> HIDE DEF F
<1>6. \A i \in DOMAIN entries : F(i) \subseteq Content(entries)
  BY <1>4
<1>7. \A i \in DOMAIN entries : <<i>> \in Content(entries)
  BY Zenon, <1>5, <1>6
<1>8. \A i \in DOMAIN entries : \A b \in entries[i].body : <<i>> \o b \in Content(entries)
  BY Zenon, <1>5, <1>6
<1>9. ASSUME NEW p \in Content(entries), NEW n \in 1..Len(p) PROVE SubSeq(p, 1, n) \in Content(entries)
  <2>1. PICK i \in DOMAIN entries : p = <<i>> \/ \E b \in entries[i].body : p = <<i>> \o b
    BY Zenon, <1>9 DEF Content
  <2>2. i \in Nat
    BY <1>2
  <2>3. CASE p = <<i>>
    <3>1. p \in Seq(Nat) /\ Len(p) = 1
      BY <2>2, <2>3
    <3>2. n = 1
      BY <3>1
    <3>3. SubSeq(p, 1, 1) = p
      <4>1. \A a \in Seq(Nat) : Len(a) = 1 => SubSeq(a, 1, 1) = a
        OBVIOUS
      <4> QED BY <3>1, <4>1
    <3> QED BY <1>9, <3>2, <3>3
  <2>4. ASSUME NEW b \in entries[i].body, p = <<i>> \o b PROVE SubSeq(p, 1, n) \in Content(entries)
    <3>1. b \in Seq(Nat)
      BY <1>3
    <3>2. Len(p) = Len(b) + 1
      BY <2>2, <2>4, <3>1, Longer
    <3>3. n \in 1..(Len(b) + 1)
      BY <3>2
    <3>4. SubSeq(<<i>> \o b, 1, n) = IF n = 1 THEN <<i>> ELSE <<i>> \o SubSeq(b, 1, n - 1)
      BY <2>2, <3>1, <3>3, LongerWay
    <3>5. n # 1 => SubSeq(b, 1, n - 1) \in entries[i].body
      <4> DEFINE m == Len(b)
      <4>1. m \in Nat /\ n \in 1..(m + 1)
        BY <3>1, <3>3
      <4>2. n # 1 => n - 1 \in 1..m
        <5> HIDE DEF m
        <5> QED BY <4>1
      <4> QED BY <1>3, <4>2
    <3>6. CASE n = 1
      <4>1. SubSeq(p, 1, n) = <<i>>
        BY Zenon, <2>4, <3>4, <3>6
      <4> QED BY <1>7, <4>1
    <3>7. CASE n # 1
      <4>1. SubSeq(p, 1, n) = <<i>> \o SubSeq(b, 1, n - 1)
        BY Zenon, <2>4, <3>4, <3>7
      <4> QED BY Zenon, <1>8, <3>5, <3>7, <4>1
    <3> QED BY <3>6, <3>7
  <2> QED BY <2>1, <2>3, <2>4
<1> QED BY <1>1, <1>9 DEF Tree

\* Confirmation begins within the bound.
LEMMA BeginBounded ==
  ASSUME TriageInv, NEW w \in Workers, NEW content, Tree(content), NEW kinds, NEW runs \in Nat, NEW minimize,
         Begin(w, content, kinds, runs, minimize)
  PROVE  Bounded(triage'[w]) /\ Alone(w)
<1>1. PICK flaky \in BOOLEAN, p \in content, q \in content, both \in BOOLEAN :
        Become(w, [phase |-> "confirm", content |-> content, kinds |-> kinds, runs |-> runs,
                   minimize |-> minimize, left |-> runs, reproduced |-> 0, todo |-> <<>>,
                   work |-> <<>>, base |-> content, original |-> content, asked |-> 0, flaky |-> flaky,
                   needs |-> IF both THEN {{p, q}} ELSE {{p}, {q}}])
  BY ZenonT(60) DEF Begin
<1> DEFINE u == [phase |-> "confirm", content |-> content, kinds |-> kinds, runs |-> runs,
                 minimize |-> minimize, left |-> runs, reproduced |-> 0, todo |-> <<>>,
                 work |-> <<>>, base |-> content, original |-> content, asked |-> 0, flaky |-> flaky,
                 needs |-> IF both THEN {{p, q}} ELSE {{p}, {q}}]
<1>2. /\ BudgetFields \subseteq DOMAIN u /\ u.phase = "confirm" /\ u.content = content /\ u.original = content
      /\ u.base = content /\ u.runs = runs /\ u.left = runs /\ u.asked = 0
  BY DEF BudgetFields, AllFields, Fields
<1>3. Become(w, u)
  BY <1>1
<1> HIDE DEF u
<1>4. Bounded(u)
  BY <1>2 DEF Bounded
<1>5. Alone(w)
  BY Zenon, <1>3 DEF Become, Alone
<1>6. triage'[w] = u
  BY <1>3 DEF Become, TriageInv
<1> QED BY <1>4, <1>5, <1>6

\* The findings in hand, within the bound of their replays.
BudgetInv ==
  /\ cfg \in Configs
  /\ \A w \in Workers : triage[w] = Idle \/ (worker[w].pc = "triage" /\ Bounded(triage[w]))

\* Every step keeps the findings in hand within the bound.
LEMMA NextBudget == TaskInv /\ ShapeInv /\ TriageInv /\ BudgetInv /\ [Next]_vars => BudgetInv'
<1> SUFFICES ASSUME TaskInv, ShapeInv, TriageInv, BudgetInv, [Next]_vars PROVE BudgetInv'
  OBVIOUS
<1> DEFINE Within(t, me) == t = Idle \/ (me.pc = "triage" /\ Bounded(t))
<1>1. CASE UNCHANGED <<cfg, worker, triage>>
  BY <1>1 DEF BudgetInv
<1>2. ASSUME NEW w \in Workers, cfg' = cfg,
             triage' = triage \/ Alone(w),
             worker' = worker \/ \E state : Update(w, state),
             Within(triage'[w], worker'[w])
      PROVE  BudgetInv'
  <2>1. ASSUME NEW v \in Workers PROVE Within(triage'[v], worker'[v])
    <3>1. CASE v = w
      BY <1>2, <3>1
    <3>2. CASE v # w
      <4>1. triage'[v] = triage[v]
        BY <1>2, <3>2 DEF TriageInv, Alone
      <4>2. worker'[v] = worker[v]
        BY <1>2, <3>2 DEF TaskInv, Update
      <4> QED BY <4>1, <4>2 DEF BudgetInv
    <3> QED BY <3>1, <3>2
  <2>2. cfg' \in Configs
    BY <1>2 DEF BudgetInv
  <2> QED BY <2>1, <2>2 DEF BudgetInv, Bounded
<1>3. CASE Generate \/ Send \/ Cancel \/ UNCHANGED vars
  BY <1>1, <1>3 DEF Generate, Send, Cancel, vars, runVars
<1>4. ASSUME NEW w \in Workers, WorkerStep(w) PROVE BudgetInv'
  <2> DEFINE me == worker[w]
  <2>1. Shape(me) /\ Within(triage[w], me)
    BY DEF ShapeInv, BudgetInv
  <2>2. ASSUME cfg' = cfg, triage' = triage, me.pc # "triage", \E state : Update(w, state)
        PROVE  BudgetInv'
    <3>1. triage[w] = Idle
      BY <2>1, <2>2
    <3>2. triage'[w] = Idle
      BY <2>2, <3>1
    <3> QED BY <1>2, <2>2, <3>2
  <2>3. CASE FindingToPlanner(w)
    <3>1. cfg' = cfg /\ me.pc = "credit" /\ \E state : Update(w, state)
      BY <2>3 DEF FindingToPlanner, runVars
    <3>2. CASE UNCHANGED triage
      BY <2>2, <3>1, <3>2
    <3>3. ASSUME NEW broken, Begin(w, Content(me.entries), Kinds(me.entries, broken), cfg.confirmRuns, cfg.minimize),
                 Update(w, [me EXCEPT !.pc = "triage"])
          PROVE  BudgetInv'
      <4>1. me.entries \in Seq(AllEntries) /\ "pc" \in DOMAIN me
        BY <2>1, <3>1 DEF Shape, Handling
      <4>2. cfg.confirmRuns \in Nat
        BY LimitsAssumption DEF BudgetInv
      <4>3. Tree(Content(me.entries))
        BY <4>1, ContentTree
      <4>4. worker'[w].pc = "triage"
        BY <3>3, <4>1 DEF Update, TaskInv
      <4> HIDE DEF me
      <4>5. Bounded(triage'[w]) /\ Alone(w)
        BY <3>3, <4>2, <4>3, BeginBounded
      <4> QED BY <1>2, <3>1, <4>4, <4>5
    <3> QED BY <2>3, <3>2, <3>3 DEF FindingToPlanner
  <2>4. CASE Triaging(w)
    <3>1. TriageStep(w) /\ cfg' = cfg /\ worker' = worker /\ me.pc = "triage"
      BY <2>4 DEF Triaging, runVars
    <3>2. triage[w].phase # "idle"
      BY Zenon, <3>1 DEF TriageStep, ConfirmRun, ConfirmEnd, DropExchange, SessionEnd, MinimizeJSONBody,
             MinimizeQueryParams, MinimizeXMLBody, MinimizeMultipartBody, SkipBody, Body, RemoveKeys, Descend,
             KeysEnd, RemovePart, PartsEnd, BodiesEnd
    <3>3. triage[w] # Idle
      BY <3>2 DEF Idle
    <3>4. Bounded(triage'[w])
      BY <2>1, <3>1, <3>3, StepBounded
    <3>5. Alone(w)
      BY <3>1, TriageStepAlone
    <3> QED BY <1>2, <3>1, <3>4, <3>5
  <2>5. CASE HitDone(w)
    <3>1. triage' = [triage EXCEPT ![w] = Idle] /\ cfg' = cfg /\ \E state : Update(w, state)
      BY <2>5 DEF HitDone, runVars
    <3>2. triage'[w] = Idle
      BY <3>1 DEF TriageInv
    <3>3. Alone(w)
      BY Zenon, <3>1 DEF Alone
    <3> QED BY <1>2, <3>1, <3>2, <3>3
  <2>6. ASSUME \/ Receive(w) \/ Replay(w) \/ Respond(w) \/ RewardEndpoint(w) \/ DetectAll(w)
               \/ SkipHit(w) \/ CreateFinding(w) \/ FindingToFeedback(w) \/ TaskDone(w)
        PROVE  cfg' = cfg /\ triage' = triage /\ me.pc # "triage" /\ \E state : Update(w, state)
    <3>1. CASE Receive(w)
      BY <3>1 DEF Receive, Free
    <3>2. CASE Replay(w)
      BY <3>2 DEF Replay, runVars
    <3>3. CASE Respond(w) \/ RewardEndpoint(w) \/ DetectAll(w) \/ SkipHit(w)
      BY Zenon, <3>3 DEF Respond, RewardEndpoint, DetectAll, SkipHit, runVars
    <3>4. CASE CreateFinding(w) \/ FindingToFeedback(w) \/ TaskDone(w)
      BY Zenon, <3>4 DEF CreateFinding, FindingToFeedback, TaskDone, runVars
    <3> QED BY <2>6, <3>1, <3>2, <3>3, <3>4
  <2> QED BY <1>4, <2>2, <2>3, <2>4, <2>5, <2>6 DEF WorkerStep
<1> QED BY <1>3, <1>4 DEF Next

\* What the run counts, within its limits.
CountInv ==
  /\ cfg \in Configs
  /\ sent \in Nat /\ sent <= cfg.maxTests
  /\ pending # NoTask => sent < cfg.maxTests
  /\ found \in [SeedIds -> Nat] /\ Findings <= cfg.maxFindings

\* Every step keeps the tests and the findings within their limits.
LEMMA NextCount == ShapeInv /\ CountInv /\ [Next]_vars => CountInv'
<1> SUFFICES ASSUME ShapeInv, CountInv, [Next]_vars PROVE CountInv'
  OBVIOUS
<1>1. cfg.maxTests \in Nat /\ cfg.maxFindings \in Nat
  BY LimitsAssumption DEF CountInv
<1>2. ASSUME found' = found PROVE Findings' = Findings
  BY <1>2 DEF Findings, SumFunction, SumFunctionOnSet, FoldFunctionOnSet, MapThenFoldSet
<1>3. CASE UNCHANGED <<cfg, sent, pending, found>>
  BY <1>2, <1>3 DEF CountInv
<1>4. CASE Generate
  <2>1. cfg' = cfg /\ sent' = sent /\ found' = found /\ ~(sent >= cfg.maxTests)
    BY <1>4 DEF Generate, LimitReached
  <2>2. sent < cfg.maxTests
    BY <1>1, <2>1 DEF CountInv
  <2> QED BY <1>2, <2>1, <2>2 DEF CountInv
<1>5. CASE Send
  <2>1. cfg' = cfg /\ found' = found /\ pending # NoTask /\ pending' = NoTask /\ (sent' = sent + 1 \/ sent' = sent)
    BY <1>5 DEF Send
  <2>2. sent' \in Nat /\ sent' <= cfg.maxTests
    BY <1>1, <2>1 DEF CountInv
  <2> QED BY <1>2, <2>1, <2>2 DEF CountInv
<1>6. ASSUME NEW w \in Workers, CreateFinding(w) PROVE CountInv'
  <2> DEFINE s == worker[w].task.seed
  <2>1. /\ UNCHANGED <<cfg, sent, pending>> /\ found' = [found EXCEPT ![s] = @ + 1]
        /\ Findings < cfg.maxFindings /\ worker[w].pc = "hits"
    BY <1>6 DEF CreateFinding, runVars
  <2>2. s \in SeedIds
    BY <2>1 DEF ShapeInv, Shape
  <2> HIDE DEF s
  <2>3. /\ SumFunction([found EXCEPT ![s] = @ + 1]) = SumFunction(found) + 1
        /\ SumFunction(found) \in Nat
        /\ [found EXCEPT ![s] = @ + 1] \in [SeedIds -> Nat]
    BY <2>2, FiniteData, SumExcept DEF CountInv
  <2>4. Findings' = SumFunction(found')
    BY DEF Findings, SumFunction, SumFunctionOnSet, FoldFunctionOnSet, MapThenFoldSet
  <2>5. Findings' = Findings + 1 /\ Findings \in Nat /\ found' \in [SeedIds -> Nat]
    BY <2>1, <2>3, <2>4 DEF Findings
  <2>6. Findings' <= cfg.maxFindings
    BY <1>1, <2>1, <2>5
  <2> QED BY <2>1, <2>5, <2>6 DEF CountInv
<1>7. ASSUME NEW w \in Workers, WorkerStep(w), ~CreateFinding(w) PROVE UNCHANGED <<cfg, sent, pending, found>>
  BY <1>7 DEF WorkerStep, Receive, Replay, Respond, RewardEndpoint, DetectAll, SkipHit,
              FindingToFeedback, FindingToPlanner, Triaging, HitDone, TaskDone, runVars
<1>8. CASE Cancel \/ UNCHANGED vars
  BY <1>3, <1>8 DEF Cancel, vars, runVars
<1> QED BY <1>3, <1>4, <1>5, <1>6, <1>7, <1>8 DEF Next

\* The findings of a seed are some of all.
LEMMA FoundOfAll ==
  ASSUME found \in [SeedIds -> Nat], NEW s \in SeedIds
  PROVE  found[s] <= Findings
<1> DEFINE d == found[s]
           f == [found EXCEPT ![s] = 0]
<1>1. d \in Nat /\ d \in Int
  OBVIOUS
<1>2. /\ \A x \in SeedIds : f[x] \in Nat
      /\ \A x \in SeedIds : f[x] \in Int
  OBVIOUS
<1>3. \A x \in SeedIds : found[x] = IF x = s THEN f[x] + d ELSE f[x]
  OBVIOUS
<1> HIDE DEF f, d
<1>4. IsFiniteSet(SeedIds)
  BY FiniteData
<1>5. SumFunctionOnSet(found, SeedIds) = SumFunctionOnSet(f, SeedIds) + d
  BY ZenonT(30), <1>1, <1>2, <1>3, <1>4, SumChange
<1>6. SumFunctionOnSet(f, SeedIds) \in Nat
  BY Zenon, <1>2, <1>4, SumNat
<1>7. Findings = SumFunctionOnSet(found, SeedIds)
  BY DEF Findings, SumFunction
<1> QED BY <1>1, <1>5, <1>6, <1>7 DEF d

\* A run keeps to max_tests, and a worker comes back to its tasks: one finding costs it the
\* runs of the confirmation and three replays for each exchange and key at most, whatever
\* the target answers and whenever the run is cancelled.
THEOREM TaskTypeCorrect == Spec => []TypeOK
<1>1. ASSUME Init PROVE TaskInv /\ ShapeInv /\ Accounts /\ TriageInv
  BY <1>1, InitTask, InitAccounts DEF Init, TriageInv
<1>2. ASSUME Init PROVE FloorInv
  BY <1>2, InitFloor
<1>3. ASSUME Init PROVE BudgetInv
  BY <1>3 DEF Init, BudgetInv
<1>4. ASSUME Init PROVE CountInv
  <2>1. cfg \in Configs /\ sent = 0 /\ pending = NoTask /\ found = [s \in SeedIds |-> 0]
    BY <1>4 DEF Init
  <2>2. cfg.maxTests \in Nat /\ cfg.maxFindings \in Nat
    BY <2>1, LimitsAssumption
  <2>3. DOMAIN found = SeedIds /\ \A s \in SeedIds : found[s] = 0
    BY <2>1
  <2>4. SumFunctionOnSet(found, SeedIds) = 0
    BY <2>3, FiniteData, SumZero
  <2>5. Findings = 0
    BY <2>3, <2>4 DEF Findings, SumFunction
  <2> QED BY <2>1, <2>2, <2>5 DEF CountInv
<1>5. ASSUME FloorInv, Accounts, TriageInv, BudgetInv, CountInv PROVE TypeOK
  <2>1. cfg \in Configs /\ cfg.maxTests \in Nat /\ cfg.maxFindings \in Nat
    BY <1>5, LimitsAssumption DEF CountInv
  <2>2. /\ tests \in [Enabled -> Nat] /\ reward \in [Enabled -> Nat] /\ Enabled \subseteq SeedKeys
        /\ interest \in [SeedIds -> Nat] /\ lost \in Nat
    BY <1>5 DEF FloorInv, Accounts, RewardInv
  <2>3. sent \in 0..cfg.maxTests
    BY <1>5, <2>1 DEF CountInv
  <2>4. found \in [SeedIds -> 0..cfg.maxFindings]
    <3>1. found \in [SeedIds -> Nat] /\ Findings <= cfg.maxFindings
      BY <1>5 DEF CountInv
    <3>2. Findings \in Nat
      <4>1. SumFunctionOnSet(found, SeedIds) \in Nat
        BY <3>1, FiniteData, SumNat
      <4> QED BY <3>1, <4>1 DEF Findings, SumFunction
    <3>3. \A s \in SeedIds : found[s] \in 0..cfg.maxFindings
      <4> SUFFICES ASSUME NEW s \in SeedIds PROVE found[s] \in 0..cfg.maxFindings
        OBVIOUS
      <4>1. found[s] <= Findings /\ found[s] \in Nat
        BY <3>1, FoundOfAll
      <4> QED BY <2>1, <3>1, <3>2, <4>1
    <3> QED BY <3>1, <3>3
  <2>5. ASSUME NEW w \in Workers, triage[w] # Idle
        PROVE  /\ worker[w].pc = "triage"
               /\ triage[w].content \subseteq triage[w].original
               /\ triage[w].asked <= MaxAsked(triage[w])
    BY <1>5, <2>5, WithinBound DEF BudgetInv
  <2> QED BY <2>1, <2>2, <2>3, <2>4, <2>5 DEF TypeOK
<1> QED
  BY <1>1, <1>2, <1>3, <1>4, <1>5, NextTask, NextShape, NextAccounts, NextTriage, NextFloor, NextBudget, NextCount, PTL
     DEF Spec
=============================================================================
