------------------------- MODULE EndpointMerge_proofs -------------------------
(***************************************************************************)
(* Proofs about EndpointMerge: its type invariant, that no exchange is     *)
(* lost and that each recording numbers its own, that the paths they meet  *)
(* under generalise their own, that one collapse per observation settles   *)
(* the trie, and that merges leave the recordings of active campaigns      *)
(* alone.                                                                  *)
(***************************************************************************)
EXTENDS EndpointMerge, FoldLemmas, SequenceTheorems

-----------------------------------------------------------------------------
(* Paths.                                                                  *)

Tracks == Seq(Segments)

LEMMA TrackFacts ==
  \A s \in Tracks : /\ Len(s) \in Nat /\ DOMAIN s = 1..Len(s)
                    /\ \A i \in 1..Len(s) : s[i] \in Segments
  BY LenProperties, ElementOfSeq DEF Tracks

LEMMA TrackEqual ==
  \A s, t \in Tracks : Len(s) = Len(t) /\ (\A i \in 1..Len(s) : s[i] = t[i]) => s = t
  BY SeqEqual DEF Tracks

\* The beginning of a path.
LEMMA CutFacts ==
  ASSUME NEW s \in Tracks, NEW n \in 0..Len(s)
  PROVE  /\ SubSeq(s, 1, n) \in Tracks
         /\ Len(SubSeq(s, 1, n)) = n
         /\ \A i \in 1..n : SubSeq(s, 1, n)[i] = s[i]
<1>1. n \in Int /\ 1 \in Int /\ \A i \in 1..n : s[i] \in Segments
  BY TrackFacts
<1>2. /\ SubSeq(s, 1, n) \in Seq(Segments)
      /\ Len(SubSeq(s, 1, n)) = IF 1 <= n THEN n - 1 + 1 ELSE 0
      /\ \A i \in 1..(n - 1 + 1) : SubSeq(s, 1, n)[i] = s[1 + i - 1]
  BY <1>1, SubSeqProperties
<1>3. n \in Nat /\ n - 1 + 1 = n /\ \A i \in 1..n : 1 + i - 1 = i
  BY TrackFacts
<1> QED BY <1>2, <1>3 DEF Tracks

\* Begins(s, t): s is a beginning of t.
Begins(s, t) == Len(s) <= Len(t) /\ \A i \in 1..Len(s) : s[i] = t[i]

LEMMA PrefixFacts ==
  ASSUME NEW s \in Tracks, NEW t \in Tracks
  PROVE  IsPrefix(s, t) <=> Begins(s, t)
<1>1. SubSeq(s, 1, Len(s)) = s
  BY SubSeqFull DEF Tracks
<1>2. CASE Len(s) <= Len(t)
  <2>1. Len(s) \in 0..Len(t)
    BY <1>2, TrackFacts
  <2>2. /\ SubSeq(t, 1, Len(s)) \in Tracks
        /\ Len(SubSeq(t, 1, Len(s))) = Len(s)
        /\ \A i \in 1..Len(s) : SubSeq(t, 1, Len(s))[i] = t[i]
    BY <2>1, CutFacts
  <2>3. (\A i \in 1..Len(s) : s[i] = t[i]) => s = SubSeq(t, 1, Len(s))
    BY <2>2, TrackEqual
  <2> QED BY <1>1, <1>2, <2>2, <2>3 DEF IsPrefix, Begins
<1> QED BY <1>2 DEF IsPrefix, Begins

\* The nodes on the way to a path are its beginnings.
LEMMA NodesFacts ==
  ASSUME NEW path \in Tracks
  PROVE  /\ Nodes(path) = {n \in Tracks : Begins(n, path)}
         /\ IsFiniteSet(Nodes(path))
         /\ path \in Nodes(path) /\ <<>> \in Nodes(path)
<1>1. ASSUME NEW n \in 0..Len(path)
      PROVE  SubSeq(path, 1, n) \in Tracks /\ Begins(SubSeq(path, 1, n), path)
  BY CutFacts, TrackFacts DEF Begins
<1>2. ASSUME NEW n \in Tracks, Begins(n, path) PROVE Len(n) \in 0..Len(path) /\ n = SubSeq(path, 1, Len(n))
  <2>1. Len(n) \in 0..Len(path)
    BY <1>2, TrackFacts DEF Begins
  <2>2. /\ SubSeq(path, 1, Len(n)) \in Tracks
        /\ Len(SubSeq(path, 1, Len(n))) = Len(n)
        /\ \A i \in 1..Len(n) : SubSeq(path, 1, Len(n))[i] = path[i]
    BY <2>1, CutFacts
  <2> QED BY <1>2, <2>1, <2>2, TrackEqual DEF Begins
<1>3. Nodes(path) = {n \in Tracks : Begins(n, path)}
  BY <1>1, <1>2 DEF Nodes
<1>4. IsFiniteSet(Nodes(path))
  <2> DEFINE f == [n \in 0..Len(path) |-> SubSeq(path, 1, n)]
  <2>1. IsFiniteSet(0..Len(path))
    BY TrackFacts, FS_Interval
  <2> HIDE DEF f
  <2>2. IsFiniteSet({f[n] : n \in 0..Len(path)})
    BY <2>1, ValuesFinite
  <2> QED BY <2>2 DEF f, Nodes
<1>5. Begins(path, path) /\ <<>> \in Tracks /\ Begins(<<>>, path)
  BY TrackFacts, EmptySeq DEF Tracks, Begins
<1> QED BY <1>3, <1>4, <1>5

LEMMA ChildFacts ==
  ASSUME NEW p \in Tracks, NEW s \in Segments
  PROVE  /\ Append(p, s) \in Tracks
         /\ Len(Append(p, s)) = Len(p) + 1
         /\ \A i \in 1..Len(p) : Append(p, s)[i] = p[i]
         /\ Append(p, s)[Len(p) + 1] = s
  BY AppendProperties DEF Tracks

\* The node below p on the way to n.
LEMMA ChildOnTheWay ==
  ASSUME NEW p \in Tracks, NEW n \in Tracks, Begins(p, n), Len(p) < Len(n)
  PROVE  n[Len(p) + 1] \in Segments /\ Begins(Append(p, n[Len(p) + 1]), n)
<1>1. Len(p) + 1 \in 1..Len(n)
  BY TrackFacts
<1>2. n[Len(p) + 1] \in Segments
  BY <1>1, TrackFacts
<1> DEFINE c == Append(p, n[Len(p) + 1])
<1>3. Len(c) = Len(p) + 1 /\ c[Len(p) + 1] = n[Len(p) + 1] /\ \A i \in 1..Len(p) : c[i] = p[i]
  BY <1>2, ChildFacts
<1>4. \A i \in 1..(Len(p) + 1) : i \in 1..Len(p) \/ i = Len(p) + 1
  BY TrackFacts
<1> HIDE DEF c
<1>5. Begins(c, n)
  BY <1>1, <1>3, <1>4, TrackFacts DEF Begins
<1> QED BY <1>2, <1>5 DEF c

LEMMA PutFacts ==
  ASSUME NEW s \in Tracks, NEW i \in 1..Len(s), NEW e \in Segments
  PROVE  /\ ReplaceAt(s, i, e) \in Tracks
         /\ Len(ReplaceAt(s, i, e)) = Len(s)
         /\ \A j \in 1..Len(s) : ReplaceAt(s, i, e)[j] = IF j = i THEN e ELSE s[j]
  BY ExceptSeq DEF Tracks, ReplaceAt

LEMMA PathFacts ==
  ASSUME NEW path \in Paths
  PROVE  /\ path \in Tracks /\ NormalizePath(path) \in Tracks
         /\ Len(NormalizePath(path)) = Len(path)
         /\ \A i \in 1..Len(path) : NormalizePath(path)[i] \in {path[i], PH}
<1>1. path \in Seq(ToSet(path)) /\ ToSet(path) \subseteq Segments /\ PH \in Segments
  BY MergeAssumption DEF Segments
<1>2. path \in Tracks
  BY <1>1, SeqMonotonic DEF Tracks
<1>3. NormalizePath(path) \in [1..Len(path) -> Segments] /\ Len(path) \in Nat
  BY <1>1, <1>2, TrackFacts DEF NormalizePath
<1>4. NormalizePath(path) \in Tracks
  BY <1>3, SeqDef DEF Tracks
<1>5. Len(NormalizePath(path)) = Len(path)
  BY <1>3, <1>4, TrackFacts
<1> QED BY <1>2, <1>3, <1>4, <1>5, TrackFacts DEF NormalizePath

\* Below(n, p): node n is in the subtrie that collapse(p) rewrites.
Below(n, p) == Len(n) > Len(p) /\ Begins(p, n)

LEMMA ImageFacts ==
  ASSUME NEW n \in Tracks, NEW p \in Tracks
  PROVE  /\ Image(n, p) \in Tracks
         /\ Len(Image(n, p)) = Len(n)
         /\ \A i \in 1..Len(n) :
              Image(n, p)[i] = IF Below(n, p) /\ i = Len(p) + 1 THEN PH ELSE n[i]
         /\ ~Below(n, p) => Image(n, p) = n
         /\ Below(Image(n, p), p) <=> Below(n, p)
<1>1. PH \in Segments
  BY DEF Segments
<1>2. IsPrefix(p, n) <=> Begins(p, n)
  BY PrefixFacts
<1>3. CASE ~Below(n, p)
  BY <1>2, <1>3 DEF Below, Image
<1>4. CASE Below(n, p)
  <2>1. Len(p) + 1 \in 1..Len(n)
    BY <1>4, TrackFacts DEF Below
  <2>2. Image(n, p) = ReplaceAt(n, Len(p) + 1, PH)
    BY <1>2, <1>4 DEF Below, Image
  <2> DEFINE m == ReplaceAt(n, Len(p) + 1, PH)
  <2>3. /\ m \in Tracks /\ Len(m) = Len(n)
        /\ \A i \in 1..Len(n) : m[i] = IF i = Len(p) + 1 THEN PH ELSE n[i]
    BY <1>1, <2>1, PutFacts
  <2> HIDE DEF m
  <2>4. \A i \in 1..Len(p) : i \in 1..Len(n) /\ i # Len(p) + 1
    BY <1>4, TrackFacts DEF Below
  <2>5. Below(m, p)
    BY <1>4, <2>3, <2>4 DEF Below, Begins
  <2>6. Image(n, p) = m
    BY <2>2 DEF m
  <2> QED BY <1>4, <2>3, <2>5, <2>6
<1> QED BY <1>3, <1>4

-----------------------------------------------------------------------------
(* The trie.                                                               *)

IsTrie(t) ==
  /\ DOMAIN t \subseteq Tracks /\ IsFiniteSet(DOMAIN t) /\ <<>> \in DOMAIN t
  /\ t \in [DOMAIN t -> Nat]
  /\ \A n \in DOMAIN t : Nodes(n) \subseteq DOMAIN t

\* No node that checkCollapse looks at is to be collapsed.
Calm(t) == \A q \in DOMAIN t : PH \notin ToSet(q) => ~ShouldCollapse(t, q)

LEMMA BeginningsKept ==
  ASSUME NEW t, IsTrie(t), NEW n \in DOMAIN t, NEW m \in Tracks, Begins(m, n)
  PROVE  m \in DOMAIN t
  BY NodesFacts DEF IsTrie

LEMMA ObserveFacts ==
  ASSUME NEW t, IsTrie(t), NEW path \in Tracks
  PROVE  /\ IsTrie(Observe(t, path))
         /\ DOMAIN Observe(t, path) = DOMAIN t \cup {n \in Tracks : Begins(n, path)}
         /\ \A n \in DOMAIN t : Observe(t, path)[n] \in Nat /\ t[n] \in Nat /\ Observe(t, path)[n] >= t[n]
<1> DEFINE u == Observe(t, path)
           D == DOMAIN t \cup Nodes(path)
<1>1. u = [n \in D |-> Count(t, n) + IF n \in Nodes(path) THEN 1 ELSE 0]
  BY DEF Observe
<1>2. \A n \in D : Count(t, n) \in Nat
  BY DEF Count, IsTrie
<1>3. \A n \in DOMAIN t : Count(t, n) = t[n] /\ t[n] \in Nat
  BY DEF Count, IsTrie
<1>4. DOMAIN u = D /\ \A n \in D : u[n] \in Nat
  BY <1>1, <1>2
<1>5. \A n \in DOMAIN t : u[n] >= t[n]
  BY <1>1, <1>3
<1>6. Nodes(path) = {n \in Tracks : Begins(n, path)} /\ IsFiniteSet(Nodes(path)) /\ <<>> \in Nodes(path)
  BY NodesFacts
<1>7. \A n \in D : Nodes(n) \subseteq D
  <2> TAKE n \in D
  <2>1. CASE n \in DOMAIN t
    BY <2>1 DEF IsTrie
  <2>2. CASE n \in Nodes(path)
    <3>1. n \in Tracks /\ Begins(n, path)
      BY <1>6, <2>2
    <3>2. ASSUME NEW m \in Nodes(n) PROVE m \in Tracks /\ Begins(m, path)
      <4>1. m \in Tracks /\ Begins(m, n)
        BY <3>1, NodesFacts
      <4>2. \A i \in 1..Len(m) : i \in 1..Len(n)
        BY <3>1, <4>1, TrackFacts DEF Begins
      <4> QED BY <3>1, <4>1, <4>2, TrackFacts DEF Begins
    <3> QED BY <1>6, <3>2
  <2> QED BY <2>1, <2>2
<1>8. IsFiniteSet(D)
  BY <1>6, FS_Union DEF IsTrie
<1>9. D \subseteq Tracks /\ <<>> \in D
  BY <1>6 DEF IsTrie
<1>10. u \in [DOMAIN u -> Nat]
  BY <1>1, <1>4
<1> HIDE DEF u, D
<1>11. IsTrie(u)
  BY <1>4, <1>7, <1>8, <1>9, <1>10 DEF IsTrie
<1> QED BY <1>3, <1>4, <1>5, <1>6, <1>11 DEF u, D

\* The literals are the segments of the children.
LEMMA LiteralsFacts ==
  ASSUME NEW t, IsTrie(t), NEW p \in Tracks
  PROVE  /\ Literals(t, p) = {s \in Segments \ {PH} : Append(p, s) \in DOMAIN t}
         /\ IsFiniteSet(Literals(t, p)) /\ Cardinality(Literals(t, p)) \in Nat
<1> DEFINE B == {n \in DOMAIN t : Len(n) > Len(p) /\ IsPrefix(p, n)}
           f == [n \in B |-> n[Len(p) + 1]]
<1>1. Literals(t, p) = {f[n] : n \in B} \ {PH}
  BY DEF Literals
<1>2. IsFiniteSet(B)
  BY FS_Subset DEF IsTrie
<1>3. B \subseteq Tracks
  BY DEF IsTrie
<1>4. ASSUME NEW n \in B PROVE f[n] \in Segments /\ Append(p, f[n]) \in DOMAIN t
  <2>1. n \in DOMAIN t /\ n \in Tracks /\ Len(p) < Len(n) /\ Begins(p, n)
    BY <1>3, PrefixFacts, TrackFacts
  <2>2. n[Len(p) + 1] \in Segments /\ Begins(Append(p, n[Len(p) + 1]), n)
    BY <2>1, ChildOnTheWay
  <2>3. Append(p, n[Len(p) + 1]) \in Tracks
    BY <2>2, ChildFacts
  <2> QED BY <2>1, <2>2, <2>3, BeginningsKept
<1>5. ASSUME NEW s \in Segments, Append(p, s) \in DOMAIN t PROVE \E n \in B : s = f[n]
  <2> DEFINE n == Append(p, s)
  <2>1. n \in Tracks /\ Len(n) = Len(p) + 1 /\ n[Len(p) + 1] = s /\ \A i \in 1..Len(p) : n[i] = p[i]
    BY ChildFacts
  <2> HIDE DEF n
  <2>2. Begins(p, n) /\ Len(n) > Len(p)
    BY <2>1, TrackFacts DEF Begins
  <2>3. IsPrefix(p, n)
    BY <2>1, <2>2, PrefixFacts
  <2>4. n \in DOMAIN t
    BY <1>5 DEF n
  <2> QED BY <2>1, <2>2, <2>3, <2>4
<1> HIDE DEF B, f
<1>6. Literals(t, p) = {s \in Segments \ {PH} : Append(p, s) \in DOMAIN t}
  BY <1>1, <1>4, <1>5
<1>7. IsFiniteSet({f[n] : n \in B})
  BY <1>2, ValuesFinite
<1>8. IsFiniteSet(Literals(t, p))
  BY <1>1, <1>7, FS_Subset
<1> QED BY <1>6, <1>8, FS_CardinalityType

\* A node with the same children in two tries, and no fewer observations in the second.
LEMMA CollapseMonotone ==
  ASSUME NEW t, NEW u, NEW q,
         Literals(t, q) = Literals(u, q), Cardinality(Literals(t, q)) \in Nat,
         Append(q, PH) \in DOMAIN u => Append(q, PH) \in DOMAIN t,
         t[q] \in Nat, u[q] \in Nat, t[q] <= u[q],
         ShouldCollapse(u, q)
  PROVE  ShouldCollapse(t, q)
  BY DEF ShouldCollapse, collapseMinChildren, collapseMinWithPlaceholder

\* There is a first candidate unless the trie is calm.
LEMMA CandidatesFacts ==
  ASSUME NEW t, IsTrie(t)
  PROVE  Candidates(t) = {} <=> Calm(t)
<1>1. ASSUME Calm(t) PROVE Candidates(t) = {}
  BY <1>1 DEF Calm, Candidates
<1>2. ASSUME NEW q \in DOMAIN t, PH \notin ToSet(q), ShouldCollapse(t, q)
      PROVE  Candidates(t) # {}
  <2> DEFINE R == {n \in DOMAIN t : PH \notin ToSet(n) /\ ShouldCollapse(t, n)}
             L == {Len(n) : n \in R}
  <2>1. R \subseteq Tracks /\ q \in R
    BY <1>2 DEF IsTrie
  <2>2. L \in SUBSET Nat /\ L # {}
    BY <2>1, TrackFacts
  <2> HIDE DEF L
  <2>3. PICK l \in L : \A k \in L : l <= k
    BY <2>2, NatLeast
  <2>4. PICK p \in R : Len(p) = l
    BY <2>3 DEF L
  <2>5. ASSUME NEW n \in 0..(Len(p) - 1), ShouldCollapse(t, SubSeq(p, 1, n)) PROVE FALSE
    <3> DEFINE m == SubSeq(p, 1, n)
    <3>1. n \in 0..Len(p) /\ n < Len(p) /\ p \in Tracks
      BY <2>1, TrackFacts
    <3>2. m \in Tracks /\ Len(m) = n /\ \A i \in 1..n : m[i] = p[i]
      BY <3>1, CutFacts
    <3> HIDE DEF m
    <3>3. Begins(m, p)
      BY <3>1, <3>2 DEF Begins
    <3>4. m \in DOMAIN t
      BY <3>2, <3>3, BeginningsKept
    <3>5. PH \notin ToSet(m)
      <4>1. DOMAIN m = 1..n /\ DOMAIN p = 1..Len(p)
        BY <3>1, <3>2, TrackFacts
      <4>2. \A i \in DOMAIN m : i \in DOMAIN p /\ m[i] = p[i]
        BY <3>1, <3>2, <4>1, TrackFacts
      <4> QED BY <4>2 DEF ToSet
    <3>6. m \in R
      BY <2>5, <3>4, <3>5 DEF m
    <3>7. Len(m) \in L
      BY <3>6 DEF L
    <3> QED BY <2>3, <2>4, <3>1, <3>2, <3>7, TrackFacts
  <2>6. p \in Candidates(t)
    BY <2>4, <2>5 DEF Candidates
  <2> QED BY <2>6
<1> QED BY <1>1, <1>2 DEF Calm

LEMMA CollapseFacts ==
  ASSUME NEW t, IsTrie(t), NEW p \in DOMAIN t
  PROVE  /\ IsTrie(Collapse(t, p))
         /\ DOMAIN Collapse(t, p) = {Image(n, p) : n \in DOMAIN t}
         /\ \A m \in DOMAIN Collapse(t, p) :
              Collapse(t, p)[m] = SumCounts(t, {n \in DOMAIN t : Image(n, p) = m})
<1> DEFINE f == [n \in DOMAIN t |-> Image(n, p)]
           D == {Image(n, p) : n \in DOMAIN t}
           u == Collapse(t, p)
<1>1. u = [m \in D |-> SumCounts(t, {n \in DOMAIN t : Image(n, p) = m})]
  BY DEF Collapse
<1>2. p \in Tracks /\ DOMAIN t \subseteq Tracks /\ IsFiniteSet(DOMAIN t)
  BY DEF IsTrie
<1>3. IsFiniteSet(D)
  <2>1. IsFiniteSet({f[n] : n \in DOMAIN t})
    BY <1>2, ValuesFinite, Zenon
  <2> QED BY <2>1
<1>4. D \subseteq Tracks
  BY <1>2, ImageFacts
<1>5. <<>> \in D
  <2>1. <<>> \in DOMAIN t /\ <<>> \in Tracks
    BY <1>2 DEF IsTrie
  <2>2. ~Below(<<>>, p)
    BY <1>2, TrackFacts, EmptySeq DEF Below
  <2>3. Image(<<>>, p) = <<>>
    BY <1>2, <2>1, <2>2, ImageFacts
  <2> QED BY <2>1, <2>3
<1>6. \A m \in D : SumCounts(t, {n \in DOMAIN t : Image(n, p) = m}) \in Nat
  <2> TAKE m \in D
  <2> DEFINE S == {n \in DOMAIN t : Image(n, p) = m}
  <2>1. IsFiniteSet(S) /\ \A n \in S : t[n] \in Nat
    BY <1>2, FS_Subset DEF IsTrie
  <2> HIDE DEF S
  <2>2. SumFunctionOnSet(t, S) \in Nat
    BY <2>1, SumNat
  <2> QED BY <2>2 DEF SumCounts, S
<1>7. ASSUME NEW m \in D PROVE Nodes(m) \subseteq D
  <2>1. PICK n \in DOMAIN t : m = Image(n, p)
    OBVIOUS
  <2>2. n \in Tracks /\ m \in Tracks /\ Len(m) = Len(n) /\ Len(n) \in Nat /\ Len(p) \in Nat
    BY <1>2, <2>1, ImageFacts, TrackFacts
  <2> SUFFICES ASSUME NEW k \in Tracks, Begins(k, m) PROVE k \in D
    BY <2>2, NodesFacts
  <2> DEFINE c == SubSeq(n, 1, Len(k))
  <2>3. Len(k) \in 0..Len(n) /\ Len(k) \in Nat
    BY <2>2, TrackFacts DEF Begins
  <2>4. c \in Tracks /\ Len(c) = Len(k) /\ \A i \in 1..Len(k) : c[i] = n[i]
    BY <2>2, <2>3, CutFacts
  <2> HIDE DEF c
  <2>5. c \in DOMAIN t
    BY <2>1, <2>3, <2>4, BeginningsKept DEF Begins
  <2>6. \A i \in 1..Len(k) : Image(c, p)[i] = IF Below(c, p) /\ i = Len(p) + 1 THEN PH ELSE c[i]
    BY <1>2, <2>4, ImageFacts
  <2>7. \A i \in 1..Len(n) : m[i] = IF Below(n, p) /\ i = Len(p) + 1 THEN PH ELSE n[i]
    BY <1>2, <2>1, <2>2, ImageFacts
  <2>8. \A i \in 1..Len(k) : i \in 1..Len(n)
    BY <2>2, <2>3
  <2>9. Len(k) > Len(p) => (Below(c, p) <=> Below(n, p))
    <3> HAVE Len(k) > Len(p)
    <3>1. \A i \in 1..Len(p) : c[i] = n[i]
      BY <2>2, <2>3, <2>4
    <3> QED BY <2>2, <2>3, <2>4, <3>1 DEF Below, Begins
  <2>10. \A i \in 1..Len(k) : Image(c, p)[i] = m[i]
    <3> TAKE i \in 1..Len(k)
    <3>1. CASE i = Len(p) + 1
      BY <2>2, <2>3, <2>4, <2>6, <2>7, <2>8, <2>9, <3>1
    <3>2. CASE i # Len(p) + 1
      BY <2>4, <2>6, <2>7, <2>8, <3>2
    <3> QED BY <3>1, <3>2
  <2>11. Image(c, p) \in Tracks /\ Len(Image(c, p)) = Len(k)
    BY <1>2, <2>4, ImageFacts
  <2>12. Image(c, p) = k
    BY <2>10, <2>11, TrackEqual DEF Begins
  <2> QED BY <2>5, <2>12
<1>8. DOMAIN u = D /\ u \in [D -> Nat]
  BY <1>1, <1>6
<1> HIDE DEF u, D
<1>9. IsTrie(u)
  BY <1>3, <1>4, <1>5, <1>7, <1>8 DEF IsTrie
<1> QED BY <1>1, <1>8, <1>9 DEF u, D

\* In a calm trie an observation of path leaves at most one node to collapse, the last on
\* the way to path that was there before: only it has a new child beside others.
LEMMA ObserveCalm ==
  ASSUME NEW t, IsTrie(t), Calm(t), NEW path \in Tracks,
         NEW q \in DOMAIN Observe(t, path), PH \notin ToSet(q), ShouldCollapse(Observe(t, path), q)
  PROVE  /\ q \in DOMAIN t /\ q \in Tracks /\ Begins(q, path) /\ Len(q) < Len(path)
         /\ Append(q, path[Len(q) + 1]) \notin DOMAIN t
<1> DEFINE u == Observe(t, path)
<1>1. /\ IsTrie(u) /\ DOMAIN u = DOMAIN t \cup {n \in Tracks : Begins(n, path)}
      /\ \A n \in DOMAIN t : u[n] \in Nat /\ t[n] \in Nat /\ u[n] >= t[n]
  BY ObserveFacts
<1>2. q \in Tracks
  BY <1>1 DEF IsTrie
<1>3. /\ Literals(t, q) = {s \in Segments \ {PH} : Append(q, s) \in DOMAIN t}
      /\ Literals(u, q) = {s \in Segments \ {PH} : Append(q, s) \in DOMAIN u}
      /\ IsFiniteSet(Literals(u, q)) /\ Cardinality(Literals(u, q)) \in Nat
      /\ Cardinality(Literals(t, q)) \in Nat
  BY <1>1, <1>2, LiteralsFacts
\* A child that the observation may have added is the one on the way to path.
<1>4. ASSUME NEW s \in Segments, Append(q, s) \in DOMAIN u, Append(q, s) \notin DOMAIN t
      PROVE  Begins(q, path) /\ Len(q) < Len(path) /\ s = path[Len(q) + 1]
  <2> DEFINE c == Append(q, s)
  <2>1. /\ c \in Tracks /\ Len(c) = Len(q) + 1 /\ c[Len(q) + 1] = s
        /\ \A i \in 1..Len(q) : c[i] = q[i]
    BY <1>2, ChildFacts
  <2>2. Begins(c, path)
    BY <1>1, <1>4
  <2> HIDE DEF c
  <2> QED BY <1>2, <2>1, <2>2, TrackFacts DEF Begins
<1> HIDE DEF u
<1>5. q \in DOMAIN t
  <2> SUFFICES ASSUME q \notin DOMAIN t PROVE FALSE
    OBVIOUS
  <2>1. \A s \in Segments : Append(q, s) \notin DOMAIN t
    <3> SUFFICES ASSUME NEW s \in Segments, Append(q, s) \in DOMAIN t PROVE FALSE
      OBVIOUS
    <3>1. /\ Append(q, s) \in Tracks /\ Len(Append(q, s)) = Len(q) + 1
          /\ \A i \in 1..Len(q) : Append(q, s)[i] = q[i]
      BY <1>2, ChildFacts
    <3>2. Begins(q, Append(q, s))
      BY <1>2, <3>1, TrackFacts DEF Begins
    <3> QED BY <1>2, <3>2, BeginningsKept
  <2>2. \A s, r \in Literals(u, q) : s = r
    BY <1>3, <1>4, <2>1
  <2>3. Cardinality(Literals(u, q)) <= 1
    <3>1. CASE Literals(u, q) = {}
      BY <3>1, FS_EmptySet
    <3>2. CASE Literals(u, q) # {}
      <4>1. PICK s : Literals(u, q) = {s}
        BY <2>2, <3>2
      <4>2. Cardinality({s}) = 1
        BY FS_Singleton, Zenon
      <4> QED BY <4>1, <4>2
    <3> QED BY <3>1, <3>2
  <2>4. ShouldCollapse(u, q)
    BY DEF u
  <2> QED BY <1>3, <2>3, <2>4 DEF ShouldCollapse, collapseMinChildren, collapseMinWithPlaceholder
<1>6. ASSUME \A s \in Segments : Append(q, s) \in DOMAIN u => Append(q, s) \in DOMAIN t PROVE FALSE
  <2>1. Literals(t, q) = Literals(u, q)
    BY <1>1, <1>3, <1>6
  <2>2. PH \in Segments
    BY DEF Segments
  <2>3. Append(q, PH) \in DOMAIN u => Append(q, PH) \in DOMAIN t
    BY <1>6, <2>2
  <2>4. t[q] \in Nat /\ u[q] \in Nat /\ t[q] <= u[q]
    BY <1>1, <1>5
  <2>5. ShouldCollapse(u, q)
    BY DEF u
  <2>6. ShouldCollapse(t, q)
    BY <1>3, <2>1, <2>3, <2>4, <2>5, CollapseMonotone
  <2> QED BY <1>5, <2>6 DEF Calm
<1>7. PICK s \in Segments : Append(q, s) \in DOMAIN u /\ Append(q, s) \notin DOMAIN t
  BY <1>6
<1> QED BY <1>2, <1>4, <1>5, <1>7

LEMMA ObserveOne ==
  ASSUME NEW t, IsTrie(t), NEW path \in Tracks,
         NEW p \in DOMAIN t, Begins(p, path), Append(p, path[Len(p) + 1]) \notin DOMAIN t, Len(p) < Len(path),
         NEW q \in DOMAIN t, Begins(q, path), Append(q, path[Len(q) + 1]) \notin DOMAIN t, Len(q) < Len(path)
  PROVE  p = q
<1>1. ASSUME NEW m \in DOMAIN t, Begins(m, path),
             NEW n \in DOMAIN t, Begins(n, path), Len(m) < Len(n)
      PROVE  Append(m, path[Len(m) + 1]) \in DOMAIN t
  <2>1. m \in Tracks /\ n \in Tracks
    BY DEF IsTrie
  <2>2. Begins(m, n) /\ n[Len(m) + 1] = path[Len(m) + 1]
    BY <1>1, <2>1, TrackFacts DEF Begins
  <2>3. path[Len(m) + 1] \in Segments /\ Begins(Append(m, path[Len(m) + 1]), n)
    BY <1>1, <2>1, <2>2, ChildOnTheWay
  <2>4. Append(m, path[Len(m) + 1]) \in Tracks
    BY <2>1, <2>3, ChildFacts
  <2> QED BY <2>3, <2>4, BeginningsKept
<1>2. p \in Tracks /\ q \in Tracks
  BY DEF IsTrie
<1>3. Len(p) = Len(q)
  BY <1>1, <1>2, TrackFacts
<1> QED BY <1>2, <1>3, TrackEqual, TrackFacts DEF Begins

\* Collapsing the only node there is to collapse leaves none: it loses its literals, and the
\* other nodes that are looked at keep their children and their observations.
LEMMA CollapseCalm ==
  ASSUME NEW t, IsTrie(t), NEW p \in DOMAIN t, PH \notin ToSet(p),
         \A q \in DOMAIN t : PH \notin ToSet(q) /\ ShouldCollapse(t, q) => q = p
  PROVE  Calm(Collapse(t, p))
<1> DEFINE u == Collapse(t, p)
<1>1. /\ IsTrie(u) /\ DOMAIN u = {Image(n, p) : n \in DOMAIN t}
      /\ \A m \in DOMAIN u : u[m] = SumCounts(t, {n \in DOMAIN t : Image(n, p) = m})
  BY CollapseFacts
<1>2. p \in Tracks /\ DOMAIN t \subseteq Tracks /\ DOMAIN u \subseteq Tracks
  BY <1>1 DEF IsTrie
<1> HIDE DEF u
\* Nothing below p but the placeholder and what is under it.
<1>3. ASSUME NEW m \in DOMAIN u, Below(m, p) PROVE m[Len(p) + 1] = PH
  <2>1. PICK n \in DOMAIN t : m = Image(n, p)
    BY <1>1
  <2>2. Below(n, p) /\ Len(p) + 1 \in 1..Len(n)
    BY <1>2, <1>3, <2>1, ImageFacts, TrackFacts DEF Below
  <2> QED BY <1>2, <2>1, <2>2, ImageFacts
\* What is not below p is not touched.
<1>4. ASSUME NEW m \in Tracks, ~Below(m, p)
      PROVE  /\ m \in DOMAIN u <=> m \in DOMAIN t
             /\ m \in DOMAIN u => u[m] = t[m] /\ t[m] \in Nat
  <2>1. \A n \in DOMAIN t : Image(n, p) = m <=> n = m
    BY <1>2, <1>4, ImageFacts
  <2>2. m \in DOMAIN u <=> m \in DOMAIN t
    BY <1>1, <2>1
  <2>3. ASSUME m \in DOMAIN u PROVE u[m] = t[m] /\ t[m] \in Nat
    <3>1. {n \in DOMAIN t : Image(n, p) = m} = {m}
      BY <2>1, <2>2, <2>3
    <3>2. t[m] \in Nat
      BY <2>2, <2>3 DEF IsTrie
    <3>3. SumFunctionOnSet(t, {m}) = t[m]
      BY <3>2, SumSingleton
    <3>4. u[m] = SumCounts(t, {n \in DOMAIN t : Image(n, p) = m})
      BY <1>1, <2>3
    <3>5. u[m] = SumCounts(t, {m})
      BY <3>1, <3>4, Zenon
    <3> QED BY <3>2, <3>3, <3>5 DEF SumCounts
  <2> QED BY <2>2, <2>3
<1> SUFFICES ASSUME NEW q \in DOMAIN u, PH \notin ToSet(q), ShouldCollapse(u, q) PROVE FALSE
  BY DEF Calm, u
<1>5. q \in Tracks /\ \A i \in 1..Len(q) : q[i] # PH
  BY <1>2, TrackFacts DEF ToSet
<1>6. ~Below(q, p)
  BY <1>2, <1>3, <1>5, TrackFacts DEF Below
<1>7. /\ Literals(t, q) = {s \in Segments \ {PH} : Append(q, s) \in DOMAIN t}
      /\ Literals(u, q) = {s \in Segments \ {PH} : Append(q, s) \in DOMAIN u}
      /\ Cardinality(Literals(t, q)) \in Nat
  BY <1>1, <1>5, LiteralsFacts
<1>8. ASSUME NEW s \in Segments
      PROVE  /\ Append(q, s) \in Tracks
             /\ Below(Append(q, s), p) <=> q = p
             /\ q = p => Append(q, s)[Len(p) + 1] = s
  <2>1. /\ Append(q, s) \in Tracks /\ Len(Append(q, s)) = Len(q) + 1
        /\ Append(q, s)[Len(q) + 1] = s /\ \A i \in 1..Len(q) : Append(q, s)[i] = q[i]
    BY <1>5, ChildFacts
  <2>2. q = p => Below(Append(q, s), p)
    BY <1>5, <2>1, TrackFacts DEF Below, Begins
  <2>3. Below(Append(q, s), p) => Len(p) <= Len(q) /\ \A i \in 1..Len(p) : p[i] = q[i]
    BY <1>2, <1>5, <2>1, TrackFacts DEF Below, Begins
  <2>4. Below(Append(q, s), p) => q = p
    <3> HAVE Below(Append(q, s), p)
    <3>1. Len(q) = Len(p)
      BY <1>2, <1>5, <1>6, <2>3, TrackFacts DEF Below, Begins
    <3> QED BY <1>2, <1>5, <2>3, <3>1, TrackEqual
  <2> QED BY <2>1, <2>2, <2>4
<1>9. CASE q = p
  <2>1. Literals(u, q) = {}
    BY <1>3, <1>7, <1>8, <1>9
  <2>2. Cardinality(Literals(u, q)) = 0
    BY <2>1, FS_EmptySet
  <2>3. u[q] \in Nat
    BY <1>1 DEF IsTrie
  <2> QED BY <2>2, <2>3 DEF ShouldCollapse, collapseMinChildren, collapseMinWithPlaceholder
<1>10. CASE q # p
  <2>1. \A s \in Segments : Append(q, s) \in DOMAIN u <=> Append(q, s) \in DOMAIN t
    BY <1>4, <1>8, <1>10
  <2>2. Literals(t, q) = Literals(u, q)
    BY <1>7, <2>1
  <2>3. PH \in Segments
    BY DEF Segments
  <2>4. q \in DOMAIN t /\ u[q] = t[q] /\ t[q] \in Nat
    BY <1>4, <1>5, <1>6
  <2>5. ShouldCollapse(t, q)
    BY <1>7, <2>1, <2>2, <2>3, <2>4, CollapseMonotone
  <2> QED BY <1>10, <2>4, <2>5
<1> QED BY <1>9, <1>10

Jobs == [parent : Tracks, keys : (SUBSET (Segments \ {PH})) \ {{}}]

\* A node of t is path, some segments being the placeholder.
KnownIn(t, path) ==
  \E node \in DOMAIN t :
    Len(node) = Len(path) /\ \A i \in DOMAIN node : node[i] \in {path[i], PH}

LEMMA JobFacts == \A job \in Jobs : job \notin {None, Committed}
<1>1. Jobs \subseteq [parent : Seq(Segments), keys : SUBSET Segments]
  BY DEF Jobs, Tracks
<1> QED BY <1>1, MergeAssumption

LEMMA KnownObserve ==
  ASSUME NEW t, IsTrie(t), NEW other \in Tracks, NEW path, KnownIn(t, path)
  PROVE  KnownIn(Observe(t, other), path)
  BY ObserveFacts DEF KnownIn

LEMMA KnownCollapse ==
  ASSUME NEW t, IsTrie(t), NEW p \in DOMAIN t, NEW path, KnownIn(t, path)
  PROVE  KnownIn(Collapse(t, p), path)
<1>1. PICK n \in DOMAIN t : Len(n) = Len(path) /\ \A i \in DOMAIN n : n[i] \in {path[i], PH}
  BY DEF KnownIn
<1>2. n \in Tracks /\ p \in Tracks
  BY DEF IsTrie
<1>3. Image(n, p) \in DOMAIN Collapse(t, p)
  BY CollapseFacts
<1>4. /\ Image(n, p) \in Tracks /\ Len(Image(n, p)) = Len(n)
      /\ \A i \in 1..Len(n) : Image(n, p)[i] \in {n[i], PH}
  BY <1>2, ImageFacts
<1>5. DOMAIN Image(n, p) = 1..Len(n) /\ DOMAIN n = 1..Len(n)
  BY <1>2, <1>4, TrackFacts
<1>6. \A i \in DOMAIN Image(n, p) : Image(n, p)[i] \in {path[i], PH}
  BY <1>1, <1>4, <1>5
<1> QED BY <1>1, <1>3, <1>4, <1>6 DEF KnownIn

LEMMA SettledFacts ==
  ASSUME NEW t, IsTrie(t), NEW s \in Settled(t)
  PROVE  /\ IsTrie(s.trie) /\ s.job \in Jobs \cup {None}
         /\ s.job = None => s.trie = t /\ Candidates(t) = {}
         /\ s.job # None => s.job.parent \in Candidates(t) /\ s.trie = Collapse(t, s.job.parent)
         /\ \A path : KnownIn(t, path) => KnownIn(s.trie, path)
<1>1. CASE Candidates(t) = {}
  BY <1>1 DEF Settled
<1>2. CASE Candidates(t) # {}
  <2>1. PICK p \in Candidates(t) :
          s = [trie |-> Collapse(t, p), job |-> [parent |-> p, keys |-> Literals(t, p)]]
    BY <1>2 DEF Settled
  <2>2. p \in DOMAIN t /\ p \in Tracks /\ ShouldCollapse(t, p) /\ t[p] \in Nat
    BY DEF Candidates, IsTrie
  <2>3. /\ Literals(t, p) = {c \in Segments \ {PH} : Append(p, c) \in DOMAIN t}
        /\ Cardinality(Literals(t, p)) \in Nat
    BY <2>2, LiteralsFacts
  <2>4. Literals(t, p) # {}
    <3> SUFFICES ASSUME Literals(t, p) = {} PROVE FALSE
      OBVIOUS
    <3>1. Cardinality(Literals(t, p)) = 0
      BY FS_EmptySet
    <3> QED BY <2>2, <3>1 DEF ShouldCollapse, collapseMinChildren, collapseMinWithPlaceholder
  <2>5. s.job \in Jobs
    BY <2>1, <2>2, <2>3, <2>4 DEF Jobs
  <2>6. IsTrie(Collapse(t, p))
    BY <2>2, CollapseFacts
  <2>7. \A path : KnownIn(t, path) => KnownIn(Collapse(t, p), path)
    BY <2>2, KnownCollapse
  <2>8. s.trie = Collapse(t, p) /\ s.job.parent = p
    BY <2>1
  <2> QED BY <2>5, <2>6, <2>7, <2>8, JobFacts
<1> QED BY <1>1, <1>2

\* What ObservePath makes of a calm trie is calm, and knows the path it returns.
LEMMA ObserveSettled ==
  ASSUME NEW t, IsTrie(t), Calm(t), NEW path \in Tracks, NEW s \in Settled(Observe(t, path))
  PROVE  /\ Calm(s.trie)
         /\ RewritePath(path, s.job) \in Tracks /\ Len(RewritePath(path, s.job)) = Len(path)
         /\ \A i \in 1..Len(path) : RewritePath(path, s.job)[i] \in {path[i], PH}
         /\ KnownIn(s.trie, RewritePath(path, s.job))
<1> DEFINE u == Observe(t, path)
<1>1. IsTrie(u) /\ path \in DOMAIN u
  <2>1. IsTrie(u) /\ DOMAIN u = DOMAIN t \cup {n \in Tracks : Begins(n, path)}
    BY ObserveFacts
  <2>2. Begins(path, path)
    BY TrackFacts DEF Begins
  <2> QED BY <2>1, <2>2
<1>2. /\ IsTrie(s.trie) /\ s.job \in Jobs \cup {None}
      /\ s.job = None => s.trie = u /\ Candidates(u) = {}
      /\ s.job # None => s.job.parent \in Candidates(u) /\ s.trie = Collapse(u, s.job.parent)
  BY <1>1, SettledFacts
<1>3. DOMAIN path = 1..Len(path)
  BY TrackFacts
<1>4. CASE s.job = None
  <2>1. Calm(u)
    BY <1>1, <1>2, <1>4, CandidatesFacts
  <2>2. KnownIn(u, path)
    BY <1>1 DEF KnownIn
  <2> QED BY <1>2, <1>4, <2>1, <2>2 DEF RewritePath
<1>5. CASE s.job # None
  <2> DEFINE p == s.job.parent
  <2>1. p \in DOMAIN u /\ PH \notin ToSet(p) /\ ShouldCollapse(u, p)
    BY <1>2, <1>5 DEF Candidates
  <2>2. /\ p \in DOMAIN t /\ p \in Tracks /\ Begins(p, path) /\ Len(p) < Len(path)
        /\ Append(p, path[Len(p) + 1]) \notin DOMAIN t
    BY <2>1, ObserveCalm
  <2>3. ASSUME NEW q \in DOMAIN u, PH \notin ToSet(q), ShouldCollapse(u, q) PROVE q = p
    <3>1. /\ q \in DOMAIN t /\ q \in Tracks /\ Begins(q, path) /\ Len(q) < Len(path)
          /\ Append(q, path[Len(q) + 1]) \notin DOMAIN t
      BY <2>3, ObserveCalm
    <3> QED BY <2>2, <3>1, ObserveOne
  <2> HIDE DEF u, p
  <2>4. Calm(Collapse(u, p))
    BY <1>1, <2>1, <2>3, CollapseCalm
  <2>5. ~(Len(p) >= Len(path)) /\ Below(path, p) /\ IsPrefix(p, path)
    BY <2>2, PrefixFacts, TrackFacts DEF Below
  <2>6. RewritePath(path, s.job) = Image(path, p)
    BY <1>5, <2>5, TrackFacts DEF RewritePath, Image, Below, p
  <2>7. /\ Image(path, p) \in Tracks /\ Len(Image(path, p)) = Len(path)
        /\ \A i \in 1..Len(path) : Image(path, p)[i] \in {path[i], PH}
    BY <2>2, ImageFacts
  <2>8. Image(path, p) \in DOMAIN Collapse(u, p)
    BY <1>1, <2>1, CollapseFacts
  <2>9. KnownIn(Collapse(u, p), Image(path, p))
    BY <2>8 DEF KnownIn
  <2> QED BY <1>2, <1>5, <2>4, <2>6, <2>7, <2>9 DEF p
<1> QED BY <1>2, <1>4, <1>5

\* The trie of a crash: some paths observed, one after the other.
LEMMA RebuiltFacts ==
  ASSUME \A r \in Live : table[r].path \in Tracks
  PROVE  IsTrie(Rebuilt)
<1> DEFINE base == [node \in {<<>>} |-> 0]
           S == {table[r].path : r \in Live}
           Tries == {t \in UNION {[D -> Nat] : D \in SUBSET Tracks} : IsTrie(t)}
           ch == Chosen(S)
           step == [p \in S \X Tries |-> Observe(p[2], p[1])]
           Iterates(it) == it = [s \in SUBSET S |-> IF s = {} THEN base ELSE Observe(it[s \ {Some(s)}], Some(s))]
<1>1. Rebuilt = (CHOOSE it : Iterates(it))[S]
  BY DEF Rebuilt, FoldSet, MapThenFoldSet, Some
<1>2. IsFiniteSet(S) /\ S \subseteq Tracks
  <2> DEFINE f == [r \in Live |-> table[r].path]
  <2>1. IsFiniteSet(Live)
    BY MergeAssumption, FS_Subset DEF Live
  <2>2. IsFiniteSet({f[r] : r \in Live})
    BY <2>1, ValuesFinite, Zenon
  <2> QED BY <2>2
<1>3. Chooses(ch, S) /\ \A s \in SUBSET S : s # {} => ch[s] = Some(s) /\ Some(s) \in s
  BY SomeChooses DEF Chosen, Some
<1>4. \A t : IsTrie(t) <=> t \in Tries
  BY DEF IsTrie
<1>5. base \in Tries
  <2>1. DOMAIN base = {<<>>} /\ base \in [{<<>>} -> Nat] /\ <<>> \in Tracks /\ IsFiniteSet({<<>>})
    BY EmptySeq, FS_Singleton DEF Tracks
  <2>2. Nodes(<<>>) \subseteq {<<>>}
    BY <2>1, NodesFacts, TrackFacts, TrackEqual, EmptySeq DEF Begins
  <2> HIDE DEF base
  <2>3. IsTrie(base)
    BY <2>1, <2>2 DEF IsTrie
  <2> QED BY <1>4, <2>3
<1>6. \A x \in S, t \in Tries : step[<<x, t>>] = Observe(t, x) /\ step[<<x, t>>] \in Tries
  BY <1>2, <1>4, ObserveFacts
<1> HIDE DEF base, S, Tries, ch, step
<1>7. PICK it : Folds(base, ch, step, it, S)
  BY <1>2, <1>3, FoldExists
<1>8. \A s \in SUBSET S : it[s] \in Tries
  <2>1. \A x \in S, t \in Tries : step[<<x, t>>] \in Tries
    BY <1>6
  <2>2. Chooses(ch, S) /\ IsFiniteSet(S)
    BY <1>2, <1>3
  <2> QED BY <1>5, <1>7, <2>1, <2>2, FoldTyped, Zenon
<1>9. \E jt : Iterates(jt)
  <2> DEFINE jt == [s \in SUBSET S |-> it[s]]
  <2>1. ASSUME NEW s \in SUBSET S
        PROVE  it[s] = IF s = {} THEN base ELSE Observe(jt[s \ {Some(s)}], Some(s))
    <3>1. s # {} => it[s] = step[<<Some(s), it[s \ {Some(s)}]>>] /\ it[s \ {Some(s)}] \in Tries /\ Some(s) \in S
      BY <1>3, <1>7, <1>8 DEF Folds, Step
    <3>2. s = {} => it[s] = base
      BY <1>7 DEF Folds, Step
    <3>3. s # {} => jt[s \ {Some(s)}] = it[s \ {Some(s)}]
      OBVIOUS
    <3> QED BY <1>6, <3>1, <3>2, <3>3
  <2> QED BY <2>1
<1> DEFINE kt == CHOOSE jt : Iterates(jt)
<1>10. Iterates(kt)
  BY <1>9
<1> HIDE DEF kt
<1> DEFINE G == {s \in SUBSET S : kt[s] \in Tries}
<1>11. ASSUME NEW s \in SUBSET S, \A v \in SUBSET s : v # s => v \in G PROVE s \in G
  <2>1. s # {} => kt[s \ {Some(s)}] \in Tries /\ Some(s) \in S
    BY <1>3, <1>11
  <2>2. s # {} => Observe(kt[s \ {Some(s)}], Some(s)) \in Tries
    BY <1>6, <2>1
  <2>3. kt[s] = IF s = {} THEN base ELSE Observe(kt[s \ {Some(s)}], Some(s))
    BY <1>10
  <2> QED BY <1>5, <2>2, <2>3
<1> HIDE DEF G
<1>12. \A s \in SUBSET S : s \in G
  BY <1>2, <1>11, SubsetInduction
<1>13. S \in G
  BY <1>12
<1> QED BY <1>1, <1>4, <1>13 DEF G, kt

-----------------------------------------------------------------------------
(* Recordings.                                                             *)

Records == [path : Tracks, seq : UNION {[es -> Nat] : es \in SUBSET Exchanges}, count : Nat]

Numbered(rec) ==
  /\ rec.count = Cardinality(Entries(rec))
  /\ {rec.seq[e] : e \in Entries(rec)} = 0..(rec.count - 1)

LEMMA RecordFacts ==
  ASSUME NEW rec \in Records
  PROVE  /\ rec # None /\ rec.path \in Tracks /\ rec.count \in Nat
         /\ Entries(rec) \subseteq Exchanges /\ IsFiniteSet(Entries(rec))
         /\ rec.seq \in [Entries(rec) -> Nat]
<1>1. rec # None
  BY MergeAssumption DEF Records, Tracks
<1>2. rec.path \in Tracks /\ rec.count \in Nat
  BY DEF Records
<1>3. PICK es \in SUBSET Exchanges : rec.seq \in [es -> Nat]
  BY DEF Records
<1>4. Entries(rec) = es
  BY <1>3 DEF Entries
<1>5. IsFiniteSet(es)
  BY MergeAssumption, FS_Subset
<1> QED BY <1>1, <1>2, <1>3, <1>4, <1>5

LEMMA SingleFacts ==
  ASSUME NEW x \in Exchanges, NEW path \in Tracks
  PROVE  /\ Single(x, path) \in Records /\ Numbered(Single(x, path))
         /\ Single(x, path).path = path /\ Entries(Single(x, path)) = {x}
<1>1. [e \in {x} |-> 0] \in [{x} -> Nat] /\ {x} \in SUBSET Exchanges
  OBVIOUS
<1>2. Single(x, path) \in Records
  BY <1>1 DEF Single, Records
<1>3. Entries(Single(x, path)) = {x} /\ Single(x, path).count = 1
  BY DEF Single, Entries
<1>4. Cardinality({x}) = 1
  BY FS_Singleton, Zenon
<1>5. {Single(x, path).seq[e] : e \in {x}} = 0..(1 - 1)
  BY DEF Single
<1>6. Numbered(Single(x, path))
  BY <1>3, <1>4, <1>5 DEF Numbered
<1> QED BY <1>2, <1>3, <1>6 DEF Single

LEMMA AppendFacts ==
  ASSUME NEW rec \in Records, Numbered(rec), NEW x \in Exchanges, x \notin Entries(rec)
  PROVE  /\ AppendTo(rec, x) \in Records /\ Numbered(AppendTo(rec, x))
         /\ AppendTo(rec, x).path = rec.path /\ Entries(AppendTo(rec, x)) = Entries(rec) \cup {x}
         /\ \A e \in Entries(rec) : AppendTo(rec, x).seq[e] = rec.seq[e]
<1> DEFINE D == Entries(rec) \cup {x}
           new == AppendTo(rec, x)
           seq == [e \in D |-> IF e = x THEN rec.count ELSE rec.seq[e]]
<1>1. /\ rec.path \in Tracks /\ rec.count \in Nat /\ Entries(rec) \subseteq Exchanges
      /\ IsFiniteSet(Entries(rec)) /\ rec.seq \in [Entries(rec) -> Nat]
  BY RecordFacts
<1>2. seq \in [D -> Nat] /\ D \in SUBSET Exchanges
  BY <1>1
<1>3. /\ new \in Records
      /\ new.path = rec.path /\ new.seq = seq /\ new.count = rec.count + 1
  <2>1. new = [rec EXCEPT !.seq = seq, !.count = rec.count + 1]
    BY DEF AppendTo, Entries
  <2>2. rec.count + 1 \in Nat
    BY <1>1
  <2> DEFINE S == UNION {[es -> Nat] : es \in SUBSET Exchanges}
  <2>3. seq \in S
    BY <1>2
  <2>4. rec \in [path : Tracks, seq : S, count : Nat]
    BY DEF Records
  <2> HIDE DEF new, seq, D, S
  <2>5. new \in [path : Tracks, seq : S, count : Nat]
    BY <2>1, <2>2, <2>3, <2>4
  <2>6. new.path = rec.path /\ new.seq = seq /\ new.count = rec.count + 1
    BY <2>1, <2>4
  <2> QED BY <2>5, <2>6 DEF S, Records
<1>6. Entries(new) = D
  BY <1>3 DEF Entries
<1>7. Cardinality(D) = rec.count + 1
  BY <1>1, FS_AddElement DEF Numbered
<1>8. {seq[e] : e \in D} = 0..rec.count
  <2>1. {rec.seq[e] : e \in Entries(rec)} = 0..(rec.count - 1)
    BY DEF Numbered
  <2>2. {seq[e] : e \in D} = {rec.seq[e] : e \in Entries(rec)} \cup {rec.count}
    OBVIOUS
  <2> HIDE DEF seq, D
  <2> QED BY <1>1, <2>1, <2>2
<1>9. Numbered(new)
  <2>1. new.count - 1 = rec.count
    BY <1>1, <1>3
  <2> HIDE DEF new, seq, D
  <2>2. {new.seq[e] : e \in Entries(new)} = 0..(new.count - 1)
    BY <1>3, <1>6, <1>8, <2>1, Zenon
  <2> QED BY <1>3, <1>6, <1>7, <2>2 DEF Numbered
<1> QED BY <1>3, <1>6, <1>9

\* max(seq_order) + 1 of a recording is its entry_count.
LEMMA BaseFacts ==
  ASSUME NEW rec \in Records, Numbered(rec)
  PROVE  Base(rec) = rec.count
<1> DEFINE s == {rec.seq[e] : e \in Entries(rec)}
<1>1. rec.count \in Nat /\ IsFiniteSet(Entries(rec)) /\ rec.count = Cardinality(Entries(rec))
  BY RecordFacts DEF Numbered
<1>2. s = 0..(rec.count - 1)
  BY DEF Numbered
<1>3. Base(rec) = IF Entries(rec) = {} THEN 0 ELSE Max(s) + 1
  BY DEF Base, Entries
<1>4. CASE Entries(rec) = {}
  BY <1>1, <1>3, <1>4, FS_EmptySet
<1>5. CASE Entries(rec) # {}
  <2>1. rec.count # 0
    BY <1>1, <1>5, FS_EmptySet
  <2> HIDE DEF s
  <2>2. s \in SUBSET (0..rec.count) /\ s # {} /\ rec.count - 1 \in s
    BY <1>1, <1>2, <2>1
  <2>3. Max(s) \in s /\ \A i \in s : i <= Max(s)
    BY <1>1, <2>2, MaxIn
  <2>4. Max(s) = rec.count - 1
    BY <1>1, <1>2, <2>2, <2>3
  <2> QED BY <1>1, <1>3, <1>5, <2>4
<1> QED BY <1>4, <1>5

LEMMA MoveFacts ==
  ASSUME NEW rec \in Records, Numbered(rec), NEW source \in Records, Numbered(source),
         Entries(rec) \cap Entries(source) = {}
  PROVE  /\ MoveEntries(rec, source) \in Records /\ Numbered(MoveEntries(rec, source))
         /\ MoveEntries(rec, source).path = rec.path
         /\ Entries(MoveEntries(rec, source)) = Entries(rec) \cup Entries(source)
         /\ \A e \in Entries(rec) : MoveEntries(rec, source).seq[e] = rec.seq[e]
<1> DEFINE D == Entries(rec) \cup Entries(source)
           new == MoveEntries(rec, source)
           seq == [e \in D |-> IF e \in Entries(rec) THEN rec.seq[e] ELSE source.seq[e] + rec.count]
<1>1. /\ rec.path \in Tracks /\ rec.count \in Nat /\ Entries(rec) \subseteq Exchanges
      /\ IsFiniteSet(Entries(rec)) /\ rec.seq \in [Entries(rec) -> Nat]
  BY RecordFacts
<1>2. /\ source.count \in Nat /\ Entries(source) \subseteq Exchanges
      /\ IsFiniteSet(Entries(source)) /\ source.seq \in [Entries(source) -> Nat]
  BY RecordFacts
<1>3. Base(rec) = rec.count
  BY BaseFacts
<1>5. seq \in [D -> Nat] /\ D \in SUBSET Exchanges
  BY <1>1, <1>2
<1>6. IsFiniteSet(D) /\ Cardinality(D) = rec.count + source.count
  <2>1. Cardinality(Entries(rec) \cap Entries(source)) = 0
    BY FS_EmptySet
  <2>2. IsFiniteSet(D) /\ Cardinality(D) = Cardinality(Entries(rec)) + Cardinality(Entries(source)) - Cardinality(Entries(rec) \cap Entries(source))
    BY <1>1, <1>2, FS_Union
  <2> QED BY <1>1, <1>2, <2>1, <2>2 DEF Numbered
<1>8. /\ new \in Records
      /\ new.path = rec.path /\ new.seq = seq /\ new.count = Cardinality(D)
  <2>1. new = [rec EXCEPT !.seq = seq, !.count = Cardinality(D)]
    BY <1>3 DEF MoveEntries, Entries
  <2>2. Cardinality(D) \in Nat
    BY <1>1, <1>2, <1>6
  <2> DEFINE S == UNION {[es -> Nat] : es \in SUBSET Exchanges}
  <2>3. seq \in S
    BY <1>5
  <2>4. rec \in [path : Tracks, seq : S, count : Nat]
    BY DEF Records
  <2> HIDE DEF new, seq, D, S
  <2>5. new \in [path : Tracks, seq : S, count : Nat]
    BY <2>1, <2>2, <2>3, <2>4
  <2>6. new.path = rec.path /\ new.seq = seq /\ new.count = Cardinality(D)
    BY <2>1, <2>4
  <2> QED BY <2>5, <2>6 DEF S, Records
<1>9. Entries(new) = D
  BY <1>8 DEF Entries
<1>10. {seq[e] : e \in D} = 0..(rec.count + source.count - 1)
  <2>1. {rec.seq[e] : e \in Entries(rec)} = 0..(rec.count - 1)
    BY DEF Numbered
  <2>2. {source.seq[e] : e \in Entries(source)} = 0..(source.count - 1)
    BY DEF Numbered
  <2>3. \A e \in Entries(rec) : e \in D /\ seq[e] = rec.seq[e]
    OBVIOUS
  <2>4. \A e \in Entries(source) : e \in D /\ seq[e] = source.seq[e] + rec.count
    OBVIOUS
  <2>5. \A e \in D : e \in Entries(rec) \/ e \in Entries(source)
    OBVIOUS
  <2> HIDE DEF seq, D
  <2>6. ASSUME NEW e \in D PROVE seq[e] \in 0..(rec.count + source.count - 1)
    <3>1. CASE e \in Entries(rec)
      <4>1. rec.seq[e] \in 0..(rec.count - 1)
        BY <2>1, <3>1
      <4> QED BY <1>1, <1>2, <2>3, <3>1, <4>1
    <3>2. CASE e \in Entries(source)
      <4>1. source.seq[e] \in 0..(source.count - 1)
        BY <2>2, <3>2
      <4> QED BY <1>1, <1>2, <2>4, <3>2, <4>1
    <3> QED BY <2>5, <3>1, <3>2
  <2>7. ASSUME NEW i \in 0..(rec.count + source.count - 1) PROVE \E e \in D : seq[e] = i
    <3>1. CASE i < rec.count
      <4>1. i \in 0..(rec.count - 1)
        BY <1>1, <3>1
      <4>2. PICK e \in Entries(rec) : rec.seq[e] = i
        BY <2>1, <4>1
      <4> QED BY <2>3, <4>2
    <3>2. CASE i >= rec.count
      <4>1. i - rec.count \in 0..(source.count - 1)
        BY <1>1, <1>2, <3>2
      <4>2. PICK e \in Entries(source) : source.seq[e] = i - rec.count
        BY <2>2, <4>1
      <4> QED BY <1>1, <1>2, <2>4, <4>2
    <3> QED BY <1>1, <3>1, <3>2
  <2> QED BY <2>6, <2>7
<1> HIDE DEF new, seq, D
<1>11. Numbered(new)
  <2>1. {new.seq[e] : e \in Entries(new)} = 0..(new.count - 1)
    <3>1. new.count - 1 = rec.count + source.count - 1
      BY <1>1, <1>2, <1>6, <1>8
    <3> QED BY <1>8, <1>9, <1>10, <3>1, Zenon
  <2> QED BY <1>8, <1>9, <2>1 DEF Numbered
<1> QED BY <1>8, <1>9, <1>11 DEF new, seq, D

-----------------------------------------------------------------------------
(* The table.                                                              *)

Tables == [Exchanges -> Records \cup {None}]
Rows(tbl) == {r \in Exchanges : tbl[r] # None}

\* The exchanges that are in some recording.
Held(tbl) == UNION {Entries(tbl[r]) : r \in Rows(tbl)}

\* Every recording has the exchange that created it and numbers what it has; its path
\* generalises what they asked for, and no other has its path or one of its exchanges.
Sound(tbl, ask) ==
  /\ tbl \in Tables
  /\ \A r \in Rows(tbl) : /\ Numbered(tbl[r]) /\ r \in Entries(tbl[r])
                          /\ \A x \in Entries(tbl[r]) : Generalises(tbl[r].path, ask[x])
  /\ \A r, q \in Rows(tbl) :
       r # q => tbl[r].path # tbl[q].path /\ Entries(tbl[r]) \cap Entries(tbl[q]) = {}

\* Recording r keeps its exchanges, each with its number.
Holds(tbl, new, r) ==
  \A e \in Entries(tbl[r]) : e \in Entries(new[r]) /\ new[r].seq[e] = tbl[r].seq[e]

\* It is still there, with its path and its exchanges.
Keeps(tbl, new, r) ==
  /\ new[r] # None /\ new[r].path = tbl[r].path
  /\ \A e \in Entries(tbl[r]) : e \in Entries(new[r]) /\ new[r].seq[e] = tbl[r].seq[e]

LEMMA RowFacts ==
  ASSUME NEW tbl \in Tables, NEW r \in Exchanges
  PROVE  tbl[r] # None <=> tbl[r] \in Records
  BY RecordFacts DEF Tables

LEMMA PutRow ==
  ASSUME NEW tbl, NEW ask, Sound(tbl, ask), NEW k \in Exchanges,
         NEW rec \in Records, Numbered(rec), k \in Entries(rec),
         \A x \in Entries(rec) : Generalises(rec.path, ask[x]),
         \A q \in Rows(tbl) \ {k} : tbl[q].path # rec.path /\ Entries(tbl[q]) \cap Entries(rec) = {}
  PROVE  /\ Sound([tbl EXCEPT ![k] = rec], ask)
         /\ Held([tbl EXCEPT ![k] = rec]) = Entries(rec) \cup UNION {Entries(tbl[q]) : q \in Rows(tbl) \ {k}}
<1> DEFINE new == [tbl EXCEPT ![k] = rec]
<1>1. rec # None
  BY RecordFacts
<1>2. new \in Tables /\ new[k] = rec /\ \A q \in Exchanges \ {k} : new[q] = tbl[q]
  BY DEF Sound, Tables
<1> HIDE DEF new
<1>3. Rows(new) = Rows(tbl) \cup {k}
  BY <1>1, <1>2 DEF Rows
<1>4. \A q \in Rows(new) \ {k} : q \in Rows(tbl) \ {k} /\ q \in Exchanges \ {k}
  BY <1>3 DEF Rows
<1>5. \A r \in Rows(new) : /\ Numbered(new[r]) /\ r \in Entries(new[r])
                           /\ \A x \in Entries(new[r]) : Generalises(new[r].path, ask[x])
  BY <1>2, <1>4 DEF Sound
<1>6. ASSUME NEW r \in Rows(new), NEW q \in Rows(new), r # q
      PROVE  new[r].path # new[q].path /\ Entries(new[r]) \cap Entries(new[q]) = {}
  <2>1. CASE r = k
    <3>1. q \in Rows(tbl) \ {k} /\ new[q] = tbl[q] /\ new[r] = rec
      BY <1>2, <1>4, <1>6, <2>1
    <3> QED BY <3>1
  <2>2. CASE q = k
    <3>1. r \in Rows(tbl) \ {k} /\ new[r] = tbl[r] /\ new[q] = rec
      BY <1>2, <1>4, <1>6, <2>2
    <3> QED BY <3>1
  <2>3. CASE r # k /\ q # k
    <3>1. r \in Rows(tbl) /\ new[r] = tbl[r] /\ q \in Rows(tbl) /\ new[q] = tbl[q]
      BY <1>2, <1>4, <2>3
    <3> QED BY <1>6, <3>1 DEF Sound
  <2> QED BY <2>1, <2>2, <2>3
<1>7. Sound(new, ask)
  BY <1>2, <1>5, <1>6 DEF Sound
<1>8. Held(new) = Entries(rec) \cup UNION {Entries(tbl[q]) : q \in Rows(tbl) \ {k}}
  <2>1. k \in Rows(new) /\ \A q \in Rows(tbl) \ {k} : q \in Rows(new) /\ new[q] = tbl[q]
    BY <1>2, <1>3 DEF Rows
  <2> QED BY <1>2, <1>4, <2>1 DEF Held
<1> QED BY <1>7, <1>8 DEF new

LEMMA DropRow ==
  ASSUME NEW tbl, NEW ask, Sound(tbl, ask), NEW r \in Rows(tbl)
  PROVE  /\ Sound([tbl EXCEPT ![r] = None], ask)
         /\ Rows([tbl EXCEPT ![r] = None]) = Rows(tbl) \ {r}
         /\ \A q \in Exchanges \ {r} : [tbl EXCEPT ![r] = None][q] = tbl[q]
         /\ Held([tbl EXCEPT ![r] = None]) = Held(tbl) \ Entries(tbl[r])
<1> DEFINE new == [tbl EXCEPT ![r] = None]
<1>1. r \in Exchanges
  BY DEF Rows
<1>2. new \in Tables /\ new[r] = None /\ \A q \in Exchanges \ {r} : new[q] = tbl[q]
  BY <1>1 DEF Sound, Tables
<1> HIDE DEF new
<1>3. Rows(new) = Rows(tbl) \ {r}
  BY <1>2 DEF Rows
<1>4. \A q \in Rows(new) : q \in Rows(tbl) /\ new[q] = tbl[q]
  BY <1>2, <1>3 DEF Rows
<1>5. Sound(new, ask)
  BY <1>2, <1>4 DEF Sound
<1>6. \A q \in Rows(tbl) \ {r} : Entries(tbl[q]) \cap Entries(tbl[r]) = {}
  BY DEF Sound
<1>7. Held(new) = Held(tbl) \ Entries(tbl[r])
  BY <1>3, <1>4, <1>6 DEF Held
<1> QED BY <1>2, <1>3, <1>5, <1>7 DEF new

LEMMA NewRow ==
  ASSUME NEW tbl, NEW ask, Sound(tbl, ask), NEW x \in Exchanges, x \notin Held(tbl),
         NEW path \in Tracks, Generalises(path, ask[x]), At(tbl, path) = {}
  PROVE  /\ Sound([tbl EXCEPT ![x] = Single(x, path)], ask)
         /\ Held([tbl EXCEPT ![x] = Single(x, path)]) = Held(tbl) \cup {x}
         /\ \A r \in Rows(tbl) : Keeps(tbl, [tbl EXCEPT ![x] = Single(x, path)], r)
<1> DEFINE rec == Single(x, path)
<1>1. rec \in Records /\ Numbered(rec) /\ rec.path = path /\ Entries(rec) = {x}
  BY SingleFacts
<1>2. x \notin Rows(tbl)
  BY DEF Sound, Held
<1>3. \A q \in Rows(tbl) : tbl[q].path # path /\ Entries(tbl[q]) \cap {x} = {}
  BY DEF At, Rows, Held
<1> HIDE DEF rec
<1>4. /\ Sound([tbl EXCEPT ![x] = rec], ask)
      /\ Held([tbl EXCEPT ![x] = rec]) = Entries(rec) \cup UNION {Entries(tbl[q]) : q \in Rows(tbl) \ {x}}
  <2>1. x \in Entries(rec)
    BY <1>1
  <2>2. \A q \in Rows(tbl) \ {x} : tbl[q].path # rec.path /\ Entries(tbl[q]) \cap Entries(rec) = {}
    BY <1>1, <1>3
  <2>3. \A y \in Entries(rec) : Generalises(rec.path, ask[y])
    BY <1>1
  <2> QED BY <1>1, <2>1, <2>2, <2>3, PutRow, Zenon
<1>5. Rows(tbl) \ {x} = Rows(tbl)
  BY <1>2
<1>6. \A r \in Rows(tbl) : [tbl EXCEPT ![x] = rec][r] = tbl[r]
  BY <1>2 DEF Sound, Tables, Rows
<1>7. \A r \in Rows(tbl) : Keeps(tbl, [tbl EXCEPT ![x] = rec], r)
  BY <1>6 DEF Keeps, Rows
<1> QED BY <1>1, <1>4, <1>5, <1>7 DEF rec, Held

LEMMA FindOrAppendFacts ==
  ASSUME NEW tbl, NEW ask, Sound(tbl, ask), NEW x \in Exchanges, x \notin Held(tbl),
         NEW path \in Tracks, Generalises(path, ask[x])
  PROVE  /\ Sound(FindOrAppend(tbl, x, path), ask)
         /\ Held(FindOrAppend(tbl, x, path)) = Held(tbl) \cup {x}
         /\ \A r \in Rows(tbl) : Keeps(tbl, FindOrAppend(tbl, x, path), r)
<1>1. CASE At(tbl, path) = {}
  BY <1>1, NewRow DEF FindOrAppend
<1>2. CASE At(tbl, path) # {}
  <2>1. PICK k \in At(tbl, path) : TRUE
    BY <1>2
  <2>2. k \in Rows(tbl) /\ k \in Exchanges /\ tbl[k].path = path /\ tbl \in Tables
    BY <2>1 DEF At, Rows, Sound
  <2>3. At(tbl, path) = {k}
    BY <2>1, <2>2 DEF At, Rows, Sound
  <2> DEFINE rec == AppendTo(tbl[k], x)
             new == [tbl EXCEPT ![k] = rec]
  <2>4. FindOrAppend(tbl, x, path) = [r \in Exchanges |-> IF r \in At(tbl, path) THEN AppendTo(tbl[r], x) ELSE tbl[r]]
    BY <1>2 DEF FindOrAppend
  <2>5. FindOrAppend(tbl, x, path) = new
    BY <2>2, <2>3, <2>4 DEF Tables
  <2>6. tbl[k] \in Records /\ Numbered(tbl[k]) /\ x \notin Entries(tbl[k]) /\ k \in Entries(tbl[k])
    BY <2>2, RowFacts DEF Rows, Sound, Held
  <2>7. /\ rec \in Records /\ Numbered(rec) /\ rec.path = path /\ Entries(rec) = Entries(tbl[k]) \cup {x}
        /\ \A e \in Entries(tbl[k]) : rec.seq[e] = tbl[k].seq[e]
    BY <2>2, <2>6, AppendFacts
  <2> HIDE DEF rec
  <2>8. \A q \in Rows(tbl) \ {k} : tbl[q].path # rec.path /\ Entries(tbl[q]) \cap Entries(rec) = {}
    BY <2>2, <2>7 DEF Sound, Held
  <2>9. \A y \in Entries(rec) : Generalises(rec.path, ask[y])
    BY <2>2, <2>7 DEF Sound
  <2>10. /\ Sound(new, ask)
         /\ Held(new) = Entries(rec) \cup UNION {Entries(tbl[q]) : q \in Rows(tbl) \ {k}}
    <3>1. k \in Exchanges /\ k \in Entries(rec) /\ rec \in Records /\ Numbered(rec)
      BY <2>2, <2>6, <2>7
    <3> QED BY <2>8, <2>9, <3>1, PutRow, ZenonT(30)
  <2>11. Held(new) = Held(tbl) \cup {x}
    BY <2>2, <2>7, <2>10 DEF Held
  <2>12. new[k] = rec /\ rec # None /\ \A r \in Exchanges \ {k} : new[r] = tbl[r]
    BY <2>2, <2>7, RecordFacts DEF Tables
  <2>13. \A r \in Rows(tbl) : Keeps(tbl, new, r)
    BY <2>2, <2>7, <2>12 DEF Keeps, Rows
  <2> HIDE DEF new
  <2> QED BY <2>5, <2>10, <2>11, <2>13
<1> QED BY <1>1, <1>2

-----------------------------------------------------------------------------
(* Merges.                                                                 *)

\* The new path of an affected recording still generalises what was asked for.
LEMMA RewriteFacts ==
  ASSUME NEW job \in Jobs, NEW path \in Tracks, NEW key \in Sources(path, job)
  PROVE  /\ RewriteTargetPath(path, job, key) \in Tracks
         /\ \A raw : Generalises(path, raw) => Generalises(RewriteTargetPath(path, job, key), raw)
<1> DEFINE n == Len(job.parent) + 1
           seg == IF key = path[n] THEN PH ELSE <<key, path[n]>>
           new == RewriteTargetPath(path, job, key)
<1>1. /\ job.parent \in Tracks /\ Len(path) > Len(job.parent) /\ key \in Segments
      /\ key = path[n] \/ <<key, path[n]>> \in Extends
  BY DEF Sources, Jobs
<1>2. n \in 1..Len(path)
  BY <1>1, TrackFacts
<1>3. new = ReplaceAt(path, n, seg)
  BY DEF RewriteTargetPath
<1>4. seg \in Segments
  BY <1>1 DEF Segments
<1> HIDE DEF n, seg, new
<1>5. /\ new \in Tracks /\ Len(new) = Len(path)
      /\ \A i \in 1..Len(path) : new[i] = IF i = n THEN seg ELSE path[i]
  BY <1>2, <1>3, <1>4, PutFacts
<1>6. ASSUME NEW raw, Generalises(path, raw) PROVE Generalises(new, raw)
  <2>1. Len(path) = Len(raw) /\ \A i \in 1..Len(path) : path[i] \in {raw[i], PH} \cup {e \in Extends : e[2] = raw[i]}
    BY <1>6, TrackFacts DEF Generalises
  <2>2. ASSUME <<key, path[n]>> \in Extends PROVE path[n] = raw[n]
    <3>1. <<key, path[n]>>[2] \notin Extends \cup {PH}
      BY <2>2, MergeAssumption
    <3> QED BY <1>2, <2>1, <3>1
  <2>3. seg \in {raw[n], PH} \cup {e \in Extends : e[2] = raw[n]}
    BY <1>1, <2>2 DEF seg
  <2>4. \A i \in 1..Len(new) : new[i] \in {raw[i], PH} \cup {e \in Extends : e[2] = raw[i]}
    BY <1>5, <2>1, <2>3
  <2> QED BY <1>5, <2>1, <2>4, TrackFacts DEF Generalises
<1> QED BY <1>5, <1>6 DEF new

LEMMA MergeRowFacts ==
  ASSUME NEW tbl, NEW ask, Sound(tbl, ask), NEW r \in Rows(tbl), NEW path \in Tracks,
         \A x \in Entries(tbl[r]) : Generalises(path, ask[x])
  PROVE  /\ Sound(MergeRow(tbl, r, path), ask)
         /\ Held(MergeRow(tbl, r, path)) = Held(tbl)
         /\ \A q \in Rows(tbl) \ {r} : Keeps(tbl, MergeRow(tbl, r, path), q)
         /\ r \in Rows(MergeRow(tbl, r, path)) => Holds(tbl, MergeRow(tbl, r, path), r)
         /\ Rows(MergeRow(tbl, r, path)) \subseteq Rows(tbl)
<1>1. /\ r \in Exchanges /\ tbl \in Tables /\ tbl[r] \in Records
      /\ Numbered(tbl[r]) /\ r \in Entries(tbl[r])
  BY RowFacts DEF Sound, Rows
<1>2. CASE At(tbl, path) \subseteq {r}
  <2> DEFINE rec == [tbl[r] EXCEPT !.path = path]
             new == [tbl EXCEPT ![r] = rec]
  <2>1. MergeRow(tbl, r, path) = new
    BY <1>2 DEF MergeRow
  <2>2. rec \in Records /\ rec.path = path /\ rec.seq = tbl[r].seq /\ rec.count = tbl[r].count
    <3> DEFINE S == UNION {[es -> Nat] : es \in SUBSET Exchanges}
    <3>1. tbl[r] \in [path : Tracks, seq : S, count : Nat]
      BY <1>1 DEF Records
    <3> HIDE DEF S
    <3>2. rec \in [path : Tracks, seq : S, count : Nat]
      BY <3>1
    <3> QED BY <3>1, <3>2 DEF Records, S
  <2>3. Entries(rec) = Entries(tbl[r]) /\ Numbered(rec)
    <3> HIDE DEF rec
    <3>1. Entries(rec) = Entries(tbl[r])
      BY <2>2 DEF Entries
    <3> QED BY <1>1, <2>2, <3>1 DEF Numbered
  <2> HIDE DEF rec
  <2>4. \A q \in Rows(tbl) \ {r} : tbl[q].path # rec.path /\ Entries(tbl[q]) \cap Entries(rec) = {}
    BY <1>2, <2>2, <2>3 DEF At, Rows, Sound
  <2>5. \A y \in Entries(rec) : Generalises(rec.path, ask[y])
    BY <2>2, <2>3
  <2>6. r \in Entries(rec) /\ rec \in Records /\ Numbered(rec)
    BY <1>1, <2>2, <2>3
  <2>7. /\ Sound([tbl EXCEPT ![r] = rec], ask)
        /\ Held([tbl EXCEPT ![r] = rec]) = Entries(rec) \cup UNION {Entries(tbl[q]) : q \in Rows(tbl) \ {r}}
    BY <1>1, <2>4, <2>5, <2>6, PutRow, ZenonT(30)
  <2>8. \A q \in Exchanges \ {r} : new[q] = tbl[q]
    BY <1>1 DEF Tables
  <2>9. \A q \in Rows(tbl) \ {r} : Keeps(tbl, new, q)
    BY <2>8 DEF Keeps, Rows
  <2>10. Sound(new, ask) /\ Held(new) = Entries(rec) \cup UNION {Entries(tbl[q]) : q \in Rows(tbl) \ {r}}
    BY <2>7
  <2>12. new[r] = rec
    BY <1>1 DEF Tables
  <2> HIDE DEF new
  <2>13. Holds(tbl, new, r)
    BY <2>2, <2>3, <2>12 DEF Holds
  <2>14. Rows(new) \subseteq Rows(tbl)
    BY <2>8 DEF Rows
  <2>11. Held(new) = Held(tbl)
    BY <2>3, <2>10 DEF Held
  <2> QED BY <2>1, <2>9, <2>10, <2>11, <2>13, <2>14
<1>3. CASE ~(At(tbl, path) \subseteq {r})
  <2> DEFINE k == CHOOSE k \in At(tbl, path) : TRUE
             rec == MoveEntries(tbl[k], tbl[r])
             drop == [tbl EXCEPT ![r] = None]
             new == [tbl EXCEPT ![k] = rec, ![r] = None]
  <2>1. MergeRow(tbl, r, path) = new
    BY <1>3 DEF MergeRow
  <2>2. k \in At(tbl, path)
    BY <1>3
  <2> HIDE DEF k
  <2>3. k \in Rows(tbl) /\ k \in Exchanges /\ tbl[k].path = path
    BY <2>2 DEF At, Rows
  <2>4. At(tbl, path) = {k}
    BY <2>2, <2>3 DEF At, Rows, Sound
  <2>5. k # r
    BY <1>3, <2>4
  <2>6. tbl[k] \in Records /\ Numbered(tbl[k]) /\ k \in Entries(tbl[k]) /\ Entries(tbl[k]) \cap Entries(tbl[r]) = {}
    BY <1>1, <2>3, <2>5, RowFacts DEF Rows, Sound
  <2>7. /\ rec \in Records /\ Numbered(rec) /\ rec.path = path
        /\ Entries(rec) = Entries(tbl[k]) \cup Entries(tbl[r])
        /\ \A e \in Entries(tbl[k]) : rec.seq[e] = tbl[k].seq[e]
    BY <1>1, <2>3, <2>6, MoveFacts
  <2> HIDE DEF rec
  <2>8. /\ Sound(drop, ask) /\ Rows(drop) = Rows(tbl) \ {r} /\ \A q \in Exchanges \ {r} : drop[q] = tbl[q]
        /\ Held(drop) = Held(tbl) \ Entries(tbl[r])
    BY DropRow
  <2>9. new = [drop EXCEPT ![k] = rec]
    BY <1>1, <2>3, <2>5 DEF Tables
  <2> HIDE DEF drop
  <2>10. \A q \in Rows(drop) \ {k} : drop[q].path # rec.path /\ Entries(drop[q]) \cap Entries(rec) = {}
    <3> TAKE q \in Rows(drop) \ {k}
    <3>1. q \in Rows(tbl) /\ q # r /\ q # k /\ drop[q] = tbl[q]
      BY <2>8 DEF Rows
    <3>2. /\ tbl[q].path # tbl[k].path
          /\ Entries(tbl[q]) \cap Entries(tbl[k]) = {} /\ Entries(tbl[q]) \cap Entries(tbl[r]) = {}
      BY <2>3, <3>1 DEF Sound
    <3> QED BY <2>3, <2>7, <3>1, <3>2
  <2>11. \A y \in Entries(rec) : Generalises(rec.path, ask[y])
    BY <2>3, <2>7 DEF Sound
  <2>12. k \in Exchanges /\ k \in Entries(rec) /\ rec \in Records /\ Numbered(rec)
    BY <2>3, <2>6, <2>7
  <2>13. /\ Sound([drop EXCEPT ![k] = rec], ask)
         /\ Held([drop EXCEPT ![k] = rec]) = Entries(rec) \cup UNION {Entries(drop[q]) : q \in Rows(drop) \ {k}}
    <3> HIDE DEF new
    <3>1. Sound(drop, ask)
      BY <2>8
    <3> QED BY <2>10, <2>11, <2>12, <3>1, PutRow, ZenonT(30)
  <2>14. new[k] = rec /\ \A q \in Exchanges \ {r, k} : new[q] = tbl[q]
    BY <1>1, <2>3, <2>5 DEF Tables
  <2>15. Sound(new, ask) /\ Held(new) = Entries(rec) \cup UNION {Entries(drop[q]) : q \in Rows(drop) \ {k}}
    BY <2>9, <2>13, Zenon
  <2>18. r \notin Rows(new)
    BY <1>1 DEF Tables, Rows
  <2> HIDE DEF new
  <2>16. Held(new) = Held(tbl)
    <3>1. \A q \in Rows(drop) \ {k} : q \in Rows(tbl) /\ drop[q] = tbl[q]
      BY <2>8 DEF Rows
    <3>2. \A q \in Rows(tbl) \ {r, k} : q \in Rows(drop) \ {k} /\ drop[q] = tbl[q]
      BY <2>8 DEF Rows
    <3> QED BY <2>3, <2>7, <2>15, <3>1, <3>2 DEF Held
  <2>17. ASSUME NEW q \in Rows(tbl) \ {r} PROVE Keeps(tbl, new, q)
    <3>1. CASE q = k
      <4>1. rec # None
        BY <2>7, RecordFacts
      <4> QED BY <2>3, <2>7, <2>14, <3>1, <4>1 DEF Keeps
    <3>2. CASE q # k
      <4>1. new[q] = tbl[q] /\ tbl[q] # None
        BY <2>14, <3>2 DEF Rows
      <4> QED BY <4>1 DEF Keeps
    <3> QED BY <3>1, <3>2
  <2>19. Rows(new) \subseteq Rows(tbl)
    BY <2>3, <2>14, <2>18 DEF Rows
  <2> QED BY <2>1, <2>15, <2>16, <2>17, <2>18, <2>19
<1> QED BY <1>2, <1>3

\* A merge, whatever rows it has selected and whatever order it takes them in: the exchanges
\* it finds are still held, the recordings that it leaves out keep theirs and their path, and
\* one that it takes keeps its exchanges if it stays.
LEMMA MergedFacts ==
  ASSUME NEW ask, Sound(table, ask), NEW job \in Jobs,
         NEW A, A \subseteq Live, \A r \in A : Sources(table[r].path, job) # {},
         NEW tbl \in Merged(job, A)
  PROVE  /\ Sound(tbl, ask) /\ Held(tbl) = Held(table)
         /\ \A r \in Live \ A : Keeps(table, tbl, r)
         /\ \A r \in Live : tbl[r] # None => Holds(table, tbl, r)
<1> DEFINE n == Len(job.parent) + 1
           D == 1..Cardinality(A)
<1>1. PICK order \in SetToSeqs(A), first \in FirstSources(job, A) : tbl = MergeRows(job, order, first)
  BY DEF Merged
<1> DEFINE NewPath(r) == RewriteTargetPath(table[r].path, job, first[table[r].path[n]])
           MergeOne(tb, i) == MergeRow(tb, order[i], NewPath(order[i]))
           Iterates(it) == it = [s \in SUBSET D |-> IF s = {} THEN table ELSE MergeOne(it[s \ {Max(s)}], Max(s))]
<1>2. /\ A \subseteq Live /\ Live = Rows(table) /\ Live \subseteq Exchanges
      /\ \A r \in A : first[table[r].path[n]] \in Sources(table[r].path, job)
  BY DEF Live, Rows, FirstSources
<1>3. /\ Cardinality(A) \in Nat /\ IsFiniteSet(D)
      /\ order \in [D -> A] /\ \A i, j \in D : i # j => order[i] # order[j]
  <2>1. IsFiniteSet(A)
    BY <1>2, MergeAssumption, FS_Subset
  <2>2. Cardinality(A) \in Nat
    BY <2>1, FS_CardinalityType
  <2> QED BY <2>2, FS_Interval DEF SetToSeqs
<1>4. tbl = (CHOOSE it : Iterates(it))[D]
  <2>1. DOMAIN order = D
    BY <1>3
  <2>2. MergeRows(job, order, first) = (CHOOSE it : Iterates(it))[D]
    BY <2>1 DEF MergeRows, FoldLeft, MapThenFoldSet
  <2> QED BY <1>1, <2>2
<1>5. \A r \in A : /\ NewPath(r) \in Tracks /\ table[r].path \in Tracks
                   /\ \A raw : Generalises(table[r].path, raw) => Generalises(NewPath(r), raw)
  <2> TAKE r \in A
  <2>1. table[r].path \in Tracks
    BY <1>2, RowFacts, RecordFacts DEF Sound, Rows
  <2> QED BY <1>2, <2>1, RewriteFacts
<1>6. \A s \in SUBSET D : s # {} => Max(s) \in s
  <2>1. \A s \in SUBSET D : s \in SUBSET (0..Cardinality(A))
    BY <1>3
  <2> HIDE DEF D
  <2> QED BY <1>3, <2>1, MaxIn
<1> DEFINE Partly(s, tb) ==
             /\ Sound(tb, ask) /\ Held(tb) = Held(table)
             /\ \A r \in Live \ A : Keeps(table, tb, r)
             /\ Rows(tb) \subseteq Live /\ \A r \in Rows(tb) : Holds(table, tb, r)
             /\ \A i \in D \ s : order[i] \in Rows(tb) /\ tb[order[i]].path = table[order[i]].path
<1> HIDE DEF D, NewPath
<1>7. Partly({}, table)
  BY <1>2, <1>3 DEF Keeps, Holds, Rows
<1>8. ASSUME NEW s \in SUBSET D, NEW i \in s, NEW tb, Partly(s \ {i}, tb)
      PROVE  Partly(s, MergeOne(tb, i))
  <2> DEFINE r == order[i]
             new == MergeRow(tb, r, NewPath(r))
  <2>1. r \in A /\ r \in Rows(tb) /\ tb[r].path = table[r].path
    BY <1>3, <1>8
  <2>2. \A x \in Entries(tb[r]) : Generalises(NewPath(r), ask[x])
    <3>1. \A x \in Entries(tb[r]) : Generalises(table[r].path, ask[x])
      BY <1>8, <2>1 DEF Sound
    <3> QED BY <1>5, <2>1, <3>1
  <2>3. NewPath(r) \in Tracks
    BY <1>5, <2>1
  <2> HIDE DEF r
  <2>4. /\ Sound(new, ask) /\ Held(new) = Held(tb)
        /\ \A q \in Rows(tb) \ {r} : Keeps(tb, new, q)
        /\ r \in Rows(new) => Holds(tb, new, r)
        /\ Rows(new) \subseteq Rows(tb)
    BY <1>8, <2>1, <2>2, <2>3, MergeRowFacts
  <2> HIDE DEF new
  <2>5. ASSUME NEW q \in Live \ A PROVE Keeps(table, new, q)
    <3>1. Keeps(table, tb, q)
      BY <1>8
    <3>2. q \in Rows(tb) \ {r}
      BY <1>2, <2>1, <3>1 DEF Keeps, Rows
    <3>3. Keeps(tb, new, q)
      BY <2>4, <3>2
    <3> QED BY <3>1, <3>3 DEF Keeps
  <2>6. ASSUME NEW j \in D \ s PROVE order[j] \in Rows(new) /\ new[order[j]].path = table[order[j]].path
    <3>1. order[j] \in Rows(tb) /\ tb[order[j]].path = table[order[j]].path /\ order[j] # r
      BY <1>3, <1>8 DEF r
    <3>2. Keeps(tb, new, order[j])
      BY <2>4, <3>1
    <3> QED BY <3>1, <3>2 DEF Keeps, Rows
  <2>7. ASSUME NEW q \in Rows(new) PROVE Holds(table, new, q)
    <3>1. q \in Rows(tb) /\ Holds(table, tb, q)
      BY <1>8, <2>4
    <3>2. Holds(tb, new, q)
      BY <2>4, <3>1 DEF Keeps, Holds
    <3> QED BY <3>1, <3>2 DEF Holds
  <2>8. Rows(new) \subseteq Live
    BY <1>8, <2>4
  <2> QED BY <1>8, <2>4, <2>5, <2>6, <2>7, <2>8 DEF new, r
<1>9. \E it : Iterates(it)
  <2> DEFINE ch == [s \in SUBSET D |-> Max(s)]
             step == [p \in D \X Tables |-> MergeOne(p[2], p[1])]
             G(it) == {s \in SUBSET D : Partly(s, it[s])}
  <2>1. Chooses(ch, D) /\ \A s \in SUBSET D : ch[s] = Max(s)
    BY <1>6 DEF Chooses
  <2>2. \A i \in D, tb \in Tables : step[<<i, tb>>] = MergeOne(tb, i)
    OBVIOUS
  <2> HIDE DEF ch, step
  <2>3. PICK it : Folds(table, ch, step, it, D)
    BY <1>3, <2>1, FoldExists
  <2> DEFINE jt == [s \in SUBSET D |-> it[s]]
  <2> HIDE DEF MergeOne, Partly
  <2>4. ASSUME NEW s \in SUBSET D, s # {}, Partly(s \ {Max(s)}, it[s \ {Max(s)}])
        PROVE  it[s] = MergeOne(it[s \ {Max(s)}], Max(s))
    <3>1. it[s] = step[<<Max(s), it[s \ {Max(s)}]>>]
      BY <2>1, <2>3, <2>4 DEF Folds, Step
    <3>2. it[s \ {Max(s)}] \in Tables /\ Max(s) \in D
      BY <1>6, <2>4 DEF Partly, Sound
    <3> QED BY <2>2, <3>1, <3>2
  <2>5. it[{}] = table
    BY <2>3 DEF Folds, Step
  <2>6. ASSUME NEW s \in SUBSET D, \A u \in SUBSET s : u # s => u \in G(it) PROVE s \in G(it)
    <3>1. CASE s = {}
      BY <1>7, <2>5, <3>1
    <3>2. CASE s # {}
      <4> DEFINE m == Max(s)
      <4>1. m \in s /\ s \ {m} \in SUBSET s /\ s \ {m} # s
        BY <1>6, <3>2
      <4>2. Partly(s \ {m}, it[s \ {m}])
        BY <2>6, <4>1
      <4>3. it[s] = MergeOne(it[s \ {m}], m)
        BY <2>4, <3>2, <4>2
      <4> HIDE DEF m
      <4>4. Partly(s, MergeOne(it[s \ {m}], m))
        BY <1>8, <4>1, <4>2
      <4> QED BY <4>3, <4>4
    <3> QED BY <3>1, <3>2
  <2> HIDE DEF G
  <2>7. \A s \in SUBSET D : s \in G(it)
    BY <1>3, <2>6, SubsetInduction
  <2>8. ASSUME NEW s \in SUBSET D
        PROVE  it[s] = IF s = {} THEN table ELSE MergeOne(jt[s \ {Max(s)}], Max(s))
    <3>1. s \ {Max(s)} \in SUBSET D
      OBVIOUS
    <3>2. Partly(s \ {Max(s)}, it[s \ {Max(s)}])
      BY <2>7, <3>1 DEF G
    <3> QED BY <2>4, <2>5, <3>1, <3>2
  <2> QED BY <2>8
<1> DEFINE kt == CHOOSE it : Iterates(it)
           K == {s \in SUBSET D : Partly(s, kt[s])}
<1>10. Iterates(kt)
  BY <1>9
<1> HIDE DEF kt, MergeOne, Partly
<1>11. ASSUME NEW s \in SUBSET D, \A u \in SUBSET s : u # s => u \in K PROVE s \in K
  <2>1. kt[s] = IF s = {} THEN table ELSE MergeOne(kt[s \ {Max(s)}], Max(s))
    BY <1>10
  <2>2. CASE s = {}
    BY <1>7, <2>1, <2>2
  <2>3. CASE s # {}
    <3> DEFINE m == Max(s)
    <3>1. m \in s /\ s \ {m} \in SUBSET s /\ s \ {m} # s
      BY <1>6, <2>3
    <3>2. Partly(s \ {m}, kt[s \ {m}])
      BY <1>11, <3>1
    <3>3. kt[s] = MergeOne(kt[s \ {m}], m)
      BY <2>1, <2>3
    <3> HIDE DEF m
    <3>4. Partly(s, MergeOne(kt[s \ {m}], m))
      BY <1>8, <3>1, <3>2
    <3> QED BY <3>3, <3>4
  <2> QED BY <2>2, <2>3
<1> HIDE DEF K
<1>12. \A s \in SUBSET D : s \in K
  BY <1>3, <1>11, SubsetInduction
<1>13. D \in K
  BY <1>12
<1>14. Partly(D, kt[D])
  BY <1>13 DEF K
<1>15. \A r \in Live : tbl[r] # None => r \in Rows(tbl)
  BY <1>2 DEF Rows
<1> QED BY <1>4, <1>14, <1>15 DEF Partly, kt

-----------------------------------------------------------------------------
(* The inductive invariant.                                                *)

Stored == {x \in Exchanges : record[x] = "stored"}

\* The trie is one, and calm while the proxy runs.
TrieInv == IsTrie(trie) /\ (up => Calm(trie))

\* A request that is under way knows a path to be stored under, and so does the trie.
RequestInv ==
  /\ record \in [Exchanges -> {"idle", "observed", "stored", "lost"}]
  /\ asked \in [Exchanges -> Paths \cup {None}]
  /\ target \in [Exchanges -> Tracks \cup {None}]
  /\ merging \in [Exchanges -> Jobs \cup {None, Committed}]
  /\ \A x \in Exchanges :
       record[x] = "observed" =>
         up /\ target[x] \in Tracks /\ KnownIn(trie, target[x]) /\ Generalises(target[x], asked[x])

\* The table holds what was stored and not deleted.
StoreInv ==
  /\ Sound(table, asked)
  /\ deleted \subseteq Stored /\ Held(table) = Stored \ deleted

CampaignInv ==
  /\ up \in BOOLEAN /\ active \in BOOLEAN
  /\ linked \subseteq Live
  /\ faults \in 0..MaxFaults

\* Only a merge has selected rows, and a recording in use is among them only because the
\* campaign took it into use afterwards.
SelectInv ==
  /\ rows \in [Exchanges -> SUBSET Exchanges]
  /\ raced \in [Exchanges -> SUBSET Exchanges]
  /\ \A x \in Exchanges :
       /\ rows[x] # {} => merging[x] \in Jobs /\ record[x] # "idle"
       /\ merging[x] # None => record[x] # "idle"
       /\ raced[x] \subseteq rows[x]
       /\ active => rows[x] \cap linked \subseteq raced[x]

MergeInv == TrieInv /\ RequestInv /\ StoreInv /\ CampaignInv /\ SelectInv

LEMMA LiveRows == Live = Rows(table) /\ Live' = Rows(table')
  BY DEF Live, Rows

\* What is not held may be asked for anew.
LEMMA SoundAsked ==
  ASSUME NEW tbl, NEW ask, Sound(tbl, ask), NEW other, \A x \in Held(tbl) : other[x] = ask[x]
  PROVE  Sound(tbl, other)
  BY DEF Sound, Held

\* The trie with its root alone.
LEMMA RootFacts ==
  /\ IsTrie([node \in {<<>>} |-> 0]) /\ Calm([node \in {<<>>} |-> 0])
<1> DEFINE t == [node \in {<<>>} |-> 0]
<1>1. DOMAIN t = {<<>>} /\ t \in [{<<>>} -> Nat] /\ <<>> \in Tracks /\ IsFiniteSet({<<>>})
  BY EmptySeq, FS_Singleton DEF Tracks
<1>2. Nodes(<<>>) \subseteq {<<>>}
  BY <1>1, NodesFacts, TrackFacts, TrackEqual, EmptySeq DEF Begins
<1> HIDE DEF t
<1>3. IsTrie(t)
  BY <1>1, <1>2 DEF IsTrie
<1>4. ASSUME NEW q \in DOMAIN t PROVE ~ShouldCollapse(t, q)
  <2>1. q = <<>> /\ q \in Tracks
    BY <1>1, <1>4
  <2>2. /\ Literals(t, q) = {s \in Segments \ {PH} : Append(q, s) \in DOMAIN t}
        /\ Cardinality(Literals(t, q)) \in Nat
    BY <1>3, <2>1, LiteralsFacts
  <2>3. ASSUME NEW s \in Segments PROVE Append(q, s) \notin DOMAIN t
    <3>1. Len(Append(q, s)) = Len(q) + 1 /\ Len(q) = 0
      BY <2>1, ChildFacts, EmptySeq
    <3> QED BY <1>1, <2>1, <3>1
  <2>4. Literals(t, q) = {}
    BY <2>2, <2>3
  <2>5. Cardinality(Literals(t, q)) = 0
    BY <2>4, FS_EmptySet
  <2>6. t[q] \in Nat
    BY <1>3 DEF IsTrie
  <2> QED BY <2>5, <2>6 DEF ShouldCollapse, collapseMinChildren, collapseMinWithPlaceholder
<1> QED BY <1>3, <1>4 DEF Calm, t

LEMMA InitInv == Init => MergeInv
<1> SUFFICES ASSUME Init PROVE MergeInv
  OBVIOUS
<1>1. TrieInv
  BY RootFacts DEF Init, TrieInv
<1>2. RequestInv
  BY DEF Init, RequestInv
<1>3. Rows(table) = {}
  BY DEF Init, Rows
<1>4. table \in Tables
  BY DEF Init, Tables
<1>5. Stored = {} /\ Held(table) = {}
  BY <1>3 DEF Init, Stored, Held
<1>6. StoreInv
  BY <1>3, <1>4, <1>5 DEF Init, StoreInv, Sound
<1>7. CampaignInv
  <2>1. MaxFaults \in Nat
    BY MergeAssumption
  <2>2. faults \in 0..MaxFaults /\ linked \subseteq Live
    BY <2>1 DEF Init
  <2>3. up \in BOOLEAN /\ active \in BOOLEAN
    BY Zenon DEF Init
  <2> QED BY <2>2, <2>3, Zenon DEF CampaignInv
<1>8. SelectInv
  BY DEF Init, SelectInv
<1> QED BY <1>1, <1>2, <1>6, <1>7, <1>8 DEF MergeInv

\* The paths of the table.
LEMMA PathsOfTable == ASSUME StoreInv PROVE \A r \in Live : table[r].path \in Tracks
  BY LiveRows, RowFacts, RecordFacts DEF StoreInv, Sound, Rows

\* Only ObservePath changes the trie of a running proxy: it is calm before, and after.
LEMMA TrieStep ==
  ASSUME MergeInv, [Next]_vars
  PROVE  TrieInv'
<1> USE DEF MergeInv, TrieInv
<1>1. CASE UNCHANGED vars
  BY <1>1 DEF vars, trieVars
<1>2. ASSUME NEW x \in Exchanges, NEW path \in Paths, ObservePath(x, path) PROVE TrieInv'
  <2> DEFINE normal == NormalizePath(path)
  <2>1. normal \in Tracks
    BY PathFacts
  <2>2. up /\ up' = up
    BY <1>2 DEF ObservePath
  <2>3. PICK s \in Settled(Observe(trie, normal)) : trie' = s.trie
    BY <1>2 DEF ObservePath
  <2> HIDE DEF normal
  <2>4. IsTrie(Observe(trie, normal))
    BY <2>1, ObserveFacts
  <2>5. IsTrie(s.trie)
    BY <2>4, SettledFacts
  <2>6. Calm(s.trie)
    BY <2>1, <2>2, ObserveSettled
  <2> QED BY <2>3, <2>5, <2>6
<1>3. ASSUME NEW x \in Exchanges, NEW path \in Paths, Import(x, path) PROVE TrieInv'
  BY <1>3 DEF Import, trieVars
<1>4. ASSUME NEW x \in Exchanges, Store(x) PROVE TrieInv'
  BY <1>4 DEF Store, trieVars
<1>5. ASSUME NEW x \in Exchanges, SelectAffected(x) \/ Merge(x) PROVE TrieInv'
  BY <1>5 DEF SelectAffected, Merge
<1>6. ASSUME NEW x \in Exchanges, Drain(x) PROVE TrieInv'
  <2>1. PICK s \in Settled(trie) : trie' = s.trie
    BY <1>6 DEF Drain
  <2>2. up /\ up' = up
    BY <1>6 DEF Drain
  <2>3. Candidates(trie) = {}
    BY <2>2, CandidatesFacts
  <2>4. s.trie = trie
    BY <2>3 DEF Settled
  <2> QED BY <2>1, <2>2, <2>4
<1>7. ASSUME NEW r \in Exchanges, AddRecording(r) PROVE TrieInv'
  BY <1>7 DEF AddRecording, trieVars
<1>8. ASSUME NEW r \in Exchanges, Delete(r) PROVE TrieInv'
  BY <1>8 DEF Delete, trieVars
<1>9. CASE StartCampaign
  BY <1>9 DEF StartCampaign, trieVars
<1>10. CASE EndCampaign
  BY <1>10 DEF EndCampaign, trieVars
<1>11. CASE Crash
  <2>1. IsTrie(Rebuilt)
    BY PathsOfTable, RebuiltFacts
  <2> QED BY <1>11, <2>1 DEF Crash
<1>12. CASE RebuildStep
  <2>1. PICK s \in Settled(trie) : trie' = s.trie
    BY <1>12 DEF RebuildStep
  <2>2. ~up /\ up' = up
    BY <1>12 DEF RebuildStep
  <2>3. IsTrie(s.trie)
    BY SettledFacts
  <2> QED BY <2>1, <2>2, <2>3
<1>13. CASE RebuildDone
  <2>1. CASE Candidates(trie) = {} /\ UNCHANGED trie
    BY <2>1, CandidatesFacts
  <2>2. CASE trie' = [node \in {<<>>} |-> 0]
    BY <2>2, RootFacts
  <2> QED BY <1>13, <2>1, <2>2 DEF RebuildDone
<1> QED BY <1>1, <1>2, <1>3, <1>4, <1>5, <1>6, <1>7, <1>8, <1>9, <1>10, <1>11, <1>12, <1>13 DEF Next

LEMMA RequestStep ==
  ASSUME MergeInv, [Next]_vars
  PROVE  RequestInv'
<1> USE DEF MergeInv, RequestInv
<1>1. CASE UNCHANGED vars
  BY <1>1 DEF vars, trieVars
<1>2. ASSUME NEW x \in Exchanges, NEW path \in Paths, ObservePath(x, path) PROVE RequestInv'
  <2> DEFINE normal == NormalizePath(path)
  <2>1. /\ path \in Tracks /\ normal \in Tracks /\ Len(normal) = Len(path)
        /\ \A i \in 1..Len(path) : normal[i] \in {path[i], PH}
    BY PathFacts
  <2>2. up /\ up' = up /\ IsTrie(trie) /\ Calm(trie) /\ record[x] = "idle"
    BY <1>2 DEF ObservePath, TrieInv
  <2> DEFINE seen == Observe(trie, normal)
  <2>3. PICK s \in Settled(seen) :
          /\ trie' = s.trie
          /\ merging' = [merging EXCEPT ![x] = s.job]
          /\ target' = [target EXCEPT ![x] = RewritePath(normal, s.job)]
    BY <1>2 DEF ObservePath
  <2> DEFINE path2 == RewritePath(normal, s.job)
  <2>4. record' = [record EXCEPT ![x] = "observed"] /\ asked' = [asked EXCEPT ![x] = path]
    BY <1>2 DEF ObservePath
  <2> HIDE DEF normal
  <2>5. IsTrie(seen)
    BY <2>1, <2>2, ObserveFacts
  <2>6. s.job \in Jobs \cup {None} /\ \A q : KnownIn(seen, q) => KnownIn(s.trie, q)
    BY <2>5, SettledFacts
  <2>7. /\ path2 \in Tracks /\ Len(path2) = Len(normal)
        /\ \A i \in 1..Len(normal) : path2[i] \in {normal[i], PH}
        /\ KnownIn(s.trie, path2)
    BY <2>1, <2>2, ObserveSettled
  <2> HIDE DEF seen, path2
  <2>8. Generalises(path2, path)
    BY <2>1, <2>7, TrackFacts DEF Generalises
  <2>9. target' = [target EXCEPT ![x] = path2] /\ target'[x] = path2 /\ asked'[x] = path
    BY <2>3, <2>4 DEF path2
  <2>10. ASSUME NEW y \in Exchanges, record'[y] = "observed"
         PROVE  up' /\ target'[y] \in Tracks /\ KnownIn(trie', target'[y]) /\ Generalises(target'[y], asked'[y])
    <3>1. CASE y = x
      BY <2>2, <2>3, <2>7, <2>8, <2>9, <3>1
    <3>2. CASE y # x
      <4>1. record[y] = "observed" /\ target'[y] = target[y] /\ asked'[y] = asked[y]
        BY <2>4, <2>9, <2>10, <3>2
      <4>2. target[y] \in Tracks /\ KnownIn(trie, target[y]) /\ Generalises(target[y], asked[y])
        BY <4>1
      <4>3. KnownIn(seen, target[y])
        BY <2>1, <2>2, <4>2, KnownObserve DEF seen
      <4> QED BY <2>2, <2>3, <2>6, <4>1, <4>2, <4>3
    <3> QED BY <3>1, <3>2
  <2>11. /\ record' \in [Exchanges -> {"idle", "observed", "stored", "lost"}]
         /\ asked' \in [Exchanges -> Paths \cup {None}]
         /\ target' \in [Exchanges -> Tracks \cup {None}]
         /\ merging' \in [Exchanges -> Jobs \cup {None, Committed}]
    BY <2>3, <2>4, <2>6, <2>7, <2>9
  <2> QED BY <2>10, <2>11
<1>3. ASSUME NEW x \in Exchanges, NEW path \in Paths, Import(x, path) PROVE RequestInv'
  <2>1. PICK result \in {"stored", "lost"} : record' = [record EXCEPT ![x] = result]
    BY <1>3 DEF Import
  <2>2. asked' = [asked EXCEPT ![x] = path] /\ UNCHANGED <<up, trie, target, merging>>
    BY <1>3 DEF Import, trieVars
  <2>3. \A y \in Exchanges : record'[y] = "observed" => y # x /\ record[y] = "observed" /\ asked'[y] = asked[y]
    BY <2>1, <2>2
  <2> QED BY <2>1, <2>2, <2>3
<1>4. ASSUME NEW x \in Exchanges, Store(x) PROVE RequestInv'
  <2>1. PICK result \in {"stored", "lost"} : record' = [record EXCEPT ![x] = result]
    BY <1>4 DEF Store
  <2>2. UNCHANGED <<up, asked, trie, target, merging>>
    BY <1>4 DEF Store, trieVars
  <2>3. \A y \in Exchanges : record'[y] = "observed" => record[y] = "observed"
    BY <2>1
  <2> QED BY <2>1, <2>2, <2>3
<1>5. ASSUME NEW x \in Exchanges, SelectAffected(x) \/ Merge(x) PROVE RequestInv'
  <2>1. merging' = [merging EXCEPT ![x] = Committed] \/ merging' = [merging EXCEPT ![x] = None] \/ merging' = merging
    BY <1>5 DEF SelectAffected, Merge
  <2>2. UNCHANGED <<up, record, asked, trie, target>>
    BY <1>5 DEF SelectAffected, Merge
  <2> QED BY <2>1, <2>2
<1>6. ASSUME NEW x \in Exchanges, Drain(x) PROVE RequestInv'
  <2>1. PICK s \in Settled(trie) : trie' = s.trie /\ merging' = [merging EXCEPT ![x] = s.job]
    BY <1>6 DEF Drain
  <2>2. s.job \in Jobs \cup {None} /\ \A q : KnownIn(trie, q) => KnownIn(s.trie, q)
    BY SettledFacts DEF TrieInv
  <2>3. UNCHANGED <<up, record, asked, target>>
    BY <1>6 DEF Drain
  <2> QED BY <2>1, <2>2, <2>3
<1>7. ASSUME NEW r \in Exchanges, AddRecording(r) PROVE RequestInv'
  BY <1>7 DEF AddRecording, trieVars
<1>8. ASSUME NEW r \in Exchanges, Delete(r) PROVE RequestInv'
  BY <1>8 DEF Delete, trieVars
<1>9. CASE StartCampaign
  BY <1>9 DEF StartCampaign, trieVars
<1>10. CASE EndCampaign
  BY <1>10 DEF EndCampaign, trieVars
<1>11. CASE Crash
  <2>1. /\ record' = [x \in Exchanges |-> IF record[x] = "observed" THEN "lost" ELSE record[x]]
        /\ target' = [x \in Exchanges |-> None] /\ merging' = [x \in Exchanges |-> None]
        /\ asked' = asked
    BY <1>11 DEF Crash
  <2>2. \A y \in Exchanges : record'[y] # "observed"
    BY <2>1
  <2> QED BY <2>1, <2>2
<1>12. CASE RebuildStep
  <2>1. ~up /\ UNCHANGED <<record, asked, target, merging>>
    BY <1>12 DEF RebuildStep
  <2>2. \A y \in Exchanges : record'[y] # "observed"
    BY <2>1
  <2> QED BY <2>1, <2>2
<1>13. CASE RebuildDone
  <2>1. ~up /\ UNCHANGED <<record, asked, target, merging>>
    BY <1>13 DEF RebuildDone
  <2>2. \A y \in Exchanges : record'[y] # "observed"
    BY <2>1
  <2> QED BY <2>1, <2>2
<1> QED BY <1>1, <1>2, <1>3, <1>4, <1>5, <1>6, <1>7, <1>8, <1>9, <1>10, <1>11, <1>12, <1>13 DEF Next

\* What a step does to the recordings: one that an active campaign uses is kept, though it may
\* be renamed by a merge that had selected it before, and one that is in campaign_recordings is
\* there.
Renamed(r) == \E x \in Exchanges : r \in raced[x] \ raced'[x]

Settles ==
  /\ StoreInv'
  /\ linked' \subseteq Live'
  /\ \A r \in Live :
       active /\ r \in linked =>
         /\ table'[r] # None /\ Holds(table, table', r)
         /\ table'[r].path = table[r].path \/ Renamed(r)

\* A step that deletes or renames nothing, and appends at most.
LEMMA KeepsSettles ==
  ASSUME StoreInv', linked' \subseteq Live', \A r \in Live : active /\ r \in linked => Keeps(table, table', r)
  PROVE  Settles
  BY DEF Settles, Keeps, Holds

LEMMA TableSame ==
  ASSUME MergeInv, UNCHANGED <<record, asked, table, deleted>>, linked' \subseteq Live
  PROVE  Settles
<1>1. StoreInv'
  BY DEF MergeInv, StoreInv, Stored
<1>2. Live' = Live
  BY DEF Live
<1>3. \A r \in Live : Keeps(table, table', r)
  BY DEF Keeps, Live
<1> QED BY <1>1, <1>2, <1>3, KeepsSettles

\* A merge of the rows A that commits, of the proxy or of a rebuild.
LEMMA TableMerged ==
  ASSUME MergeInv, NEW job \in Jobs,
         NEW A, A \subseteq Live, \A r \in A : Sources(table[r].path, job) # {},
         \A r \in A : active /\ r \in linked => Renamed(r),
         NEW tbl \in Merged(job, A), Commits(tbl), table' = tbl,
         UNCHANGED <<record, asked, deleted, linked>>
  PROVE  Settles
<1>1. Sound(table, asked) /\ linked \subseteq Live /\ deleted \subseteq Stored /\ Held(table) = Stored \ deleted
  BY DEF MergeInv, StoreInv, CampaignInv
<1>2. /\ Sound(tbl, asked) /\ Held(tbl) = Held(table)
      /\ \A r \in Live \ A : Keeps(table, tbl, r)
      /\ \A r \in Live : tbl[r] # None => Holds(table, tbl, r)
  BY <1>1, MergedFacts
<1>3. StoreInv'
  BY <1>1, <1>2 DEF StoreInv, Stored
<1>4. linked' \subseteq Live'
  BY <1>1 DEF Commits, Live
<1>5. ASSUME NEW r \in Live, active, r \in linked
      PROVE  /\ table'[r] # None /\ Holds(table, table', r)
             /\ table'[r].path = table[r].path \/ Renamed(r)
  <2>1. table'[r] # None
    BY <1>5 DEF Commits
  <2>2. Holds(table, table', r)
    BY <1>2, <2>1
  <2>3. table'[r].path = table[r].path \/ Renamed(r)
    BY <1>2, <1>5 DEF Keeps
  <2> QED BY <2>1, <2>2, <2>3
<1> QED BY <1>3, <1>4, <1>5 DEF Settles

LEMMA StoreStep ==
  ASSUME MergeInv, [Next]_vars
  PROVE  Settles
<1>1. /\ Sound(table, asked) /\ deleted \subseteq Stored /\ Held(table) = Stored \ deleted
      /\ linked \subseteq Live /\ Live = Rows(table) /\ Live' = Rows(table')
  BY LiveRows DEF MergeInv, StoreInv, CampaignInv
<1>2. CASE UNCHANGED vars
  BY <1>1, <1>2, TableSame DEF vars, storeVars, campaignVars
<1>3. ASSUME NEW x \in Exchanges, NEW path \in Paths, ObservePath(x, path) PROVE Settles
  <2>1. /\ record[x] = "idle" /\ record' = [record EXCEPT ![x] = "observed"]
        /\ asked' = [asked EXCEPT ![x] = path] /\ UNCHANGED <<table, deleted, linked>>
    BY <1>3 DEF ObservePath, storeVars, campaignVars
  <2>2. Stored' = Stored /\ x \notin Stored
    BY <2>1 DEF MergeInv, RequestInv, Stored
  <2>3. \A y \in Held(table) : asked'[y] = asked[y]
    BY <1>1, <2>1, <2>2 DEF MergeInv, RequestInv, Stored
  <2>4. Sound(table, asked')
    BY <1>1, <2>3, SoundAsked
  <2>5. StoreInv'
    BY <1>1, <2>1, <2>2, <2>4 DEF StoreInv
  <2>6. \A r \in Live : Keeps(table, table', r)
    BY <2>1 DEF Keeps, Live
  <2> QED BY <1>1, <2>1, <2>5, <2>6, KeepsSettles
<1>4. ASSUME NEW x \in Exchanges, NEW path \in Paths, Import(x, path) PROVE Settles
  <2> DEFINE normal == NormalizePath(path)
  <2>1. /\ normal \in Tracks /\ Len(normal) = Len(path) /\ path \in Tracks
        /\ \A i \in 1..Len(path) : normal[i] \in {path[i], PH}
    BY PathFacts
  <2>2. /\ record[x] = "idle" /\ asked' = [asked EXCEPT ![x] = path]
        /\ UNCHANGED <<deleted, linked>>
    BY <1>4 DEF Import, campaignVars
  <2>3. PICK result \in {"stored", "lost"} :
          Upsert(x, normal, result) /\ record' = [record EXCEPT ![x] = result]
    BY <1>4 DEF Import
  <2>4. x \notin Stored /\ Stored' = IF result = "stored" THEN Stored \cup {x} ELSE Stored
    BY <2>2, <2>3 DEF MergeInv, RequestInv, Stored
  <2>5. \A y \in Held(table) : asked'[y] = asked[y]
    BY <1>1, <2>2, <2>4 DEF MergeInv, RequestInv, Stored
  <2>6. Sound(table, asked')
    BY <1>1, <2>5, SoundAsked
  <2> HIDE DEF normal
  <2>7. CASE At(table, normal) = {}
    <3>1. result = "stored" /\ table' = [table EXCEPT ![x] = Single(x, normal)]
      BY <2>3, <2>7 DEF Upsert
    <3>2. x \notin Held(table)
      BY <1>1, <2>4
    <3>3. Generalises(normal, asked'[x])
      <4>1. asked'[x] = path
        BY <2>2 DEF MergeInv, RequestInv
      <4> QED BY <2>1, <4>1, TrackFacts DEF Generalises
    <3>4. /\ Sound(table', asked') /\ Held(table') = Held(table) \cup {x}
          /\ \A r \in Rows(table) : Keeps(table, table', r)
      BY <2>1, <2>6, <2>7, <3>1, <3>2, <3>3, NewRow
    <3>5. x \notin deleted
      BY <1>1, <2>4
    <3>6. StoreInv'
      BY <1>1, <2>2, <2>4, <3>1, <3>4, <3>5 DEF StoreInv
    <3>7. linked' \subseteq Live'
      BY <1>1, <2>2, <3>4 DEF Keeps, Rows
    <3> QED BY <1>1, <3>4, <3>6, <3>7, KeepsSettles
  <2>8. CASE At(table, normal) # {}
    <3>1. result = "lost" /\ table' = table
      BY <2>3, <2>8 DEF Upsert
    <3>2. Stored' = Stored
      BY <2>4, <3>1
    <3>3. StoreInv'
      BY <1>1, <2>2, <2>6, <3>1, <3>2 DEF StoreInv
    <3>4. \A r \in Live : Keeps(table, table', r)
      BY <3>1 DEF Keeps, Live
    <3> QED BY <1>1, <2>2, <3>1, <3>3, <3>4, KeepsSettles
  <2> QED BY <2>7, <2>8
<1>5. ASSUME NEW x \in Exchanges, Store(x) PROVE Settles
  <2>1. record[x] = "observed" /\ UNCHANGED <<asked, deleted, linked>>
    BY <1>5 DEF Store, campaignVars
  <2>2. x \notin Stored /\ target[x] \in Tracks /\ Generalises(target[x], asked[x])
    BY <2>1 DEF MergeInv, RequestInv, Stored
  <2>3. CASE record' = [record EXCEPT ![x] = "stored"] /\ table' = FindOrAppend(table, x, target[x])
    <3>1. Stored' = Stored \cup {x}
      BY <2>3 DEF MergeInv, RequestInv, Stored
    <3>2. x \notin Held(table) /\ x \notin deleted
      BY <1>1, <2>2
    <3>3. /\ Sound(table', asked) /\ Held(table') = Held(table) \cup {x}
          /\ \A r \in Rows(table) : Keeps(table, table', r)
      BY <1>1, <2>2, <2>3, <3>2, FindOrAppendFacts
    <3>4. StoreInv'
      BY <1>1, <2>1, <3>1, <3>2, <3>3 DEF StoreInv
    <3>5. linked' \subseteq Live'
      BY <1>1, <2>1, <3>3 DEF Keeps, Rows
    <3> QED BY <1>1, <3>3, <3>4, <3>5, KeepsSettles
  <2>4. CASE record' = [record EXCEPT ![x] = "lost"] /\ UNCHANGED table
    <3>1. Stored' = Stored
      BY <2>1, <2>4 DEF MergeInv, RequestInv, Stored
    <3>2. StoreInv'
      BY <1>1, <2>1, <2>4, <3>1 DEF StoreInv
    <3>3. \A r \in Live : Keeps(table, table', r)
      BY <2>4 DEF Keeps, Live
    <3> QED BY <1>1, <2>1, <2>4, <3>2, <3>3, KeepsSettles
  <2> QED BY <1>5, <2>3, <2>4 DEF Store
<1>6. ASSUME NEW x \in Exchanges, SelectAffected(x) PROVE Settles
  BY <1>1, <1>6, TableSame DEF SelectAffected, storeVars, campaignVars
<1>15. ASSUME NEW x \in Exchanges, Merge(x) PROVE Settles
  <2>1. UNCHANGED <<record, asked, deleted, linked>> /\ merging[x] \in Jobs
    BY <1>15 DEF Merge, MergeInv, SelectInv
  <2>2. /\ Locked(x) \subseteq Live /\ Locked(x) \subseteq rows[x]
        /\ \A r \in Locked(x) : Sources(table[r].path, merging[x]) # {}
    BY DEF Locked, Live, MergeInv, SelectInv
  <2>3. raced' = [raced EXCEPT ![x] = {}]
    BY <1>15 DEF Merge
  <2>4. \A r \in Locked(x) : active /\ r \in linked => Renamed(r)
    BY <2>2, <2>3 DEF Renamed, MergeInv, SelectInv
  <2>5. CASE UNCHANGED table
    BY <1>1, <2>1, <2>5, TableSame
  <2>6. CASE \E tbl \in Merged(merging[x], Locked(x)) : Commits(tbl) /\ table' = tbl
    BY <2>1, <2>2, <2>4, <2>6, TableMerged
  <2> QED BY <1>15, <2>5, <2>6 DEF Merge
<1>7. ASSUME NEW x \in Exchanges, Drain(x) PROVE Settles
  BY <1>1, <1>7, TableSame DEF Drain, storeVars, campaignVars
<1>8. ASSUME NEW r \in Exchanges, AddRecording(r) PROVE Settles
  <2>1. linked' \subseteq Live /\ UNCHANGED <<record, asked, table, deleted>>
    BY <1>1, <1>8 DEF AddRecording, storeVars
  <2> QED BY <2>1, TableSame
<1>9. ASSUME NEW r \in Exchanges, Delete(r) PROVE Settles
  <2>1. /\ r \in Rows(table) /\ r \notin linked
        /\ deleted' = deleted \cup Entries(table[r])
        /\ table' = [table EXCEPT ![r] = None]
        /\ UNCHANGED <<record, asked, linked>>
    BY <1>1, <1>9 DEF Delete, campaignVars
  <2>2. /\ Sound(table', asked) /\ Rows(table') = Rows(table) \ {r}
        /\ \A q \in Exchanges \ {r} : table'[q] = table[q]
        /\ Held(table') = Held(table) \ Entries(table[r])
    BY <1>1, <2>1, DropRow
  <2>3. Entries(table[r]) \subseteq Held(table)
    BY <2>1 DEF Held
  <2>4. StoreInv'
    BY <1>1, <2>1, <2>2, <2>3 DEF StoreInv, Stored
  <2>5. \A q \in Rows(table) \ {r} : Keeps(table, table', q)
    BY <2>2 DEF Keeps, Rows
  <2> QED BY <1>1, <2>1, <2>2, <2>4, <2>5, KeepsSettles
<1>10. CASE StartCampaign
  BY <1>1, <1>10, TableSame DEF StartCampaign, storeVars
<1>11. CASE EndCampaign
  BY <1>1, <1>11, TableSame DEF EndCampaign, storeVars
<1>12. CASE Crash
  <2>1. /\ record' = [x \in Exchanges |-> IF record[x] = "observed" THEN "lost" ELSE record[x]]
        /\ UNCHANGED <<asked, table, deleted, linked>>
    BY <1>12 DEF Crash, storeVars
  <2>2. Stored' = Stored
    BY <2>1 DEF Stored
  <2>3. StoreInv'
    BY <1>1, <2>1, <2>2 DEF StoreInv
  <2>4. \A r \in Live : Keeps(table, table', r)
    BY <2>1 DEF Keeps, Live
  <2> QED BY <1>1, <2>1, <2>3, <2>4, KeepsSettles
<1>13. CASE RebuildStep
  <2>1. UNCHANGED <<record, asked, deleted, linked>>
    BY <1>13 DEF RebuildStep, campaignVars
  <2>2. PICK s \in Settled(trie) :
          s.job # None /\ ((\E tbl \in Merged(s.job, Affected(s.job)) : Commits(tbl) /\ table' = tbl) \/ UNCHANGED table)
    BY <1>13 DEF RebuildStep
  <2>3. s.job \in Jobs
    BY <2>2, SettledFacts DEF MergeInv, TrieInv
  <2>4. CASE UNCHANGED table
    BY <1>1, <2>1, <2>4, TableSame
  <2>5. CASE \E tbl \in Merged(s.job, Affected(s.job)) : Commits(tbl) /\ table' = tbl
    <3>1. /\ Affected(s.job) \subseteq Live
          /\ \A r \in Affected(s.job) : Sources(table[r].path, s.job) # {} /\ ~(active /\ r \in linked)
      BY DEF Affected
    <3> QED BY <2>1, <2>3, <2>5, <3>1, TableMerged
  <2> QED BY <2>2, <2>4, <2>5
<1>14. CASE RebuildDone
  BY <1>1, <1>14, TableSame DEF RebuildDone, storeVars, campaignVars
<1> QED BY <1>2, <1>3, <1>4, <1>5, <1>6, <1>7, <1>8, <1>9, <1>10, <1>11, <1>12, <1>13, <1>14, <1>15 DEF Next

LEMMA CampaignStep ==
  ASSUME MergeInv, [Next]_vars
  PROVE  CampaignInv'
<1>1. up \in BOOLEAN /\ active \in BOOLEAN /\ faults \in 0..MaxFaults
  BY DEF MergeInv, CampaignInv
<1>2. linked' \subseteq Live'
  BY StoreStep DEF Settles
<1>3. up' \in BOOLEAN /\ active' \in BOOLEAN
  BY <1>1 DEF Next, vars, trieVars, storeVars, campaignVars, ObservePath, Import, Store, SelectAffected, Merge,
     Drain, AddRecording, Delete, StartCampaign, EndCampaign, Crash, RebuildStep, RebuildDone
<1>4. UNCHANGED faults \/ Fault
  BY DEF Next, vars, trieVars, storeVars, campaignVars, ObservePath, Import, Store, SelectAffected, Merge,
     Drain, AddRecording, Delete, StartCampaign, EndCampaign, Crash, RebuildStep, RebuildDone
<1>5. faults' \in 0..MaxFaults
  <2>1. MaxFaults \in Nat
    BY MergeAssumption
  <2> QED BY <1>1, <1>4, <2>1 DEF Fault
<1> QED BY <1>2, <1>3, <1>5, Zenon DEF CampaignInv

\* No merge is None, nor is it over.
LEMMA NoJob == None \notin Jobs /\ Committed \notin Jobs /\ None # Committed
  BY MergeAssumption DEF Jobs, Tracks

\* Rows are selected by a merge and given back by it; the campaign's start and its new
\* recordings are what puts one of them in use meanwhile.
LEMMA SelectStep ==
  ASSUME MergeInv, [Next]_vars
  PROVE  SelectInv'
<1> USE DEF MergeInv, SelectInv
<1>1. CASE UNCHANGED vars
  BY <1>1 DEF vars, trieVars, campaignVars
<1>2. ASSUME NEW x \in Exchanges, NEW path \in Paths, ObservePath(x, path) PROVE SelectInv'
  <2>1. /\ record[x] = "idle" /\ record' = [record EXCEPT ![x] = "observed"]
        /\ UNCHANGED <<rows, linked, active, raced>>
    BY <1>2 DEF ObservePath, campaignVars
  <2>2. \E job : merging' = [merging EXCEPT ![x] = job]
    BY <1>2 DEF ObservePath
  <2> QED BY <2>1, <2>2 DEF RequestInv
<1>3. ASSUME NEW x \in Exchanges, NEW path \in Paths, Import(x, path) PROVE SelectInv'
  <2>1. PICK result \in {"stored", "lost"} : record' = [record EXCEPT ![x] = result]
    BY <1>3 DEF Import
  <2>2. UNCHANGED <<merging, rows, linked, active, raced>>
    BY <1>3 DEF Import, trieVars, campaignVars
  <2> QED BY <2>1, <2>2 DEF RequestInv
<1>4. ASSUME NEW x \in Exchanges, Store(x) PROVE SelectInv'
  <2>1. PICK result \in {"stored", "lost"} : record' = [record EXCEPT ![x] = result]
    BY <1>4 DEF Store
  <2>2. UNCHANGED <<merging, rows, linked, active, raced>>
    BY <1>4 DEF Store, trieVars, campaignVars
  <2> QED BY <2>1, <2>2 DEF RequestInv
<1>5. ASSUME NEW x \in Exchanges, SelectAffected(x) PROVE SelectInv'
  <2>1. /\ merging[x] \in Jobs /\ rows[x] = {} /\ UNCHANGED <<record, linked, active, raced>>
    BY <1>5 DEF SelectAffected, campaignVars, RequestInv
  <2>2. CASE /\ rows' = [rows EXCEPT ![x] = Affected(merging[x])]
             /\ merging' = [merging EXCEPT ![x] = IF rows'[x] = {} THEN Committed ELSE @]
    <3>1. Affected(merging[x]) \subseteq Exchanges /\ (active => Affected(merging[x]) \cap linked = {})
      BY DEF Affected, Live
    <3>2. merging[x] # None
      BY <2>1, NoJob
    <3> QED BY <2>1, <2>2, <3>1, <3>2 DEF RequestInv
  <2>3. CASE merging' = [merging EXCEPT ![x] = None] /\ UNCHANGED rows
    BY <2>1, <2>3 DEF RequestInv
  <2> QED BY <1>5, <2>2, <2>3 DEF SelectAffected
<1>6. ASSUME NEW x \in Exchanges, Merge(x) PROVE SelectInv'
  <2>1. /\ merging[x] \in Jobs /\ rows' = [rows EXCEPT ![x] = {}] /\ raced' = [raced EXCEPT ![x] = {}]
        /\ UNCHANGED <<record, linked, active>>
    BY <1>6 DEF Merge
  <2>2. \E job : merging' = [merging EXCEPT ![x] = job]
    BY <1>6 DEF Merge
  <2>3. record[x] # "idle"
    BY <1>6 DEF Merge
  <2> QED BY <2>1, <2>2, <2>3 DEF RequestInv
<1>7. ASSUME NEW x \in Exchanges, Drain(x) PROVE SelectInv'
  <2>1. UNCHANGED <<record, rows, linked, active, raced>>
    BY <1>7 DEF Drain, campaignVars
  <2>2. \E job : merging' = [merging EXCEPT ![x] = job]
    BY <1>7 DEF Drain
  <2>3. rows[x] = {} /\ record[x] # "idle"
    BY <1>7, NoJob DEF Drain
  <2> QED BY <2>1, <2>2, <2>3 DEF RequestInv
<1>8. ASSUME NEW r \in Exchanges, AddRecording(r) PROVE SelectInv'
  <2>1. /\ linked' = linked \cup {r} /\ raced' = IF active THEN Race({r}) ELSE raced
        /\ UNCHANGED <<record, merging, rows, active>>
    BY <1>8 DEF AddRecording, trieVars
  <2> QED BY <2>1 DEF Race
<1>9. ASSUME NEW r \in Exchanges, Delete(r) PROVE SelectInv'
  BY <1>9 DEF Delete, trieVars, campaignVars
<1>10. CASE StartCampaign
  <2>1. raced' = Race(linked) /\ UNCHANGED <<record, merging, rows, linked>>
    BY <1>10 DEF StartCampaign, trieVars
  <2> QED BY <2>1 DEF Race
<1>11. CASE EndCampaign
  <2>1. /\ active' = FALSE /\ raced' = [x \in Exchanges |-> {}]
        /\ UNCHANGED <<record, merging, rows, linked>>
    BY <1>11 DEF EndCampaign, trieVars
  <2> QED BY <2>1
<1>12. CASE Crash
  <2>1. /\ active' = FALSE /\ raced' = [x \in Exchanges |-> {}] /\ rows' = [x \in Exchanges |-> {}]
        /\ merging' = [x \in Exchanges |-> None]
    BY <1>12 DEF Crash
  <2> QED BY <2>1
<1>13. CASE RebuildStep \/ RebuildDone
  BY <1>13 DEF RebuildStep, RebuildDone, campaignVars
<1> QED BY <1>1, <1>2, <1>3, <1>4, <1>5, <1>6, <1>7, <1>8, <1>9, <1>10, <1>11, <1>12, <1>13 DEF Next

\* The invariant of everything below.
THEOREM Invariant == Spec => []MergeInv
<1>1. Init => MergeInv
  BY InitInv
<1>2. MergeInv /\ [Next]_vars => MergeInv'
  BY TrieStep, RequestStep, StoreStep, CampaignStep, SelectStep DEF MergeInv, Settles
<1> QED BY <1>1, <1>2, PTL DEF Spec

-----------------------------------------------------------------------------
(* The properties.                                                         *)

\* Every variable has its type: the nodes on the way to a node of the trie are nodes, a request
\* under way has a path, a merge has something to merge.
THEOREM Typed == Spec => []TypeOK
<1>1. ASSUME MergeInv PROVE TypeOK
  <2>1. \A node \in DOMAIN trie : Nodes(node) \subseteq DOMAIN trie /\ trie[node] \in Nat
    BY <1>1 DEF MergeInv, TrieInv, IsTrie
  <2>2. ASSUME NEW x \in Exchanges
        PROVE  /\ record[x] = "observed" => target[x] # None
               /\ merging[x] \notin {None, Committed} => merging[x].keys # {}
               /\ rows[x] # {} => merging[x] \notin {None, Committed}
               /\ raced[x] \subseteq rows[x] /\ rows[x] \subseteq Exchanges
    <3>1. target[x] \in Tracks => target[x] # None
      BY MergeAssumption DEF Tracks
    <3>2. merging[x] \in Jobs => merging[x].keys # {}
      BY DEF Jobs
    <3>3. /\ rows[x] # {} => merging[x] \in Jobs
          /\ raced[x] \subseteq rows[x] /\ rows[x] \subseteq Exchanges
      BY <1>1 DEF MergeInv, SelectInv
    <3> QED BY <1>1, <3>1, <3>2, <3>3, NoJob DEF MergeInv, RequestInv
  <2>3. \A r \in Live : table[r].seq \in [Entries(table[r]) -> Nat] /\ Entries(table[r]) \subseteq Exchanges
    BY <1>1, LiveRows, RowFacts, RecordFacts DEF MergeInv, StoreInv, Sound, Rows
  <2>4. record \in [Exchanges -> {"idle", "observed", "stored", "lost"}] /\ deleted \subseteq Exchanges
    BY <1>1 DEF MergeInv, RequestInv, StoreInv, Stored
  <2>5. up \in BOOLEAN /\ active \in BOOLEAN /\ linked \subseteq Live /\ faults \in 0..MaxFaults
    BY <1>1, Zenon DEF MergeInv, CampaignInv
  <2> QED BY <2>1, <2>2, <2>3, <2>4, <2>5, Zenon DEF TypeOK
<1> QED BY <1>1, Invariant, PTL

\* The exchanges of a recording are numbered 0, 1, ... entry_count - 1, by whatever appends
\* and merges they came to it (insertExchanges, moveEntries).
THEOREM NumberedInOrder == Spec => []EntriesNumbered
<1>1. ASSUME MergeInv PROVE EntriesNumbered
  BY <1>1, LiveRows DEF MergeInv, StoreInv, Sound, Numbered, EntriesNumbered
<1> QED BY <1>1, Invariant, PTL

\* What was stored is in exactly one recording until the recording is deleted, through merges
\* in any order of the rows, failed ones, crashes and rebuilds.
THEOREM NoneLost == Spec => []NothingLost
<1>1. ASSUME MergeInv PROVE NothingLost
  <2> SUFFICES ASSUME NEW x \in Exchanges, record[x] = "stored"
               PROVE  Cardinality({r \in Live : x \in Entries(table[r])}) = IF x \in deleted THEN 0 ELSE 1
    BY DEF NothingLost
  <2> DEFINE S == {r \in Live : x \in Entries(table[r])}
  <2>1. Sound(table, asked) /\ Held(table) = Stored \ deleted /\ Live = Rows(table) /\ x \in Stored
    BY <1>1, LiveRows DEF MergeInv, StoreInv, Stored
  <2>2. CASE x \in deleted
    <3>1. S = {}
      BY <2>1, <2>2 DEF Held
    <3>2. Cardinality(S) = 0
      BY <3>1, FS_EmptySet
    <3> QED BY <2>2, <3>2
  <2>3. CASE x \notin deleted
    <3>1. PICK r \in Rows(table) : x \in Entries(table[r])
      BY <2>1, <2>3 DEF Held
    <3>2. S = {r}
      BY <2>1, <3>1 DEF Sound
    <3>3. Cardinality({r}) = 1
      BY FS_Singleton, Zenon
    <3> QED BY <2>3, <3>2, <3>3
  <2> QED BY <2>2, <2>3
<1> QED BY <1>1, Invariant, PTL

\* Exchanges only meet under a path that generalises what each asked for.
THEOREM PathsGeneralise == Spec => []PathGeneralises
<1>1. ASSUME MergeInv PROVE PathGeneralises
  BY <1>1, LiveRows DEF MergeInv, StoreInv, Sound, PathGeneralises
<1> QED BY <1>1, Invariant, PTL

\* ObservePath looks for one collapse after each observation, and no more are ever needed.
THEOREM Settling == Spec => []TrieSettled
<1>1. ASSUME MergeInv PROVE TrieSettled
  BY <1>1, CandidatesFacts DEF MergeInv, TrieInv, TrieSettled
<1> QED BY <1>1, Invariant, PTL

\* The trie knows the path that a request under way is about to be stored under.
THEOREM TargetsInTrie == Spec => []TargetsKnown
<1>1. ASSUME MergeInv PROVE TargetsKnown
  BY <1>1 DEF MergeInv, RequestInv, KnownIn, TargetsKnown
<1> QED BY <1>1, Invariant, PTL

\* A recording that an active campaign uses keeps its exchanges, each with its number, whatever
\* happens around it, and its path unless a merge had selected it before it came into use.
THEOREM ActiveKept == Spec => ActiveUntouched
<1>1. ASSUME MergeInv, [Next]_vars
      PROVE  \A r \in Live :
               active /\ r \in linked =>
                 /\ table'[r] # None
                 /\ table'[r].path = table[r].path \/ \E x \in Exchanges : r \in raced[x] \ raced'[x]
                 /\ \A e \in Entries(table[r]) :
                      e \in Entries(table'[r]) /\ table'[r].seq[e] = table[r].seq[e]
  BY <1>1, StoreStep DEF Settles, Holds, Renamed
<1>2. MergeInv /\ [Next]_vars =>
        [\A r \in Live :
           active /\ r \in linked =>
             /\ table'[r] # None
             /\ table'[r].path = table[r].path \/ \E x \in Exchanges : r \in raced[x] \ raced'[x]
             /\ \A e \in Entries(table[r]) :
                  e \in Entries(table'[r]) /\ table'[r].seq[e] = table[r].seq[e]]_vars
  BY <1>1
<1> QED BY <1>2, Invariant, PTL DEF Spec, ActiveUntouched
=============================================================================
