------------------------------ MODULE FoldLemmas ------------------------------
(***************************************************************************)
(* Induction over finite sets, and what the folds of the community modules *)
(* compute.  Both are stated for sets and functions instead of operators:  *)
(* a property to be shown by induction is the set of the subsets that have *)
(* it, the operation of a fold is a function on pairs.                     *)
(***************************************************************************)
EXTENDS FiniteSetTheorems, SequencesExt, TLAPS

\* Induction: what holds of a subset when it holds of all smaller ones holds of all.
LEMMA SubsetInduction ==
  ASSUME NEW S, IsFiniteSet(S), NEW G,
         \A t \in SUBSET S : (\A u \in SUBSET t : u # t => u \in G) => t \in G
  PROVE  \A t \in SUBSET S : t \in G
<1> DEFINE B == (SUBSET S) \ G
<1> SUFFICES ASSUME B # {} PROVE FALSE
  OBVIOUS
<1>1. IsWellFoundedOn(StrictSubsetOrdering(S), SUBSET S)
  <2>1. FiniteSubsetsOf(S) = SUBSET S
    BY FS_FiniteSubsetsOfFinite
  <2>2. IsWellFoundedOn(StrictSubsetOrdering(S), FiniteSubsetsOf(S))
    BY FS_StrictSubsetOrderingWellFounded
  <2> QED BY <2>1, <2>2
<1>2. B \subseteq SUBSET S
  OBVIOUS
<1> HIDE DEF B
<1>3. \E t \in B : \A u \in B : <<u, t>> \notin StrictSubsetOrdering(S)
  BY <1>1, <1>2, WFMin
<1>4. PICK t \in B : \A u \in B : <<u, t>> \notin StrictSubsetOrdering(S)
  BY <1>3
<1>5. \A u \in SUBSET t : u # t => u \in G
  BY <1>2, <1>4 DEF B, StrictSubsetOrdering
<1> QED BY <1>2, <1>4, <1>5 DEF B

\* The values of a function on a finite set are finitely many.
LEMMA ValuesFinite ==
  ASSUME NEW S, IsFiniteSet(S), NEW f
  PROVE  IsFiniteSet({f[x] : x \in S})
<1> DEFINE T == {f[x] : x \in S}
           g == [x \in S |-> f[x]]
<1>1. g \in Surjection(S, T)
  BY DEF Surjection
<1> QED BY <1>1, FS_Surjection

\* A nonempty set of naturals has a least element, a finite one a greatest.
LEMMA NatLeast ==
  ASSUME NEW T \in SUBSET Nat, T # {}
  PROVE  \E m \in T : \A n \in T : m <= n
<1>1. PICK k \in T : TRUE
  OBVIOUS
<1> DEFINE S == 0..k
           G == {s \in SUBSET S : \A i \in T : (0..(i - 1)) \cap T = s => \E m \in T : \A n \in T : m <= n}
<1>2. IsFiniteSet(S)
  BY FS_Interval
<1>3. ASSUME NEW s \in SUBSET S, \A u \in SUBSET s : u # s => u \in G PROVE s \in G
  <2> SUFFICES ASSUME NEW i \in T, (0..(i - 1)) \cap T = s
               PROVE  \E m \in T : \A n \in T : m <= n
    OBVIOUS
  <2>1. CASE s = {}
    BY <2>1
  <2>2. CASE s # {}
    <3>1. PICK j \in s : TRUE
      BY <2>2
    <3>2. j \in T /\ j \in Nat /\ j <= i - 1 /\ (0..(j - 1)) \cap T \subseteq s /\ j \notin 0..(j - 1)
      BY <3>1
    <3>3. (0..(j - 1)) \cap T \in G
      BY <1>3, <3>1, <3>2
    <3> QED BY <3>2, <3>3
  <2> QED BY <2>1, <2>2
<1>4. (0..(k - 1)) \cap T \in SUBSET S
  BY <1>1
<1> HIDE DEF G, S
<1>5. \A s \in SUBSET S : s \in G
  BY <1>2, <1>3, SubsetInduction
<1>6. (0..(k - 1)) \cap T \in G
  BY <1>4, <1>5
<1> QED BY <1>1, <1>6 DEF G

LEMMA MaxIn ==
  ASSUME NEW n \in Nat, NEW s \in SUBSET (0..n), s # {}
  PROVE  Max(s) \in s /\ \A i \in s : i <= Max(s)
<1> DEFINE T == {k \in Nat : \A i \in s : i <= k}
<1>1. T \in SUBSET Nat /\ n \in T
  OBVIOUS
<1> HIDE DEF T
<1>2. PICK m \in T : \A k \in T : m <= k
  BY <1>1, NatLeast
<1>3. m \in s
  <2> SUFFICES ASSUME m \notin s PROVE FALSE
    OBVIOUS
  <2>1. PICK j \in s : TRUE
    OBVIOUS
  <2>2. j \in Nat /\ m \in Nat /\ j <= m /\ j # m
    BY <1>2, <2>1 DEF T
  <2>3. m - 1 \in T
    BY <1>2, <2>2 DEF T
  <2> QED BY <1>2, <2>2, <2>3
<1>4. \A i \in s : m >= i
  BY <1>2 DEF T
<1>5. Max(s) \in s /\ \A i \in s : Max(s) >= i
  BY <1>3, <1>4 DEF Max
<1> QED BY <1>5

-----------------------------------------------------------------------------
(* The recursion of MapThenFoldSet.                                        *)

\* it computes the fold of s with step, taking the elements as ch does.
Step(base, ch, step, it, s) ==
  IF s = {} THEN base ELSE step[<<ch[s], it[s \ {ch[s]}]>>]

Folds(base, ch, step, it, t) == \A s \in SUBSET t : it[s] = Step(base, ch, step, it, s)

\* Chooses(ch, S): ch takes an element of each nonempty subset of S.
Chooses(ch, S) == \A s \in SUBSET S : s # {} => ch[s] \in s

\* Two that compute the same fold agree.
LEMMA FoldUnique ==
  ASSUME NEW S, IsFiniteSet(S), NEW base, NEW ch, NEW step, Chooses(ch, S),
         NEW f, NEW t \in SUBSET S, Folds(base, ch, step, f, t),
         NEW g, NEW u \in SUBSET S, Folds(base, ch, step, g, u)
  PROVE  \A s \in SUBSET (t \cap u) : f[s] = g[s]
<1> DEFINE G == {s \in SUBSET S : s \subseteq t \cap u => f[s] = g[s]}
<1>1. ASSUME NEW s \in SUBSET S, \A v \in SUBSET s : v # s => v \in G PROVE s \in G
  <2> SUFFICES ASSUME s \subseteq t \cap u PROVE f[s] = g[s]
    OBVIOUS
  <2>1. s # {} => f[s \ {ch[s]}] = g[s \ {ch[s]}]
    BY <1>1 DEF Chooses
  <2> QED BY <2>1 DEF Folds, Step
<1> HIDE DEF G
<1>2. \A s \in SUBSET S : s \in G
  BY <1>1, SubsetInduction
<1> QED BY <1>2 DEF G

\* There is a function that computes the fold of every subset.
LEMMA FoldExists ==
  ASSUME NEW S, IsFiniteSet(S), NEW base, NEW ch, NEW step, Chooses(ch, S)
  PROVE  \E it : Folds(base, ch, step, it, S)
<1> DEFINE Fold(it, t) == Folds(base, ch, step, it, t)
           val(t) == (CHOOSE it : Fold(it, t))[t]
           G == {t \in SUBSET S : \E it : Fold(it, t)}
<1>1. ASSUME NEW t \in SUBSET S, \A s \in SUBSET t : s # t => s \in G
      PROVE  \A s \in SUBSET t : s # t =>
               /\ Fold(CHOOSE it : Fold(it, s), s)
               /\ val(s) = IF s = {} THEN base ELSE step[<<ch[s], val(s \ {ch[s]})>>]
  <2> TAKE s \in SUBSET t
  <2> HAVE s # t
  <2> DEFINE it == CHOOSE it : Fold(it, s)
             r == s \ {ch[s]}
             jt == CHOOSE jt : Fold(jt, r)
  <2>1. Fold(it, s)
    BY <1>1
  <2>2. s # {} => Fold(jt, r)
    BY <1>1 DEF Chooses
  <2>3. s # {} => it[r] = jt[r]
    <3> HAVE s # {}
    <3>1. s \in SUBSET S /\ r \in SUBSET S /\ r \subseteq s \cap r
      OBVIOUS
    <3>2. Folds(base, ch, step, it, s) /\ Folds(base, ch, step, jt, r)
      BY <2>1, <2>2
    <3> HIDE DEF it, jt, r
    <3> QED BY <3>1, <3>2, FoldUnique
  <2>4. it[s] = Step(base, ch, step, it, s)
    BY <2>1 DEF Folds
  <2> QED BY <2>1, <2>3, <2>4 DEF Step
<1>2. ASSUME NEW t \in SUBSET S, \A s \in SUBSET t : s # t => s \in G PROVE t \in G
  <2> DEFINE new == IF t = {} THEN base ELSE step[<<ch[t], val(t \ {ch[t]})>>]
             it == [s \in SUBSET t |-> IF s = t THEN new ELSE val(s)]
  <2>1. ASSUME NEW s \in SUBSET t PROVE it[s] = Step(base, ch, step, it, s)
    <3>1. s # {} => s \ {ch[s]} \in SUBSET t /\ s \ {ch[s]} # t
      BY DEF Chooses
    <3>2. s # t => val(s) = IF s = {} THEN base ELSE step[<<ch[s], val(s \ {ch[s]})>>]
      BY <1>1, <1>2
    <3> HIDE DEF val
    <3>3. s # {} => it[s \ {ch[s]}] = val(s \ {ch[s]})
      BY <3>1
    <3>4. it[s] = IF s = {} THEN base ELSE step[<<ch[s], val(s \ {ch[s]})>>]
      BY <3>2
    <3> QED BY <3>3, <3>4 DEF Step
  <2>2. Fold(it, t)
    BY <2>1 DEF Folds
  <2> QED BY <2>2
<1>3. \A t \in SUBSET S : t \in G
  <2> HIDE DEF G
  <2> QED BY <1>2, SubsetInduction
<1> QED BY <1>3

\* It stays in a set that holds base and is closed under step.
LEMMA FoldTyped ==
  ASSUME NEW S, IsFiniteSet(S), NEW base, NEW ch, NEW step, Chooses(ch, S),
         NEW it, Folds(base, ch, step, it, S),
         NEW V, base \in V, \A x \in S, v \in V : step[<<x, v>>] \in V
  PROVE  \A s \in SUBSET S : it[s] \in V
<1> DEFINE G == {s \in SUBSET S : it[s] \in V}
<1>1. ASSUME NEW s \in SUBSET S, \A u \in SUBSET s : u # s => u \in G PROVE s \in G
  <2>1. s # {} => it[s \ {ch[s]}] \in V /\ ch[s] \in S
    BY <1>1 DEF Chooses
  <2> QED BY <2>1 DEF Folds, Step
<1> HIDE DEF G
<1>2. \A s \in SUBSET S : s \in G
  BY <1>1, SubsetInduction
<1> QED BY <1>2 DEF G

-----------------------------------------------------------------------------
(* Sums.                                                                   *)

Some(s) == CHOOSE x \in s : TRUE
Summed(f, S, it) == it = [s \in SUBSET S |-> IF s = {} THEN 0 ELSE f[Some(s)] + it[s \ {Some(s)}]]

Chosen(S) == [s \in SUBSET S |-> Some(s)]
Plus(f, S) == [p \in S \X Int |-> f[p[1]] + p[2]]

LEMMA SomeChooses == ASSUME NEW S PROVE Chooses(Chosen(S), S)
  BY DEF Chooses, Chosen, Some

\* A function that sums every subset folds with +.
LEMMA SummedFolds ==
  ASSUME NEW S, IsFiniteSet(S), NEW f, \A x \in S : f[x] \in Int,
         NEW T \in SUBSET S, NEW it, Summed(f, T, it)
  PROVE  Folds(0, Chosen(S), Plus(f, S), it, T) /\ it[T] \in Int
<1> DEFINE G == {s \in SUBSET S : s \subseteq T => it[s] \in Int}
<1>1. \A s \in SUBSET T : it[s] = IF s = {} THEN 0 ELSE f[Some(s)] + it[s \ {Some(s)}]
  BY DEF Summed
<1>2. \A s \in SUBSET S : s # {} => Some(s) \in s
  BY DEF Some
<1>3. ASSUME NEW s \in SUBSET S, \A u \in SUBSET s : u # s => u \in G PROVE s \in G
  <2> SUFFICES ASSUME s \subseteq T PROVE it[s] \in Int
    OBVIOUS
  <2>1. s # {} => it[s \ {Some(s)}] \in Int
    BY <1>2, <1>3
  <2> QED BY <1>1, <1>2, <2>1
<1> HIDE DEF G
<1>4. \A s \in SUBSET S : s \in G
  BY <1>3, SubsetInduction
<1>5. \A s \in SUBSET T : it[s] \in Int
  BY <1>4 DEF G
<1>6. ASSUME NEW s \in SUBSET T, s # {}
      PROVE  Plus(f, S)[<<Chosen(S)[s], it[s \ {Chosen(S)[s]}]>>] = f[Some(s)] + it[s \ {Some(s)}]
  <2>1. Chosen(S)[s] = Some(s) /\ Some(s) \in S
    BY <1>2, <1>6 DEF Chosen
  <2>2. it[s \ {Some(s)}] \in Int
    BY <1>5
  <2> QED BY <2>1, <2>2 DEF Plus
<1> QED BY <1>1, <1>5, <1>6 DEF Folds, Step

\* There is one.
LEMMA SummedExists ==
  ASSUME NEW S, IsFiniteSet(S), NEW f, \A x \in S : f[x] \in Int
  PROVE  \E it : Summed(f, S, it)
<1> DEFINE ch == Chosen(S)
           step == Plus(f, S)
<1>1. Chooses(ch, S)
  BY SomeChooses
<1>2. \A x \in S, v \in Int : step[<<x, v>>] = f[x] + v /\ step[<<x, v>>] \in Int
  BY DEF Plus
<1>3. \A s \in SUBSET S : s # {} => ch[s] = Some(s) /\ Some(s) \in S
  BY DEF Chosen, Some
<1> HIDE DEF ch, step
<1>4. PICK it : Folds(0, ch, step, it, S)
  BY <1>1, FoldExists
<1>5. \A s \in SUBSET S : it[s] \in Int
  <2>1. 0 \in Int /\ \A x \in S, v \in Int : step[<<x, v>>] \in Int
    BY <1>2
  <2>2. ASSUME NEW V, 0 \in V, \A x \in S, v \in V : step[<<x, v>>] \in V
        PROVE  \A s \in SUBSET S : it[s] \in V
    BY <1>1, <1>4, <2>2, FoldTyped
  <2> QED BY <2>1, <2>2, Zenon
<1> DEFINE jt == [s \in SUBSET S |-> it[s]]
<1>6. ASSUME NEW s \in SUBSET S
      PROVE  it[s] = IF s = {} THEN 0 ELSE f[Some(s)] + jt[s \ {Some(s)}]
  <2>1. s # {} => it[s] = step[<<Some(s), it[s \ {Some(s)}]>>] /\ it[s \ {Some(s)}] \in Int
    BY <1>3, <1>4, <1>5 DEF Folds, Step
  <2> QED BY <1>2, <1>3, <1>4, <2>1 DEF Folds, Step
<1>7. Summed(f, S, jt)
  BY <1>6 DEF Summed
<1> QED BY <1>7

\* What is the sum of a set: nothing, or one of its elements and the sum of the others.
LEMMA SumEquation ==
  ASSUME NEW S, IsFiniteSet(S), NEW f, \A x \in S : f[x] \in Int
  PROVE  /\ SumFunctionOnSet(f, S) \in Int
         /\ SumFunctionOnSet(f, S) =
              IF S = {} THEN 0 ELSE f[Some(S)] + SumFunctionOnSet(f, S \ {Some(S)})
<1> DEFINE it(T) == CHOOSE jt : Summed(f, T, jt)
           T == S \ {Some(S)}
           g == it(S)
           h == it(T)
<1>1. SumFunctionOnSet(f, S) = g[S] /\ SumFunctionOnSet(f, T) = h[T]
  BY DEF SumFunctionOnSet, FoldFunctionOnSet, MapThenFoldSet, Summed, Some
<1>2. IsFiniteSet(T) /\ T \in SUBSET S
  BY FS_Subset
<1>3. Summed(f, S, g)
  BY SummedExists
<1>4. Summed(f, T, h)
  BY <1>2, SummedExists
<1>5. Folds(0, Chosen(S), Plus(f, S), g, S) /\ g[S] \in Int
  BY <1>3, SummedFolds
<1>6. Folds(0, Chosen(S), Plus(f, S), h, T)
  BY <1>2, <1>4, SummedFolds
<1>7. g[S] = IF S = {} THEN 0 ELSE f[Some(S)] + g[T]
  BY <1>3 DEF Summed
<1> HIDE DEF T, g, h
<1>8. g[T] = h[T]
  <2>1. \A s \in SUBSET (S \cap T) : g[s] = h[s]
    BY <1>2, <1>5, <1>6, SomeChooses, FoldUnique
  <2> QED BY <1>2, <2>1
<1> QED BY <1>1, <1>5, <1>7, <1>8 DEF T

\* A sum of naturals is one.
LEMMA SumNat ==
  ASSUME NEW S, IsFiniteSet(S), NEW f, \A x \in S : f[x] \in Nat
  PROVE  SumFunctionOnSet(f, S) \in Nat
<1> DEFINE G == {s \in SUBSET S : SumFunctionOnSet(f, s) \in Nat}
<1>1. ASSUME NEW s \in SUBSET S, \A u \in SUBSET s : u # s => u \in G PROVE s \in G
  <2>1. IsFiniteSet(s) /\ \A x \in s : f[x] \in Int
    BY FS_Subset
  <2>2. SumFunctionOnSet(f, s) = IF s = {} THEN 0 ELSE f[Some(s)] + SumFunctionOnSet(f, s \ {Some(s)})
    BY <2>1, SumEquation
  <2>3. s # {} => SumFunctionOnSet(f, s \ {Some(s)}) \in Nat /\ f[Some(s)] \in Nat
    BY <1>1 DEF Some
  <2> QED BY <2>2, <2>3
<1> HIDE DEF G
<1>2. \A s \in SUBSET S : s \in G
  BY <1>1, SubsetInduction
<1>3. S \in G
  BY <1>2
<1> QED BY <1>3 DEF G

\* A sum of zeros.
LEMMA SumZero ==
  ASSUME NEW S, IsFiniteSet(S), NEW f, \A x \in S : f[x] = 0
  PROVE  SumFunctionOnSet(f, S) = 0
<1> DEFINE G == {s \in SUBSET S : SumFunctionOnSet(f, s) = 0}
<1>1. ASSUME NEW s \in SUBSET S, \A u \in SUBSET s : u # s => u \in G PROVE s \in G
  <2>1. IsFiniteSet(s) /\ \A x \in s : f[x] \in Int
    BY FS_Subset
  <2>2. SumFunctionOnSet(f, s) = IF s = {} THEN 0 ELSE f[Some(s)] + SumFunctionOnSet(f, s \ {Some(s)})
    BY <2>1, SumEquation
  <2>3. s # {} => SumFunctionOnSet(f, s \ {Some(s)}) = 0 /\ f[Some(s)] = 0
    BY <1>1 DEF Some
  <2> QED BY <2>2, <2>3
<1> HIDE DEF G
<1>2. \A s \in SUBSET S : s \in G
  BY <1>1, SubsetInduction
<1>3. S \in G
  BY <1>2
<1> QED BY <1>3 DEF G

\* The sum of one number.
LEMMA SumSingleton ==
  ASSUME NEW x, NEW f, f[x] \in Int
  PROVE  SumFunctionOnSet(f, {x}) = f[x]
<1>1. IsFiniteSet({x}) /\ IsFiniteSet({}) /\ Some({x}) = x /\ {x} \ {x} = {}
  BY FS_Singleton, FS_EmptySet DEF Some
<1>2. SumFunctionOnSet(f, {}) = 0
  BY <1>1, SumEquation
<1>3. SumFunctionOnSet(f, {x}) = f[Some({x})] + SumFunctionOnSet(f, {x} \ {Some({x})})
  BY <1>1, SumEquation
<1>4. SumFunctionOnSet(f, {x} \ {Some({x})}) = 0
  BY <1>1, <1>2, Zenon
<1>5. SumFunctionOnSet(f, {x}) = f[x] + 0
  BY <1>1, <1>3, <1>4, Zenon
<1> QED BY <1>5

\* Where one of the numbers changes by d, the sum does.
LEMMA SumChange ==
  ASSUME NEW S, IsFiniteSet(S), NEW f, \A x \in S : f[x] \in Int,
         NEW y \in S, NEW d \in Int, NEW g,
         \A x \in S : g[x] = IF x = y THEN f[x] + d ELSE f[x]
  PROVE  SumFunctionOnSet(g, S) = SumFunctionOnSet(f, S) + d
<1> DEFINE sum(h, s) == SumFunctionOnSet(h, s)
           G == {s \in SUBSET S : sum(g, s) = sum(f, s) + IF y \in s THEN d ELSE 0}
<1>1. ASSUME NEW s \in SUBSET S, \A u \in SUBSET s : u # s => u \in G PROVE s \in G
  <2> DEFINE r == s \ {Some(s)}
  <2>1. IsFiniteSet(s) /\ IsFiniteSet(r) /\ r \in SUBSET S
    BY FS_Subset
  <2>2. (\A x \in S : f[x] \in Int) /\ \A x \in S : g[x] \in Int
    OBVIOUS
  <2>3. sum(f, s) = IF s = {} THEN 0 ELSE f[Some(s)] + sum(f, r)
    BY <2>1, <2>2, SumEquation
  <2>4. sum(g, s) = IF s = {} THEN 0 ELSE g[Some(s)] + sum(g, r)
    BY <2>1, <2>2, SumEquation
  <2>5. sum(f, r) \in Int
    BY <2>1, <2>2, SumEquation
  <2>6. s # {} => Some(s) \in s
    BY DEF Some
  <2>7. s # {} => r \in G
    BY <1>1, <2>6
  <2> HIDE DEF sum
  <2>8. CASE s = {}
    BY <2>3, <2>4, <2>8
  <2>9. CASE s # {}
    <3>1. sum(g, r) = sum(f, r) + IF y \in r THEN d ELSE 0
      BY <2>7, <2>9
    <3>2. f[Some(s)] \in Int /\ g[Some(s)] = IF Some(s) = y THEN f[Some(s)] + d ELSE f[Some(s)]
      BY <2>6, <2>9
    <3>3. y \in r <=> y \in s /\ Some(s) # y
      OBVIOUS
    <3>4. Some(s) = y => y \in s
      BY <2>6, <2>9
    <3> HIDE DEF r
    <3>5. sum(g, s) = sum(f, s) + IF y \in s THEN d ELSE 0
      BY <2>3, <2>4, <2>5, <2>9, <3>1, <3>2, <3>3, <3>4
    <3> QED BY <3>5
  <2> QED BY <2>8, <2>9
<1> HIDE DEF G
<1>2. \A s \in SUBSET S : s \in G
  BY <1>1, SubsetInduction
<1>3. S \in G
  BY <1>2
<1> QED BY <1>3 DEF G

-----------------------------------------------------------------------------
(* Sequences of sequences.                                                 *)

\* The recursion of FlattenSeq.
Flattens(ss, g) == g = [i \in 1..Len(ss) |-> IF i = 1 THEN ss[i] ELSE g[i - 1] \o ss[i]]

LEMMA FlattensExists ==
  ASSUME NEW T, NEW ss \in Seq(Seq(T))
  PROVE  \E g : Flattens(ss, g)
<1> DEFINE n == Len(ss)
           ch == [s \in SUBSET (1..n) |-> Max(s)]
           step == [p \in (1..n) \X Seq(T) |-> IF p[1] = 1 THEN ss[1] ELSE p[2] \o ss[p[1]]]
<1>1. n \in Nat /\ IsFiniteSet(1..n) /\ \A i \in 1..n : ss[i] \in Seq(T)
  BY FS_Interval
<1>2. ASSUME NEW s \in SUBSET (1..n), s # {} PROVE Max(s) \in s /\ \A i \in s : i <= Max(s)
  <2>1. s \in SUBSET (0..n)
    BY <1>1
  <2> HIDE DEF n
  <2> QED BY <1>1, <1>2, <2>1, MaxIn
<1>3. Chooses(ch, 1..n)
  BY <1>2 DEF Chooses
<1>4. ASSUME NEW i \in 1..n, NEW v \in Seq(T) PROVE step[<<i, v>>] = IF i = 1 THEN ss[i] ELSE v \o ss[i]
  <2>1. <<i, v>> \in (1..n) \X Seq(T)
    OBVIOUS
  <2> QED BY <2>1
<1>5. ASSUME NEW i \in 1..n, NEW v \in Seq(T) PROVE step[<<i, v>>] \in Seq(T)
  <2>1. v \o ss[i] \in Seq(T)
    BY <1>1
  <2> QED BY <1>1, <1>4, <2>1
<1>6. <<>> \in Seq(T)
  OBVIOUS
<1> HIDE DEF step, n, ch
<1>7. PICK it : Folds(<<>>, ch, step, it, 1..n)
  BY <1>1, <1>3, FoldExists, Zenon
<1>8. \A s \in SUBSET (1..n) : it[s] \in Seq(T)
  <2>1. \A i \in 1..n, v \in Seq(T) : step[<<i, v>>] \in Seq(T)
    BY <1>5
  <2>2. ASSUME NEW V, <<>> \in V, \A i \in 1..n, v \in V : step[<<i, v>>] \in V
        PROVE  \A s \in SUBSET (1..n) : it[s] \in V
    BY <1>1, <1>3, <1>7, <2>2, FoldTyped
  <2> QED BY <1>6, <2>1, <2>2, Zenon
<1>9. ASSUME NEW i \in 1..n PROVE it[1..i] = IF i = 1 THEN ss[i] ELSE it[1..(i - 1)] \o ss[i]
  <2>1. 1..i \in SUBSET (1..n) /\ 1..(i - 1) \in SUBSET (1..n) /\ i \in 1..i
    BY <1>1
  <2>2. Max(1..i) \in 1..i /\ i <= Max(1..i)
    BY <1>2, <2>1
  <2>3. Max(1..i) = i /\ ch[1..i] = i
    BY <1>1, <2>1, <2>2 DEF ch
  <2>4. (1..i) \ {i} = 1..(i - 1)
    BY <1>1
  <2>5. it[1..i] = Step(<<>>, ch, step, it, 1..i) /\ 1..i # {}
    BY <1>7, <2>1, Zenon DEF Folds
  <2>6. it[1..i] = step[<<i, it[1..(i - 1)]>>]
    BY <2>3, <2>4, <2>5, Zenon DEF Step
  <2>7. it[1..(i - 1)] \in Seq(T)
    BY <1>8, <2>1
  <2> QED BY <1>4, <2>6, <2>7
<1> DEFINE g == [i \in 1..n |-> it[1..i]]
<1>10. \A i \in 1..n : i # 1 => i - 1 \in 1..n
  BY <1>1
<1>11. g = [i \in 1..n |-> IF i = 1 THEN ss[i] ELSE g[i - 1] \o ss[i]]
  BY <1>9, <1>10
<1> QED BY <1>11 DEF Flattens, n

\* FlattenSeq appends one sequence after the other.
LEMMA FlattenFacts ==
  ASSUME NEW T, NEW ss \in Seq(Seq(T)), ss # <<>>
  PROVE  \E g \in [1..Len(ss) -> Seq(T)] :
           /\ FlattenSeq(ss) = g[Len(ss)]
           /\ g[1] = ss[1]
           /\ \A i \in 2..Len(ss) : g[i] = g[i - 1] \o ss[i]
<1> DEFINE g == CHOOSE h : Flattens(ss, h)
<1>1. FlattenSeq(ss) = g[Len(ss)]
  BY DEF FlattenSeq, Flattens
<1>2. Flattens(ss, g)
  BY FlattensExists
<1> DEFINE n == Len(ss)
<1>3. n \in Nat /\ n # 0 /\ \A i \in 1..n : ss[i] \in Seq(T)
  OBVIOUS
<1> HIDE DEF g
<1>4. /\ g = [i \in 1..n |-> g[i]]
      /\ g[1] = ss[1]
      /\ \A i \in 2..n : g[i] = g[i - 1] \o ss[i]
  <2>1. g = [i \in 1..n |-> IF i = 1 THEN ss[i] ELSE g[i - 1] \o ss[i]]
    BY <1>2 DEF Flattens
  <2>2. \A i \in 1..n : g[i] = IF i = 1 THEN ss[i] ELSE g[i - 1] \o ss[i]
    BY <2>1
  <2>3. DOMAIN g = 1..n
    BY <2>1
  <2>4. 1 \in 1..n /\ \A i \in 2..n : i \in 1..n /\ i # 1
    BY <1>3
  <2>5. g = [i \in DOMAIN g |-> g[i]]
    BY <2>1
  <2> QED BY <2>2, <2>3, <2>4, <2>5, Zenon
<1>5. \A i \in 1..n : g[i] \in Seq(T)
  <2> DEFINE G == {s \in SUBSET (1..n) : \A i \in 1..n : s = 1..i => g[i] \in Seq(T)}
  <2>1. ASSUME NEW s \in SUBSET (1..n), \A u \in SUBSET s : u # s => u \in G PROVE s \in G
    <3> SUFFICES ASSUME NEW i \in 1..n, s = 1..i PROVE g[i] \in Seq(T)
      OBVIOUS
    <3>1. CASE i = 1
      BY <1>3, <1>4, <3>1
    <3>2. CASE i # 1
      <4>1. i - 1 \in 1..n /\ 1..(i - 1) \in SUBSET s /\ i \in s /\ i \notin 1..(i - 1)
        BY <1>3, <3>2
      <4>2. g[i - 1] \in Seq(T)
        BY <2>1, <4>1
      <4>3. i \in 2..n /\ ss[i] \in Seq(T)
        BY <1>3, <3>2
      <4>4. g[i] = g[i - 1] \o ss[i]
        BY <1>4, <4>3
      <4> QED BY <4>2, <4>3, <4>4
    <3> QED BY <3>1, <3>2
  <2>2. IsFiniteSet(1..n)
    BY <1>3, FS_Interval
  <2> HIDE DEF G
  <2>3. \A s \in SUBSET (1..n) : s \in G
    BY <2>1, <2>2, SubsetInduction
  <2> QED
    <3>1. ASSUME NEW i \in 1..n PROVE 1..i \in SUBSET (1..n)
      BY <1>3
    <3> QED BY <2>3, <3>1 DEF G
<1>6. g \in [1..n -> Seq(T)]
  BY <1>4, <1>5
<1> QED BY <1>1, <1>4, <1>6
=============================================================================
