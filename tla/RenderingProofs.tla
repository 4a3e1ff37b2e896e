--------------------------- MODULE RenderingProofs ---------------------------
(***************************************************************************)
(* What the two engines compute, and what the three layers show of it,     *)
(* proved for any questionnaire, thresholds, topics and templates.         *)
(*                                                                         *)
(* A score rests on a fold over the questions answered.  The subsets of a  *)
(* finite set are well-founded, so what a fold computes is found without   *)
(* an induction over operators: among the subsets for which it would not   *)
(* hold there would be a smallest.                                         *)
(***************************************************************************)
EXTENDS Rendering, FiniteSetTheorems, WellFoundedInduction, TLAPS

(* A score, in tenths of a point.  Kept unexpanded wherever no arithmetic  *)
(* is done with it.                                                        *)
Mark == 0..1000

-----------------------------------------------------------------------------
(* Folding weights over a finite set.                                      *)

Some(s) == CHOOSE x \in s : TRUE

(* f sums the weights w over every subset of S, element by element.        *)
Sums(f, w, S) ==
  f = [s \in SUBSET S |-> IF s = {} THEN 0 ELSE w[Some(s)] + f[s \ {Some(s)}]]

(* Of the subsets of a finite set in a family there is a smallest one.     *)
LEMMA SmallestSubset ==
  ASSUME NEW S, IsFiniteSet(S), NEW F, F \subseteq SUBSET S, F # {}
  PROVE  \E s \in F : \A t \in F : t \subseteq s => t = s
<1>1. IsWellFoundedOn(StrictSubsetOrdering(S), SUBSET S)
  BY FS_StrictSubsetOrderingWellFounded, FS_FiniteSubsetsOfFinite
<1>2. PICK s \in F : \A t \in F : <<t, s>> \notin StrictSubsetOrdering(S)
  BY <1>1, WFMin
<1>3. ASSUME NEW t \in F, t \subseteq s, t # s
      PROVE  FALSE
  BY <1>2, <1>3 DEF StrictSubsetOrdering
<1> QED
  BY <1>2, <1>3

LEMMA SmallestNumber ==
  ASSUME NEW F, F \subseteq Nat, F # {}
  PROVE  \E n \in F : \A m \in F : n <= m
<1>1. PICK n \in F : \A m \in F : <<m, n>> \notin OpToRel(<, Nat)
  BY NatLessThanWellFounded, WFMin
<1>2. \A m \in F : ~ (m < n)
  BY <1>1 DEF OpToRel
<1> QED
  BY <1>2

(* There is such a function: one that is right up to n elements gives one  *)
(* that is right up to n + 1.                                              *)
SumsUpTo(f, w, S, n) ==
  \A t \in SUBSET S : Cardinality(t) <= n =>
     f[t] = IF t = {} THEN 0 ELSE w[Some(t)] + f[t \ {Some(t)}]

LEMMA SomeIsIn ==
  ASSUME NEW S, IsFiniteSet(S), NEW t \in SUBSET S
  PROVE  /\ IsFiniteSet(t) /\ Cardinality(t) \in Nat
         /\ t # {} => /\ Some(t) \in t /\ t \ {Some(t)} \in SUBSET S
                      /\ Cardinality(t \ {Some(t)}) = Cardinality(t) - 1
                      /\ Cardinality(t) > 0
         /\ t = {} => Cardinality(t) = 0
<1>1. IsFiniteSet(t) /\ Cardinality(t) \in Nat
  BY FS_Subset, FS_CardinalityType
<1>2. t # {} => Some(t) \in t
  BY DEF Some
<1>3. t # {} => Cardinality(t \ {Some(t)}) = Cardinality(t) - 1
  BY <1>1, <1>2, FS_RemoveElement
<1>4. Cardinality(t) = 0 <=> t = {}
  BY <1>1, FS_EmptySet
<1> QED
  BY <1>1, <1>2, <1>3, <1>4

LEMMA SumsExist ==
  ASSUME NEW S, IsFiniteSet(S), NEW w
  PROVE  \E f : Sums(f, w, S)
<1> DEFINE Bad == {n \in Nat : ~ \E f : SumsUpTo(f, w, S, n)}
<1>1. 0 \notin Bad
  <2>1. SumsUpTo([t \in SUBSET S |-> 0], w, S, 0)
    <3>1. ASSUME NEW t \in SUBSET S, Cardinality(t) <= 0 PROVE t = {}
      <4>1. Cardinality(t) \in Nat /\ (t # {} => Cardinality(t) > 0)
        BY SomeIsIn
      <4> QED
        BY <3>1, <4>1
    <3> QED
      BY <3>1 DEF SumsUpTo
  <2> QED
    BY <2>1
<1>2. ASSUME NEW n \in Nat, n \notin Bad PROVE n + 1 \notin Bad
  <2>1. PICK f : SumsUpTo(f, w, S, n)
    BY <1>2
  <2> DEFINE g == [t \in SUBSET S |-> IF Cardinality(t) <= n THEN f[t]
                                     ELSE w[Some(t)] + f[t \ {Some(t)}]]
  <2>2. ASSUME NEW t \in SUBSET S, Cardinality(t) <= n + 1
        PROVE  g[t] = IF t = {} THEN 0 ELSE w[Some(t)] + g[t \ {Some(t)}]
    <3>1. CASE t = {}
      BY <2>1, <3>1, SomeIsIn DEF SumsUpTo
    <3>2. CASE t # {}
      <4>1. g[t \ {Some(t)}] = f[t \ {Some(t)}]
        BY <2>2, <3>2, SomeIsIn
      <4>2. g[t] = w[Some(t)] + f[t \ {Some(t)}]
        BY <2>1, <3>2, SomeIsIn DEF SumsUpTo
      <4> QED
        BY <3>2, <4>1, <4>2
    <3> QED
      BY <3>1, <3>2
  <2>3. SumsUpTo(g, w, S, n + 1)
    BY <2>2 DEF SumsUpTo
  <2> QED
    BY <2>3
<1>3. Bad = {}
  <2>1. SUFFICES ASSUME Bad # {} PROVE FALSE
    OBVIOUS
  <2> HIDE DEF Bad
  <2>2. Bad \subseteq Nat
    BY DEF Bad
  <2>3. PICK n \in Bad : \A m \in Bad : n <= m
    BY <2>1, <2>2, SmallestNumber
  <2>4. n # 0 /\ n - 1 \in Nat /\ n - 1 \notin Bad
    BY <1>1, <2>2, <2>3
  <2> QED
    BY <1>2, <2>2, <2>4
<1>4. PICK f : SumsUpTo(f, w, S, Cardinality(S))
  BY <1>3, FS_CardinalityType
<1> DEFINE g == [t \in SUBSET S |-> f[t]]
<1>5. ASSUME NEW t \in SUBSET S
      PROVE  g[t] = IF t = {} THEN 0 ELSE w[Some(t)] + g[t \ {Some(t)}]
  <2>1. Cardinality(t) <= Cardinality(S)
    BY FS_Subset
  <2> QED
    BY <1>4, <2>1, SomeIsIn DEF SumsUpTo
<1>6. Sums(g, w, S)
  BY <1>5 DEF Sums
<1> QED
  BY <1>6

(* Two such functions agree, so a sum does not depend on which it is, and  *)
(* the sum of n weights up to m is between 0 and n * m.                    *)
LEMMA SumsAgree ==
  ASSUME NEW S, IsFiniteSet(S), NEW w, NEW f, NEW g, Sums(f, w, S), Sums(g, w, S)
  PROVE  f[S] = g[S]
<1> DEFINE Bad == {s \in SUBSET S : f[s] # g[s]}
<1>1. Bad = {}
  <2>1. SUFFICES ASSUME Bad # {} PROVE FALSE
    OBVIOUS
  <2>2. PICK s \in Bad : \A t \in Bad : t \subseteq s => t = s
    <3>1. Bad \subseteq SUBSET S
      OBVIOUS
    <3> HIDE DEF Bad
    <3> QED
      BY <2>1, <3>1, SmallestSubset
  <2>3. CASE s = {}
    BY <2>2, <2>3 DEF Sums
  <2>4. CASE s # {}
    <3>1. s \ {Some(s)} \in SUBSET S /\ s \ {Some(s)} # s
      BY <2>4, SomeIsIn
    <3>2. f[s \ {Some(s)}] = g[s \ {Some(s)}]
      BY <2>2, <3>1
    <3> QED
      BY <2>4, <3>2 DEF Sums
  <2> QED
    BY <2>3, <2>4
<1> QED
  BY <1>1

LEMMA SumsBounded ==
  ASSUME NEW S, IsFiniteSet(S), NEW m \in Nat, NEW w, \A x \in S : w[x] \in 0..m,
         NEW f, Sums(f, w, S)
  PROVE  f[S] \in Nat /\ f[S] <= m * Cardinality(S)
<1> DEFINE Good(s) == f[s] \in Nat /\ f[s] <= m * Cardinality(s)
           Bad == {s \in SUBSET S : ~ Good(s)}
<1>1. Bad = {}
  <2>1. SUFFICES ASSUME Bad # {} PROVE FALSE
    OBVIOUS
  <2>2. PICK s \in Bad : \A t \in Bad : t \subseteq s => t = s
    <3>1. Bad \subseteq SUBSET S
      OBVIOUS
    <3> HIDE DEF Bad
    <3> QED
      BY <2>1, <3>1, SmallestSubset
  <2>3. CASE s = {}
    <3>1. f[s] = 0 /\ Cardinality(s) = 0
      BY <2>3, SomeIsIn DEF Sums
    <3> QED
      BY <3>1
  <2>4. CASE s # {}
    <3> DEFINE x == Some(s)
               t == s \ {x}
    <3>1. x \in s /\ t \in SUBSET S /\ t # s /\ Cardinality(t) = Cardinality(s) - 1
          /\ Cardinality(s) \in Nat /\ Cardinality(t) \in Nat
      <4>1. s \in SUBSET S
        OBVIOUS
      <4>2. x \in s /\ t \in SUBSET S /\ Cardinality(t) = Cardinality(s) - 1
            /\ Cardinality(s) \in Nat /\ Cardinality(s) > 0
        BY <2>4, <4>1, SomeIsIn
      <4> HIDE DEF x
      <4> QED
        BY <4>2
    <3>2. Good(t)
      BY <2>2, <3>1
    <3>3. f[s] = w[x] + f[t] /\ w[x] \in 0..m
      BY <2>4, <3>1 DEF Sums
    <3> HIDE DEF x, t
    <3>4. m * Cardinality(s) = m * Cardinality(t) + m /\ m * Cardinality(t) \in Nat
      BY <3>1
    <3> QED
      BY <3>2, <3>3, <3>4
  <2> QED
    BY <2>3, <2>4
<1> QED
  BY <1>1

-----------------------------------------------------------------------------
(* The scores.                                                             *)

LEMMA ItemsOfScale ==
  Group \in [Dimension -> SUBSET Scale] /\ Items \in [Dimension -> SUBSET Scale]
BY DEF Group, Items

Weight(a) == [q \in Scale |-> Effective(q, a[q]) - 1]

LEMMA Quotient ==
  ASSUME NEW n \in Nat, NEW m \in Nat \ {0}
  PROVE  /\ n \div m \in Nat
         /\ m * (n \div m) <= n
         /\ n < m * (n \div m) + m
  OBVIOUS

(* The sum in a score is the fold of these weights, and there is a score   *)
(* exactly if something is given.                                          *)
Total(a, d) == MapThenSumSet(LAMBDA q : Effective(q, a[q]) - 1, Given(a, Items[d]))

LEMMA ScoreFold ==
  ASSUME NEW a \in Answers, NEW d \in Dimension
  PROVE  \E f : /\ Sums(f, Weight(a), Given(a, Items[d]))
               /\ f[Given(a, Items[d])] = Total(a, d)
               /\ DimensionScore(a, d) =
                    IF Given(a, Items[d]) = {} THEN None
                    ELSE Tenths(250 * f[Given(a, Items[d])], Cardinality(Given(a, Items[d])))
<1> DEFINE given == Given(a, Items[d])
           w == Weight(a)
           iter == CHOOSE f : f = [s \in SUBSET given |->
                      IF s = {} THEN 0
                      ELSE (Effective(Some(s), a[Some(s)]) - 1) + f[s \ {Some(s)}]]
<1>1. DimensionScore(a, d) =
        IF given = {} THEN None ELSE Tenths(250 * iter[given], Cardinality(given))
  BY DEF DimensionScore, MapThenSumSet, MapThenFoldSet, Some
<1>8. iter[given] = Total(a, d)
  BY DEF Total, MapThenSumSet, MapThenFoldSet, Some
<1>2. given \subseteq Scale /\ IsFiniteSet(given)
  BY ItemsOfScale, ScoringAssumption, FS_Subset DEF Given, Question
<1>3. \A s \in SUBSET given : s # {} => w[Some(s)] = Effective(Some(s), a[Some(s)]) - 1
  BY <1>2, SomeIsIn DEF Weight
<1>4. PICK g : Sums(g, w, given)
  BY <1>2, SumsExist
<1> HIDE DEF given, w
<1>5. g = [s \in SUBSET given |-> IF s = {} THEN 0
             ELSE (Effective(Some(s), a[Some(s)]) - 1) + g[s \ {Some(s)}]]
  BY <1>3, <1>4 DEF Sums
<1>6. iter = [s \in SUBSET given |-> IF s = {} THEN 0
                ELSE (Effective(Some(s), a[Some(s)]) - 1) + iter[s \ {Some(s)}]]
  BY <1>5
<1> HIDE DEF iter
<1>7. Sums(iter, w, given)
  BY <1>3, <1>6 DEF Sums
<1> QED
  BY <1>1, <1>7, <1>8 DEF given, w

LEMMA WeightSound ==
  ASSUME NEW a \in Answers, NEW d \in Dimension, NEW q \in Given(a, Items[d])
  PROVE  /\ q \in Scale /\ a[q] \in ScaleValue
         /\ Weight(a)[q] = IF q \in Reverse THEN 5 - a[q] ELSE a[q] - 1
         /\ Weight(a)[q] \in 0..4
<1>1. q \in Scale /\ a[q] # None
  BY ItemsOfScale DEF Given
<1>2. a[q] \in 1..5
  BY <1>1 DEF Answers, ScaleValue
<1>3. Weight(a)[q] = Effective(q, a[q]) - 1
  BY <1>1 DEF Weight
<1> QED
  BY <1>1, <1>2, <1>3 DEF Effective, ScaleValue

(* Rounding to the nearest tenth: n points of m answers that weigh up to 4.*)
LEMMA Rounding ==
  ASSUME NEW n \in Nat \ {0}, NEW total \in Nat, total <= 4 * n
  PROVE  LET s == Tenths(250 * total, n) IN
         s \in Mark /\ Distance(n * s, 250 * total) * 2 <= n
<1> DEFINE k == 500 * total + n
           m == 2 * n
           s == Tenths(250 * total, n)
<1>1. k \in Nat /\ m \in Nat \ {0} /\ k <= 2001 * n
  OBVIOUS
<1>2. s = k \div m
  BY DEF Tenths
<1> HIDE DEF k, m, s
<1>3. s \in Nat /\ m * s <= k /\ k < m * s + m
  BY <1>1, <1>2, Quotient
<1>4. m * s = 2 * (n * s) /\ n * s \in Nat
  BY <1>3 DEF m
<1>5. s <= 1000
  <2>1. SUFFICES ASSUME s >= 1001 PROVE FALSE
    BY <1>3
  <2>2. n * s >= n * 1001
    BY <1>3, <2>1
  <2> QED
    BY <1>1, <1>3, <1>4, <2>2 DEF m
<1>6. Distance(n * s, 250 * total) * 2 <= n
  BY <1>3, <1>4 DEF Distance, k, m
<1> QED
  BY <1>3, <1>5, <1>6 DEF s, Mark

(* A dimension has a score exactly if something was answered in it, and it *)
(* is the rounded mean of the weights, however they are added up.          *)
LEMMA ScoreSound ==
  ASSUME NEW a \in Answers, NEW d \in Dimension
  PROVE  LET given == Given(a, Items[d])
             n == Cardinality(given)
             s == DimensionScore(a, d) IN
         /\ IsFiniteSet(given) /\ n \in Nat /\ (n = 0 <=> given = {})
         /\ given = {} => s = None
         /\ given # {} => s # None /\ s \in Mark
         /\ given # {} => \A f : Sums(f, Weight(a), given) =>
                             Distance(n * s, 250 * f[given]) * 2 <= n
         /\ given # {} => Total(a, d) \in Nat /\ s = Tenths(250 * Total(a, d), n)
<1> DEFINE given == Given(a, Items[d])
           n == Cardinality(given)
           s == DimensionScore(a, d)
<1>1. PICK f : /\ Sums(f, Weight(a), given) /\ f[given] = Total(a, d)
               /\ s = IF given = {} THEN None ELSE Tenths(250 * f[given], n)
  BY ScoreFold
<1>2. IsFiniteSet(given) /\ n \in Nat /\ (n = 0 <=> given = {})
  <2>1. IsFiniteSet(given)
    BY ItemsOfScale, ScoringAssumption, FS_Subset DEF Given, Question
  <2> QED
    BY <2>1, FS_CardinalityType, FS_EmptySet
<1>3. \A q \in given : Weight(a)[q] \in 0..4
  BY WeightSound
<1> HIDE DEF given, n
<1>4. f[given] \in Nat /\ f[given] <= 4 * n
  BY <1>1, <1>2, <1>3, SumsBounded DEF n
<1>5. CASE given = {}
  BY <1>1, <1>2, <1>5 DEF given, n
<1>6. CASE given # {}
  <2>1. s \in Mark /\ Distance(n * s, 250 * f[given]) * 2 <= n
    <3>1. n \in Nat \ {0} /\ s = Tenths(250 * f[given], n)
      BY <1>1, <1>2, <1>6
    <3> HIDE DEF s
    <3> QED
      BY <1>4, <3>1, Rounding
  <2>2. \A g : Sums(g, Weight(a), given) => g[given] = f[given]
    BY <1>1, <1>2, SumsAgree
  <2>3. s # None
    BY <2>1, ScoringAssumption DEF Mark
  <2>4. Total(a, d) \in Nat /\ s = Tenths(250 * Total(a, d), n)
    BY <1>1, <1>4, <1>6
  <2> QED
    BY <1>2, <1>6, <2>1, <2>2, <2>3, <2>4 DEF given, n
<1> QED
  BY <1>5, <1>6

-----------------------------------------------------------------------------
(* The invariant: scores are those of the submitted sheets, the report is  *)
(* that of the scores.                                                     *)

PapersSound ==
  \A x \in Party : paper[x] = None \/ paper[x] \in Paper

CacheSound ==
  /\ cache = [x \in Party |-> cache[x]]
  /\ \A x \in Party : cache[x] # None => /\ paper[x] # None /\ paper[x] \in Paper
                                       /\ cache[x] = ComputeScores(paper[x])

ReportSound ==
  report # None => /\ \A x \in Party : cache[x] # None
                   /\ report = DoubleReport(cache["A"], cache["B"])

RenderingInv == PapersSound /\ CacheSound /\ ReportSound

LEMMA InitRendering == Init => RenderingInv
  BY RenderingAssumption DEF Init, RenderingInv, PapersSound, CacheSound, ReportSound

LEMMA NextRendering == RenderingInv /\ [Next]_vars => RenderingInv'
<1> SUFFICES ASSUME RenderingInv, [Next]_vars PROVE RenderingInv'
  OBVIOUS
<1>1. ASSUME NEW x \in Party, Score(x) PROVE RenderingInv'
  <2>1. PapersSound'
    BY <1>1 DEF Score, RenderingInv, PapersSound
  <2>2. cache' = [y \in Party |-> cache'[y]]
        /\ \A y \in Party : cache'[y] = IF y = x THEN ComputeScores(paper[x]) ELSE cache[y]
    BY <1>1 DEF Score, RenderingInv, CacheSound
  <2>3. CacheSound'
    BY <1>1, <2>2 DEF Score, RenderingInv, CacheSound, PapersSound
  <2>4. report = None \/ \A y \in Party : cache[y] # None
    BY DEF RenderingInv, ReportSound
  <2>5. ReportSound'
    BY <1>1, <2>2, <2>4 DEF Score, RenderingInv, ReportSound
  <2> QED
    BY <2>1, <2>3, <2>5 DEF RenderingInv
<1>2. CASE Generate
  BY <1>2 DEF Generate, RenderingInv, PapersSound, CacheSound, ReportSound
<1>3. CASE UNCHANGED <<paper, cache, report>>
  BY <1>3 DEF RenderingInv, PapersSound, CacheSound, ReportSound
<1>4. ASSUME NEW t, NEW picks, Render(t, picks) PROVE RenderingInv'
  BY <1>3, <1>4 DEF Render
<1>5. ASSUME NEW t, RenderSingle(t) PROVE RenderingInv'
  BY <1>3, <1>5 DEF RenderSingle
<1>6. ASSUME NEW x, NEW topic, NEW takers, NEW answers, WriteCard(x, topic, takers, answers)
      PROVE  RenderingInv'
  BY <1>3, <1>6 DEF WriteCard
<1> QED
  BY <1>1, <1>2, <1>3, <1>4, <1>5, <1>6 DEF Next, vars, ScoreP16

LEMMA RenderingAlways == Spec => []RenderingInv
<1> QED
  BY InitRendering, NextRendering, PTL DEF Spec

-----------------------------------------------------------------------------
(* Every score is the rounded mean, and there is one exactly if there was  *)
(* something to count.                                                     *)
LEMMA AgreeFold ==
  ASSUME NEW a \in Answers, NEW d \in Dimension
  PROVE  \E f : /\ Sums(f, Weight(a), Given(a, Items[d]))
               /\ f[Given(a, Items[d])] =
                    MapThenSumSet(LAMBDA q : IF q \in Reverse THEN 5 - a[q] ELSE a[q] - 1,
                                  Given(a, Items[d]))
<1> DEFINE given == Given(a, Items[d])
           w == Weight(a)
           v(q) == IF q \in Reverse THEN 5 - a[q] ELSE a[q] - 1
           iter == CHOOSE f : f = [s \in SUBSET given |->
                      IF s = {} THEN 0 ELSE v(Some(s)) + f[s \ {Some(s)}]]
<1>1. iter[given] = MapThenSumSet(LAMBDA q : IF q \in Reverse THEN 5 - a[q] ELSE a[q] - 1, given)
  BY DEF MapThenSumSet, MapThenFoldSet, Some
<1>2. IsFiniteSet(given)
  BY ItemsOfScale, ScoringAssumption, FS_Subset DEF Given, Question
<1>3. \A s \in SUBSET given : s # {} => w[Some(s)] = v(Some(s))
  <2>1. \A s \in SUBSET given : s # {} => Some(s) \in given
    BY <1>2, SomeIsIn
  <2>2. \A q \in given : w[q] = v(q)
    BY WeightSound
  <2> QED
    BY <2>1, <2>2
<1>4. PICK g : Sums(g, w, given)
  BY <1>2, SumsExist
<1> HIDE DEF given, w, v
<1>5. g = [s \in SUBSET given |-> IF s = {} THEN 0 ELSE v(Some(s)) + g[s \ {Some(s)}]]
  BY <1>3, <1>4 DEF Sums
<1>6. iter = [s \in SUBSET given |-> IF s = {} THEN 0 ELSE v(Some(s)) + iter[s \ {Some(s)}]]
  BY <1>5
<1> HIDE DEF iter
<1>7. Sums(iter, w, given)
  BY <1>3, <1>6 DEF Sums
<1> QED
  BY <1>1, <1>7 DEF given, w

(* Every score of a sheet is the mean of what was answered, to the nearest *)
(* tenth, and there is one exactly if something counts.                    *)
THEOREM ScoresAreMeans == Spec => []ScoreIsMean
<1>1. RenderingInv => ScoreIsMean
  <2> SUFFICES ASSUME RenderingInv, NEW x \in Party, cache[x] # None, NEW d \in Dimension
               PROVE  LET s == cache[x].score[d]
                          a == paper[x].answers
                          given == Given(a, Items[d])
                          n == Cardinality(given)
                          agree == MapThenSumSet(LAMBDA q : IF q \in Reverse THEN 5 - a[q] ELSE a[q] - 1, given) IN
                      IF d \in paper[x].skipped \/ n = 0 THEN s = None
                      ELSE /\ s \in Mark
                           /\ Distance(n * s, 250 * agree) * 2 <= n
    BY DEF ScoreIsMean, Mark
  <2> DEFINE a == paper[x].answers
             given == Given(a, Items[d])
             n == Cardinality(given)
             s == DimensionScore(a, d)
             agree == MapThenSumSet(LAMBDA q : IF q \in Reverse THEN 5 - a[q] ELSE a[q] - 1, given)
  <2>1. a \in Answers
    BY DEF RenderingInv, CacheSound, Paper
  <2>2. cache[x].score[d] = IF d \in paper[x].skipped THEN None ELSE s
    BY DEF RenderingInv, CacheSound, ComputeScores
  <2>3. PICK f : Sums(f, Weight(a), given) /\ f[given] = agree
    BY <2>1, AgreeFold
  <2> HIDE DEF agree, a
  <2>4. /\ n = 0 <=> given = {}
        /\ given = {} => s = None
        /\ given # {} => s \in Mark
        /\ given # {} => Distance(n * s, 250 * agree) * 2 <= n
    <3>1. (n = 0 <=> given = {}) /\ (given = {} => s = None) /\ (given # {} => s \in Mark)
      BY <2>1, ScoreSound
    <3>2. given # {} => Distance(n * s, 250 * f[given]) * 2 <= n
      <4>1. \A g : given # {} /\ Sums(g, Weight(a), given) => Distance(n * s, 250 * g[given]) * 2 <= n
        BY <2>1, ScoreSound
      <4> HIDE DEF given, n, s
      <4> QED
        BY <2>3, <4>1
    <3> HIDE DEF given, n, s
    <3> QED
      BY <2>3, <3>1, <3>2
  <2> HIDE DEF a, given, n, s
  <2>5. IF d \in paper[x].skipped \/ n = 0 THEN cache[x].score[d] = None
        ELSE /\ cache[x].score[d] \in Mark
             /\ Distance(n * cache[x].score[d], 250 * agree) * 2 <= n
    BY <2>2, <2>4
  <2> QED
    BY <2>5 DEF a, given, n, agree
<1> QED
  BY <1>1, RenderingAlways, PTL

-----------------------------------------------------------------------------
(* What the invariant says of one side and of the report, in the terms of  *)
(* the sheets.                                                             *)
Counted(x, d) == d \notin paper[x].skipped /\ Given(paper[x].answers, Items[d]) # {}

LEMMA SideSound ==
  ASSUME RenderingInv, NEW x \in Party, cache[x] # None
  PROVE  /\ paper[x].answers \in Answers
         /\ cache[x].answers = paper[x].answers /\ cache[x].skipped = paper[x].skipped
         /\ \A d \in Dimension : cache[x].score[d] # None <=> Counted(x, d)
         /\ \A d \in Dimension : Counted(x, d) => cache[x].score[d] \in Mark
<1>1. paper[x].answers \in Answers /\ cache[x] = ComputeScores(paper[x])
  BY DEF RenderingInv, CacheSound, Paper
<1>2. cache[x].answers = paper[x].answers /\ cache[x].skipped = paper[x].skipped
  BY <1>1 DEF ComputeScores
<1>3. ASSUME NEW d \in Dimension
      PROVE  /\ cache[x].score[d] # None <=> Counted(x, d)
             /\ Counted(x, d) => cache[x].score[d] \in Mark
  <2>1. cache[x].score[d] =
          IF d \in paper[x].skipped THEN None ELSE DimensionScore(paper[x].answers, d)
    BY <1>1 DEF ComputeScores
  <2>2. /\ Given(paper[x].answers, Items[d]) = {} => DimensionScore(paper[x].answers, d) = None
        /\ Given(paper[x].answers, Items[d]) # {} =>
             /\ DimensionScore(paper[x].answers, d) # None
             /\ DimensionScore(paper[x].answers, d) \in Mark
    <3> DEFINE a == paper[x].answers
    <3>1. a \in Answers
      BY <1>1
    <3> HIDE DEF a
    <3>2. /\ Given(a, Items[d]) = {} => DimensionScore(a, d) = None
          /\ Given(a, Items[d]) # {} => DimensionScore(a, d) # None /\ DimensionScore(a, d) \in Mark
      BY <3>1, ScoreSound
    <3> QED
      BY <3>2 DEF a
  <2> QED
    BY <2>1, <2>2 DEF Counted
<1> QED
  BY <1>1, <1>2, <1>3

(* The dimensions and the choice questions a report speaks of.             *)
LEMMA ReportOf ==
  ASSUME RenderingInv, report # None
  PROVE  /\ \A x \in Party : cache[x] # None
         /\ DOMAIN report.rows = {d \in Dimension : \A x \in Party : Counted(x, d)}
         /\ report.unevaluated = Dimension \ DOMAIN report.rows
         /\ \A d \in DOMAIN report.rows :
              /\ report.rows[d] = Compared(cache["A"], cache["B"], d)
              /\ \A x \in Party : cache[x].score[d] \in Mark
<1> DEFINE a == cache["A"]
           b == cache["B"]
<1>1. /\ \A x \in Party : cache[x] # None
      /\ report = DoubleReport(a, b)
  BY DEF RenderingInv, ReportSound
<1>2. /\ \A x \in Party, d \in Dimension :
           /\ cache[x].score[d] # None <=> Counted(x, d)
           /\ Counted(x, d) => cache[x].score[d] \in Mark
      /\ \A x \in Party : cache[x].skipped = paper[x].skipped
  BY <1>1, SideSound
<1>3. \A x \in Party : paper[x].skipped \subseteq Dimension
  BY <1>1 DEF RenderingInv, CacheSound, Paper
<1>4. \A x \in Party : \A d \in cache[x].skipped : d \in Dimension /\ ~ Counted(x, d)
  BY <1>2, <1>3 DEF Counted
<1>5. Unevaluated(a, b) = {d \in Dimension : ~ (Counted("A", d) /\ Counted("B", d))}
  <2>1. /\ "A" \in Party /\ "B" \in Party
        /\ \A d \in Dimension : a.score[d] # None <=> Counted("A", d)
        /\ \A d \in Dimension : b.score[d] # None <=> Counted("B", d)
        /\ \A d \in a.skipped : d \in Dimension /\ ~ Counted("A", d)
        /\ \A d \in b.skipped : d \in Dimension /\ ~ Counted("B", d)
    BY <1>2, <1>4 DEF Party
  <2> HIDE DEF a, b
  <2> QED
    BY <2>1 DEF Unevaluated
<1>6. {d \in Dimension : ~ (Counted("A", d) /\ Counted("B", d))} =
        Dimension \ {d \in Dimension : \A x \in Party : Counted(x, d)}
  BY DEF Party
<1> DEFINE both == {d \in Dimension : \A x \in Party : Counted(x, d)}
<1>7. both = Dimension \ Unevaluated(a, b) /\ Unevaluated(a, b) = Dimension \ both
  BY <1>5, <1>6
<1> HIDE DEF both
<1>8. /\ DOMAIN report.rows = both /\ \A d \in both : report.rows[d] = Compared(a, b, d)
      /\ report.unevaluated = Unevaluated(a, b)
  BY <1>1, <1>7 DEF DoubleReport
<1>9. \A d \in both, x \in Party : cache[x].score[d] \in Mark
  BY <1>2 DEF both
<1> QED
  BY <1>1, <1>7, <1>8, <1>9 DEF both

LEMMA SilenceKept == RenderingInv => ReportFromAnswers
<1> SUFFICES ASSUME RenderingInv, report # None PROVE ReportFromAnswers
  BY DEF ReportFromAnswers
<1> DEFINE a == cache["A"]
           b == cache["B"]
           rest == Dimension \ Unevaluated(a, b)
<1>1. report = DoubleReport(a, b)
  BY Zenon DEF RenderingInv, ReportSound
<1> HIDE DEF a, b
<1>2. /\ report.consensusDimensions =
           {d \in rest : ClassifyGap(Distance(a.score[d], b.score[d])) = "high"}
      /\ report.pendingDimensions =
           {d \in rest : ClassifyGap(Distance(a.score[d], b.score[d])) # "high"}
      /\ report.unevaluated = Unevaluated(a, b)
      /\ report.choiceDivergences = ChoiceDivergences(a, b)
      /\ report.consensus = ConsensusItems(a, b)
  BY <1>1, Zenon DEF DoubleReport, Compared
<1>3. \A d \in Dimension :
        \/ d \in report.consensusDimensions \ (report.pendingDimensions \cup report.unevaluated)
        \/ d \in report.pendingDimensions \ (report.consensusDimensions \cup report.unevaluated)
        \/ d \in report.unevaluated \ (report.consensusDimensions \cup report.pendingDimensions)
  BY <1>2
<1>4. \A d \in Dimension :
        d \in DOMAIN report.rows <=>
          \A x \in Party : d \notin paper[x].skipped /\
             \E q \in Items[d] : paper[x].answers[q] # None
  BY ReportOf DEF Counted, Given
<1>5. \A x \in Party : cache[x].answers = paper[x].answers
  BY ReportOf, SideSound
<1>6. /\ report.consensus \cap report.choiceDivergences = {}
      /\ report.consensus \cup report.choiceDivergences =
           {q \in Choice : \A x \in Party : paper[x].answers[q] # None}
  BY <1>2, <1>5 DEF ChoiceDivergences, ConsensusItems, Both, Given, Party, a, b
<1> QED
  BY <1>3, <1>4, <1>6 DEF ReportFromAnswers

-----------------------------------------------------------------------------
(* The layers.                                                             *)
LEMMA RenderHolds ==
  ASSUME NEW t \in Templates, NEW picks \in Picks \cup {{}}, Render(t, picks)
  PROVE  LayersHold'
<1> DEFINE list == SelectConsensus(t.layer, picks)
           wanted == {b \in t.blocks : ShouldRender(b, list)}
           kept == {c \in wanted : ~ Dropped(c, t.layer)}
<1>1. /\ view'.layer = t.layer /\ view'.list = list /\ view'.picks = picks
      /\ view'.blocks = {Rendered(b, BlockContext(b, t.layer)) : b \in kept}
      /\ report' = report /\ MayAsk(t.layer, picks)
  BY DEF Render
<1>2. list \subseteq report.consensus
  BY DEF SelectConsensus
<1>3. t.layer = "L3" => list \subseteq picks
  BY <1>1 DEF SelectConsensus, MayAsk
<1>4. ASSUME t.layer = "L3", NEW c \in kept
      PROVE  Rendered(c, BlockContext(c, t.layer)).shown \subseteq {"names", "date", "consensusList"}
  <2>1. c.uses \subseteq Placeholder
    BY RenderingAssumption
  <2>2. c.uses \cap ShareForbidden = {} /\ c.uses \subseteq BlockContext(c, "L3")
    BY <1>4 DEF Dropped
  <2>3. c.uses \subseteq {"names", "scale", "consensusList", "date", "typeName"}
    BY <2>1, <2>2 DEF ShareForbidden
  <2>4. BlockContext(c, "L3") \subseteq {"names", "consensusList", "date", "dimension", "scoreA",
                                        "scoreB", "gap", "gapLabel"}
    BY DEF BlockContext, BaseContext
  <2> QED
    BY <2>2, <2>3, <2>4 DEF Rendered
<1>5. ASSUME t.layer = "L2", NEW c \in kept, c.gap = None
      PROVE  Rendered(c, BlockContext(c, t.layer)).shown
               \subseteq {"names", "scale", "baseline", "consensusList"}
  BY <1>5 DEF Rendered, BlockContext, BaseContext
<1>6. \A c : Rendered(c, BlockContext(c, t.layer)).gap = c.gap
  BY DEF Rendered
<1> HIDE DEF list, kept
<1> QED
  BY <1>1, <1>2, <1>3, <1>4, <1>5, <1>6 DEF LayersHold

(* The shared picture shows names, date and agreement, never a score, a gap*)
(* or a disagreement, and of the agreements only those picked; the         *)
(* invitee's layer neither, in the blocks that are for no gap level.       *)
THEOREM LayersKept == Spec => []LayersHold
<1>1. Init => LayersHold
  BY DEF Init, LayersHold
<1>2. LayersHold /\ [Next]_vars => LayersHold'
  <2> SUFFICES ASSUME LayersHold, [Next]_vars PROVE LayersHold'
    OBVIOUS
  <2>1. CASE UNCHANGED vars
    BY <2>1 DEF vars, LayersHold
  <2>2. CASE view = None /\ view' = view
    BY <2>2 DEF LayersHold
  <2>3. ASSUME NEW t, RenderSingle(t) PROVE LayersHold'
    <3>1. view'.layer \in {"single", "p16"}
      BY <2>3 DEF RenderSingle
    <3> QED
      BY <3>1 DEF LayersHold
  <2>4. ASSUME NEW x, NEW topic, NEW takers, NEW answers, WriteCard(x, topic, takers, answers)
        PROVE  LayersHold'
    <3>1. view'.layer = "card"
      BY <2>4 DEF WriteCard
    <3> QED
      BY <3>1 DEF LayersHold
  <2> QED
    BY <2>1, <2>2, <2>3, <2>4, RenderHolds DEF Next, Score, ScoreP16, Generate
<1> QED
  BY <1>1, <1>2, PTL DEF Spec

-----------------------------------------------------------------------------
(* The prompts.                                                            *)
(* How far apart the two are is known for every j of a set.                *)
GapsOn(gap, here) == \A j \in here : gap[j] \in Nat /\ gap[j] <= 1000

(* i comes before j when the larger gaps come first, the earlier of equals *)
(* before the later.                                                       *)
Leads(gap, i, j) == gap[i] > gap[j] \/ (gap[i] = gap[j] /\ i <= j)

Lacks(gap, j, n) == gap[j] + n = 1000

LEMMA Furthest ==
  ASSUME NEW here, here \subseteq Nat, here # {}, NEW gap, GapsOn(gap, here)
  PROVE  \E i \in here : \A j \in here : Leads(gap, i, j)
<1> DEFINE short == {n \in Nat : \E j \in here : Lacks(gap, j, n)}
<1>1. short \subseteq Nat /\ \A n \in short : \E j \in here : Lacks(gap, j, n)
  OBVIOUS
<1>2. ASSUME NEW j \in here PROVE \E n \in short : Lacks(gap, j, n)
  <2>1. 1000 - gap[j] \in Nat /\ gap[j] + (1000 - gap[j]) = 1000
    BY DEF GapsOn
  <2>2. Lacks(gap, j, 1000 - gap[j])
    BY <2>1 DEF Lacks
  <2> QED
    BY <2>1, <2>2
<1> HIDE DEF short
<1>3. short # {}
  BY <1>2
<1>4. PICK n \in short : \A m \in short : n <= m
  BY <1>1, <1>3, SmallestNumber
<1> DEFINE best == {j \in here : Lacks(gap, j, n)}
<1>5. best \subseteq Nat /\ best # {}
  BY <1>1
<1>6. PICK i \in best : \A j \in best : i <= j
  <2> HIDE DEF best
  <2> QED
    BY <1>5, SmallestNumber
<1>7. i \in here /\ Lacks(gap, i, n)
  OBVIOUS
<1>8. ASSUME NEW j \in here PROVE Leads(gap, i, j)
  <2>1. PICK m \in short : Lacks(gap, j, m)
    BY <1>2
  <2>2. n <= m /\ m \in Nat /\ n \in Nat
    BY <1>1, <1>4
  <2>3. Lacks(gap, j, n) => i <= j
    BY <1>6
  <2> DEFINE p == gap[i]
             q == gap[j]
  <2>4. p \in Nat /\ q \in Nat
    BY <1>7 DEF GapsOn
  <2>5. p + n = 1000 /\ q + m = 1000
    BY <1>7, <2>1 DEF Lacks
  <2>6. q + n = 1000 => i <= j
    BY <2>3 DEF Lacks
  <2> HIDE DEF p, q
  <2>7. p > q \/ (p = q /\ i <= j)
    BY <2>2, <2>4, <2>5, <2>6
  <2> QED
    BY <2>7 DEF p, q, Leads
<1> QED
  BY <1>7, <1>8

LEMMA SelectDuo ==
  ASSUME NEW topic \in DOMAIN Topics, NEW rows,
         \A d \in DOMAIN rows : rows[d].gap \in Mark
  PROVE  LET mounts == Topics[topic].mounts
             here == MountedIn(topic, DOMAIN rows)
             Gap(i) == rows[mounts[i]].gap IN
         IF here = {} THEN SelectDuoDimension(topic, rows) = None
         ELSE \E i \in here : /\ SelectDuoDimension(topic, rows) = mounts[i]
                              /\ \A j \in here : Gap(i) > Gap(j) \/ (Gap(i) = Gap(j) /\ i <= j)
<1> DEFINE mounts == Topics[topic].mounts
           here == MountedIn(topic, DOMAIN rows)
           Gap(i) == rows[mounts[i]].gap
           First(i, j) == Gap(i) > Gap(j) \/ (Gap(i) = Gap(j) /\ i <= j)
<1>1. here \subseteq Nat
  BY CardContentAssumption DEF MountedIn
<1>2. \A i \in here : Gap(i) \in Nat /\ Gap(i) <= 1000
  <2>1. \A i \in here : mounts[i] \in DOMAIN rows
    BY DEF MountedIn
  <2>2. \A d \in DOMAIN rows : rows[d].gap \in Nat /\ rows[d].gap <= 1000
    <3>1. \A k \in Mark : k \in Nat /\ k <= 1000
      BY DEF Mark
    <3> QED
      BY <3>1
  <2> HIDE DEF here, mounts
  <2> QED
    BY <2>1, <2>2
<1>3. ASSUME here # {} PROVE \E i \in here : \A j \in here : First(i, j)
  <2> DEFINE gap == [i \in here |-> Gap(i)]
  <2>1. \A i \in here : gap[i] = Gap(i) /\ gap[i] \in Nat /\ gap[i] <= 1000
    <3> SUFFICES ASSUME NEW i \in here PROVE gap[i] = Gap(i) /\ gap[i] \in Nat /\ gap[i] <= 1000
      OBVIOUS
    <3>1. Gap(i) \in Nat /\ Gap(i) <= 1000
      BY <1>2
    <3>2. gap[i] = Gap(i)
      OBVIOUS
    <3> HIDE DEF gap, Gap
    <3> QED
      BY <3>1, <3>2
  <2>2. GapsOn(gap, here)
    <3> HIDE DEF here, gap
    <3> QED
      BY <2>1 DEF GapsOn
  <2> HIDE DEF here, gap
  <2>3. PICK i \in here : \A j \in here : Leads(gap, i, j)
    BY <1>1, <1>3, <2>2, Furthest
  <2> QED
    BY <2>1, <2>3 DEF Leads
<1>4. SelectDuoDimension(topic, rows) =
        IF here = {} THEN None ELSE mounts[CHOOSE i \in here : \A j \in here : First(i, j)]
  BY DEF SelectDuoDimension
<1> HIDE DEF here, First
<1>5. CASE here = {}
  BY <1>4, <1>5 DEF here
<1>6. CASE here # {}
  <2> DEFINE i == CHOOSE k \in here : \A j \in here : First(k, j)
  <2>1. i \in here /\ \A j \in here : First(i, j)
    BY <1>3, <1>6
  <2> HIDE DEF i
  <2>2. SelectDuoDimension(topic, rows) = mounts[i]
    BY <1>4, <1>6 DEF i
  <2> QED
    BY <1>6, <2>1, <2>2 DEF here, First
<1> QED
  BY <1>5, <1>6

LEMMA SelectSolo ==
  ASSUME NEW topic \in DOMAIN Topics, NEW score
  PROVE  LET mounts == Topics[topic].mounts
             here == MountedIn(topic, {d \in Dimension : score[d] # None}) IN
         IF here = {} THEN SelectSoloDimension(topic, score) = None
         ELSE \E i \in here : /\ SelectSoloDimension(topic, score) = mounts[i]
                              /\ \A j \in here : i <= j
<1> DEFINE mounts == Topics[topic].mounts
           here == MountedIn(topic, {d \in Dimension : score[d] # None})
<1>1. here \subseteq Nat
  BY CardContentAssumption DEF MountedIn
<1>2. SelectSoloDimension(topic, score) = IF here = {} THEN None ELSE mounts[Min(here)]
  BY DEF SelectSoloDimension
<1> HIDE DEF here
<1>3. here # {} => Min(here) \in here /\ \A j \in here : Min(here) <= j
  <2>1. here # {} => \E i \in here : \A j \in here : i <= j
    BY <1>1, SmallestNumber
  <2> QED
    BY <2>1 DEF Min
<1>4. IF here = {} THEN SelectSoloDimension(topic, score) = None
      ELSE \E i \in here : /\ SelectSoloDimension(topic, score) = mounts[i]
                           /\ \A j \in here : i <= j
  BY <1>2, <1>3
<1> QED
  BY <1>4 DEF here

(* A listed disagreement is of a question on the scale, and only a choice  *)
(* question has labels: no prompt ever names a disagreement.               *)
LEMMA NothingNamed ==
  ASSUME RenderingInv, report # None, NEW d \in DOMAIN report.rows
  PROVE  PickDivergence(report, d) = None
<1> DEFINE a == cache["A"]
           b == cache["B"]
           top == TopDivergences(a, b, d)
<1>1. report = DoubleReport(a, b)
  BY DEF RenderingInv, ReportSound
<1>2. d \in Dimension \ Unevaluated(a, b) /\ report.rows[d] = Compared(a, b, d)
  BY <1>1 DEF DoubleReport
<1>3. report.rows[d].top = top
  BY <1>2 DEF Compared
<1>4. \A q \in top : report.flagged[q] = Flagged(a, b, q)
  <2>1. report.flagged =
          [q \in UNION {Compared(a, b, c).top : c \in Dimension \ Unevaluated(a, b)} |-> Flagged(a, b, q)]
    BY <1>1 DEF DoubleReport
  <2> QED
    BY <1>2, <1>3, <2>1
<1>5. \A q \in top : q \in Scale /\ q \notin Choice
  BY <1>2, ItemsOfScale, ScoringAssumption DEF TopDivergences, Divergent, Both, Given
<1>6. \A q \in top : report.flagged[q].labelA = None
  <2>1. \A q \in top : Flagged(a, b, q).labelA = OptionLabel(a, q)
    BY DEF Flagged
  <2>2. \A q \in top : OptionLabel(a, q) = None
    BY <1>5 DEF OptionLabel
  <2> HIDE DEF top, a, b
  <2> QED
    BY <1>4, <2>1, <2>2
<1> HIDE DEF top
<1> QED
  BY <1>3, <1>6 DEF PickDivergence

(* The places of a topic whose dimension everybody in xs was counted in,   *)
(* and how far apart the two are there.                                    *)
Usable(topic, xs) ==
  {i \in DOMAIN Topics[topic].mounts : \A y \in xs : Counted(y, Topics[topic].mounts[i])}
ApartAt(topic) ==
  [i \in DOMAIN Topics[topic].mounts |->
     Distance(cache["A"].score[Topics[topic].mounts[i]], cache["B"].score[Topics[topic].mounts[i]])]

(* A prompt asks the model to draw on nothing it does not tell.            *)
Honest(prompt) ==
  /\ "persona" \in prompt.draws => prompt.tells \cap {"personaA", "personaB"} # {}
  /\ "styleOfB" \in prompt.draws => "personaB" \in prompt.tells
  /\ "divergence" \in prompt.draws => "divergence" \in prompt.tells

LEMMA DuoIsPrompt ==
  ASSUME NEW d \in Dimension, NEW row, row.scoreA \in Nat, row.scoreB \in Nat, NEW pA, NEW pB
  PROVE  LET prompt == DuoPrompt(d, row, pA, pB, None) IN
         prompt # None /\ prompt.of = Party /\ prompt.dimension = d /\ Honest(prompt)
<1> DEFINE prompt == DuoPrompt(d, row, pA, pB, None)
<1>1. prompt.of = Party /\ prompt.dimension = d
  BY DEF DuoPrompt, Party
<1>2. Honest(prompt)
  BY DEF DuoPrompt, WhereKnown, Honest
<1>3. prompt # None
  <2>1. prompt = [of |-> prompt.of, dimension |-> prompt.dimension, scores |-> prompt.scores,
                  divergence |-> prompt.divergence, tells |-> prompt.tells, draws |-> prompt.draws]
    BY DEF DuoPrompt
  <2>2. prompt.of \in SUBSET {"A", "B"} /\ prompt.dimension \in Dimension /\ prompt.divergence = None
    BY <1>1 DEF DuoPrompt, Party
  <2>3. prompt.scores \in Seq(Nat)
    BY DEF DuoPrompt
  <2>4. prompt.tells \in SUBSET Told
    BY DEF DuoPrompt, WhereKnown, Told
  <2>5. prompt.draws \in SUBSET Drawn
    BY DEF DuoPrompt, WhereKnown, Drawn
  <2> HIDE DEF prompt
  <2> QED
    BY <2>1, <2>2, <2>3, <2>4, <2>5, NoneIsNoPrompt DEF Prompt
<1> QED
  BY <1>1, <1>2, <1>3

LEMMA SoloIsPrompt ==
  ASSUME NEW x \in Party, NEW d \in Dimension, NEW score \in Nat, NEW p
  PROVE  LET prompt == SoloPrompt(x, d, score, p) IN
         prompt # None /\ prompt.of = {x} /\ prompt.dimension = d /\ Honest(prompt)
<1> DEFINE prompt == SoloPrompt(x, d, score, p)
<1>1. prompt.of = {x} /\ prompt.dimension = d
  BY DEF SoloPrompt
<1>2. PersonaOf[x] \in {"personaA", "personaB"}
  BY DEF PersonaOf, Party
<1>3. Honest(prompt)
  BY <1>2 DEF SoloPrompt, WhereKnown, Honest
<1>4. prompt # None
  <2>1. prompt = [of |-> prompt.of, dimension |-> prompt.dimension, scores |-> prompt.scores,
                  divergence |-> prompt.divergence, tells |-> prompt.tells, draws |-> prompt.draws]
    BY DEF SoloPrompt
  <2>2. prompt.of \in SUBSET {"A", "B"} /\ prompt.dimension \in Dimension /\ prompt.divergence = None
    BY <1>1 DEF SoloPrompt, Party
  <2>3. prompt.scores \in Seq(Nat)
    BY DEF SoloPrompt
  <2>4. prompt.tells \in SUBSET Told
    BY <1>2 DEF SoloPrompt, WhereKnown, Told
  <2>5. prompt.draws \in SUBSET Drawn
    BY <1>2 DEF SoloPrompt, WhereKnown, Drawn
  <2> HIDE DEF prompt
  <2> QED
    BY <2>1, <2>2, <2>3, <2>4, <2>5, NoneIsNoPrompt DEF Prompt
<1> QED
  BY <1>1, <1>3, <1>4

(* What an input is: nothing exactly if there is no usable place, else a   *)
(* prompt about the best of them.                                          *)
Fits(input, topic, xs, apart) ==
  IF Usable(topic, xs) = {} THEN input = None
  ELSE /\ input # None /\ input.of = xs /\ Honest(input)
       /\ \E i \in Usable(topic, xs) :
            /\ input.dimension = Topics[topic].mounts[i]
            /\ \A j \in Usable(topic, xs) : apart[j] <= apart[i]
            /\ \A j \in Usable(topic, xs) : apart[j] = apart[i] => i <= j

LEMMA GapIs ==
  ASSUME RenderingInv, report # None, NEW d \in DOMAIN report.rows
  PROVE  /\ report.rows[d].gap = Distance(cache["A"].score[d], cache["B"].score[d])
         /\ report.rows[d].gap \in Mark
         /\ report.rows[d].scoreA \in Nat /\ report.rows[d].scoreB \in Nat
<1> DEFINE m == cache["A"].score[d]
           n == cache["B"].score[d]
<1>1. m \in Mark /\ n \in Mark
  <2>1. \A x \in Party : cache[x].score[d] \in Mark
    BY ReportOf
  <2> QED
    BY <2>1 DEF Party
<1>2. /\ report.rows[d].gap = Distance(m, n)
      /\ report.rows[d].scoreA = m /\ report.rows[d].scoreB = n
  <2>1. report.rows[d] = Compared(cache["A"], cache["B"], d)
    BY ReportOf
  <2> QED
    BY <2>1 DEF Compared
<1> HIDE DEF m, n
<1>3. Distance(m, n) \in Mark /\ m \in Nat /\ n \in Nat
  BY <1>1 DEF Distance, Mark
<1>4. /\ report.rows[d].gap = Distance(m, n) /\ report.rows[d].gap \in Mark
      /\ report.rows[d].scoreA \in Nat /\ report.rows[d].scoreB \in Nat
  BY <1>2, <1>3
<1> QED
  BY <1>4 DEF m, n

LEMMA DuoFits ==
  ASSUME RenderingInv, report # None, NEW topic \in DOMAIN Topics, NEW pA, NEW pB
  PROVE  LET input == DuoInput(topic, report, pA, pB) IN
         Fits(input, topic, Party, ApartAt(topic))
<1> DEFINE input == DuoInput(topic, report, pA, pB)
           mounts == Topics[topic].mounts
           rows == report.rows
           here == MountedIn(topic, DOMAIN rows)
           d == SelectDuoDimension(topic, rows)
<1>1. here = Usable(topic, Party)
  BY ReportOf, CardContentAssumption DEF MountedIn, Usable
<1>2. \A c \in DOMAIN rows : rows[c].gap \in Mark
  BY GapIs
<1>3. CASE here = {}
  <2>1. d = None
    BY <1>2, <1>3, SelectDuo
  <2>2. input = None
    BY <2>1 DEF DuoInput
  <2> QED
    BY <1>1, <1>3, <2>2 DEF Fits
<1>4. CASE here # {}
  <2> DEFINE Gap(i) == rows[mounts[i]].gap
  <2>1. PICK i \in here : /\ d = mounts[i]
                          /\ \A j \in here : Gap(i) > Gap(j) \/ (Gap(i) = Gap(j) /\ i <= j)
    BY <1>2, <1>4, SelectDuo
  <2>2. \A j \in here : mounts[j] \in DOMAIN rows
    BY DEF MountedIn
  <2> DEFINE apart == ApartAt(topic)
  <2>3. ASSUME NEW j \in here PROVE Gap(j) = apart[j] /\ Gap(j) \in Nat
    <3>1. mounts[j] \in DOMAIN rows /\ j \in DOMAIN mounts
      BY DEF MountedIn
    <3>2. apart[j] = Distance(cache["A"].score[mounts[j]], cache["B"].score[mounts[j]])
      BY <3>1 DEF ApartAt
    <3>3. Gap(j) = apart[j] /\ Gap(j) \in Mark
      BY <3>1, <3>2, GapIs
    <3>4. \A k \in Mark : k \in Nat
      BY DEF Mark
    <3> HIDE DEF Gap
    <3> QED
      BY <3>3, <3>4
  <2>4. d \in DOMAIN rows /\ d \in Dimension /\ d # None
    BY <2>1, <2>2, ReportOf, ScoringAssumption
  <2>5. input = DuoPrompt(d, rows[d], pA, pB, None)
    BY <2>4, NothingNamed DEF DuoInput
  <2>6. input # None /\ input.of = Party /\ input.dimension = d /\ Honest(input)
    BY <2>4, <2>5, GapIs, DuoIsPrompt
  <2> HIDE DEF input, d, here, Gap, apart
  <2>7. ASSUME NEW j \in here PROVE apart[j] <= apart[i] /\ (apart[j] = apart[i] => i <= j)
    <3>1. apart[j] \in Nat /\ apart[i] \in Nat
      BY <2>3
    <3>2. apart[i] > apart[j] \/ (apart[i] = apart[j] /\ i <= j)
      BY <2>1, <2>3
    <3> QED
      BY <3>1, <3>2
  <2>8. /\ Usable(topic, Party) # {} /\ i \in Usable(topic, Party) /\ input.dimension = mounts[i]
        /\ \A j \in Usable(topic, Party) : apart[j] <= apart[i] /\ (apart[j] = apart[i] => i <= j)
    BY <1>1, <1>4, <2>1, <2>6, <2>7
  <2> HIDE DEF mounts
  <2> QED
    BY <2>6, <2>8 DEF Fits, apart, mounts, input
<1> QED
  BY <1>3, <1>4

LEMMA SoloFits ==
  ASSUME RenderingInv, NEW x \in Party, NEW topic \in DOMAIN Topics, NEW p, cache[x] # None
  PROVE  LET input == SoloInput(topic, x, cache[x], p) IN
         Fits(input, topic, {x}, [i \in DOMAIN Topics[topic].mounts |-> 0])
<1> DEFINE input == SoloInput(topic, x, cache[x], p)
           mounts == Topics[topic].mounts
           score == cache[x].score
           here == MountedIn(topic, {c \in Dimension : score[c] # None})
           d == SelectSoloDimension(topic, score)
<1>1. /\ \A c \in Dimension : score[c] # None <=> Counted(x, c)
      /\ \A c \in Dimension : Counted(x, c) => score[c] \in Mark
  BY SideSound
<1>2. \A i \in DOMAIN mounts : mounts[i] \in Dimension
  BY CardContentAssumption
<1>3. here = Usable(topic, {x})
  BY <1>1, <1>2 DEF MountedIn, Usable
<1>4. input = IF d = None THEN None ELSE SoloPrompt(x, d, score[d], p)
  BY DEF SoloInput
<1>5. CASE here = {}
  <2>1. d = None
    BY <1>5, SelectSolo
  <2> QED
    BY <1>3, <1>4, <1>5, <2>1 DEF Fits
<1>6. CASE here # {}
  <2>1. PICK i \in here : d = mounts[i] /\ \A j \in here : i <= j
    BY <1>6, SelectSolo
  <2>2. d \in Dimension /\ score[d] # None /\ d # None
    BY <2>1, ScoringAssumption DEF MountedIn
  <2>4. score[d] \in Mark
    BY <1>1, <2>2
  <2>5. score[d] \in Nat
    <3> DEFINE v == score[d]
    <3>1. v \in Mark
      BY <2>4
    <3> HIDE DEF v
    <3>2. v \in Nat
      BY <3>1 DEF Mark
    <3> QED
      BY <3>2 DEF v
  <2>3. input # None /\ input.of = {x} /\ input.dimension = d /\ Honest(input)
    BY <1>4, <2>2, <2>5, SoloIsPrompt
  <2> DEFINE zero == [k \in DOMAIN Topics[topic].mounts |-> 0]
  <2>6. \A j \in here : zero[j] = 0
    BY DEF MountedIn
  <2> HIDE DEF input, d, here, zero
  <2>7. /\ Usable(topic, {x}) # {} /\ i \in Usable(topic, {x}) /\ input.dimension = mounts[i]
        /\ \A j \in Usable(topic, {x}) : zero[j] <= zero[i] /\ (zero[j] = zero[i] => i <= j)
    BY <1>3, <1>6, <2>1, <2>3, <2>6
  <2> HIDE DEF mounts
  <2> QED
    BY <2>3, <2>7 DEF Fits, zero, mounts, input
<1> QED
  BY <1>5, <1>6

(* What WriteCard leaves in the view.                                      *)
LEMMA CardFits ==
  ASSUME RenderingInv, NEW x \in Party, NEW topic \in DOMAIN Topics, NEW takers, NEW answers,
         WriteCard(x, topic, takers, answers)
  PROVE  /\ view'.layer = "card" /\ view'.topic = topic /\ view'.reader = x
         /\ report # None =>
              Fits(view'.input, topic, Party, ApartAt(topic))
         /\ report = None =>
              IF cache[x] = None THEN view'.input = None
              ELSE Fits(view'.input, topic, {x}, [i \in DOMAIN Topics[topic].mounts |-> 0])
         /\ view'.status = "ready" => view'.input # None
<1> DEFINE Type(y) == Persona(IF y \in takers THEN outcome ELSE None)
           input == IF report # None THEN DuoInput(topic, report, Type("A"), Type("B"))
                    ELSE SoloInput(topic, x, cache[x], Type(x))
           card == ProduceCard(topic, input, answers)
<1>1. /\ view'.layer = "card" /\ view'.topic = topic /\ view'.reader = x
      /\ view'.input = input /\ view'.status = card.status
  BY DEF WriteCard
<1>2. report # None => Fits(input, topic, Party, ApartAt(topic))
  BY DuoFits
<1>3. ASSUME report = None
      PROVE  IF cache[x] = None THEN input = None
             ELSE Fits(input, topic, {x}, [i \in DOMAIN Topics[topic].mounts |-> 0])
  <2>1. CASE cache[x] = None
    BY <1>3, <2>1 DEF SoloInput
  <2>2. CASE cache[x] # None
    BY <1>3, <2>2, SoloFits
  <2> QED
    BY <2>1, <2>2
<1> HIDE DEF input
<1>4. card.status = "ready" => input # None
  BY DEF ProduceCard, Degrade
<1> QED
  BY <1>1, <1>2, <1>3, <1>4

LEMMA CardHolds ==
  ASSUME RenderingInv, NEW x \in Party, NEW topic \in DOMAIN Topics, NEW takers, NEW answers,
         WriteCard(x, topic, takers, answers)
  PROVE  PromptFromAnswers' /\ PromptIsExact'
<1> DEFINE input == view'.input
           mounts == Topics[topic].mounts
           about == IF report # None THEN Party ELSE {x}
           Apart(d) == IF report # None THEN Distance(cache["A"].score[d], cache["B"].score[d]) ELSE 0
           usable == {i \in DOMAIN mounts :
                        \A y \in about : cache[y] # None /\ cache[y].score[mounts[i]] # None}
<1>1. /\ view'.layer = "card" /\ view'.topic = topic /\ view'.reader = x
      /\ view'.status = "ready" => input # None
  BY CardFits
<1>2. paper' = paper /\ cache' = cache /\ report' = report
  BY DEF WriteCard
<1>3. \A i \in DOMAIN mounts : mounts[i] \in Dimension
  BY CardContentAssumption
<1>4. \A y \in Party : cache[y] # None =>
         \A i \in DOMAIN mounts : cache[y].score[mounts[i]] # None <=> Counted(y, mounts[i])
  BY <1>3, SideSound
<1> DEFINE apart == IF report # None THEN ApartAt(topic) ELSE [i \in DOMAIN mounts |-> 0]
<1>5. \A i \in DOMAIN mounts : apart[i] = Apart(mounts[i])
  BY DEF ApartAt
<1>6. CASE report = None /\ cache[x] = None
  <2>1. about = {x} /\ usable = {} /\ input = None
    BY <1>6, CardFits
  <2> QED
    BY <1>1, <1>2, <2>1 DEF PromptFromAnswers, PromptIsExact
<1>7. CASE ~ (report = None /\ cache[x] = None)
  <2>1. about \subseteq Party /\ \A y \in about : cache[y] # None
    BY <1>7, ReportOf
  <2>2. usable = Usable(topic, about)
    BY <1>4, <2>1 DEF Usable
  <2>3. Fits(input, topic, about, apart)
    BY <1>7, CardFits
  <2>4. about = (IF report # None THEN Party ELSE {x}) /\ about \in {Party, {x}}
    OBVIOUS
  <2>5. usable \subseteq DOMAIN mounts
    OBVIOUS
  <2> HIDE DEF input, usable, about, apart
  <2>6. input = None <=> usable = {}
    BY <2>2, <2>3 DEF Fits
  <2>7. input # None => input.of = about /\ Honest(input)
    BY <2>2, <2>3 DEF Fits
  <2>8. ASSUME input # None
        PROVE  \E i \in usable : /\ input.dimension = mounts[i]
                                 /\ \A j \in usable : Apart(mounts[j]) <= Apart(mounts[i])
                                 /\ \A j \in usable : Apart(mounts[j]) = Apart(mounts[i]) => i <= j
    <3>1. PICK i \in usable : /\ input.dimension = mounts[i]
                              /\ \A j \in usable : apart[j] <= apart[i]
                              /\ \A j \in usable : apart[j] = apart[i] => i <= j
      BY <2>2, <2>3, <2>8 DEF Fits
    <3>2. \A j \in usable : apart[j] = Apart(mounts[j])
      BY <1>5, <2>5
    <3> HIDE DEF mounts, Apart
    <3> QED
      BY <3>1, <3>2
  <2>9. input # None => \A y \in about : Counted(y, input.dimension)
    BY <2>2, <2>8 DEF Usable
  <2>10. PromptFromAnswers'
    BY <1>1, <1>2, <2>4, <2>7, <2>9 DEF PromptFromAnswers, Honest, Counted, input
  <2>11. PromptIsExact'
    BY <1>1, <1>2, <2>4, <2>6, <2>8 DEF PromptIsExact, input, usable, about
  <2> QED
    BY <2>10, <2>11
<1> QED
  BY <1>6, <1>7

(* No score comes from silence: each dimension is at one place of the      *)
(* report, compared only if both answered in it and neither refused; and a *)
(* prompt speaks only of what everybody it is about has answered.          *)
THEOREM SilenceSaysNothing == Spec => []NothingFromSilence
<1>1. Init => PromptFromAnswers
  BY DEF Init, PromptFromAnswers
<1>2. PromptFromAnswers /\ RenderingInv /\ [Next]_vars => PromptFromAnswers'
  <2> SUFFICES ASSUME PromptFromAnswers, RenderingInv, [Next]_vars PROVE PromptFromAnswers'
    OBVIOUS
  <2>1. CASE UNCHANGED vars
    BY <2>1 DEF vars, PromptFromAnswers
  <2>2. CASE view = None /\ view' = view
    BY <2>2 DEF PromptFromAnswers
  <2>3. CASE view'.layer \in Layer \cup {"single", "p16"}
    BY <2>3 DEF PromptFromAnswers, Layer
  <2>4. ASSUME NEW t \in Templates, NEW picks, Render(t, picks) PROVE PromptFromAnswers'
    <3>1. view'.layer = t.layer /\ t.layer \in Layer
      BY <2>4 DEF Render
    <3> QED
      BY <2>3, <3>1
  <2>5. ASSUME NEW t \in Templates, RenderSingle(t) PROVE PromptFromAnswers'
    <3>1. view'.layer = t.layer /\ t.layer \in {"single", "p16"}
      BY <2>5 DEF RenderSingle
    <3> QED
      BY <2>3, <3>1
  <2> QED
    BY <2>1, <2>2, <2>4, <2>5, CardHolds DEF Next, Score, ScoreP16, Generate
<1>3. RenderingInv /\ PromptFromAnswers => NothingFromSilence
  BY SilenceKept DEF NothingFromSilence
<1> QED
  BY <1>1, <1>2, <1>3, RenderingAlways, PTL DEF Spec

(* A card is about the dimension of its topic in which the two are         *)
(* furthest apart, or the first the reader has a score in; there is a      *)
(* prompt exactly if there is such a dimension, and without one the card   *)
(* is not the model's.                                                     *)
THEOREM PromptsAreExact == Spec => []PromptIsExact
<1>1. Init => PromptIsExact
  BY DEF Init, PromptIsExact
<1>2. PromptIsExact /\ RenderingInv /\ [Next]_vars => PromptIsExact'
  <2> SUFFICES ASSUME PromptIsExact, RenderingInv, [Next]_vars PROVE PromptIsExact'
    OBVIOUS
  <2>1. CASE UNCHANGED vars
    <3>1. view' = view /\ cache' = cache /\ report' = report
      BY <2>1, Zenon DEF vars
    <3> SUFFICES ASSUME view # None, view.layer = "card"
                 PROVE  PromptIsExact'
      BY <3>1, Zenon DEF PromptIsExact
    <3> DEFINE input == view.input
               mounts == Topics[view.topic].mounts
               about == IF report # None THEN Party ELSE {view.reader}
               Apart(d) == IF report # None THEN Distance(cache["A"].score[d], cache["B"].score[d]) ELSE 0
               usable == {i \in DOMAIN mounts :
                            \A y \in about : cache[y] # None /\ cache[y].score[mounts[i]] # None}
               best == \E i \in usable :
                         /\ input.dimension = mounts[i]
                         /\ \A j \in usable : Apart(mounts[j]) <= Apart(mounts[i])
                         /\ \A j \in usable : Apart(mounts[j]) = Apart(mounts[i]) => i <= j
    <3>2. /\ input = None <=> usable = {}
          /\ view.status = "ready" => input # None
          /\ input # None => best
      BY Zenon DEF PromptIsExact
    <3>3. /\ input' = input /\ mounts' = mounts /\ about' = about /\ view'.status = view.status
          /\ \A d : Apart(d)' = Apart(d)
      BY <3>1
    <3>4. usable' = usable
      BY <3>1
    <3> HIDE DEF input, usable, about, mounts, Apart
    <3>5. /\ input' = None <=> usable' = {}
          /\ view'.status = "ready" => input' # None
          /\ input' # None => best'
      BY <3>2, <3>3, <3>4
    <3> QED
      BY <3>1, <3>5, Zenon DEF PromptIsExact, input, usable, about, mounts, Apart
  <2>2. CASE view = None /\ view' = view
    BY <2>2, Zenon DEF PromptIsExact
  <2>3. CASE view'.layer \in Layer \cup {"single", "p16"}
    BY <2>3, Zenon DEF PromptIsExact, Layer
  <2>4. ASSUME NEW t \in Templates, NEW picks, Render(t, picks) PROVE PromptIsExact'
    <3>1. view'.layer = t.layer /\ t.layer \in Layer
      BY <2>4 DEF Render
    <3> QED
      BY <2>3, <3>1
  <2>5. ASSUME NEW t \in Templates, RenderSingle(t) PROVE PromptIsExact'
    <3>1. view'.layer = t.layer /\ t.layer \in {"single", "p16"}
      BY <2>5 DEF RenderSingle
    <3> QED
      BY <2>3, <3>1
  <2> QED
    BY <2>1, <2>2, <2>4, <2>5, CardHolds DEF Next, Score, ScoreP16, Generate
<1> QED
  BY <1>1, <1>2, RenderingAlways, PTL DEF Spec

-----------------------------------------------------------------------------
(* The type test.                                                          *)
TestSound ==
  /\ poles \in Poles \cup {None}
  /\ outcome # None => poles # None /\ outcome = ScoreType(poles)

(* Of the six answers on a pole as many chose A as A is counted.           *)
LEMMA SixAnswers ==
  ASSUME NEW b \in Poles, NEW i \in 1..4
  PROVE  LET a == {q \in Binary[i] : b[q] = "A"}
             r == {q \in Binary[i] : b[q] = "B"} IN
         /\ r = Binary[i] \ a /\ a = Binary[i] \ r
         /\ Cardinality(a) = ACount(b, i)
         /\ ACount(b, i) \in Nat /\ Cardinality(r) \in Nat
         /\ ACount(b, i) + Cardinality(r) = 6
<1> DEFINE a == {q \in Binary[i] : b[q] = "A"}
           r == {q \in Binary[i] : b[q] = "B"}
<1>1. \A q \in Binary[i] : b[q] \in {"A", "B"}
  BY DEF Poles, Test
<1>2. r = Binary[i] \ a /\ a = Binary[i] \ r
  BY <1>1
<1>3. IsFiniteSet(Binary[i]) /\ Cardinality(Binary[i]) = 6
  BY TypeAssumption
<1>4. IsFiniteSet(a) /\ IsFiniteSet(r) /\ a \cap r = {} /\ a \cup r = Binary[i]
  BY <1>2, <1>3, FS_Subset
<1>5. /\ Cardinality(a) \in Nat /\ Cardinality(r) \in Nat
      /\ Cardinality(a) + Cardinality(r) = 6
  <2>1. Cardinality(a \cup r) = Cardinality(a) + Cardinality(r) - Cardinality(a \cap r)
    BY <1>4, FS_Union
  <2>2. Cardinality(a \cap r) = 0
    BY <1>4, FS_EmptySet
  <2>3. Cardinality(a) \in Nat /\ Cardinality(r) \in Nat
    BY <1>4, FS_CardinalityType
  <2>4. Cardinality(a \cup r) = 6
    BY <1>3, <1>4
  <2> DEFINE n == Cardinality(a)
             m == Cardinality(r)
  <2>5. 6 = n + m - 0 /\ n \in Nat /\ m \in Nat
    BY <2>1, <2>2, <2>3, <2>4
  <2> HIDE DEF n, m
  <2>6. n + m = 6
    BY <2>5
  <2> QED
    BY <2>3, <2>6 DEF n, m
<1>6. Cardinality(a) = ACount(b, i)
  BY DEF ACount
<1> QED
  BY <1>2, <1>5, <1>6

LEMMA MajorityKept == TestSound => PoleIsMajority
<1> SUFFICES ASSUME TestSound, outcome # None PROVE PoleIsMajority
  BY DEF PoleIsMajority
<1>1. poles \in Poles /\ outcome = ScoreType(poles)
  BY DEF TestSound
<1>2. /\ outcome.poles = [i \in 1..4 |-> Pole(poles, i)]
      /\ outcome.ties = {i \in 1..4 : ACount(poles, i) = 3}
      /\ outcome.name = TypeName[outcome.poles]
  BY <1>1 DEF ScoreType
<1>3. ASSUME NEW i \in 1..4
      PROVE  LET chosen == {q \in Binary[i] : poles[q] = outcome.poles[i]}
                 rest == Binary[i] \ chosen IN
             /\ Cardinality(chosen) >= Cardinality(rest)
             /\ i \in outcome.ties <=> Cardinality(chosen) = Cardinality(rest)
             /\ i \in outcome.ties => outcome.poles[i] = "B"
  <2> DEFINE n == ACount(poles, i)
             a == {q \in Binary[i] : poles[q] = "A"}
             r == {q \in Binary[i] : poles[q] = "B"}
             chosen == {q \in Binary[i] : poles[q] = outcome.poles[i]}
             rest == Binary[i] \ chosen
  <2>1. /\ r = Binary[i] \ a /\ a = Binary[i] \ r
        /\ Cardinality(a) = n /\ n \in Nat /\ Cardinality(r) \in Nat /\ n + Cardinality(r) = 6
    BY <1>1, SixAnswers
  <2>2. outcome.poles[i] = (IF n >= 4 THEN "A" ELSE "B") /\ (i \in outcome.ties <=> n = 3)
    BY <1>2 DEF Pole
  <2>3. CASE n >= 4
    <3>1. chosen = a /\ rest = r
      BY <2>1, <2>2, <2>3
    <3> HIDE DEF chosen, rest, a, r, n
    <3>2. Cardinality(chosen) = n /\ Cardinality(rest) = 6 - n /\ n \in Nat
      BY <2>1, <3>1
    <3>3. /\ Cardinality(chosen) >= Cardinality(rest)
          /\ i \in outcome.ties <=> Cardinality(chosen) = Cardinality(rest)
          /\ i \in outcome.ties => outcome.poles[i] = "B"
      BY <2>2, <2>3, <3>2
    <3> QED
      BY <3>3 DEF chosen, rest
  <2>4. CASE ~ (n >= 4)
    <3>1. chosen = r /\ rest = a
      BY <2>1, <2>2, <2>4
    <3> HIDE DEF chosen, rest, a, r, n
    <3>2. Cardinality(chosen) = 6 - n /\ Cardinality(rest) = n /\ n \in Nat
      <4>1. Cardinality(r) \in Nat /\ n \in Nat /\ n + Cardinality(r) = 6 /\ Cardinality(a) = n
        BY <2>1
      <4> QED
        BY <3>1, <4>1
    <3>3. /\ Cardinality(chosen) >= Cardinality(rest)
          /\ i \in outcome.ties <=> Cardinality(chosen) = Cardinality(rest)
          /\ i \in outcome.ties => outcome.poles[i] = "B"
      BY <2>2, <2>4, <3>2
    <3> QED
      BY <3>3 DEF chosen, rest
  <2> QED
    BY <2>3, <2>4
<1>4. \A k \in DOMAIN TypeName : TypeName[k] = outcome.name <=> k = outcome.poles
  <2>1. outcome.poles \in DOMAIN TypeName
    BY <1>2, ScoringAssumption DEF Pole
  <2> QED
    BY <1>2, <2>1, TypeAssumption
<1> QED
  BY <1>3, <1>4 DEF PoleIsMajority

LEMMA TestAlways == Spec => []TestSound
<1>1. Init => TestSound
  BY RenderingAssumption DEF Init, TestSound
<1>2. TestSound /\ [Next]_vars => TestSound'
  <2> SUFFICES ASSUME TestSound, [Next]_vars PROVE TestSound'
    OBVIOUS
  <2>1. CASE ScoreP16
    BY <2>1 DEF TestSound, ScoreP16
  <2>2. CASE poles' = poles /\ outcome' = outcome
    BY <2>2 DEF TestSound
  <2>3. ScoreP16 \/ (poles' = poles /\ outcome' = outcome)
    <3>1. CASE UNCHANGED vars
      BY <3>1, Zenon DEF vars
    <3>2. CASE Next
      <4> DEFINE Same == poles' = poles /\ outcome' = outcome
      <4>1. \A x \in Party : Score(x) => Same
        BY Zenon DEF Score
      <4>2. Generate => Same
        BY Zenon DEF Generate
      <4>3. \A t, picks : Render(t, picks) => Same
        BY Zenon DEF Render
      <4>4. \A t : RenderSingle(t) => Same
        BY Zenon DEF RenderSingle
      <4>5. \A x, topic, takers, answers : WriteCard(x, topic, takers, answers) => Same
        BY ZenonT(60) DEF WriteCard
      <4> QED
        BY <3>2, <4>1, <4>2, <4>3, <4>4, <4>5, Zenon DEF Next
    <3> QED
      BY <3>1, <3>2
  <2> QED
    BY <2>1, <2>2, <2>3
<1> QED
  BY <1>1, <1>2, PTL DEF Spec

-----------------------------------------------------------------------------
(* The levels.                                                             *)
(* A score of s/n is p tenths: n p is within half of n of 250 s.           *)
LEMMA Nearest ==
  ASSUME NEW n \in Nat \ {0}, NEW s \in Nat
  PROVE  LET p == Tenths(250 * s, n) IN
         p \in Nat /\ 2 * (n * p) <= 500 * s + n /\ 500 * s < 2 * (n * p) + n
<1> DEFINE k == 500 * s + n
           m == 2 * n
           p == Tenths(250 * s, n)
<1>1. k \in Nat /\ m \in Nat \ {0}
  OBVIOUS
<1>2. p = k \div m
  BY DEF Tenths
<1> HIDE DEF k, m, p
<1>3. p \in Nat /\ m * p <= k /\ k < m * p + m
  BY <1>1, <1>2, Quotient
<1>4. m * p = 2 * (n * p) /\ n * p \in Nat
  BY <1>3 DEF m
<1> QED
  BY <1>3, <1>4 DEF k, m, p

(* How many answers there may be on the two sides                          *)
Comparable(n, m) == (n = m /\ n <= 50) \/ (n <= 8 /\ m <= 8)

(* Two scores rounded apart by exactly a threshold are that far apart.     *)
LEMMA AtThreshold ==
  ASSUME NEW n \in Nat \ {0}, NEW m \in Nat \ {0}, Comparable(n, m),
         NEW s \in Nat, NEW t \in Nat, NEW c \in {150, 300},
         Tenths(250 * s, n) - Tenths(250 * t, m) = c
  PROVE  250 * (s * m) - 250 * (t * n) = c * (n * m)
<1> DEFINE p == Tenths(250 * s, n)
           q == Tenths(250 * t, m)
<1>1. /\ p \in Nat /\ 2 * (n * p) <= 500 * s + n /\ 500 * s < 2 * (n * p) + n
      /\ q \in Nat /\ 2 * (m * q) <= 500 * t + m /\ 500 * t < 2 * (m * q) + m
      /\ p - q = c
  BY Nearest
<1> HIDE DEF p, q
<1>2. CASE n = m /\ n <= 50
  <2>1. n * p = n * q + n * c
    <3>1. p = q + c
      BY <1>1
    <3> QED
      BY <1>1, <3>1
  <2>2. n * q \in Nat /\ n * p \in Nat
    BY <1>1
  <2>3. 500 * (s - t) < 2 * (n * c) + 2 * n /\ 2 * (n * c) - 2 * n < 500 * (s - t)
    BY <1>1, <1>2, <2>1, <2>2
  <2>4. 250 * (s - t) = n * c
    BY <1>2, <2>3
  <2>5. n * (250 * (s - t)) = n * (n * c)
    BY <2>4
  <2>6. n * (250 * (s - t)) = 250 * (s * n) - 250 * (t * n)
    OBVIOUS
  <2> QED
    BY <1>2, <2>5, <2>6
<1>3. CASE n * m <= 50
  <2> DEFINE D == n * m
             X == s * m
             Y == t * n
             P == D * p
             Q == D * q
  <2>1. /\ D \in Nat /\ D # 0 /\ D <= 50 /\ X \in Nat /\ Y \in Nat /\ P \in Nat /\ Q \in Nat
        /\ P = m * (n * p) /\ Q = n * (m * q)
    BY <1>1, <1>3
  <2>2. P = Q + D * c
    <3>1. p = q + c
      BY <1>1
    <3> QED
      BY <1>1, <3>1
  <2>3. 2 * P <= 500 * X + D /\ 500 * X < 2 * P + D
    <3>1. m * (2 * (n * p)) <= m * (500 * s + n) /\ m * (500 * s) < m * (2 * (n * p) + n)
      BY <1>1
    <3> QED
      BY <1>1, <2>1, <3>1
  <2>4. 2 * Q <= 500 * Y + D /\ 500 * Y < 2 * Q + D
    <3>1. n * (2 * (m * q)) <= n * (500 * t + m) /\ n * (500 * t) < n * (2 * (m * q) + m)
      BY <1>1
    <3> QED
      BY <1>1, <2>1, <3>1
  <2> HIDE DEF D, X, Y, P, Q
  <2> DEFINE j == IF c = 150 THEN 3 ELSE 6
             e == 5 * (X - Y) - j * D
  <2>5. j \in {3, 6} /\ c = 50 * j
    OBVIOUS
  <2> HIDE DEF j
  <2>6. e \in Int /\ j * D \in Int /\ c * D = 50 * (j * D)
    BY <2>1, <2>5
  <2>7. 100 * e = 500 * X - 500 * Y - 2 * (c * D)
    BY <2>1, <2>6
  <2>8. 100 * e < 2 * D /\ -(2 * D) < 100 * e
    BY <2>1, <2>2, <2>3, <2>4, <2>6, <2>7
  <2> HIDE DEF e
  <2>9. e = 0
    BY <2>1, <2>6, <2>8
  <2>10. 250 * X - 250 * Y = c * D
    BY <2>1, <2>6, <2>7, <2>9
  <2> QED
    BY <2>10 DEF X, Y, D
<1>4. CASE n = 7 /\ m = 8
  <2>1. CASE c = 150
    BY <1>1, <1>4, <2>1
  <2>2. CASE c = 300
    BY <1>1, <1>4, <2>2
  <2> QED
    BY <2>1, <2>2
<1>5. CASE n = 8 /\ m = 7
  <2>1. CASE c = 150
    BY <1>1, <1>5, <2>1
  <2>2. CASE c = 300
    BY <1>1, <1>5, <2>2
  <2> QED
    BY <2>1, <2>2
<1>6. ASSUME n <= 8, m <= 8, n # m, ~ (n * m <= 50)
      PROVE  (n = 7 /\ m = 8) \/ (n = 8 /\ m = 7)
  <2>1. n <= 6 => n * m <= 48
    BY <1>6
  <2>2. m <= 6 => n * m <= 48
    BY <1>6
  <2> QED
    BY <1>6, <2>1, <2>2
<1> QED
  BY <1>2, <1>3, <1>4, <1>5, <1>6 DEF Comparable

(* Rounding leaves each threshold between the two where it was.            *)
SideKept(n, m, s, t, c) ==
  LET r == Tenths(250 * s, n) - Tenths(250 * t, m)
      x == 250 * (s * m) - 250 * (t * n)
      D == n * m IN
  (x < c * D <=> r < c) /\ (x <= c * D <=> r <= c)

LEMMA SignedGap ==
  ASSUME NEW n \in Nat \ {0}, NEW m \in Nat \ {0}, Comparable(n, m),
         NEW s \in Nat, NEW t \in Nat, NEW c \in {150, 300}
  PROVE  SideKept(n, m, s, t, c)
<1> DEFINE p == Tenths(250 * s, n)
           q == Tenths(250 * t, m)
           r == p - q
           x == 250 * (s * m) - 250 * (t * n)
           D == n * m
<1>1. /\ p \in Nat /\ 2 * (n * p) <= 500 * s + n /\ 500 * s < 2 * (n * p) + n
      /\ q \in Nat /\ 2 * (m * q) <= 500 * t + m /\ 500 * t < 2 * (m * q) + m
  BY Nearest
<1>2. r = c => x = c * D
  BY AtThreshold
<1> HIDE DEF p, q
<1>3. D \in Nat /\ D > 0 /\ x \in Int /\ r \in Int /\ D * r \in Int /\ c * D \in Int
  BY <1>1
<1>4. x < D * r + D /\ D * r - D < x
  <2>1. m * (2 * (n * p)) <= m * (500 * s + n) /\ m * (500 * s) < m * (2 * (n * p) + n)
    BY <1>1
  <2>2. n * (2 * (m * q)) <= n * (500 * t + m) /\ n * (500 * t) < n * (2 * (m * q) + m)
    BY <1>1
  <2>3. D * r = D * p - D * q /\ D * p = m * (n * p) /\ D * q = n * (m * q)
    BY <1>1
  <2> QED
    BY <1>1, <2>1, <2>2, <2>3
<1>5. r < c => D * r + D <= c * D
  <2>1. SUFFICES ASSUME r + 1 <= c PROVE D * r + D <= c * D
    BY <1>3
  <2> HIDE DEF r, x, D
  <2>2. D * (r + 1) <= D * c
    BY <1>3, <2>1
  <2> QED
    BY <1>3, <2>2
<1>6. r > c => D * r - D >= c * D
  <2>1. SUFFICES ASSUME r - 1 >= c PROVE D * r - D >= c * D
    BY <1>3
  <2> HIDE DEF r, x, D
  <2>2. D * (r - 1) >= D * c
    BY <1>3, <2>1
  <2> QED
    BY <1>3, <2>2
<1> HIDE DEF r, x, D
<1>7. (x < c * D <=> r < c) /\ (x <= c * D <=> r <= c)
  <2> DEFINE u == D * r
             v == c * D
  <2>1. /\ u \in Int /\ v \in Int /\ x \in Int /\ r \in Int /\ D \in Nat /\ D > 0
        /\ x < u + D /\ u - D < x /\ (r = c => x = v)
        /\ (r < c => u + D <= v) /\ (r > c => u - D >= v)
    BY <1>2, <1>3, <1>4, <1>5, <1>6
  <2> HIDE DEF u, v
  <2>2. (x < v <=> r < c) /\ (x <= v <=> r <= c)
    BY <2>1
  <2> QED
    BY <2>2 DEF v
<1> QED
  BY <1>7 DEF r, x, D, p, q, SideKept

GapKept(n, m, s, t, c) ==
  LET gap == Distance(Tenths(250 * s, n), Tenths(250 * t, m))
      num == Distance((250 * s) * m, (250 * t) * n) IN
  (num < c * (n * m) <=> gap < c) /\ (num <= c * (n * m) <=> gap <= c)

LEMMA UnsignedGap ==
  ASSUME NEW n \in Nat \ {0}, NEW m \in Nat \ {0}, Comparable(n, m),
         NEW s \in Nat, NEW t \in Nat, NEW c \in {150, 300}
  PROVE  GapKept(n, m, s, t, c)
<1> DEFINE p == Tenths(250 * s, n)
           q == Tenths(250 * t, m)
           x == 250 * (s * m)
           y == 250 * (t * n)
           z == c * (n * m)
<1>1. p \in Nat /\ q \in Nat
  BY Nearest
<1>2. (x - y < z <=> p - q < c) /\ (x - y <= z <=> p - q <= c)
  <2>1. SideKept(n, m, s, t, c)
    BY SignedGap
  <2> QED
    BY <2>1 DEF SideKept
<1>3. (y - x < z <=> q - p < c) /\ (y - x <= z <=> q - p <= c)
  <2>1. Comparable(m, n) /\ c * (m * n) = z
    BY DEF Comparable
  <2>2. SideKept(m, n, t, s, c)
    BY <2>1, SignedGap
  <2> QED
    BY <2>1, <2>2 DEF SideKept
<1>4. x \in Nat /\ y \in Nat /\ z \in Nat /\ (250 * s) * m = x /\ (250 * t) * n = y
  OBVIOUS
<1> HIDE DEF p, q, x, y, z
<1>5. /\ Distance(x, y) < z <=> Distance(p, q) < c
      /\ Distance(x, y) <= z <=> Distance(p, q) <= c
  BY <1>1, <1>2, <1>3, <1>4 DEF Distance
<1> QED
  BY <1>4, <1>5 DEF p, q, z, GapKept

Submitted == \E s \in Sittings : paper = s.paper

LEMMA SubmittedAlways == Spec => []Submitted
<1>1. Init => Submitted
  BY DEF Init, Submitted
<1>2. Submitted /\ [Next]_vars => Submitted'
  <2>1. [Next]_vars => paper' = paper
    <3>1. UNCHANGED vars => paper' = paper
      BY Zenon DEF vars
    <3>2. Next => paper' = paper
      BY ZenonT(60) DEF Next, Score, ScoreP16, Generate, Render, RenderSingle, WriteCard
    <3> QED
      BY <3>1, <3>2
  <2> QED
    BY <2>1 DEF Submitted
<1> QED
  BY <1>1, <1>2, PTL DEF Spec

(* Of a dimension compared both gave an answer, and as many as may be      *)
(* compared without a rounding showing.                                    *)
LEMMA CountsComparable ==
  ASSUME RenderingInv, Submitted, ShortOrWhole, report # None, NEW d \in DOMAIN report.rows
  PROVE  LET n == Cardinality(Given(paper["A"].answers, Items[d]))
             m == Cardinality(Given(paper["B"].answers, Items[d])) IN
         n \in Nat \ {0} /\ m \in Nat \ {0} /\ Comparable(n, m)
<1> DEFINE G(x) == Given(paper[x].answers, Items[d])
<1>1. d \in Dimension /\ \A x \in Party : Counted(x, d) /\ cache[x] # None
  BY ReportOf
<1>2. \A x \in Party : paper[x].answers \in Answers /\ paper[x] # None
  BY <1>1 DEF RenderingInv, CacheSound, Paper
<1>3. ASSUME NEW x \in Party
      PROVE  /\ G(x) \subseteq Items[d] /\ IsFiniteSet(Items[d])
             /\ Cardinality(G(x)) \in Nat \ {0} /\ Cardinality(G(x)) <= Cardinality(Items[d])
  <2>1. G(x) # {}
    BY <1>1 DEF Counted
  <2>2. IsFiniteSet(Items[d])
    BY <1>1, ItemsOfScale, ScoringAssumption, FS_Subset DEF Question
  <2>3. G(x) \subseteq Items[d]
    BY DEF Given
  <2> HIDE DEF G
  <2>4. IsFiniteSet(G(x)) /\ Cardinality(G(x)) <= Cardinality(Items[d])
    BY <2>2, <2>3, FS_Subset
  <2> QED
    BY <2>1, <2>2, <2>3, <2>4, FS_CardinalityType, FS_EmptySet
<1>4. Cardinality(Items[d]) \in Nat
  BY <1>3, FS_CardinalityType DEF Party
<1>5. CASE Cardinality(Items[d]) <= 8
  <2> HIDE DEF G
  <2>1. /\ Cardinality(G("A")) \in Nat \ {0} /\ Cardinality(G("A")) <= Cardinality(Items[d])
        /\ Cardinality(G("B")) \in Nat \ {0} /\ Cardinality(G("B")) <= Cardinality(Items[d])
    BY <1>3 DEF Party
  <2>2. Cardinality(G("A")) <= 8 /\ Cardinality(G("B")) <= 8
    BY <1>4, <1>5, <2>1
  <2> QED
    BY <2>1, <2>2 DEF Comparable, G
<1>6. CASE /\ Cardinality(Items[d]) <= 50
           /\ \A s \in Sittings, x \in Party :
                s.paper[x] # None => Given(s.paper[x].answers, Items[d]) = Items[d]
  <2>1. G("A") = Items[d] /\ G("B") = Items[d]
    BY <1>2, <1>6 DEF Submitted, Party
  <2> HIDE DEF G
  <2>2. Cardinality(Items[d]) \in Nat \ {0}
    BY <1>3, <2>1 DEF Party
  <2> QED
    BY <1>6, <2>1, <2>2 DEF Comparable, G
<1> QED
  BY <1>1, <1>5, <1>6 DEF ShortOrWhole

LEMMA ScoreOf ==
  ASSUME RenderingInv, report # None, NEW d \in DOMAIN report.rows, NEW x \in Party
  PROVE  LET a == paper[x].answers IN
         /\ Total(a, d) \in Nat
         /\ cache[x].score[d] = Tenths(250 * Total(a, d), Cardinality(Given(a, Items[d])))
<1>1. d \in Dimension /\ Counted(x, d) /\ cache[x] # None
  BY ReportOf
<1>2. paper[x].answers \in Answers /\ cache[x] = ComputeScores(paper[x])
  BY <1>1 DEF RenderingInv, CacheSound, Paper
<1>3. cache[x].score[d] = DimensionScore(paper[x].answers, d)
  BY <1>1, <1>2 DEF ComputeScores, Counted
<1>4. Given(paper[x].answers, Items[d]) # {}
  BY <1>1 DEF Counted
<1> DEFINE a == paper[x].answers
<1>5. a \in Answers
  BY <1>2
<1> HIDE DEF a
<1>6. /\ Given(a, Items[d]) # {} => Total(a, d) \in Nat
      /\ Given(a, Items[d]) # {} =>
           DimensionScore(a, d) = Tenths(250 * Total(a, d), Cardinality(Given(a, Items[d])))
  BY <1>1, <1>5, ScoreSound
<1> QED
  BY <1>3, <1>4, <1>6 DEF a

LEMMA LevelKept == RenderingInv /\ Submitted /\ ShortOrWhole => LevelIsExact
<1> SUFFICES ASSUME RenderingInv, Submitted, ShortOrWhole, report # None, NEW d \in DOMAIN report.rows
             PROVE  LET Points(x) ==
                          LET given == Given(paper[x].answers, Items[d]) IN
                          <<250 * MapThenSumSet(LAMBDA q : Effective(q, paper[x].answers[q]) - 1, given),
                            Cardinality(given)>>
                        A == Points("A")
                        B == Points("B")
                        num == Distance(A[1] * B[2], B[1] * A[2])
                        den == A[2] * B[2] IN
                    report.rows[d].level = IF num < High * den THEN "high"
                                           ELSE IF num <= Mid * den THEN "mid" ELSE "low"
  BY DEF LevelIsExact
<1> DEFINE s == Total(paper["A"].answers, d)
           t == Total(paper["B"].answers, d)
           n == Cardinality(Given(paper["A"].answers, Items[d]))
           m == Cardinality(Given(paper["B"].answers, Items[d]))
           gap == Distance(cache["A"].score[d], cache["B"].score[d])
           num == Distance((250 * s) * m, (250 * t) * n)
           den == n * m
<1>1. n \in Nat \ {0} /\ m \in Nat \ {0} /\ Comparable(n, m)
  BY CountsComparable
<1>2. s \in Nat /\ t \in Nat /\ gap = Distance(Tenths(250 * s, n), Tenths(250 * t, m))
  BY ScoreOf DEF Party
<1>3. report.rows[d].level = ClassifyGap(gap)
  <2>1. report.rows[d] = Compared(cache["A"], cache["B"], d)
    BY ReportOf
  <2> QED
    BY <2>1 DEF Compared
<1>4. High = 150 /\ Mid = 300
  BY DEF ShortOrWhole
<1>5. report.rows[d].level = IF num < High * den THEN "high"
                             ELSE IF num <= Mid * den THEN "mid" ELSE "low"
  <2> HIDE DEF s, t, n, m, gap
  <2>1. GapKept(n, m, s, t, 150) /\ GapKept(n, m, s, t, 300)
    BY <1>1, <1>2, UnsignedGap
  <2>2. (num < 150 * den <=> gap < 150) /\ (num <= 300 * den <=> gap <= 300)
    BY <1>2, <2>1, ZenonT(60) DEF GapKept
  <2> HIDE DEF num, den
  <2> QED
    BY <1>3, <1>4, <2>2, ZenonT(60) DEF ClassifyGap
<1> QED
  BY <1>5, ZenonT(60) DEF Total

-----------------------------------------------------------------------------
(* The disagreements listed: of a finite set in a strict order, those with *)
(* fewer than two ahead of them are the two first.                         *)
Beats(g, r, q) == g[r] > g[q] \/ (g[r] = g[q] /\ q > r)
Ahead(S, g, q) == {r \in S : Beats(g, r, q)}
FirstTwo(S, g) == {q \in S : Cardinality(Ahead(S, g, q)) < 2}

(* No more are listed than two, and none that is left out is larger.       *)
Largest(S, g) ==
  LET first == FirstTwo(S, g) IN
  /\ Cardinality(first) = IF Cardinality(S) < 2 THEN Cardinality(S) ELSE 2
  /\ \A q \in first, r \in S \ first : g[q] >= g[r]

LEMMA LeadsOrBeaten ==
  ASSUME NEW S, S \subseteq Nat, NEW g, GapsOn(g, S)
  PROVE  \A p, r \in S : /\ ~ Beats(g, p, p)
                         /\ Leads(g, p, r) => /\ g[p] >= g[r] /\ ~ Beats(g, r, p)
                                              /\ r # p => Beats(g, p, r)
<1> SUFFICES ASSUME NEW p \in S, NEW r \in S
             PROVE  /\ ~ Beats(g, p, p)
                    /\ Leads(g, p, r) => /\ g[p] >= g[r] /\ ~ Beats(g, r, p)
                                         /\ r # p => Beats(g, p, r)
  OBVIOUS
<1> DEFINE m == g[p]
           n == g[r]
<1>1. m \in Nat /\ n \in Nat /\ p \in Nat /\ r \in Nat
  BY DEF GapsOn
<1>2. /\ Leads(g, p, r) <=> m > n \/ (m = n /\ p <= r)
      /\ Beats(g, r, p) <=> n > m \/ (n = m /\ p > r)
      /\ Beats(g, p, r) <=> m > n \/ (m = n /\ r > p)
      /\ Beats(g, p, p) <=> m > m \/ p > p
  BY Zenon DEF Leads, Beats
<1> HIDE DEF m, n
<1>3. /\ ~ Beats(g, p, p)
      /\ Leads(g, p, r) => m >= n /\ ~ Beats(g, r, p) /\ (r # p => Beats(g, p, r))
  BY <1>1, <1>2
<1> QED
  BY <1>3, Zenon DEF m, n

LEMMA IsPair ==
  ASSUME NEW T, NEW p \in T, NEW q \in T, \A r \in T : r = p \/ r = q
  PROVE  T = {p, q}
OBVIOUS

LEMMA PairOfTwo ==
  ASSUME NEW p, NEW q, p # q
  PROVE  IsFiniteSet({p, q}) /\ Cardinality({p, q}) = 2
<1>1. IsFiniteSet({p}) /\ Cardinality({p}) = 1
  BY FS_Singleton
<1>2. {p, q} = {p} \cup {q}
  OBVIOUS
<1> QED
  BY <1>1, <1>2, FS_AddElement

LEMMA TwoFirst ==
  ASSUME NEW S, S \subseteq Nat, IsFiniteSet(S),
         NEW g, GapsOn(g, S)
  PROVE  Largest(S, g)
<1>1. \A q \in S : /\ Ahead(S, g, q) \subseteq S \ {q}
                   /\ IsFiniteSet(Ahead(S, g, q)) /\ Cardinality(Ahead(S, g, q)) \in Nat
  <2>1. \A q \in S : Ahead(S, g, q) \subseteq S \ {q}
    BY LeadsOrBeaten DEF Ahead
  <2>2. \A q \in S : IsFiniteSet(Ahead(S, g, q))
    BY <2>1, FS_Subset
  <2> QED
    BY <2>1, <2>2, FS_CardinalityType
<1>2. CASE S = {}
  <2>1. FirstTwo(S, g) = {}
    BY <1>2 DEF FirstTwo
  <2> QED
    BY <1>2, <2>1, FS_EmptySet DEF Largest
<1>3. CASE S # {}
  <2>1. PICK p \in S : \A j \in S : Leads(g, p, j)
    BY <1>3, Furthest
  <2>2. Ahead(S, g, p) = {}
    <3>1. \A r \in S : ~ Beats(g, r, p)
      BY <2>1, LeadsOrBeaten
    <3> QED
      BY <3>1 DEF Ahead
  <2>3. p \in FirstTwo(S, g)
    BY <2>2, FS_EmptySet DEF FirstTwo
  <2>4. \A j \in S : j # p => p \in Ahead(S, g, j)
    BY <2>1, LeadsOrBeaten DEF Ahead
  <2>5. CASE S = {p}
    <3>1. FirstTwo(S, g) = S
      BY <2>3, <2>5 DEF FirstTwo
    <3> QED
      BY <2>5, <3>1, FS_Singleton DEF Largest
  <2>6. CASE S # {p}
    <3> DEFINE R == S \ {p}
    <3>1. R # {} /\ R \subseteq Nat /\ GapsOn(g, R)
      BY <2>6 DEF GapsOn
    <3>2. PICK q \in R : \A j \in R : Leads(g, q, j)
      BY <3>1, Furthest
    <3>3. q \in S /\ q # p /\ p # q
      OBVIOUS
    <3>4. \A r \in R : ~ Beats(g, r, q)
      BY <3>2, LeadsOrBeaten
    <3>5. Ahead(S, g, q) = {p}
      BY <2>4, <3>3, <3>4 DEF Ahead
    <3>6. q \in FirstTwo(S, g)
      <4>1. Cardinality(Ahead(S, g, q)) = 1
        BY <3>5, FS_Singleton
      <4> QED
        BY <3>3, <4>1 DEF FirstTwo
    <3>7. ASSUME NEW r \in S, r # p, r # q
          PROVE  r \notin FirstTwo(S, g)
      <4>1. q \in Ahead(S, g, r)
        BY <3>2, <3>7, LeadsOrBeaten DEF Ahead
      <4>2. {p, q} \in SUBSET Ahead(S, g, r)
        BY <2>4, <3>7, <4>1
      <4>3. 2 <= Cardinality(Ahead(S, g, r))
        <5>1. Cardinality({p, q}) = 2
          BY <3>3, PairOfTwo
        <5>2. Cardinality({p, q}) <= Cardinality(Ahead(S, g, r))
          BY <1>1, <4>2, FS_Subset
        <5> QED
          BY <5>1, <5>2
      <4> QED
        BY <1>1, <4>3 DEF FirstTwo
    <3>8. FirstTwo(S, g) = {p, q}
      <4>1. \A r \in FirstTwo(S, g) : r \in S
        BY DEF FirstTwo
      <4>2. \A r \in FirstTwo(S, g) : r = p \/ r = q
        BY <3>7, <4>1
      <4> QED
        BY <2>3, <3>6, <4>2, IsPair
    <3>9. Cardinality(FirstTwo(S, g)) = 2 /\ Cardinality(S) >= 2 /\ Cardinality(S) \in Nat
      <4>1. {p, q} \in SUBSET S
        BY <3>3
      <4>2. Cardinality({p, q}) = 2 /\ Cardinality({p, q}) <= Cardinality(S)
        BY <3>3, <4>1, PairOfTwo, FS_Subset
      <4> QED
        BY <3>8, <4>2, FS_CardinalityType
    <3>10. \A r \in S \ {p, q} : g[p] >= g[r] /\ g[q] >= g[r]
      BY <2>1, <3>2, <3>3, LeadsOrBeaten
    <3> QED
      BY <3>8, <3>9, <3>10 DEF Largest
  <2> QED
    BY <2>5, <2>6
<1> QED
  BY <1>2, <1>3

LEMMA ListKept == RenderingInv => LargestListed
<1> SUFFICES ASSUME RenderingInv, report # None, NEW d \in DOMAIN report.rows
             PROVE  LET a == paper["A"].answers
                        b == paper["B"].answers
                        Apart(q) == Distance(a[q], b[q])
                        apart == {q \in Given(a, Group[d]) \cap Given(b, Group[d]) : Apart(q) >= 3}
                        top == report.rows[d].top IN
                    /\ top \subseteq apart
                    /\ Cardinality(top) = IF Cardinality(apart) < 2 THEN Cardinality(apart) ELSE 2
                    /\ \A q \in top, r \in apart \ top : Apart(q) >= Apart(r)
  BY DEF LargestListed
<1> DEFINE A == cache["A"]
           B == cache["B"]
           a == paper["A"].answers
           b == paper["B"].answers
           apart == {q \in Given(a, Group[d]) \cap Given(b, Group[d]) : Distance(a[q], b[q]) >= 3}
           g == [q \in apart |-> Distance(a[q], b[q])]
           top == report.rows[d].top
<1>1. A.answers = a /\ B.answers = b /\ a \in Answers /\ b \in Answers /\ d \in Dimension
  <2>1. \A x \in Party : cache[x].answers = paper[x].answers /\ paper[x].answers \in Answers
    BY ReportOf, SideSound
  <2>2. d \in Dimension
    BY ReportOf
  <2> QED
    BY <2>1, <2>2 DEF Party
<1>2. top = TopDivergences(A, B, d)
  <2>1. report.rows[d] = Compared(A, B, d)
    BY ReportOf
  <2> QED
    BY <2>1 DEF Compared
<1> HIDE DEF A, B, a, b
<1>3. \A q \in apart : q \in Scale /\ a[q] # None /\ b[q] # None
  BY <1>1, ItemsOfScale DEF Given
<1>4. \A q \in apart : a[q] \in 1..5 /\ b[q] \in 1..5
  BY <1>1, <1>3 DEF Answers, ScaleValue
<1>5. \A q \in apart : g[q] \in Nat /\ g[q] <= 1000 /\ g[q] = Distance(a[q], b[q])
  BY <1>4 DEF Distance
<1>6. apart \subseteq Nat /\ IsFiniteSet(apart)
  <2>1. apart \subseteq Question
    BY <1>3 DEF Question
  <2> QED
    BY <2>1, ScoringAssumption, FS_Subset
<1>7. Divergent(A, B, d) = apart /\ \A q \in apart : AnswerGap(A, B, q) = g[q]
  BY <1>1 DEF Divergent, Both, AnswerGap
<1>8. top = FirstTwo(apart, g)
  <2> HIDE DEF apart, g, top
  <2>1. \A q \in apart : {r \in apart : Before(A, B, r, q)} = Ahead(apart, g, q)
    <3>1. \A q, r \in apart : Before(A, B, r, q) <=> (g[r] > g[q] \/ (g[r] = g[q] /\ q > r))
      BY <1>5, <1>6, <1>7 DEF Before
    <3> QED
      BY <3>1 DEF Ahead, Beats
  <2> QED
    BY <1>2, <1>7, <2>1 DEF TopDivergences, FirstTwo
<1>9. /\ Cardinality(top) = IF Cardinality(apart) < 2 THEN Cardinality(apart) ELSE 2
      /\ \A q \in top, r \in apart \ top : g[q] >= g[r]
  <2> HIDE DEF apart, g, top
  <2> QED
    <3>1. GapsOn(g, apart)
      BY <1>5 DEF GapsOn
    <3>2. Largest(apart, g)
      BY <1>6, <3>1, TwoFirst
    <3> QED
      BY <1>8, <3>2 DEF Largest
<1>10. top \subseteq apart
  BY <1>8 DEF FirstTwo
<1>11. \A q \in top, r \in apart \ top : Distance(a[q], b[q]) >= Distance(a[r], b[r])
  <2> HIDE DEF apart, g, top
  <2> QED
    BY <1>5, <1>9, <1>10
<1> QED
  BY <1>9, <1>10, <1>11 DEF a, b, apart, top

-----------------------------------------------------------------------------
(* The two sides.                                                          *)
LEMMA DistanceBack ==
  \A m, n \in Int : Distance(m, n) = Distance(n, m) /\ Distance(m, n) \in Nat
BY DEF Distance

(* Records that are the same but for what is swapped or emptied.           *)
LabelsOf(g, x, y) == [gap |-> g, labelA |-> x, labelB |-> y]
OtherLabels(r) == [r EXCEPT !.labelA = r.labelB, !.labelB = r.labelA]

LEMMA LabelsSwapped ==
  ASSUME NEW g, NEW x, NEW y
  PROVE  LabelsOf(g, y, x) = OtherLabels(LabelsOf(g, x, y))
<1> DEFINE Label == [gap : {g}, labelA : {x, y}, labelB : {x, y}]
           r == LabelsOf(g, x, y)
           s == LabelsOf(g, y, x)
           t == [r EXCEPT !.labelA = r.labelB, !.labelB = r.labelA]
<1>1. s \in Label /\ t \in Label
  BY DEF LabelsOf
<1>2. s.gap = t.gap /\ s.labelA = t.labelA /\ s.labelB = t.labelB
  BY DEF LabelsOf
<1> HIDE DEF s, t
<1>3. s = t
  BY <1>1, <1>2
<1> QED
  BY <1>3 DEF s, t, OtherLabels

RowOf(a, b, g, l, n, m, t) ==
  [scoreA |-> a, scoreB |-> b, gap |-> g, level |-> l, answeredA |-> n, answeredB |-> m, top |-> t]

OtherRow(r) ==
  [r EXCEPT !.scoreA = r.scoreB, !.scoreB = r.scoreA,
            !.answeredA = r.answeredB, !.answeredB = r.answeredA]

LEMMA ScoresSwapped ==
  ASSUME NEW a, NEW b, NEW g, NEW l, NEW n, NEW m, NEW t
  PROVE  RowOf(b, a, g, l, m, n, t) = OtherRow(RowOf(a, b, g, l, n, m, t))
<1> DEFINE Row == [scoreA : {a, b}, scoreB : {a, b}, gap : {g}, level : {l},
                   answeredA : {n, m}, answeredB : {n, m}, top : {t}]
           r == RowOf(a, b, g, l, n, m, t)
           s == RowOf(b, a, g, l, m, n, t)
           u == [r EXCEPT !.scoreA = r.scoreB, !.scoreB = r.scoreA,
                          !.answeredA = r.answeredB, !.answeredB = r.answeredA]
<1>1. s \in Row /\ u \in Row
  BY DEF RowOf
<1>2. /\ s.scoreA = u.scoreA /\ s.scoreB = u.scoreB /\ s.gap = u.gap /\ s.level = u.level
      /\ s.answeredA = u.answeredA /\ s.answeredB = u.answeredB /\ s.top = u.top
  BY DEF RowOf
<1> HIDE DEF s, u
<1>3. s = u
  BY <1>1, <1>2
<1> QED
  BY <1>3 DEF s, u, OtherRow

ReportWith(rows, flagged, c, p, u, h, k, b, l) ==
  [rows |-> rows, consensusDimensions |-> c, pendingDimensions |-> p, unevaluated |-> u,
   flagged |-> flagged, choiceDivergences |-> h, consensus |-> k, baseline |-> b, low |-> l]

Emptied(r) == [r EXCEPT !.rows = <<>>, !.flagged = <<>>]

LEMMA EmptiedAlike ==
  ASSUME NEW rows, NEW flagged, NEW c, NEW p, NEW u, NEW h, NEW k, NEW b, NEW l
  PROVE  Emptied(ReportWith(rows, flagged, c, p, u, h, k, b, l)) =
         ReportWith(<<>>, <<>>, c, p, u, h, k, b, l)
<1> DEFINE x == [ReportWith(rows, flagged, c, p, u, h, k, b, l) EXCEPT !.rows = <<>>, !.flagged = <<>>]
           y == ReportWith(<<>>, <<>>, c, p, u, h, k, b, l)
           Less == [rows : {<<>>}, consensusDimensions : {c}, pendingDimensions : {p},
                    unevaluated : {u}, flagged : {<<>>}, choiceDivergences : {h},
                    consensus : {k}, baseline : {b}, low : {l}]
<1>1. x \in Less
  BY DEF ReportWith
<1>2. y \in Less
  BY DEF ReportWith
<1> HIDE DEF x, y
<1>3. x = y
  BY <1>1, <1>2
<1> QED
  BY <1>3 DEF x, y, Emptied

LEMMA AnswersAcross ==
  ASSUME NEW a, NEW b, a.answers \in Answers, b.answers \in Answers, NEW d \in Dimension
  PROVE  /\ Divergent(a, b, d) = Divergent(b, a, d)
         /\ \A q \in Divergent(a, b, d) : AnswerGap(a, b, q) = AnswerGap(b, a, q)
         /\ TopDivergences(a, b, d) = TopDivergences(b, a, d)
<1>1. \A q \in Both(a, b, Group[d]) : AnswerGap(a, b, q) = AnswerGap(b, a, q)
  <2>1. \A q \in Both(a, b, Group[d]) :
          q \in Scale /\ a.answers[q] # None /\ b.answers[q] # None
    BY ItemsOfScale DEF Both, Given
  <2>2. \A q \in Both(a, b, Group[d]) : a.answers[q] \in 1..5 /\ b.answers[q] \in 1..5
    BY <2>1 DEF Answers, ScaleValue
  <2>3. \A q \in Both(a, b, Group[d]) : a.answers[q] \in Int /\ b.answers[q] \in Int
    BY <2>2
  <2> QED
    BY <2>3, DistanceBack DEF AnswerGap
<1>2. Both(a, b, Group[d]) = Both(b, a, Group[d])
  BY DEF Both
<1> DEFINE S == Divergent(a, b, d)
<1>3. S = Divergent(b, a, d)
  BY <1>1, <1>2 DEF Divergent
<1>4. \A q \in S : AnswerGap(a, b, q) = AnswerGap(b, a, q)
  BY <1>1 DEF Divergent
<1> HIDE DEF S
<1>5. \A q, r \in S : Before(a, b, r, q) <=> Before(b, a, r, q)
  BY <1>4 DEF Before
<1>6. \A q \in S : {r \in S : Before(a, b, r, q)} = {r \in S : Before(b, a, r, q)}
  BY <1>5
<1>7. TopDivergences(a, b, d) = TopDivergences(b, a, d)
  <2>1. TopDivergences(a, b, d) = {q \in S : Cardinality({r \in S : Before(a, b, r, q)}) < 2}
    BY DEF TopDivergences, S
  <2>2. TopDivergences(b, a, d) = {q \in S : Cardinality({r \in S : Before(b, a, r, q)}) < 2}
    BY <1>3 DEF TopDivergences
  <2> QED
    BY <1>6, <2>1, <2>2
<1> QED
  BY <1>3, <1>4, <1>7 DEF S

LEMMA SidesKept == RenderingInv => SidesAreEqual
<1> SUFFICES ASSUME RenderingInv, report # None PROVE SidesAreEqual
  BY DEF SidesAreEqual
<1> DEFINE a == cache["A"]
           b == cache["B"]
           other == DoubleReport(b, a)
           out == Unevaluated(a, b)
           compared == Dimension \ out
<1>1. report = DoubleReport(a, b)
  BY DEF RenderingInv, ReportSound
<1>2. /\ a.answers \in Answers /\ b.answers \in Answers
      /\ \A d \in compared : a.score[d] \in Int /\ b.score[d] \in Int
  <2>1. \A x \in Party : cache[x].answers \in Answers
    <3>1. \A x \in Party : cache[x].answers = paper[x].answers /\ paper[x].answers \in Answers
      BY ReportOf, SideSound
    <3> QED
      BY <3>1
  <2>2. compared = DOMAIN report.rows
    <3> HIDE DEF a, b, compared
    <3> QED
      BY <1>1 DEF DoubleReport, compared
  <2>3. \A d \in compared, x \in Party : cache[x].score[d] \in Mark
    BY <2>2, ReportOf
  <2>4. \A d \in compared, x \in Party : cache[x].score[d] \in Int
    <3>1. \A i \in Mark : i \in Int
      BY DEF Mark
    <3> HIDE DEF compared
    <3> QED
      BY <2>3, <3>1, Zenon
  <2> HIDE DEF compared
  <2> QED
    BY <2>1, <2>4 DEF Party
<1> HIDE DEF a, b
<1>3. Unevaluated(b, a) = out
  BY DEF Unevaluated
<1>4. \A d \in compared : /\ TopDivergences(b, a, d) = TopDivergences(a, b, d)
                          /\ \A q \in TopDivergences(a, b, d) : AnswerGap(a, b, q) = AnswerGap(b, a, q)
  <2>1. \A d \in compared : TopDivergences(a, b, d) \subseteq Divergent(a, b, d)
    BY DEF TopDivergences
  <2> QED
    BY <1>2, <2>1, AnswersAcross
<1>5. \A d \in compared : Distance(a.score[d], b.score[d]) = Distance(b.score[d], a.score[d])
  BY <1>2, DistanceBack
<1> HIDE DEF out
<1>6. \A d \in compared :
        /\ Compared(b, a, d).level = Compared(a, b, d).level
        /\ Compared(b, a, d).top = Compared(a, b, d).top
        /\ Compared(b, a, d) = [Compared(a, b, d) EXCEPT
                                  !.scoreA = Compared(a, b, d).scoreB,
                                  !.scoreB = Compared(a, b, d).scoreA,
                                  !.answeredA = Compared(a, b, d).answeredB,
                                  !.answeredB = Compared(a, b, d).answeredA]
  <2> TAKE d \in compared
  <2> DEFINE gap == Distance(a.score[d], b.score[d])
             top == TopDivergences(a, b, d)
             n == Cardinality(Given(a.answers, Items[d]))
             m == Cardinality(Given(b.answers, Items[d]))
             level == ClassifyGap(gap)
  <2>1. Compared(a, b, d) = RowOf(a.score[d], b.score[d], gap, level, n, m, top)
    BY DEF Compared, RowOf
  <2>2. Compared(b, a, d) = RowOf(b.score[d], a.score[d], gap, level, m, n, top)
    BY <1>4, <1>5 DEF Compared, RowOf
  <2> DEFINE r == Compared(a, b, d)
             s == Compared(b, a, d)
  <2> HIDE DEF gap, top, n, m, level
  <2>3. s.level = r.level /\ s.top = r.top
    BY <2>1, <2>2 DEF RowOf
  <2> HIDE DEF r, s
  <2>4. s = [r EXCEPT !.scoreA = r.scoreB, !.scoreB = r.scoreA,
                      !.answeredA = r.answeredB, !.answeredB = r.answeredA]
    <3> DEFINE v == a.score[d]
               w == b.score[d]
    <3>1. r = RowOf(v, w, gap, level, n, m, top) /\ s = RowOf(w, v, gap, level, m, n, top)
      BY <2>1, <2>2 DEF r, s
    <3> HIDE DEF v, w
    <3>2. RowOf(w, v, gap, level, m, n, top) = OtherRow(RowOf(v, w, gap, level, n, m, top))
      BY ScoresSwapped
    <3>3. s = OtherRow(r)
      BY <3>1, <3>2
    <3> QED
      BY <3>3 DEF OtherRow
  <2> QED
    BY <2>3, <2>4 DEF r, s
<1>7. /\ report.rows = [d \in compared |-> Compared(a, b, d)]
      /\ other.rows = [d \in compared |-> Compared(b, a, d)]
  BY <1>1, <1>3 DEF DoubleReport, out
<1>8. \A d \in compared :
        /\ other.rows[d].level = report.rows[d].level /\ other.rows[d].top = report.rows[d].top
        /\ report.rows[d].top = TopDivergences(a, b, d)
  <2>1. \A d \in compared : Compared(a, b, d).top = TopDivergences(a, b, d)
    BY DEF Compared
  <2> HIDE DEF compared, other
  <2> QED
    BY <1>6, <1>7, <2>1
<1> DEFINE listed == UNION {report.rows[d].top : d \in compared}
<1>9. /\ report.flagged = [q \in listed |-> Flagged(a, b, q)]
      /\ other.flagged = [q \in listed |-> Flagged(b, a, q)]
  <2>1. UNION {other.rows[d].top : d \in compared} = listed
    BY <1>8
  <2>2. report.flagged = [q \in listed |-> Flagged(a, b, q)]
    BY <1>1 DEF DoubleReport, out
  <2>3. other.flagged = [q \in UNION {other.rows[d].top : d \in compared} |-> Flagged(b, a, q)]
    BY <1>3 DEF DoubleReport
  <2> QED
    BY <2>1, <2>2, <2>3
<1>10. \A q \in listed : AnswerGap(a, b, q) = AnswerGap(b, a, q)
  BY <1>4, <1>8
<1>11. \A q \in listed :
         other.flagged[q] = [report.flagged[q] EXCEPT !.labelA = report.flagged[q].labelB,
                                                      !.labelB = report.flagged[q].labelA]
  <2> TAKE q \in listed
  <2>1. /\ report.flagged[q] = LabelsOf(AnswerGap(a, b, q), OptionLabel(a, q), OptionLabel(b, q))
        /\ other.flagged[q] = LabelsOf(AnswerGap(a, b, q), OptionLabel(b, q), OptionLabel(a, q))
    BY <1>9, <1>10 DEF Flagged, LabelsOf
  <2> DEFINE g == AnswerGap(a, b, q)
             x == OptionLabel(a, q)
             y == OptionLabel(b, q)
             r == report.flagged[q]
             s == other.flagged[q]
  <2>2. r = LabelsOf(g, x, y) /\ s = LabelsOf(g, y, x)
    BY <2>1
  <2> HIDE DEF g, x, y, r, s
  <2>3. LabelsOf(g, y, x) = OtherLabels(LabelsOf(g, x, y))
    BY LabelsSwapped
  <2>4. s = OtherLabels(r)
    BY <2>2, <2>3
  <2> QED
    BY <2>4 DEF r, s, OtherLabels
<1>12. \A d \in compared :
         other.rows[d] = [report.rows[d] EXCEPT
                            !.scoreA = report.rows[d].scoreB, !.scoreB = report.rows[d].scoreA,
                            !.answeredA = report.rows[d].answeredB,
                            !.answeredB = report.rows[d].answeredA]
  <2> HIDE DEF other, compared
  <2> QED
    BY <1>6, <1>7, Zenon
<1>13. [other EXCEPT !.rows = <<>>, !.flagged = <<>>] = [report EXCEPT !.rows = <<>>, !.flagged = <<>>]
  <2> DEFINE high == {d \in compared : report.rows[d].level = "high"}
             rest == {d \in compared : report.rows[d].level # "high"}
             choices == ChoiceDivergences(a, b)
             same == ConsensusItems(a, b)
             baseline == MergeBaseline(a, b)
             low == a.low \/ b.low
  <2>1. report = ReportWith(report.rows, report.flagged, high, rest, out, choices, same, baseline, low)
    BY <1>1 DEF DoubleReport, out, ReportWith
  <2>2. other = ReportWith(other.rows, other.flagged, high, rest, out, choices, same, baseline, low)
    <3>1. /\ high = {d \in compared : other.rows[d].level = "high"}
          /\ rest = {d \in compared : other.rows[d].level # "high"}
      BY <1>8
    <3>2. /\ ChoiceDivergences(b, a) = choices /\ ConsensusItems(b, a) = same
          /\ MergeBaseline(b, a) = baseline /\ (b.low \/ a.low) = low
      BY DEF ChoiceDivergences, ConsensusItems, MergeBaseline, Both
    <3> HIDE DEF high, rest, choices, same, baseline, low
    <3> QED
      BY <1>3, <3>1, <3>2 DEF DoubleReport, ReportWith
  <2> DEFINE rows == report.rows
             flagged == report.flagged
             rows2 == other.rows
             flagged2 == other.flagged
  <2>3. /\ report = ReportWith(rows, flagged, high, rest, out, choices, same, baseline, low)
        /\ other = ReportWith(rows2, flagged2, high, rest, out, choices, same, baseline, low)
    BY <2>1, <2>2
  <2> HIDE DEF other, high, rest, choices, same, baseline, low, rows, flagged, rows2, flagged2
  <2>4. Emptied(report) = Emptied(other)
    BY <2>3, EmptiedAlike
  <2> QED
    BY <2>4 DEF Emptied
<1> HIDE DEF other, compared, listed
<1>14. DOMAIN report.rows = compared /\ DOMAIN report.flagged = listed
  BY <1>7, <1>9
<1> QED
  BY <1>11, <1>12, <1>13, <1>14, ZenonT(60) DEF SidesAreEqual, other, a, b

(* What the engines compute and what the prompts are about is the          *)
(* reference's result, for every questionnaire of which only short         *)
(* dimensions may be answered in part: one score is the mean, one pole the *)
(* majority, rounding moves no dimension over a threshold, the largest     *)
(* disagreements are listed, and neither side is favoured.                 *)
THEOREM EnginesExact == ShortOrWhole => (Spec => []EnginesAreExact)
<1> SUFFICES ASSUME ShortOrWhole PROVE Spec => []EnginesAreExact
  OBVIOUS
<1>1. /\ RenderingInv /\ TestSound /\ Submitted /\ ScoreIsMean /\ PromptIsExact
      => EnginesAreExact
  BY MajorityKept, LevelKept, ListKept, SidesKept DEF EnginesAreExact
<1> QED
  BY <1>1, RenderingAlways, TestAlways, SubmittedAlways, ScoresAreMeans, PromptsAreExact, PTL
=============================================================================
