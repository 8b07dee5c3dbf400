---- MODULE TieringProofs ----
EXTENDS Tiering, SiftingProofs

Chosen(s) == CHOOSE x \in s : TRUE

(* Induction over the subsets of a finite set.                             *)
LEMMA BySubsets ==
    ASSUME NEW T, IsFiniteSet(T), NEW P,
           \A s \in SUBSET T : (\A u \in SUBSET s : u # s => u \in P) => s \in P
    PROVE  SUBSET T \subseteq P
  <1> DEFINE Sizes == {Cardinality(s) : s \in {u \in SUBSET T : u \notin P}}
  <1> SUFFICES ASSUME NEW t \in SUBSET T, t \notin P PROVE FALSE
    OBVIOUS
  <1>1. \A s \in SUBSET T : IsFiniteSet(s) /\ Cardinality(s) \in Nat
    BY FS_Subset, FS_CardinalityType
  <1>2. PICK n \in Sizes : \A m \in Sizes : n <= m
    <2>1. Sizes \subseteq Nat /\ Sizes # {}
      BY <1>1
    <2> HIDE DEF Sizes
    <2>. QED BY <2>1, LeastNatural
  <1>3. PICK s \in SUBSET T : s \notin P /\ Cardinality(s) = n
    BY <1>2
  <1>4. ASSUME NEW u \in SUBSET s, u # s PROVE u \in P
    <2>1. Cardinality(u) <= Cardinality(s) /\ Cardinality(u) # Cardinality(s)
      BY <1>1, <1>4, FS_Subset
    <2>2. u \in SUBSET T /\ ~(n <= Cardinality(u))
      BY <1>1, <1>3, <2>1
    <2>. QED BY <2>2, <1>2
  <1>. QED BY <1>3, <1>4

IsFold(f, T, g, base) ==
    \A s \in SUBSET T : f[s] = IF s = {} THEN base ELSE g[<<Chosen(s), f[s \ {Chosen(s)}]>>]

(* A function folds g over the subsets of T, in the order of the folds of  *)
(* the community modules.                                                  *)
LEMMA FoldExists ==
    ASSUME NEW T, IsFiniteSet(T), NEW B, NEW base \in B, NEW g \in [T \X B -> B]
    PROVE  \E f \in [SUBSET T -> B] : IsFold(f, T, g, base)
  <1> DEFINE pick == [s \in SUBSET T |-> Chosen(s)]
  <1>1. \A s \in SUBSET T : pick[s] = Chosen(s) /\ (s # {} => Chosen(s) \in s)
    BY DEF Chosen
  <1> HIDE DEF pick
  <1>2. \A s \in SUBSET T : s # {} => pick[s] \in s
    BY <1>1
  <1>3. \E f \in [SUBSET T -> B] : FoldedBy(f, T, pick, g, base)
    BY <1>2, FoldByExists, Zenon
  <1>4. PICK f \in [SUBSET T -> B] : FoldedBy(f, T, pick, g, base)
    BY <1>3, Zenon
  <1>5. ASSUME NEW s \in SUBSET T
        PROVE  f[s] = IF s = {} THEN base ELSE g[<<Chosen(s), f[s \ {Chosen(s)}]>>]
    BY <1>1, <1>4 DEF FoldedBy
  <1>6. IsFold(f, T, g, base)
    BY <1>5, Zenon DEF IsFold
  <1>. QED BY <1>4, <1>6, Zenon
-----------------------------------------------------------------------------
(* The builders of buckets.                                                *)

AnyRow == [cnt : Nat, sum : Int, min : Int, max : Int, first : Int, last : Int,
           from : SUBSET Times]
Builder == [cnt : Nat, sum : Int, min : Int, max : Int, firstTs : Int, first : Int,
            lastTs : Int, last : Int, from : SUBSET Times]

LEMMA TimesAreNats == /\ Times \subseteq Nat /\ MaxTime \in Nat
                      /\ \A T \in SUBSET Times : IsFiniteSet(T)
  <1>1. Times \subseteq Nat /\ MaxTime \in Nat
    BY TieringAssumption DEF Times
  <1>2. IsFiniteSet(Times)
    BY <1>1, FS_Interval DEF Times
  <1>. QED BY <1>1, <1>2, FS_Subset

LEMMA AbsorbType ==
    ASSUME NEW b \in Builder, NEW r \in AnyRow, NEW ts \in Times
    PROVE  Absorb(b, r, ts) \in Builder
  BY TimesAreNats DEF Absorb, Builder, AnyRow, Smaller, Larger

IsMerge(i, rowOf, T) ==
    \A s \in SUBSET T :
        i[s] = IF s = {} THEN NewBuilder
               ELSE Absorb(i[s \ {Chosen(s)}], rowOf[Chosen(s)], Chosen(s))

LEMMA MergeExists ==
    ASSUME NEW T \in SUBSET Times, NEW rowOf, \A ts \in T : rowOf[ts] \in AnyRow
    PROVE  \E i \in [SUBSET T -> Builder] : IsMerge(i, rowOf, T)
  <1> DEFINE g == [p \in T \X Builder |-> Absorb(p[2], rowOf[p[1]], p[1])]
  <1>1. NewBuilder \in Builder
    BY DEF NewBuilder, Builder
  <1>2. g \in [T \X Builder -> Builder]
    BY AbsorbType
  <1>3. IsFiniteSet(T)
    BY TimesAreNats
  <1>g. \A x \in T, b \in Builder : g[<<x, b>>] = Absorb(b, rowOf[x], x)
    OBVIOUS
  <1> HIDE DEF g
  <1>4. PICK f \in [SUBSET T -> Builder] : IsFold(f, T, g, NewBuilder)
    BY <1>1, <1>2, <1>3, FoldExists, Zenon
  <1>5. ASSUME NEW s \in SUBSET T, s # {}
        PROVE  f[s] = Absorb(f[s \ {Chosen(s)}], rowOf[Chosen(s)], Chosen(s))
    <2>1. Chosen(s) \in T /\ s \ {Chosen(s)} \in SUBSET T
      BY <1>5 DEF Chosen
    <2>2. f[s \ {Chosen(s)}] \in Builder
      BY <2>1
    <2>. QED BY <1>4, <1>5, <2>1, <2>2, <1>g, Zenon DEF IsFold
  <1>6. IsMerge(f, rowOf, T)
    BY <1>4, <1>5, Zenon DEF IsMerge, IsFold
  <1>. QED BY <1>6

LEMMA MergedIsMerge ==
    ASSUME NEW T \in SUBSET Times, NEW rowOf, \A ts \in T : rowOf[ts] \in AnyRow
    PROVE  \E i : IsMerge(i, rowOf, T) /\ Merged(rowOf, T) = i[T]
  <1> DEFINE Is(i) == i = [s \in SUBSET T |->
                              IF s = {} THEN NewBuilder
                              ELSE Absorb(i[s \ {Chosen(s)}], rowOf[Chosen(s)], Chosen(s))]
             F == CHOOSE i : Is(i)
  <1>1. PICK f \in [SUBSET T -> Builder] : IsMerge(f, rowOf, T)
    BY MergeExists
  <1>2. Is(f)
    <2>1. f = [s \in SUBSET T |-> f[s]]
      OBVIOUS
    <2>. QED BY <1>1, <2>1, Zenon DEF IsMerge
  <1>3. Is(F)
    BY <1>2, Zenon
  <1>4. Merged(rowOf, T) = F[T]
    BY Zenon DEF Merged, FoldSet, MapThenFoldSet, MergeBucket, Chosen
  <1>5. IsMerge(F, rowOf, T)
    <2> HIDE DEF F
    <2>. QED BY <1>3, Zenon DEF IsMerge
  <1>. QED BY <1>4, <1>5

(* A raw point is absorbed as the row that says what one point says.       *)
Points == [ts \in Times |-> OnePoint(ValueOf[ts], ts)]

LEMMA PointsType == /\ ValueOf \in [Times -> Int]
                    /\ \A ts \in Times : Points[ts] \in AnyRow
  <1>1. ValueOf \in [Times -> Int]
    BY TieringAssumption DEF Times
  <1>. QED BY <1>1 DEF Points, OnePoint, AnyRow

LEMMA AccumulatedIsMerge ==
    ASSUME NEW T \in SUBSET Times
    PROVE  \E i : IsMerge(i, Points, T) /\ Accumulated(T) = i[T]
  <1> DEFINE Is(i) == i = [s \in SUBSET T |->
                              IF s = {} THEN NewBuilder
                              ELSE Absorb(i[s \ {Chosen(s)}],
                                          OnePoint(ValueOf[Chosen(s)], Chosen(s)), Chosen(s))]
             F == CHOOSE i : Is(i)
  <1>p. \A s \in SUBSET T : s # {} => Points[Chosen(s)] = OnePoint(ValueOf[Chosen(s)], Chosen(s))
    <2>1. \A s \in SUBSET T : s # {} => Chosen(s) \in Times
      BY DEF Chosen
    <2>. QED BY <2>1, Zenon DEF Points
  <1>1. PICK f \in [SUBSET T -> Builder] : IsMerge(f, Points, T)
    BY MergeExists, PointsType
  <1>2. Is(f)
    <2>1. f = [s \in SUBSET T |-> f[s]]
      OBVIOUS
    <2>2. \A s \in SUBSET T :
              f[s] = IF s = {} THEN NewBuilder
                     ELSE Absorb(f[s \ {Chosen(s)}],
                                 OnePoint(ValueOf[Chosen(s)], Chosen(s)), Chosen(s))
      BY <1>1, <1>p, Zenon DEF IsMerge
    <2>. QED BY <2>1, <2>2, Zenon
  <1>3. Is(F)
    BY <1>2, Zenon
  <1>4. Accumulated(T) = F[T]
    BY Zenon DEF Accumulated, FoldSet, MapThenFoldSet, Accumulate, Chosen
  <1>5. IsMerge(F, Points, T)
    <2> HIDE DEF F
    <2>. QED BY <1>3, <1>p, Zenon DEF IsMerge
  <1>. QED BY <1>4, <1>5
-----------------------------------------------------------------------------
(* The sum of the values of some points.                                   *)

Total(T) == MapThenSumSet(LAMBDA ts : ValueOf[ts], T)

IsSum(i, T) ==
    \A s \in SUBSET T : i[s] = IF s = {} THEN 0 ELSE ValueOf[Chosen(s)] + i[s \ {Chosen(s)}]

LEMMA SumExists == ASSUME NEW T \in SUBSET Times PROVE \E i \in [SUBSET T -> Int] : IsSum(i, T)
  <1> DEFINE g == [p \in T \X Int |-> ValueOf[p[1]] + p[2]]
  <1>2. g \in [T \X Int -> Int]
    BY PointsType
  <1>3. IsFiniteSet(T)
    BY TimesAreNats
  <1>g. \A x \in T, n \in Int : g[<<x, n>>] = ValueOf[x] + n
    OBVIOUS
  <1> HIDE DEF g
  <1>4. PICK f \in [SUBSET T -> Int] : IsFold(f, T, g, 0)
    <2>1. 0 \in Int
      OBVIOUS
    <2>. QED BY <2>1, <1>2, <1>3, FoldExists, Zenon
  <1>5. ASSUME NEW s \in SUBSET T, s # {}
        PROVE  f[s] = ValueOf[Chosen(s)] + f[s \ {Chosen(s)}]
    <2>1. Chosen(s) \in T /\ s \ {Chosen(s)} \in SUBSET T
      BY <1>5 DEF Chosen
    <2>2. f[s \ {Chosen(s)}] \in Int
      BY <2>1
    <2>. QED BY <1>4, <1>5, <2>1, <2>2, <1>g, Zenon DEF IsFold
  <1>6. IsSum(f, T)
    BY <1>4, <1>5, Zenon DEF IsSum, IsFold
  <1>. QED BY <1>6

LEMMA TotalIsSum == ASSUME NEW T \in SUBSET Times PROVE \E i : IsSum(i, T) /\ Total(T) = i[T]
  <1> DEFINE Is(i) == i = [s \in SUBSET T |->
                              IF s = {} THEN 0 ELSE ValueOf[Chosen(s)] + i[s \ {Chosen(s)}]]
             F == CHOOSE i : Is(i)
  <1>1. PICK f \in [SUBSET T -> Int] : IsSum(f, T)
    BY SumExists
  <1>2. Is(f)
    <2>1. f = [s \in SUBSET T |-> f[s]]
      OBVIOUS
    <2>. QED BY <1>1, <2>1, Zenon DEF IsSum
  <1>3. Is(F)
    BY <1>2, Zenon
  <1>4. Total(T) = F[T]
    BY Zenon DEF Total, MapThenSumSet, MapThenFoldSet, Chosen
  <1>5. IsSum(F, T)
    <2> HIDE DEF F
    <2>. QED BY <1>3, Zenon DEF IsSum
  <1>. QED BY <1>4, <1>5

LEMMA SumsAgree ==
    ASSUME NEW T \in SUBSET Times, NEW U \in SUBSET T, NEW i, IsSum(i, T), NEW j, IsSum(j, U)
    PROVE  \A s \in SUBSET U : i[s] = j[s]
  <1> DEFINE P == {s \in SUBSET U : i[s] = j[s]}
  <1>1. ASSUME NEW s \in SUBSET U, \A u \in SUBSET s : u # s => u \in P PROVE s \in P
    <2>1. CASE s = {}
      BY <2>1 DEF IsSum
    <2>2. CASE s # {}
      <3>1. s \ {Chosen(s)} \in SUBSET s /\ s \ {Chosen(s)} # s
        BY <2>2 DEF Chosen
      <3>2. i[s \ {Chosen(s)}] = j[s \ {Chosen(s)}]
        BY <3>1, <1>1
      <3>3. s \in SUBSET T
        OBVIOUS
      <3>. QED BY <2>2, <3>2, <3>3, Zenon DEF IsSum
    <2>. QED BY <2>1, <2>2
  <1>2. IsFiniteSet(U)
    BY TimesAreNats
  <1>3. SUBSET U \subseteq P
    <2> HIDE DEF P
    <2>. QED BY <1>1, <1>2, BySubsets
  <1>. QED BY <1>3

LEMMA TotalStep ==
    /\ Total({}) = 0
    /\ \A s \in SUBSET Times :
           /\ Total(s) \in Int
           /\ s # {} => Total(s) = ValueOf[Chosen(s)] + Total(s \ {Chosen(s)})
  <1>1. PICK i \in [SUBSET Times -> Int] : IsSum(i, Times)
    BY SumExists
  <1>2. ASSUME NEW s \in SUBSET Times PROVE Total(s) = i[s]
    <2>1. PICK j : IsSum(j, s) /\ Total(s) = j[s]
      BY TotalIsSum
    <2>. QED BY <1>1, <2>1, SumsAgree
  <1>3. \A s \in SUBSET Times : s \ {Chosen(s)} \in SUBSET Times
    OBVIOUS
  <1>. QED BY <1>1, <1>2, <1>3, Zenon DEF IsSum

LEMMA TotalWithout ==
    ASSUME NEW s \in SUBSET Times, NEW x \in s
    PROVE  Total(s) = ValueOf[x] + Total(s \ {x})
  <1> DEFINE P == {u \in SUBSET Times : \A y \in u : Total(u) = ValueOf[y] + Total(u \ {y})}
  <1>1. ASSUME NEW u \in SUBSET Times, \A w \in SUBSET u : w # u => w \in P,
               NEW y \in u
        PROVE  Total(u) = ValueOf[y] + Total(u \ {y})
    <2> DEFINE c == Chosen(u)
    <2>1. c \in u /\ Total(u) = ValueOf[c] + Total(u \ {c})
      BY TotalStep DEF Chosen
    <2> HIDE DEF c
    <2>2. CASE y = c
      BY <2>1, <2>2
    <2>3. CASE y # c
      <3>1. Total(u \ {c}) = ValueOf[y] + Total((u \ {c}) \ {y})
        BY <1>1, <2>1, <2>3
      <3>2. Total(u \ {y}) = ValueOf[c] + Total((u \ {y}) \ {c})
        BY <1>1, <2>1, <2>3
      <3>3. (u \ {c}) \ {y} = (u \ {y}) \ {c}
        OBVIOUS
      <3>4. PICK n : n = Total((u \ {y}) \ {c})
        OBVIOUS
      <3>5. n \in Int /\ ValueOf[y] \in Int /\ ValueOf[c] \in Int
        BY <3>4, <2>1, PointsType, TotalStep
      <3>6. \A p, q \in Int : p + (q + n) = q + (p + n)
        BY <3>5
      <3>7. Total(u) = ValueOf[c] + (ValueOf[y] + n)
        BY <2>1, <3>1, <3>3, <3>4, Zenon
      <3>8. Total(u) = ValueOf[y] + (ValueOf[c] + n)
        BY <3>5, <3>6, <3>7, Zenon
      <3>. QED BY <3>2, <3>4, <3>8, Zenon
    <2>. QED BY <2>2, <2>3
  <1>2. SUBSET Times \subseteq P
    <2>1. \A u \in SUBSET Times : (\A w \in SUBSET u : w # u => w \in P) => u \in P
      BY <1>1
    <2> HIDE DEF P
    <2>. QED BY <2>1, TimesAreNats, BySubsets
  <1>. QED BY <1>2

LEMMA TotalUnion ==
    ASSUME NEW a \in SUBSET Times, NEW b \in SUBSET Times, a \cap b = {}
    PROVE  Total(a \cup b) = Total(a) + Total(b)
  <1> DEFINE P == {u \in SUBSET b : Total(a \cup u) = Total(a) + Total(u)}
  <1>1. ASSUME NEW u \in SUBSET b, \A w \in SUBSET u : w # u => w \in P PROVE u \in P
    <2>1. CASE u = {}
      <3>1. a \cup u = a /\ Total(u) = 0 /\ Total(a) \in Int
        BY <2>1, TotalStep
      <3>. QED BY <3>1
    <2>2. ASSUME NEW x \in u PROVE u \in P
      <3>1. Total(a \cup (u \ {x})) = Total(a) + Total(u \ {x})
        BY <1>1
      <3>2. (a \cup u) \ {x} = a \cup (u \ {x})
        OBVIOUS
      <3>3. /\ Total(a \cup u) = ValueOf[x] + Total((a \cup u) \ {x})
            /\ Total(u) = ValueOf[x] + Total(u \ {x})
        BY TotalWithout
      <3>4. PICK n, m : n = Total(a) /\ m = Total(u \ {x})
        OBVIOUS
      <3>5. n \in Int /\ m \in Int /\ ValueOf[x] \in Int
        BY <3>4, PointsType, TotalStep
      <3>6. \A p \in Int : p + (n + m) = n + (p + m)
        BY <3>5
      <3>. QED BY <3>1, <3>2, <3>3, <3>4, <3>5, <3>6, Zenon
    <2>. QED BY <2>1, <2>2
  <1>2. IsFiniteSet(b)
    BY TimesAreNats
  <1>3. SUBSET b \subseteq P
    <2> HIDE DEF P
    <2>. QED BY <1>1, <1>2, BySubsets
  <1>. QED BY <1>3
-----------------------------------------------------------------------------
(* What a bucket over some points says, and how it is kept by absorbing    *)
(* the row of other points.                                                *)

LEMMA ExtremesExist ==
    ASSUME NEW v \in [Times -> Int], NEW T \in SUBSET Times, T # {}
    PROVE  /\ \E u \in T : \A w \in T : v[u] <= v[w]
           /\ \E u \in T : \A w \in T : v[u] >= v[w]
  <1> DEFINE P == {s \in SUBSET T : s # {} => /\ \E u \in s : \A w \in s : v[u] <= v[w]
                                             /\ \E u \in s : \A w \in s : v[u] >= v[w]}
  <1>1. ASSUME NEW s \in SUBSET T, \A u \in SUBSET s : u # s => u \in P PROVE s \in P
    <2>1. CASE s = {}
      BY <2>1
    <2>2. ASSUME NEW x \in s PROVE s \in P
      <3>1. CASE s \ {x} = {}
        <4>1. \A w \in s : w = x
          BY <3>1
        <4>. QED BY <4>1
      <3>2. CASE s \ {x} # {}
        <4>1. s \ {x} \in P
          BY <1>1
        <4>2. PICK l \in s \ {x} : \A w \in s \ {x} : v[l] <= v[w]
          BY <4>1, <3>2
        <4>3. PICK h \in s \ {x} : \A w \in s \ {x} : v[h] >= v[w]
          BY <4>1, <3>2
        <4>4. \E u \in s : \A w \in s : v[u] <= v[w]
          <5>1. CASE v[x] <= v[l]
            BY <4>2, <5>1
          <5>2. CASE ~(v[x] <= v[l])
            BY <4>2, <5>2
          <5>. QED BY <5>1, <5>2
        <4>5. \E u \in s : \A w \in s : v[u] >= v[w]
          <5>1. CASE v[x] >= v[h]
            BY <4>3, <5>1
          <5>2. CASE ~(v[x] >= v[h])
            BY <4>3, <5>2
          <5>. QED BY <5>1, <5>2
        <4>. QED BY <4>4, <4>5
      <3>. QED BY <3>1, <3>2
    <2>. QED BY <2>1, <2>2
  <1>2. SUBSET T \subseteq P
    <2> HIDE DEF P
    <2>. QED BY <1>1, TimesAreNats, BySubsets
  <1>3. T \in P
    BY <1>2
  <1>. QED BY <1>3

Says(b, T) ==
    /\ b.cnt = Cardinality(T) /\ b.sum = Total(T) /\ b.from = T
    /\ \E u \in T : b.min = ValueOf[u] /\ \A w \in T : b.min <= ValueOf[w]
    /\ \E u \in T : b.max = ValueOf[u] /\ \A w \in T : b.max >= ValueOf[w]
    /\ \E u \in T : b.first = ValueOf[u] /\ \A w \in T : u <= w
    /\ \E u \in T : b.last = ValueOf[u] /\ \A w \in T : u >= w

LEMMA ReferenceSays ==
    ASSUME NEW T \in SUBSET Times, T # {}
    PROVE  Reference(T) \in AnyRow /\ Says(Reference(T), T)
  <1> DEFINE V == {ValueOf[ts] : ts \in T}
  <1>1. \E m \in V : \A n \in V : m <= n
    BY ExtremesExist, PointsType
  <1>2. \E m \in V : \A n \in V : m >= n
    BY ExtremesExist, PointsType
  <1>3. \E t \in T : \A u \in T : t <= u
    <2>1. [ts \in Times |-> ts] \in [Times -> Int]
      BY TimesAreNats
    <2>2. \E u \in T : \A w \in T : [ts \in Times |-> ts][u] <= [ts \in Times |-> ts][w]
      BY <2>1, ExtremesExist
    <2>. QED BY <2>2
  <1>4. \E t \in T : \A u \in T : t >= u
    <2>1. [ts \in Times |-> ts] \in [Times -> Int]
      BY TimesAreNats
    <2>2. \E u \in T : \A w \in T : [ts \in Times |-> ts][u] >= [ts \in Times |-> ts][w]
      BY <2>1, ExtremesExist
    <2>. QED BY <2>2
  <1>5. Earliest(V) \in V /\ \A n \in V : Earliest(V) <= n
    BY <1>1, Zenon DEF Earliest
  <1>6. Latest(V) \in V /\ \A n \in V : Latest(V) >= n
    BY <1>2, Zenon DEF Latest
  <1>7. Earliest(T) \in T /\ \A u \in T : Earliest(T) <= u
    BY <1>3, Zenon DEF Earliest
  <1>8. Latest(T) \in T /\ \A u \in T : Latest(T) >= u
    BY <1>4, Zenon DEF Latest
  <1>9. Reference(T) = [cnt |-> Cardinality(T), sum |-> Total(T),
                        min |-> Earliest(V), max |-> Latest(V),
                        first |-> ValueOf[Earliest(T)], last |-> ValueOf[Latest(T)],
                        from |-> T]
    BY Zenon DEF Reference, Total
  <1>10. Cardinality(T) \in Nat /\ Total(T) \in Int
    BY TimesAreNats, FS_CardinalityType, TotalStep
  <1>11. V \subseteq Int
    BY PointsType
  <1>12. \E u \in T : Earliest(V) = ValueOf[u]
    BY <1>5
  <1>13. \E u \in T : Latest(V) = ValueOf[u]
    BY <1>6
  <1>14. \A u \in T : Earliest(V) <= ValueOf[u] /\ Latest(V) >= ValueOf[u]
    BY <1>5, <1>6
  <1> HIDE DEF V
  <1>15. Reference(T) \in AnyRow
    <2>1. Earliest(V) \in Int /\ Latest(V) \in Int
      BY <1>5, <1>6, <1>11, Zenon
    <2>2. ValueOf[Earliest(T)] \in Int /\ ValueOf[Latest(T)] \in Int
      BY <1>7, <1>8, PointsType
    <2>. QED BY <1>9, <1>10, <2>1, <2>2 DEF AnyRow
  <1>16. Says(Reference(T), T)
    BY <1>7, <1>8, <1>9, <1>12, <1>13, <1>14 DEF Says
  <1>. QED BY <1>15, <1>16

LEMMA SaysOnce ==
    ASSUME NEW T \in SUBSET Times, NEW r \in AnyRow, Says(r, T)
    PROVE  r = Reference(T)
  <1>1. T # {}
    BY DEF Says
  <1>2. PICK q : q = Reference(T)
    OBVIOUS
  <1>3. q \in AnyRow /\ Says(q, T)
    BY <1>1, <1>2, ReferenceSays
  <1>4. r.cnt = q.cnt /\ r.sum = q.sum /\ r.from = q.from
    BY <1>3 DEF Says
  <1>5. r.min = q.min
    BY <1>3, PointsType DEF Says, AnyRow
  <1>6. r.max = q.max
    BY <1>3, PointsType DEF Says, AnyRow
  <1>7. r.first = q.first
    <2>1. PICK u \in T : r.first = ValueOf[u] /\ \A w \in T : u <= w
      BY DEF Says
    <2>2. PICK v \in T : q.first = ValueOf[v] /\ \A w \in T : v <= w
      BY <1>3 DEF Says
    <2>3. u = v
      BY <2>1, <2>2, TimesAreNats
    <2>. QED BY <2>1, <2>2, <2>3
  <1>8. r.last = q.last
    <2>1. PICK u \in T : r.last = ValueOf[u] /\ \A w \in T : u >= w
      BY DEF Says
    <2>2. PICK v \in T : q.last = ValueOf[v] /\ \A w \in T : v >= w
      BY <1>3 DEF Says
    <2>3. u = v
      BY <2>1, <2>2, TimesAreNats
    <2>. QED BY <2>1, <2>2, <2>3
  <1>. QED BY <1>2, <1>3, <1>4, <1>5, <1>6, <1>7, <1>8 DEF AnyRow

LEMMA NoBucketIsReference == Reference({}) = NoBucket /\ NoBucket \in AnyRow /\ NoBucket.from = {}
                             /\ NoBucket.cnt = 0
  BY DEF Reference, NoBucket, Finalize, NewBuilder, AnyRow

LEMMA PointSays == ASSUME NEW ts \in Times PROVE Points[ts] = Reference({ts}) /\ Points[ts].from = {ts}
  <1>1. Points[ts] = OnePoint(ValueOf[ts], ts) /\ Points[ts] \in AnyRow
    BY PointsType DEF Points
  <1>2. Cardinality({ts}) = 1
    BY FS_Singleton
  <1>3. Total({ts}) = ValueOf[ts]
    <2>1. Total({ts}) = ValueOf[ts] + Total({ts} \ {ts}) /\ {ts} \ {ts} = {}
      BY TotalWithout
    <2>. QED BY <2>1, TotalStep, PointsType
  <1>4. ts <= ts /\ ValueOf[ts] <= ValueOf[ts]
    BY TimesAreNats, PointsType
  <1>5. Says(Points[ts], {ts})
    BY <1>1, <1>2, <1>3, <1>4 DEF Says, OnePoint
  <1>. QED BY <1>1, <1>5, SaysOnce DEF Says

(* Absorbing a row of other points: the points of the row lie before or    *)
(* after those of the builder when the builder says so.                    *)
LEMMA AbsorbSays ==
    ASSUME NEW b \in Builder, NEW r \in AnyRow, NEW ts \in Times,
           NEW S \in SUBSET Times, NEW T \in SUBSET Times, S \cap T = {},
           Says(r, T),
           \/ b.cnt = 0 /\ S = {} /\ b.sum = 0 /\ b.from = {}
           \/ b.cnt # 0 /\ Says(b, S),
           b.cnt # 0 /\ ts < b.firstTs => \A s \in S, t \in T : t <= s,
           b.cnt # 0 /\ ~(ts < b.firstTs) => \E s \in S : \A t \in T : s <= t,
           b.cnt # 0 /\ ts > b.lastTs => \A s \in S, t \in T : s <= t,
           b.cnt # 0 /\ ~(ts > b.lastTs) => \E s \in S : \A t \in T : t <= s
    PROVE  Says(Absorb(b, r, ts), S \cup T)
  <1> DEFINE a == Absorb(b, r, ts)
             U == S \cup T
             starts == b.cnt = 0 \/ ts < b.firstTs
             ends == b.cnt = 0 \/ ts > b.lastTs
  <1>0. T # {} /\ S \subseteq Nat /\ T \subseteq Nat
    BY TimesAreNats DEF Says
  <1>a. /\ a.cnt = b.cnt + r.cnt /\ a.sum = b.sum + r.sum /\ a.from = b.from \cup r.from
        /\ a.min = IF b.cnt = 0 THEN r.min ELSE Smaller(b.min, r.min)
        /\ a.max = IF b.cnt = 0 THEN r.max ELSE Larger(b.max, r.max)
        /\ a.first = IF starts THEN r.first ELSE b.first
        /\ a.last = IF ends THEN r.last ELSE b.last
    BY DEF Absorb
  <1>t. /\ r.cnt \in Nat /\ r.sum \in Int /\ r.min \in Int /\ r.max \in Int
        /\ b.cnt \in Nat /\ b.sum \in Int /\ b.min \in Int /\ b.max \in Int
    BY DEF AnyRow, Builder
  <1>v. \A u \in U : ValueOf[u] \in Int
    BY PointsType
  <1> HIDE DEF a
  <1>1. CASE b.cnt = 0
    <2>1. S = {} /\ U = T /\ b.sum = 0 /\ b.from = {}
      BY <1>1
    <2>2. a.cnt = r.cnt /\ a.sum = r.sum /\ a.from = r.from
      BY <1>1, <2>1, <1>a, <1>t
    <2>3. a.min = r.min /\ a.max = r.max /\ a.first = r.first /\ a.last = r.last
      BY <1>1, <1>a
    <2>. QED BY <2>1, <2>2, <2>3, Zenon DEF Says, a
  <1>2. CASE b.cnt # 0
    <2>0. Says(b, S) /\ S # {}
      BY <1>2 DEF Says
    <2>1. a.cnt = Cardinality(U)
      <3>1. Cardinality(U) = Cardinality(S) + Cardinality(T) - Cardinality(S \cap T)
        BY TimesAreNats, FS_Union
      <3>2. Cardinality(S \cap T) = 0
        BY FS_EmptySet
      <3>3. Cardinality(S) = b.cnt /\ Cardinality(T) = r.cnt
        BY <2>0 DEF Says
      <3>. QED BY <3>1, <3>2, <3>3, <1>a, <1>t
    <2>2. a.sum = Total(U)
      BY <2>0, <1>a, TotalUnion DEF Says
    <2>3. a.from = U
      BY <2>0, <1>a DEF Says
    <2>4. \E u \in U : a.min = ValueOf[u] /\ \A w \in U : a.min <= ValueOf[w]
      <3>1. PICK x \in S : b.min = ValueOf[x] /\ \A w \in S : b.min <= ValueOf[w]
        BY <2>0 DEF Says
      <3>2. PICK y \in T : r.min = ValueOf[y] /\ \A w \in T : r.min <= ValueOf[w]
        BY DEF Says
      <3>3. a.min = IF r.min < b.min THEN r.min ELSE b.min
        BY <1>2, <1>a DEF Smaller
      <3>4. \A w \in U : a.min <= ValueOf[w]
        BY <3>1, <3>2, <3>3, <1>t, <1>v
      <3>5. a.min = ValueOf[x] \/ a.min = ValueOf[y]
        BY <3>1, <3>2, <3>3
      <3>. QED BY <3>4, <3>5
    <2>5. \E u \in U : a.max = ValueOf[u] /\ \A w \in U : a.max >= ValueOf[w]
      <3>1. PICK x \in S : b.max = ValueOf[x] /\ \A w \in S : b.max >= ValueOf[w]
        BY <2>0 DEF Says
      <3>2. PICK y \in T : r.max = ValueOf[y] /\ \A w \in T : r.max >= ValueOf[w]
        BY DEF Says
      <3>3. a.max = IF r.max > b.max THEN r.max ELSE b.max
        BY <1>2, <1>a DEF Larger
      <3>4. \A w \in U : a.max >= ValueOf[w]
        BY <3>1, <3>2, <3>3, <1>t, <1>v
      <3>5. a.max = ValueOf[x] \/ a.max = ValueOf[y]
        BY <3>1, <3>2, <3>3
      <3>. QED BY <3>4, <3>5
    <2>6. \E u \in U : a.first = ValueOf[u] /\ \A w \in U : u <= w
      <3>1. PICK x \in S : b.first = ValueOf[x] /\ \A w \in S : x <= w
        BY <2>0 DEF Says
      <3>2. PICK y \in T : r.first = ValueOf[y] /\ \A w \in T : y <= w
        BY DEF Says
      <3>3. CASE ts < b.firstTs
        <4>1. a.first = ValueOf[y]
          BY <3>2, <3>3, <1>a
        <4>2. \A s \in S : y <= s
          BY <1>2, <3>3
        <4>. QED BY <4>1, <4>2, <3>2
      <3>4. CASE ~(ts < b.firstTs)
        <4>1. a.first = ValueOf[x]
          BY <3>1, <3>4, <1>2, <1>a
        <4>2. PICK s \in S : \A t \in T : s <= t
          BY <1>2, <3>4
        <4>3. \A t \in T : x <= t
          BY <3>1, <4>2, <1>0
        <4>. QED BY <4>1, <4>3, <3>1
      <3>. QED BY <3>3, <3>4
    <2>7. \E u \in U : a.last = ValueOf[u] /\ \A w \in U : u >= w
      <3>1. PICK x \in S : b.last = ValueOf[x] /\ \A w \in S : x >= w
        BY <2>0 DEF Says
      <3>2. PICK y \in T : r.last = ValueOf[y] /\ \A w \in T : y >= w
        BY DEF Says
      <3>3. CASE ts > b.lastTs
        <4>1. a.last = ValueOf[y]
          BY <3>2, <3>3, <1>a
        <4>2. \A s \in S : y >= s
          BY <1>2, <3>3, <1>0
        <4>. QED BY <4>1, <4>2, <3>2
      <3>4. CASE ~(ts > b.lastTs)
        <4>1. a.last = ValueOf[x]
          BY <3>1, <3>4, <1>2, <1>a
        <4>2. PICK s \in S : \A t \in T : t <= s
          BY <1>2, <3>4
        <4>3. \A t \in T : x >= t
          BY <3>1, <4>2, <1>0
        <4>. QED BY <4>1, <4>3, <3>1
      <3>. QED BY <3>3, <3>4
    <2>. QED BY <2>1, <2>2, <2>3, <2>4, <2>5, <2>6, <2>7, Zenon DEF Says, a
  <1>. QED BY <1>1, <1>2

(* A builder over rows placed at some timestamps.                          *)
Gathered(rowOf, s) == UNION {rowOf[x].from : x \in s}

LEMMA GatheredStep ==
    ASSUME NEW rowOf, NEW s, NEW c \in s
    PROVE  Gathered(rowOf, s) = Gathered(rowOf, s \ {c}) \cup rowOf[c].from
  BY DEF Gathered

MergedRows(i, rowOf, s) ==
    /\ i[s] \in Builder /\ i[s].from = Gathered(rowOf, s)
    /\ s = {} => i[s] = NewBuilder
    /\ s # {} => /\ i[s].cnt # 0
                 /\ i[s].firstTs \in s /\ \A x \in s : i[s].firstTs <= x
                 /\ i[s].lastTs \in s /\ \A x \in s : x <= i[s].lastTs

LEMMA MergeFolds ==
    ASSUME NEW T \in SUBSET Times, NEW rowOf,
           \A ts \in T : rowOf[ts] \in AnyRow /\ rowOf[ts].cnt # 0,
           NEW i, IsMerge(i, rowOf, T)
    PROVE  \A s \in SUBSET T : MergedRows(i, rowOf, s)
  <1> DEFINE P == {s \in SUBSET T : MergedRows(i, rowOf, s)}
  <1>n. NewBuilder \in Builder /\ NewBuilder.from = {}
    BY DEF NewBuilder, Builder
  <1>1. ASSUME NEW s \in SUBSET T, \A u \in SUBSET s : u # s => u \in P
        PROVE  MergedRows(i, rowOf, s)
    <2>1. CASE s = {}
      <3>1. i[s] = NewBuilder
        BY <2>1, Zenon DEF IsMerge
      <3>2. Gathered(rowOf, s) = {}
        BY <2>1 DEF Gathered
      <3>. QED BY <2>1, <3>1, <3>2, <1>n, Zenon DEF MergedRows
    <2>2. CASE s # {}
      <3>1. PICK c, u : c = Chosen(s) /\ u = s \ {Chosen(s)}
        OBVIOUS
      <3>2. c \in s /\ c \in Times /\ u \in SUBSET s /\ u # s /\ s = u \cup {c}
        BY <2>2, <3>1 DEF Chosen
      <3>3. i[s] = Absorb(i[u], rowOf[c], c)
        BY <2>2, <3>1, Zenon DEF IsMerge
      <3>4. MergedRows(i, rowOf, u)
        BY <3>2, <1>1
      <3>5. PICK b, a : b = i[u] /\ a = i[s]
        OBVIOUS
      <3>6. b \in Builder /\ rowOf[c] \in AnyRow /\ rowOf[c].cnt # 0
        BY <3>2, <3>4, <3>5 DEF MergedRows
      <3>7. a \in Builder
        BY <3>2, <3>3, <3>5, <3>6, AbsorbType
      <3>8. a.from = Gathered(rowOf, s)
        <4>1. a.from = b.from \cup rowOf[c].from
          BY <3>3, <3>5 DEF Absorb
        <4>2. b.from = Gathered(rowOf, u)
          BY <3>4, <3>5, Zenon DEF MergedRows
        <4>3. Gathered(rowOf, s) = Gathered(rowOf, s \ {c}) \cup rowOf[c].from
          BY <3>2, GatheredStep
        <4>. QED BY <4>1, <4>2, <4>3, <3>1, Zenon
      <3>9. /\ a.cnt = b.cnt + rowOf[c].cnt
            /\ a.firstTs = IF b.cnt = 0 \/ c < b.firstTs THEN c ELSE b.firstTs
            /\ a.lastTs = IF b.cnt = 0 \/ c > b.lastTs THEN c ELSE b.lastTs
        BY <3>3, <3>5 DEF Absorb
      <3>10. b.cnt \in Nat /\ rowOf[c].cnt \in Nat
        BY <3>6 DEF Builder, AnyRow
      <3>11. a.cnt # 0
        BY <3>6, <3>9, <3>10
      <3>12. /\ a.firstTs \in s /\ \A x \in s : a.firstTs <= x
             /\ a.lastTs \in s /\ \A x \in s : x <= a.lastTs
        <4>1. CASE u = {}
          <5>1. b.cnt = 0
            BY <3>4, <3>5, <4>1 DEF MergedRows, NewBuilder
          <5>2. s = {c}
            BY <3>2, <4>1
          <5>. QED BY <5>1, <5>2, <3>9, <3>2, TimesAreNats
        <4>2. CASE u # {}
          <5>1. /\ b.cnt # 0
                /\ b.firstTs \in u /\ \A x \in u : b.firstTs <= x
                /\ b.lastTs \in u /\ \A x \in u : x <= b.lastTs
            BY <3>4, <3>5, <4>2, Zenon DEF MergedRows
          <5>2. \A x \in s : x \in Nat
            BY TimesAreNats
          <5>3. a.firstTs \in s /\ \A x \in s : a.firstTs <= x
            BY <5>1, <5>2, <3>9, <3>2
          <5>4. a.lastTs \in s /\ \A x \in s : x <= a.lastTs
            BY <5>1, <5>2, <3>9, <3>2
          <5>. QED BY <5>3, <5>4
        <4>. QED BY <4>1, <4>2
      <3>. QED BY <2>2, <3>5, <3>7, <3>8, <3>11, <3>12, Zenon DEF MergedRows
    <2>. QED BY <2>1, <2>2
  <1>2. SUBSET T \subseteq P
    <2>1. \A s \in SUBSET T : (\A u \in SUBSET s : u # s => u \in P) => s \in P
      BY <1>1
    <2> HIDE DEF P
    <2>. QED BY <2>1, TimesAreNats, BySubsets
  <1>. QED BY <1>2

(* The rows say what their points say, and lie in the order of the         *)
(* timestamps they are placed at.                                          *)
RowsInOrder(rowOf, T) ==
    /\ \A x \in T : rowOf[x] \in AnyRow /\ rowOf[x].cnt # 0 /\ Says(rowOf[x], rowOf[x].from)
    /\ \A x, y \in T : x < y => \A u \in rowOf[x].from, w \in rowOf[y].from : u < w

LEMMA MergeExact ==
    ASSUME NEW T \in SUBSET Times, NEW rowOf, RowsInOrder(rowOf, T),
           NEW i, IsMerge(i, rowOf, T)
    PROVE  \A s \in SUBSET T : s # {} => Says(i[s], Gathered(rowOf, s))
  <1> DEFINE P == {s \in SUBSET T : s # {} => Says(i[s], Gathered(rowOf, s))}
  <1>r. \A x \in T : /\ rowOf[x] \in AnyRow /\ rowOf[x].cnt # 0 /\ Says(rowOf[x], rowOf[x].from)
                     /\ rowOf[x].from \in SUBSET Times /\ rowOf[x].from # {}
    BY DEF RowsInOrder, AnyRow, Says
  <1>o. \A x, y \in T : x < y => \A u \in rowOf[x].from, w \in rowOf[y].from : u < w
    BY DEF RowsInOrder
  <1>n. T \subseteq Nat /\ Times \subseteq Nat
    BY TimesAreNats
  <1>f. \A s \in SUBSET T : MergedRows(i, rowOf, s)
    BY <1>r, MergeFolds
  <1>1. ASSUME NEW s \in SUBSET T, \A u \in SUBSET s : u # s => u \in P, s # {}
        PROVE  Says(i[s], Gathered(rowOf, s))
    <2>1. PICK c, u : c = Chosen(s) /\ u = s \ {Chosen(s)}
      OBVIOUS
    <2>2. c \in T /\ c \notin u /\ u \in SUBSET T /\ u \in SUBSET s /\ u # s
      BY <1>1, <2>1 DEF Chosen
    <2>3. i[s] = Absorb(i[u], rowOf[c], c)
      BY <1>1, <2>1, Zenon DEF IsMerge
    <2>4. PICK b, r, S, F : /\ b = i[u] /\ r = rowOf[c]
                            /\ S = Gathered(rowOf, u) /\ F = rowOf[c].from
      OBVIOUS
    <2>5. /\ b \in Builder /\ r \in AnyRow /\ c \in Times /\ F \in SUBSET Times /\ F # {}
          /\ Says(r, F)
      BY <1>r, <1>f, <2>2, <2>4 DEF MergedRows
    <2>6. S \in SUBSET Times
      BY <1>r, <2>2, <2>4 DEF Gathered
    <2>7. \A x \in u : x # c /\ x \in Nat /\ c \in Nat
      BY <1>n, <2>2
    <2>s. \A g \in S : \E x \in u : g \in rowOf[x].from
      BY <2>4 DEF Gathered
    <2>g. Gathered(rowOf, s) = S \cup F
      <3>1. Gathered(rowOf, s) = Gathered(rowOf, s \ {c}) \cup rowOf[c].from
        <4>1. c \in s
          BY <1>1, <2>1 DEF Chosen
        <4>. QED BY <4>1, GatheredStep
      <3>. QED BY <3>1, <2>1, <2>4, Zenon
    <2>8. S \cap F = {}
      <3>1. ASSUME NEW g \in S, g \in F PROVE FALSE
        <4>1. PICK x \in u : g \in rowOf[x].from
          BY <2>s
        <4>2. x < c \/ c < x
          BY <2>7
        <4>3. g < g
          BY <4>1, <4>2, <3>1, <1>o, <2>2, <2>4
        <4>4. g \in Nat
          BY <2>6, <1>n
        <4>. QED BY <4>3, <4>4
      <3>. QED BY <3>1
    <2>9. CASE u = {}
      <3>1. b.cnt = 0 /\ b.sum = 0 /\ b.from = {}
        BY <2>9, <1>f, <2>2, <2>4 DEF MergedRows, NewBuilder
      <3>2. S = {}
        BY <2>9, <2>4 DEF Gathered
      <3>3. Says(Absorb(b, r, c), S \cup F)
        BY <2>5, <2>6, <2>8, <3>1, <3>2, AbsorbSays
      <3>. QED BY <3>3, <2>g, <2>3, <2>4, Zenon
    <2>10. CASE u # {}
      <3>1. /\ b.cnt # 0
            /\ b.firstTs \in u /\ \A x \in u : b.firstTs <= x
            /\ b.lastTs \in u /\ \A x \in u : x <= b.lastTs
        BY <2>10, <1>f, <2>2, <2>4, Zenon DEF MergedRows
      <3>2. Says(b, S)
        BY <2>10, <1>1, <2>2, <2>4
      <3>3. ASSUME c < b.firstTs PROVE \A g \in S, t \in F : t <= g
        <4>1. \A x \in u : c < x
          BY <3>1, <3>3, <2>7
        <4>2. \A g \in S, t \in F : t < g
          BY <4>1, <1>o, <2>s, <2>2, <2>4
        <4>. QED BY <4>2, <2>5, <2>6, <1>n
      <3>4. ASSUME ~(c < b.firstTs) PROVE \E g \in S : \A t \in F : g <= t
        <4>1. b.firstTs < c /\ b.firstTs \in T
          BY <3>1, <3>4, <2>7, <2>2
        <4>2. PICK g \in rowOf[b.firstTs].from : TRUE
          BY <4>1, <1>r
        <4>3. g \in S
          BY <4>2, <3>1, <2>4 DEF Gathered
        <4>4. \A t \in F : g < t
          BY <4>1, <4>2, <1>o, <2>2, <2>4
        <4>. QED BY <4>3, <4>4, <2>5, <2>6, <1>n
      <3>5. ASSUME c > b.lastTs PROVE \A g \in S, t \in F : g <= t
        <4>1. \A x \in u : x < c
          BY <3>1, <3>5, <2>7
        <4>2. \A g \in S, t \in F : g < t
          BY <4>1, <1>o, <2>s, <2>2, <2>4
        <4>. QED BY <4>2, <2>5, <2>6, <1>n
      <3>6. ASSUME ~(c > b.lastTs) PROVE \E g \in S : \A t \in F : t <= g
        <4>1. c < b.lastTs /\ b.lastTs \in T
          BY <3>1, <3>6, <2>7, <2>2
        <4>2. PICK g \in rowOf[b.lastTs].from : TRUE
          BY <4>1, <1>r
        <4>3. g \in S
          BY <4>2, <3>1, <2>4 DEF Gathered
        <4>4. \A t \in F : t < g
          BY <4>1, <4>2, <1>o, <2>2, <2>4
        <4>. QED BY <4>3, <4>4, <2>5, <2>6, <1>n
      <3>7. Says(Absorb(b, r, c), S \cup F)
        BY <2>5, <2>6, <2>8, <3>1, <3>2, <3>3, <3>4, <3>5, <3>6, AbsorbSays
      <3>. QED BY <3>7, <2>g, <2>3, <2>4, Zenon
    <2>. QED BY <2>9, <2>10
  <1>2. SUBSET T \subseteq P
    <2>1. \A s \in SUBSET T : (\A u \in SUBSET s : u # s => u \in P) => s \in P
      BY <1>1
    <2> HIDE DEF P
    <2>. QED BY <2>1, TimesAreNats, BySubsets
  <1>. QED BY <1>2
-----------------------------------------------------------------------------
(* Hours and days.                                                         *)

LEMMA Multiples ==
    ASSUME NEW w \in Nat \ {0}, NEW m \in Int, NEW n \in Int, m < n
    PROVE  m * w + w <= n * w
  <1>1. PICK k \in Nat : n = m + 1 + k
    <2>1. n - m - 1 \in Nat /\ n = m + 1 + (n - m - 1)
      OBVIOUS
    <2>. QED BY <2>1
  <1>2. n * w = m * w + w + k * w
    BY <1>1
  <1>3. k * w \in Nat /\ m * w \in Int
    OBVIOUS
  <1>. QED BY <1>2, <1>3

LEMMA FloorFacts ==
    ASSUME NEW w \in Nat \ {0}, NEW a \in Nat
    PROVE  /\ Floor(a, w) \in Nat /\ Floor(a, w) <= a /\ a < Floor(a, w) + w
           /\ Floor(Floor(a, w), w) = Floor(a, w)
           /\ \A b \in Nat : Floor(a, w) <= b => Floor(a, w) <= Floor(b, w)
           /\ \A b \in Nat : Floor(a, w) + w <= b => Floor(a, w) + w <= Floor(b, w)
           /\ \A b \in Nat : b < Floor(a, w) + w => Floor(b, w) <= Floor(a, w)
  <1>1. \A b \in Nat : /\ Floor(b, w) \in Nat /\ Floor(b, w) <= b /\ b < Floor(b, w) + w
                       /\ b \div w \in Nat /\ Floor(b, w) = (b \div w) * w
    BY DEF Floor
  <1>2. ASSUME NEW b \in Nat, NEW c \in Nat, b \div w < c \div w
        PROVE  Floor(b, w) + w <= Floor(c, w)
    <2>0. b \div w \in Int /\ c \div w \in Int
      BY <1>1
    <2>1. PICK m \in Int, n \in Int : m = b \div w /\ n = c \div w
      BY <2>0, Zenon
    <2>2. m * w + w <= n * w
      BY <1>2, <2>1, Multiples
    <2>. QED BY <1>1, <2>1, <2>2, Zenon
  <1>3. ASSUME NEW b \in Nat, NEW c \in Nat, b \div w = c \div w
        PROVE  Floor(b, w) = Floor(c, w)
    BY <1>3 DEF Floor
  <1>c. \A b, c \in Nat : b \div w < c \div w \/ c \div w < b \div w \/ b \div w = c \div w
    BY <1>1
  <1>4. \A b, c \in Nat : \/ Floor(b, w) + w <= Floor(c, w) 
                          \/ Floor(c, w) + w <= Floor(b, w) 
                          \/ Floor(b, w) = Floor(c, w)
    BY <1>2, <1>3, <1>c
  <1> DEFINE f == Floor(a, w)
  <1>5. f \in Nat /\ f <= a /\ a < f + w
    BY <1>1
  <1>6. \A b \in Nat : Floor(b, w) \in Nat /\ Floor(b, w) <= b /\ b < Floor(b, w) + w
    BY <1>1
  <1>7. \A b \in Nat : Floor(b, w) + w <= f \/ f + w <= Floor(b, w) \/ Floor(b, w) = f
    BY <1>4
  <1> HIDE DEF f
  <1>8. Floor(f, w) = f
    <2>1. Floor(f, w) \in Nat /\ Floor(f, w) <= f /\ f < Floor(f, w) + w
      BY <1>5, <1>6
    <2>2. Floor(f, w) + w <= f \/ f + w <= Floor(f, w) \/ Floor(f, w) = f
      BY <1>5, <1>7
    <2>. QED BY <1>5, <2>1, <2>2
  <1>9. ASSUME NEW b \in Nat
        PROVE  /\ f <= b => f <= Floor(b, w)
               /\ f + w <= b => f + w <= Floor(b, w)
               /\ b < f + w => Floor(b, w) <= f
    <2>1. Floor(b, w) \in Nat /\ Floor(b, w) <= b /\ b < Floor(b, w) + w
      BY <1>6
    <2>2. Floor(b, w) + w <= f \/ f + w <= Floor(b, w) \/ Floor(b, w) = f
      BY <1>7
    <2>. QED BY <1>5, <2>1, <2>2
  <1>. QED BY <1>5, <1>8, <1>9 DEF f

LEMMA HoursOfDays ==
    ASSUME NEW a \in Nat
    PROVE  Floor(Floor(a, Hour), Day) + Day >= Floor(a, Hour) + Hour
  <1>1. /\ Hour \in Nat /\ Hour > 0 /\ Day \in Nat /\ Day > 0 /\ Day % Hour = 0
    BY BucketAssumption
  <1>2. PICK m \in Nat : Day = m * Hour
    <2>1. Day \div Hour \in Nat /\ Day = (Day \div Hour) * Hour
      BY <1>1
    <2>. QED BY <2>1
  <1>3. PICK n \in Nat : Floor(a, Hour) = n * Hour
    BY <1>1 DEF Floor
  <1>4. PICK q \in Nat : Floor(Floor(a, Hour), Day) = q * Day
    BY <1>1, <1>3 DEF Floor
  <1>5. n * Hour \in Nat /\ n * Hour < q * Day + Day
    BY <1>1, <1>3, <1>4, FloorFacts
  <1>6. q * Day + Day = (q * m + m) * Hour
    BY <1>2, <1>1
  <1>7. n < q * m + m
    <2>1. PICK k \in Nat : k = q * m + m
      OBVIOUS
    <2>2. n * Hour < k * Hour
      BY <1>5, <1>6, <2>1
    <2>3. k < n => k * Hour + Hour <= n * Hour
      BY <1>1, Multiples
    <2>4. k * Hour \in Nat
      BY <1>1
    <2>. QED BY <2>1, <2>2, <2>3, <2>4, <1>1, <1>5
  <1>8. n * Hour + Hour <= (q * m + m) * Hour
    BY <1>7, <1>1, Multiples
  <1>. QED BY <1>3, <1>4, <1>6, <1>8

HourKeys == Sid \X Hours
DayKeys  == Sid \X Days

LEMMA TimeFacts ==
    /\ Hours \subseteq Times /\ Days \subseteq Times
    /\ Hour \in Nat \ {0} /\ Day \in Nat \ {0}
    /\ \A ts \in Times : Floor(ts, Hour) \in Hours /\ Floor(ts, Day) \in Days
    /\ \A h \in Hours : Floor(h, Hour) = h
    /\ \A g, h \in Hours : g < h => g + Hour <= h
  <1>1. Hour \in Nat \ {0} /\ Day \in Nat \ {0}
    BY BucketAssumption
  <1>2. ASSUME NEW ts \in Times, NEW w \in Nat \ {0} PROVE Floor(ts, w) \in Times
    <2>1. ts \in Nat /\ ts <= MaxTime /\ MaxTime \in Nat
      BY TimesAreNats DEF Times
    <2>2. Floor(ts, w) \in Nat /\ Floor(ts, w) <= ts
      BY <2>1, FloorFacts
    <2>. QED BY <2>1, <2>2 DEF Times
  <1>3. Hours \subseteq Times /\ Days \subseteq Times
    BY <1>1, <1>2 DEF Hours, Days
  <1>4. ASSUME NEW h \in Hours PROVE Floor(h, Hour) = h
    <2>1. PICK ts \in Times : h = Floor(ts, Hour)
      BY DEF Hours
    <2>. QED BY <2>1, <1>1, TimesAreNats, FloorFacts
  <1>5. ASSUME NEW g \in Hours, NEW h \in Hours, g < h PROVE g + Hour <= h
    <2>1. g \in Nat /\ h \in Nat /\ Floor(g, Hour) = g /\ Floor(h, Hour) = h
      BY <1>3, <1>4, TimesAreNats
    <2>2. h < Floor(g, Hour) + Hour => Floor(h, Hour) <= Floor(g, Hour)
      BY <2>1, <1>1, FloorFacts
    <2>. QED BY <2>1, <2>2, <1>1, <1>5
  <1>. QED BY <1>1, <1>3, <1>4, <1>5 DEF Hours, Days

(* A row that is there accounts for some point.                            *)
Row == {r \in AnyRow : r.cnt = 0 <=> r.from = {}}

(* The keys of series s that fall into the bucket that starts at start.    *)
Starts(keys, s, start, w) == {k[2] : k \in {j \in keys : j[1] = s /\ Floor(j[2], w) = start}}

Spans(b, T) == /\ b.firstTs \in T /\ \A x \in T : b.firstTs <= x
               /\ b.lastTs \in T /\ \A x \in T : x <= b.lastTs

LEMMA RawBuilder ==
    ASSUME NEW keys \in SUBSET (Sid \X Times), NEW s, NEW start, tier = "raw",
           Starts(keys, s, start, Hour) # {}
    PROVE  /\ BuilderOf(keys, s, start) \in Builder
           /\ BuilderOf(keys, s, start).from = Starts(keys, s, start, Hour)
           /\ BuilderOf(keys, s, start).cnt # 0
           /\ Spans(BuilderOf(keys, s, start), Starts(keys, s, start, Hour))
           /\ Says(BuilderOf(keys, s, start), Starts(keys, s, start, Hour))
  <1> DEFINE T == Starts(keys, s, start, Hour)
  <1>1. T \in SUBSET Times
    BY DEF Starts
  <1>2. BuilderOf(keys, s, start) = Accumulated(T)
    BY Zenon DEF BuilderOf, Width, Starts
  <1> HIDE DEF T
  <1>3. PICK i : IsMerge(i, Points, T) /\ Accumulated(T) = i[T]
    BY <1>1, AccumulatedIsMerge
  <1>4. \A ts \in T : /\ Points[ts] \in AnyRow /\ Points[ts].cnt # 0 /\ Points[ts].from = {ts}
                      /\ Says(Points[ts], {ts})
    <2> TAKE ts \in T
    <2>1. ts \in Times /\ {ts} \in SUBSET Times /\ {ts} # {}
      BY <1>1
    <2>2. Points[ts].cnt # 0
      BY <2>1 DEF Points, OnePoint
    <2>. QED BY <2>1, <2>2, PointsType, PointSays, ReferenceSays
  <1>5. Gathered(Points, T) = T
    <2>1. ASSUME NEW u \in Gathered(Points, T) PROVE u \in T
      <3>1. PICK x \in T : u \in Points[x].from
        BY DEF Gathered
      <3>. QED BY <3>1, <1>4
    <2>2. \A u \in T : u \in Gathered(Points, T)
      BY <1>4 DEF Gathered
    <2>. QED BY <2>1, <2>2
  <1>6. MergedRows(i, Points, T)
    BY <1>1, <1>3, <1>4, MergeFolds
  <1>7. T # {}
    BY DEF T
  <1>8. RowsInOrder(Points, T)
    BY <1>4, TimesAreNats DEF RowsInOrder
  <1>9. Says(i[T], Gathered(Points, T))
    BY <1>1, <1>3, <1>7, <1>8, MergeExact
  <1>. QED BY <1>2, <1>3, <1>5, <1>6, <1>7, <1>9, Zenon DEF MergedRows, Spans, T

RowsOf(s) == [ts \in Hours |-> hourly[<<s, ts>>]]

LEMMA HourlyBuilder ==
    ASSUME hourly \in [HourKeys -> Row], NEW keys \in SUBSET HourKeys,
           \A k \in keys : Present(hourly[k]),
           NEW s \in Sid, NEW start, tier = "hourly", Starts(keys, s, start, Day) # {}
    PROVE  /\ BuilderOf(keys, s, start) \in Builder
           /\ BuilderOf(keys, s, start).from = Gathered(RowsOf(s), Starts(keys, s, start, Day))
           /\ BuilderOf(keys, s, start).cnt # 0
           /\ Spans(BuilderOf(keys, s, start), Starts(keys, s, start, Day))
           /\ RowsInOrder(RowsOf(s), Starts(keys, s, start, Day)) =>
                  Says(BuilderOf(keys, s, start), Gathered(RowsOf(s), Starts(keys, s, start, Day)))
  <1> DEFINE T == Starts(keys, s, start, Day)
  <1>0. \A ts \in T : ts \in Hours /\ <<s, ts>> \in keys
    BY DEF Starts, HourKeys
  <1>1. T \in SUBSET Times
    BY <1>0, TimeFacts
  <1>2. BuilderOf(keys, s, start) = Merged(RowsOf(s), T)
    BY Zenon DEF BuilderOf, Width, Starts, RowsOf
  <1>7. T # {}
    OBVIOUS
  <1> HIDE DEF T
  <1>4. \A ts \in T : RowsOf(s)[ts] \in AnyRow /\ RowsOf(s)[ts].cnt # 0
    BY <1>0 DEF RowsOf, Row, HourKeys, Present
  <1>3. PICK i : IsMerge(i, RowsOf(s), T) /\ Merged(RowsOf(s), T) = i[T]
    BY <1>1, <1>4, MergedIsMerge
  <1>6. MergedRows(i, RowsOf(s), T)
    BY <1>1, <1>3, <1>4, MergeFolds
  <1>9. RowsInOrder(RowsOf(s), T) => Says(i[T], Gathered(RowsOf(s), T))
    BY <1>1, <1>3, <1>7, MergeExact
  <1>. QED BY <1>2, <1>3, <1>6, <1>7, <1>9, Zenon DEF MergedRows, Spans, T

(* The row written over an existing one.                                   *)
LEMMA ExistingKept ==
    ASSUME NEW b \in Builder, b.cnt # 0, b.from # {}, NEW row \in Row, NEW start \in Times
    PROVE  /\ Finalize(WithExisting(b, row, start)) \in Row
           /\ Finalize(WithExisting(b, row, start)).from = row.from \cup b.from
  <1>1. row \in AnyRow /\ (row.cnt = 0 <=> row.from = {})
    BY DEF Row
  <1>2. PICK c : c = WithExisting(b, row, start)
    OBVIOUS
  <1>3. c \in Builder /\ c.cnt # 0 /\ c.from = row.from \cup b.from
    <2>1. CASE row.cnt = 0
      <3>1. c = b
        BY <2>1, <1>2 DEF WithExisting, Present
      <3>. QED BY <3>1, <2>1, <1>1
    <2>2. CASE row.cnt # 0
      <3>1. c = Absorb(b, row, start)
        BY <2>2, <1>2 DEF WithExisting, Present, MergeBucket
      <3>2. c \in Builder
        BY <3>1, <1>1, AbsorbType
      <3>3. c.cnt = b.cnt + row.cnt /\ c.from = b.from \cup row.from
        BY <3>1 DEF Absorb
      <3>4. b.cnt \in Nat /\ row.cnt \in Nat
        BY <1>1 DEF Builder, AnyRow
      <3>. QED BY <3>2, <3>3, <3>4, <2>2
    <2>. QED BY <2>1, <2>2
  <1>4. PICK f : f = Finalize(c)
    OBVIOUS
  <1>5. f \in AnyRow
    BY <1>3, <1>4 DEF Finalize, Builder, AnyRow
  <1>6. f.cnt = c.cnt /\ f.from = c.from
    BY <1>4 DEF Finalize
  <1>. QED BY <1>2, <1>3, <1>4, <1>5, <1>6 DEF Row

LEMMA ExistingExact ==
    ASSUME NEW b \in Builder, b.cnt # 0, NEW S \in SUBSET Times, Says(b, S),
           NEW row \in Row, row = Reference(row.from), NEW start \in Times,
           \A s \in S, t \in row.from : t < s,
           row.from # {} => start < b.firstTs /\ start <= b.lastTs
    PROVE  Finalize(WithExisting(b, row, start)) = Reference(row.from \cup S)
  <1>1. /\ row \in AnyRow /\ (row.cnt = 0 <=> row.from = {})
        /\ row.from \in SUBSET Times
    BY DEF Row, AnyRow
  <1>2. PICK c, T : c = WithExisting(b, row, start) /\ T = row.from
    OBVIOUS
  <1>3. c \in Builder /\ Says(c, S \cup T)
    <2>1. CASE row.cnt = 0
      <3>1. c = b /\ S \cup T = S
        BY <2>1, <1>1, <1>2 DEF WithExisting, Present
      <3>. QED BY <3>1
    <2>2. CASE row.cnt # 0
      <3>1. c = Absorb(b, row, start)
        BY <2>2, <1>2 DEF WithExisting, Present, MergeBucket
      <3>2. c \in Builder
        BY <3>1, <1>1, AbsorbType
      <3>3. Says(row, T)
        BY <2>2, <1>1, <1>2, ReferenceSays
      <3>4. S \cap T = {} /\ S # {}
        <4>1. ASSUME NEW x \in S, x \in T PROVE FALSE
          <5>1. x < x /\ x \in Nat
            BY <4>1, <1>2, TimesAreNats
          <5>. QED BY <5>1
        <4>2. S # {}
          BY DEF Says
        <4>. QED BY <4>1, <4>2
      <3>5. start < b.firstTs /\ ~(start > b.lastTs)
        <4>1. start < b.firstTs /\ start <= b.lastTs
          BY <2>2, <1>1
        <4>2. start \in Nat /\ b.lastTs \in Int
          BY TimesAreNats DEF Builder
        <4>. QED BY <4>1, <4>2
      <3>6. \A s \in S, t \in T : t <= s
        BY <1>1, <1>2, TimesAreNats
      <3>7. \E s \in S : \A t \in T : t <= s
        BY <3>4, <3>6
      <3>8. T \in SUBSET Times
        BY <1>1, <1>2
      <3>9. Says(Absorb(b, row, start), S \cup T)
        BY <1>1, <3>3, <3>4, <3>5, <3>6, <3>7, <3>8, AbsorbSays
      <3>. QED BY <3>1, <3>2, <3>9
    <2>. QED BY <2>1, <2>2
  <1>4. PICK f : f = Finalize(c)
    OBVIOUS
  <1>5. f \in AnyRow
    BY <1>3, <1>4 DEF Finalize, Builder, AnyRow
  <1>6. /\ f.cnt = c.cnt /\ f.sum = c.sum /\ f.from = c.from /\ f.min = c.min
        /\ f.max = c.max /\ f.first = c.first /\ f.last = c.last
    BY <1>4 DEF Finalize
  <1>7. Says(f, S \cup T)
    BY <1>3, <1>6, Zenon DEF Says
  <1>8. S \cup T \in SUBSET Times /\ S \cup T = row.from \cup S
    BY <1>1, <1>2
  <1>. QED BY <1>2, <1>4, <1>5, <1>7, <1>8, SaysOnce
-----------------------------------------------------------------------------
(* The invariant.                                                          *)

TieringTypes ==
    /\ now \in Times
    /\ raw \subseteq Sid \X Times
    /\ hourly \in [HourKeys -> Row] /\ daily \in [DayKeys -> Row]
    /\ tier \in {"raw", "hourly"}
    /\ step \in {"sleep", "read", "write", "list", "purge"}
    /\ cutoff \in [raw : Int, hourly : Int]
    /\ keysRead \subseteq Sid \X Times /\ doomed \subseteq Sid \X Times
    /\ tier = "hourly" => keysRead \subseteq HourKeys
    /\ written \subseteq Sid \X Times /\ overtaken \subseteq written
    /\ late \in Nat /\ cut \in BOOLEAN /\ passes \in Nat

(* The keys of a compaction are read, and not yet all purged.              *)
Folding == step \in {"write", "list", "purge"}

(* Of tier t, keys whose bucket is written and which are still there.      *)
Doubled(t, k) == tier = t /\ step \in {"list", "purge"} /\ k \in keysRead

Targets(w) == {<<k[1], Floor(k[2], w)>> : k \in keysRead}

BuiltIs(w) == built = [b \in Targets(w) |-> BuilderOf(keysRead, b[1], b[2])]

(* What the write step makes of the rows of a table.                       *)
LEMMA WithBuiltIs ==
    ASSUME NEW w, BuiltIs(w), NEW rows, NEW k \in DOMAIN rows, k = <<k[1], k[2]>>
    PROVE  /\ Starts(keysRead, k[1], k[2], w) = {} => WithBuilt(rows)[k] = rows[k]
           /\ Starts(keysRead, k[1], k[2], w) # {} =>
                  WithBuilt(rows)[k] =
                      Finalize(WithExisting(BuilderOf(keysRead, k[1], k[2]), rows[k], k[2]))
  <1>1. k \in Targets(w) <=> Starts(keysRead, k[1], k[2], w) # {}
    BY DEF Targets, Starts
  <1>2. DOMAIN built = Targets(w)
    BY Zenon DEF BuiltIs
  <1>3. k \in Targets(w) => built[k] = BuilderOf(keysRead, k[1], k[2])
    BY Zenon DEF BuiltIs
  <1>. QED BY <1>1, <1>2, <1>3, Zenon DEF WithBuilt

LEMMA WrittenHourly ==
    ASSUME TieringTypes, tier = "raw", BuiltIs(Hour)
    PROVE  /\ WithBuilt(hourly) \in [HourKeys -> Row]
           /\ \A k \in HourKeys : WithBuilt(hourly)[k].from =
                                   hourly[k].from \cup Starts(keysRead, k[1], k[2], Hour)
  <1>1. ASSUME NEW k \in HourKeys
        PROVE  /\ WithBuilt(hourly)[k] \in Row
               /\ WithBuilt(hourly)[k].from =
                      hourly[k].from \cup Starts(keysRead, k[1], k[2], Hour)
    <2>1. k = <<k[1], k[2]>> /\ k[2] \in Times /\ hourly[k] \in Row /\ k \in DOMAIN hourly
      BY TimeFacts DEF TieringTypes, HourKeys
    <2>2. PICK T : T = Starts(keysRead, k[1], k[2], Hour)
      OBVIOUS
    <2>3. CASE T = {}
      <3>0. Starts(keysRead, k[1], k[2], Hour) = {}
        BY <2>2, <2>3
      <3>1. WithBuilt(hourly)[k] = hourly[k]
        BY <2>1, <3>0, WithBuiltIs
      <3>. QED BY <3>1, <2>1, <2>2, <2>3
    <2>4. CASE T # {}
      <3>1. PICK b : b = BuilderOf(keysRead, k[1], k[2])
        OBVIOUS
      <3>2. b \in Builder /\ b.from = T /\ b.cnt # 0
        BY <2>2, <2>4, <3>1, RawBuilder DEF TieringTypes
      <3>3. WithBuilt(hourly)[k] = Finalize(WithExisting(b, hourly[k], k[2]))
        BY <2>1, <2>2, <2>4, <3>1, WithBuiltIs
      <3>. QED BY <2>1, <2>2, <2>4, <3>2, <3>3, ExistingKept
    <2>. QED BY <2>3, <2>4
  <1>2. DOMAIN WithBuilt(hourly) = HourKeys /\ WithBuilt(hourly) = [k \in HourKeys |-> WithBuilt(hourly)[k]]
    BY DEF WithBuilt, TieringTypes
  <1>. QED BY <1>1, <1>2

LEMMA WrittenHourlyExact ==
    ASSUME TieringTypes, tier = "raw", BuiltIs(Hour),
           NEW k \in HourKeys, hourly[k] = Reference(hourly[k].from),
           \A u \in hourly[k].from : k[2] <= u,
           \A u \in hourly[k].from, q \in keysRead : q[1] = k[1] => u < q[2]
    PROVE  WithBuilt(hourly)[k] = Reference(WithBuilt(hourly)[k].from)
  <1>1. k = <<k[1], k[2]>> /\ k[2] \in Times /\ hourly[k] \in Row /\ k \in DOMAIN hourly
    BY TimeFacts DEF TieringTypes, HourKeys
  <1>2. PICK T : T = Starts(keysRead, k[1], k[2], Hour)
    OBVIOUS
  <1>3. CASE T = {}
    <2>1. WithBuilt(hourly)[k] = hourly[k]
      <3>1. Starts(keysRead, k[1], k[2], Hour) = {}
        BY <1>2, <1>3
      <3>. QED BY <1>1, <3>1, WithBuiltIs
    <2>. QED BY <2>1
  <1>4. CASE T # {}
    <2>1. PICK b : b = BuilderOf(keysRead, k[1], k[2])
      OBVIOUS
    <2>2. b \in Builder /\ b.cnt # 0 /\ Spans(b, T) /\ Says(b, T)
      BY <1>2, <1>4, <2>1, RawBuilder DEF TieringTypes
    <2>3. WithBuilt(hourly)[k] = Finalize(WithExisting(b, hourly[k], k[2]))
      BY <1>1, <1>2, <1>4, <2>1, WithBuiltIs
    <2>4. \A x \in T : \E q \in keysRead : q[1] = k[1] /\ q[2] = x
      BY <1>2 DEF Starts
    <2>5. \A x \in T, u \in hourly[k].from : u < x
      BY <2>4
    <2>6. T \in SUBSET Times /\ hourly[k].from \in SUBSET Times
      BY <1>1, <1>2, <2>4 DEF TieringTypes, Row, AnyRow
    <2>7. hourly[k].from # {} => k[2] < b.firstTs /\ k[2] <= b.lastTs
      <3>1. ASSUME NEW u \in hourly[k].from PROVE k[2] < b.firstTs /\ k[2] <= b.lastTs
        <4>1. u < b.firstTs /\ u < b.lastTs /\ k[2] <= u
          BY <2>2, <2>5 DEF Spans
        <4>2. u \in Nat /\ k[2] \in Nat /\ b.firstTs \in Nat /\ b.lastTs \in Nat
          BY <1>1, <2>2, <2>6, TimesAreNats DEF Spans
        <4>. QED BY <4>1, <4>2
      <3>. QED BY <3>1
    <2>8. Finalize(WithExisting(b, hourly[k], k[2])) = Reference(hourly[k].from \cup T)
      BY <1>1, <2>2, <2>5, <2>6, <2>7, ExistingExact
    <2>9. WithBuilt(hourly)[k].from = hourly[k].from \cup T
      BY <1>2, WrittenHourly
    <2>. QED BY <2>3, <2>8, <2>9
  <1>. QED BY <1>3, <1>4

(* The points of the rows read that fall into day k.                       *)
OfDay(k) == Gathered(RowsOf(k[1]), Starts(keysRead, k[1], k[2], Day))

LEMMA OfDayIs ==
    ASSUME keysRead \subseteq HourKeys, NEW k
    PROVE  \A u : u \in OfDay(k) <=>
               \E j \in keysRead : j[1] = k[1] /\ Floor(j[2], Day) = k[2] /\ u \in hourly[j].from
  <1>1. \A j \in keysRead : j[2] \in Hours /\ j = <<j[1], j[2]>>
    BY DEF HourKeys
  <1>2. \A j \in keysRead : j[1] = k[1] => RowsOf(k[1])[j[2]] = hourly[j]
    BY <1>1, Zenon DEF RowsOf
  <1>3. \A u : u \in OfDay(k) <=> \E x \in Starts(keysRead, k[1], k[2], Day) : u \in RowsOf(k[1])[x].from
    BY DEF OfDay, Gathered
  <1>4. \A x : x \in Starts(keysRead, k[1], k[2], Day) <=>
                \E j \in keysRead : j[1] = k[1] /\ Floor(j[2], Day) = k[2] /\ x = j[2]
    BY DEF Starts
  <1>5. ASSUME NEW u \in OfDay(k)
        PROVE  \E j \in keysRead : j[1] = k[1] /\ Floor(j[2], Day) = k[2] /\ u \in hourly[j].from
    <2>1. PICK x \in Starts(keysRead, k[1], k[2], Day) : u \in RowsOf(k[1])[x].from
      BY <1>3
    <2>2. PICK j \in keysRead : j[1] = k[1] /\ Floor(j[2], Day) = k[2] /\ x = j[2]
      BY <1>4, <2>1
    <2>. QED BY <1>2, <2>1, <2>2
  <1>6. ASSUME NEW u, NEW j \in keysRead, j[1] = k[1] /\ Floor(j[2], Day) = k[2],
               u \in hourly[j].from
        PROVE  u \in OfDay(k)
    BY <1>2, <1>3, <1>4, <1>6
  <1>. QED BY <1>5, <1>6

LEMMA WrittenDaily ==
    ASSUME TieringTypes, tier = "hourly", BuiltIs(Day), \A j \in keysRead : Present(hourly[j])
    PROVE  /\ WithBuilt(daily) \in [DayKeys -> Row]
           /\ \A k \in DayKeys : WithBuilt(daily)[k].from = daily[k].from \cup OfDay(k)
  <1>h. hourly \in [HourKeys -> Row] /\ keysRead \in SUBSET HourKeys
    BY DEF TieringTypes
  <1>1. ASSUME NEW k \in DayKeys
        PROVE  /\ WithBuilt(daily)[k] \in Row
               /\ WithBuilt(daily)[k].from = daily[k].from \cup OfDay(k)
    <2>1. /\ k = <<k[1], k[2]>> /\ k[1] \in Sid /\ k[2] \in Times
          /\ daily[k] \in Row /\ k \in DOMAIN daily
      BY TimeFacts DEF TieringTypes, DayKeys
    <2>2. PICK T : T = Starts(keysRead, k[1], k[2], Day)
      OBVIOUS
    <2>3. CASE T = {}
      <3>0. Starts(keysRead, k[1], k[2], Day) = {}
        BY <2>2, <2>3
      <3>1. WithBuilt(daily)[k] = daily[k]
        BY <2>1, <3>0, WithBuiltIs
      <3>2. OfDay(k) = {}
        BY <2>2, <2>3 DEF OfDay, Gathered
      <3>. QED BY <3>1, <3>2, <2>1
    <2>4. CASE T # {}
      <3>1. PICK b : b = BuilderOf(keysRead, k[1], k[2])
        OBVIOUS
      <3>2. b \in Builder /\ b.from = OfDay(k) /\ b.cnt # 0
        BY <1>h, <2>1, <2>2, <2>4, <3>1, HourlyBuilder DEF OfDay
      <3>3. WithBuilt(daily)[k] = Finalize(WithExisting(b, daily[k], k[2]))
        BY <2>1, <2>2, <2>4, <3>1, WithBuiltIs
      <3>4. b.from # {}
        <4>1. PICK x \in T : TRUE
          BY <2>4
        <4>2. PICK j \in keysRead : j[1] = k[1] /\ Floor(j[2], Day) = k[2]
          BY <4>1, <2>2 DEF Starts
        <4>3. hourly[j].from # {}
          BY <1>h DEF Row, Present
        <4>4. PICK u \in hourly[j].from : TRUE
          BY <4>3
        <4>. QED BY <3>2, <4>2, <4>4, <1>h, OfDayIs
      <3>. QED BY <2>1, <3>2, <3>3, <3>4, ExistingKept
    <2>. QED BY <2>3, <2>4
  <1>2. WithBuilt(daily) = [k \in DayKeys |-> WithBuilt(daily)[k]]
    BY DEF WithBuilt, TieringTypes
  <1>. QED BY <1>1, <1>2

LEMMA WrittenDailyExact ==
    ASSUME TieringTypes, tier = "hourly", BuiltIs(Day), \A j \in keysRead : Present(hourly[j]),
           \A j \in keysRead : /\ hourly[j] = Reference(hourly[j].from)
                               /\ \A u \in hourly[j].from : j[2] <= u /\ u < j[2] + Hour,
           NEW k \in DayKeys, daily[k] = Reference(daily[k].from),
           \A u \in daily[k].from : k[2] <= u,
           \A u \in daily[k].from, j \in keysRead : j[1] = k[1] => u < j[2]
    PROVE  WithBuilt(daily)[k] = Reference(WithBuilt(daily)[k].from)
  <1>1. /\ k = <<k[1], k[2]>> /\ k[1] \in Sid /\ k[2] \in Times
        /\ daily[k] \in Row /\ k \in DOMAIN daily
    BY TimeFacts DEF TieringTypes, DayKeys
  <1>h. hourly \in [HourKeys -> Row] /\ keysRead \in SUBSET HourKeys
    BY DEF TieringTypes
  <1>2. PICK T, S : T = Starts(keysRead, k[1], k[2], Day) /\ S = OfDay(k)
    OBVIOUS
  <1>3. CASE T = {}
    <2>1. WithBuilt(daily)[k] = daily[k]
      <3>1. Starts(keysRead, k[1], k[2], Day) = {}
        BY <1>2, <1>3
      <3>. QED BY <1>1, <3>1, WithBuiltIs
    <2>. QED BY <2>1
  <1>4. CASE T # {}
    <2>1. PICK b : b = BuilderOf(keysRead, k[1], k[2])
      OBVIOUS
    <2>i. \A x \in T : /\ x \in Hours /\ <<k[1], x>> \in keysRead
                      /\ RowsOf(k[1])[x] = hourly[<<k[1], x>>]
      <3>1. \A x \in T : x \in Hours /\ <<k[1], x>> \in keysRead
        BY <1>2, <1>h DEF Starts, HourKeys
      <3>. QED BY <3>1, Zenon DEF RowsOf
    <2>o. RowsInOrder(RowsOf(k[1]), T)
      <3>1. ASSUME NEW x \in T
            PROVE  /\ RowsOf(k[1])[x] \in AnyRow /\ RowsOf(k[1])[x].cnt # 0
                   /\ Says(RowsOf(k[1])[x], RowsOf(k[1])[x].from)
        <4>1. PICK r : r = RowsOf(k[1])[x]
          OBVIOUS
        <4>2. /\ r \in AnyRow /\ (r.cnt = 0 <=> r.from = {}) /\ r.cnt # 0
              /\ r = Reference(r.from)
          BY <2>i, <4>1, <1>h DEF Row, Present
        <4>3. r.from \in SUBSET Times
          BY <4>2 DEF AnyRow
        <4>. QED BY <4>1, <4>2, <4>3, ReferenceSays
      <3>2. ASSUME NEW x \in T, NEW y \in T, x < y,
                   NEW u \in RowsOf(k[1])[x].from, NEW w \in RowsOf(k[1])[y].from
            PROVE  u < w
        <4>1. u < x + Hour /\ y <= w
          BY <2>i
        <4>2. x \in Nat /\ y \in Nat /\ Hour \in Nat \ {0}
          BY <2>i, TimeFacts, TimesAreNats
        <4>3. x + Hour <= y
          BY <2>i, <3>2, TimeFacts
        <4>4. u \in Nat /\ w \in Nat
          <5>1. RowsOf(k[1])[x] \in AnyRow /\ RowsOf(k[1])[y] \in AnyRow
            BY <3>1
          <5>. QED BY <5>1, TimesAreNats DEF AnyRow
        <4>. QED BY <4>1, <4>2, <4>3, <4>4
      <3>. QED BY <3>1, <3>2 DEF RowsInOrder
    <2>2. b \in Builder /\ b.cnt # 0 /\ Spans(b, T) /\ Says(b, S)
      BY <1>h, <1>1, <1>2, <1>4, <2>1, <2>o, HourlyBuilder DEF OfDay
    <2>3. WithBuilt(daily)[k] = Finalize(WithExisting(b, daily[k], k[2]))
      BY <1>1, <1>2, <1>4, <2>1, WithBuiltIs
    <2>4. \A x \in S : \E j \in keysRead : j[1] = k[1] /\ x \in hourly[j].from
      BY <1>2, <1>h, OfDayIs
    <2>6. S \in SUBSET Times /\ daily[k].from \in SUBSET Times
      BY <1>1, <1>h, <2>4 DEF Row, AnyRow
    <2>5. \A x \in S, u \in daily[k].from : u < x
      <3> TAKE x \in S, u \in daily[k].from
      <3>1. PICK j \in keysRead : j[1] = k[1] /\ x \in hourly[j].from
        BY <2>4
      <3>2. u < j[2] /\ j[2] <= x
        BY <3>1
      <3>3. u \in Nat /\ x \in Nat /\ j[2] \in Nat
        BY <2>6, <1>h, TimeFacts, TimesAreNats DEF HourKeys
      <3>. QED BY <3>2, <3>3
    <2>7. daily[k].from # {} => k[2] < b.firstTs /\ k[2] <= b.lastTs
      <3>1. ASSUME NEW u \in daily[k].from PROVE k[2] < b.firstTs /\ k[2] <= b.lastTs
        <4>1. b.firstTs \in T /\ b.lastTs \in T
          BY <2>2 DEF Spans
        <4>2. u < b.firstTs /\ u < b.lastTs /\ k[2] <= u
          BY <2>i, <4>1
        <4>3. u \in Nat /\ k[2] \in Nat /\ b.firstTs \in Nat /\ b.lastTs \in Nat
          BY <1>1, <2>i, <2>6, <4>1, TimesAreNats, TimeFacts
        <4>. QED BY <4>2, <4>3
      <3>. QED BY <3>1
    <2>8. Finalize(WithExisting(b, daily[k], k[2])) = Reference(daily[k].from \cup S)
      BY <1>1, <2>2, <2>5, <2>6, <2>7, ExistingExact
    <2>9. WithBuilt(daily)[k].from = daily[k].from \cup S
      BY <1>2, WrittenDaily
    <2>. QED BY <2>3, <2>8, <2>9
  <1>. QED BY <1>3, <1>4

(* The pass under way: what has been read lies below the cutoff, and the   *)
(* buckets in memory are those of the keys read.                           *)
PassInv ==
    /\ tier = "hourly" => step # "sleep"
    /\ ~Folding => keysRead = {}
    /\ step # "purge" => doomed = {}
    /\ Folding => keysRead # {} /\ \A k \in keysRead : k[2] < cutoff[tier]
    /\ cutoff.raw <= now
    /\ step # "sleep" => cutoff.raw <= now - RawRetention /\ cutoff.hourly + Hour <= cutoff.raw
    /\ step = "write" => BuiltIs(Width)

(* What the purge may take: the keys folded, and points that overtook the  *)
(* read step.                                                              *)
RawPass ==
    /\ Exposed => /\ keysRead \subseteq raw
                  /\ \A k \in raw \ keysRead : k[2] > MaxRead \/ k \in overtaken
    /\ \A k \in keysRead : Doubled("raw", k) => InHourly(k)
    /\ tier = "raw" /\ step = "purge" => /\ keysRead \cap raw \subseteq doomed
                                         /\ doomed \subseteq raw
                                         /\ doomed \subseteq keysRead \cup overtaken

HourlyPass ==
    tier = "hourly" =>
        /\ step \in {"write", "list"} =>
               keysRead = {k \in HourKeys : Present(hourly[k]) /\ k[2] < cutoff.hourly}
        /\ step = "purge" => doomed = {k \in keysRead : Present(hourly[k])}
        /\ \A k \in keysRead :
               Doubled("hourly", k) => hourly[k].from \subseteq daily[<<k[1], Floor(k[2], Day)>>].from

(* Every point is somewhere, and a bucket holds points of its own time.    *)
HeldInv ==
    /\ raw \subseteq written
    /\ \A k \in HourKeys : \A ts \in hourly[k].from :
           <<k[1], ts>> \in written /\ k[2] <= ts /\ ts < k[2] + Hour /\ ts < now - RawRetention
    /\ \A k \in DayKeys : \A ts \in daily[k].from :
           <<k[1], ts>> \in written /\ k[2] <= ts /\ ts < k[2] + Day /\ ts < now - RawRetention
    /\ \A p \in written : p \in raw \/ InHourly(p) \/ InDaily(p) \/ p \in overtaken

(* Unless a pass was cut short, a point is twice only on its way.          *)
OnceInv ==
    ~cut =>
      /\ \A p \in raw : ~InDaily(p) /\ (InHourly(p) => Doubled("raw", p))
      /\ \A k \in HourKeys : \A ts \in hourly[k].from :
             InDaily(<<k[1], ts>>) => Doubled("hourly", k)

Live == ~cut /\ late = 0

(* The raw points wait at or above the cutoff, but for those under way.    *)
Waiting == \A q \in raw : \/ tier = "raw" /\ step = "read"
                          \/ Folding /\ tier = "raw" /\ q \in keysRead
                          \/ q[2] >= cutoff.raw

(* An hourly bucket lies below the raw points of every series.             *)
HoursBelow == \A k \in HourKeys : \A u \in hourly[k].from :
                 \A q \in raw : Doubled("raw", q) \/ u < q[2]

(* A daily bucket lies below the hours of the raw points, of the hourly    *)
(* buckets and of the present.                                             *)
DaysBelow == \A k \in DayKeys : \A u \in daily[k].from :
                 /\ u < Floor(now, Hour)
                 /\ \A q \in raw : u < Floor(q[2], Hour)
                 /\ \A j \in HourKeys : Present(hourly[j]) => Doubled("hourly", j) \/ u < j[2]

(* Live points are folded in the order of their timestamps.                *)
FrontInv == Live => Waiting /\ HoursBelow /\ DaysBelow

ExactInv ==
    Live => /\ \A k \in HourKeys : hourly[k] = Reference(hourly[k].from)
            /\ \A k \in DayKeys : daily[k] = Reference(daily[k].from)

TieringInv == TieringTypes /\ PassInv /\ RawPass /\ HourlyPass
              /\ HeldInv /\ OnceInv /\ FrontInv /\ ExactInv
-----------------------------------------------------------------------------
(* The invariant is inductive: one lemma per conjunct.                     *)

LEMMA KeysType ==
    ASSUME TieringTypes
    PROVE  /\ Keys \subseteq Sid \X Times
           /\ tier = "hourly" => Keys \subseteq HourKeys
  BY TimeFacts DEF Keys, TieringTypes, HourKeys

(* A point is written, live or late.                                       *)
Inserted(p) ==
    /\ p \notin written /\ raw' = raw \cup {p} /\ written' = written \cup {p}
    /\ UNCHANGED <<now, hourly, daily, tier, step, cutoff, keysRead, built, doomed, cut>>
    /\ overtaken \subseteq overtaken'
    /\ \/ p[2] = now /\ late' = late
       \/ late' # 0 /\ (Exposed /\ p[2] <= MaxRead => p \in overtaken')

LEMMA Writes ==
    ASSUME TieringTypes
    PROVE  /\ \A s \in Sid : WriteLive(s) => \E p \in Sid \X Times : Inserted(p)
           /\ \A s \in Sid, ts \in Times : WriteLate(s, ts) => \E p \in Sid \X Times : Inserted(p)
  <1>1. ASSUME NEW s \in Sid, WriteLive(s) PROVE \E p \in Sid \X Times : Inserted(p)
    <2>1. <<s, now>> \in Sid \X Times /\ <<s, now>>[2] = now
      BY DEF TieringTypes
    <2>2. Inserted(<<s, now>>)
      BY <1>1, <2>1 DEF WriteLive, Insert, Inserted, passVars
    <2>. QED BY <2>1, <2>2
  <1>2. ASSUME NEW s \in Sid, NEW ts \in Times, WriteLate(s, ts)
        PROVE  \E p \in Sid \X Times : Inserted(p)
    <2>1. <<s, ts>> \in Sid \X Times /\ <<s, ts>>[2] = ts
      OBVIOUS
    <2>2. late' # 0
      BY <1>2 DEF WriteLate, TieringTypes
    <2>3. /\ overtaken \subseteq overtaken'
          /\ Exposed /\ ts <= MaxRead => <<s, ts>> \in overtaken'
      BY <1>2 DEF WriteLate
    <2>4. Inserted(<<s, ts>>)
      BY <1>2, <2>1, <2>2, <2>3 DEF WriteLate, Insert, Inserted, passVars
    <2>. QED BY <2>1, <2>4
  <1>. QED BY <1>1, <1>2

(* The steps that leave the tables alone, but for the bucket transaction   *)
(* and the purge.                                                          *)
Over == keysRead' = {} /\ doomed' = {} /\ cutoff' = cutoff
        /\ \/ tier = "raw" /\ tier' = "hourly" /\ step' = "read"
           \/ tier' = "raw" /\ step' = "sleep"

LEMMA EndIs == EndCompaction => Over
  BY Zenon DEF EndCompaction, Over, Forget

Selected == /\ keysRead' = {k \in Keys : k[2] < cutoff[tier]} /\ keysRead' # {}
            /\ built' = [b \in {<<k[1], Floor(k[2], Width)>> : k \in keysRead'} |->
                            BuilderOf(keysRead', b[1], b[2])]
            /\ step' = "write" /\ UNCHANGED <<tier, cutoff, doomed>>

LEMMA ReadIs ==
    Read => /\ step = "read" /\ UNCHANGED <<now, tables, histVars>>
            /\ \/ Over /\ {k \in Keys : k[2] < cutoff[tier]} = {}
               \/ Selected
  <1> SUFFICES ASSUME Read
               PROVE  \/ Over /\ {k \in Keys : k[2] < cutoff[tier]} = {}
                      \/ Selected
    BY DEF Read
  <1>1. PICK old : old = {k \in Keys : k[2] < cutoff[tier]}
    OBVIOUS
  <1>2. CASE old = {}
    BY <1>1, <1>2, EndIs, Zenon DEF Read
  <1>3. CASE old # {}
    <2>1. /\ keysRead' = old /\ step' = "write" /\ UNCHANGED <<tier, cutoff, doomed>>
          /\ built' = [b \in {<<k[1], Floor(k[2], Width)>> : k \in old} |->
                            BuilderOf(old, b[1], b[2])]
      BY <1>1, <1>3, Zenon DEF Read
    <2>. QED BY <1>1, <1>3, <2>1, Zenon DEF Selected
  <1>. QED BY <1>2, <1>3

LEMMA TypesKept == ASSUME TieringTypes, PassInv, HourlyPass, [Next]_vars PROVE TieringTypes'
  <1>t. /\ now \in Times
        /\ raw \subseteq Sid \X Times
        /\ hourly \in [HourKeys -> Row] /\ daily \in [DayKeys -> Row]
        /\ tier \in {"raw", "hourly"}
        /\ step \in {"sleep", "read", "write", "list", "purge"}
        /\ cutoff \in [raw : Int, hourly : Int]
        /\ keysRead \subseteq Sid \X Times /\ doomed \subseteq Sid \X Times
        /\ tier = "hourly" => keysRead \subseteq HourKeys
        /\ written \subseteq Sid \X Times /\ overtaken \subseteq written
        /\ late \in Nat /\ cut \in BOOLEAN /\ passes \in Nat
    BY Zenon DEF TieringTypes
  <1>g. ASSUME now' \in Times,
               raw' \subseteq Sid \X Times,
               hourly' \in [HourKeys -> Row], daily' \in [DayKeys -> Row],
               tier' \in {"raw", "hourly"},
               step' \in {"sleep", "read", "write", "list", "purge"},
               cutoff' \in [raw : Int, hourly : Int],
               keysRead' \subseteq Sid \X Times, doomed' \subseteq Sid \X Times,
               tier' = "hourly" => keysRead' \subseteq HourKeys,
               written' \subseteq Sid \X Times, overtaken' \subseteq written',
               late' \in Nat, cut' \in BOOLEAN, passes' \in Nat
        PROVE  TieringTypes'
    <2>1. HourKeys' = HourKeys /\ DayKeys' = DayKeys /\ Row' = Row /\ Times' = Times
      BY DEF HourKeys, DayKeys, Row, Times, Hours, Days, AnyRow
    <2>. QED BY <1>g, <2>1, Zenon DEF TieringTypes
  <1>e. ASSUME EndCompaction
        PROVE  /\ tier' \in {"raw", "hourly"} /\ step' \in {"read", "sleep"}
               /\ keysRead' = {} /\ doomed' = {} /\ cutoff' = cutoff
    BY <1>e, Zenon DEF EndCompaction, Forget
  <1>1. CASE Tick
    <2>1. now' \in Times
      BY <1>1, <1>t, TimesAreNats DEF Tick, Times
    <2>. QED BY <1>1, <1>t, <1>g, <2>1, Zenon DEF Tick, tables, passVars, histVars
  <1>2. ASSUME NEW x \in Sid, WriteLive(x) PROVE TieringTypes'
    <2>1. <<x, now>> \in Sid \X Times
      BY <1>t
    <2>2. raw' = raw \cup {<<x, now>>} /\ written' = written \cup {<<x, now>>}
      BY <1>2, Zenon DEF WriteLive, Insert
    <2>3. /\ raw' \subseteq Sid \X Times /\ written' \subseteq Sid \X Times
          /\ overtaken \subseteq written'
      BY <1>t, <2>1, <2>2
    <2>. QED BY <1>2, <1>t, <1>g, <2>3, Zenon DEF WriteLive, Insert, passVars
  <1>3. ASSUME NEW x \in Sid, NEW ts \in Times, WriteLate(x, ts) PROVE TieringTypes'
    <2>2. raw' = raw \cup {<<x, ts>>} /\ written' = written \cup {<<x, ts>>}
      BY <1>3, Zenon DEF WriteLate, Insert
    <2>4. overtaken' \subseteq overtaken \cup {<<x, ts>>}
      BY <1>3 DEF WriteLate
    <2>3. /\ raw' \subseteq Sid \X Times /\ written' \subseteq Sid \X Times
          /\ overtaken' \subseteq written'
      BY <1>t, <2>2, <2>4
    <2>5. late' \in Nat
      BY <1>3, <1>t DEF WriteLate
    <2>. QED BY <1>3, <1>t, <1>g, <2>3, <2>5, Zenon DEF WriteLate, Insert, passVars
  <1>4. CASE StartPass
    <2>1. cutoff' \in [raw : Int, hourly : Int]
      BY <1>4, <1>t, TimesAreNats, TieringAssumption DEF StartPass
    <2>2. passes' \in Nat
      BY <1>4, <1>t DEF StartPass
    <2>3. tier' = "raw" /\ step' = "read" /\ "raw" # "hourly"
      BY <1>4 DEF StartPass
    <2>. QED BY <1>4, <1>t, <1>g, <2>1, <2>2, <2>3, Zenon DEF StartPass, tables, histVars
  <1>5. CASE Read
    <2>1. /\ tier' \in {"raw", "hourly"}
          /\ step' \in {"sleep", "read", "write", "list", "purge"}
          /\ cutoff' = cutoff
          /\ keysRead' \subseteq Sid \X Times /\ doomed' \subseteq Sid \X Times
          /\ tier' = "hourly" => keysRead' \subseteq HourKeys
      <3>1. PICK old : old = {k \in Keys : k[2] < cutoff[tier]}
        OBVIOUS
      <3>2. /\ old \subseteq Sid \X Times
            /\ tier = "hourly" => old \subseteq HourKeys
        BY <3>1, KeysType
      <3>3. CASE old = {}
        <4>1. EndCompaction
          BY <1>5, <3>1, <3>3, Zenon DEF Read
        <4>. QED BY <4>1, <1>e
      <3>4. CASE old # {}
        <4>1. keysRead' = old /\ step' = "write" /\ UNCHANGED <<tier, cutoff, doomed>>
          BY <1>5, <3>1, <3>4, Zenon DEF Read
        <4>. QED BY <4>1, <3>2, <1>t
      <3>. QED BY <3>3, <3>4
    <2>. QED BY <1>5, <1>t, <1>g, <2>1, Zenon DEF Read, tables, histVars
  <1>6. CASE Write
    <2>1. hourly' \in [HourKeys -> Row] /\ daily' \in [DayKeys -> Row]
      <3>1. CASE tier = "raw"
        <4>1. BuiltIs(Hour)
          BY <1>6, <3>1 DEF Write, PassInv, Width
        <4>2. hourly' = WithBuilt(hourly) /\ daily' = daily
          BY <1>6, <3>1 DEF Write
        <4>. QED BY <3>1, <4>1, <4>2, <1>t, WrittenHourly
      <3>2. CASE tier = "hourly"
        <4>1. BuiltIs(Day)
          BY <1>6, <3>2 DEF Write, PassInv, Width
        <4>2. daily' = WithBuilt(daily) /\ hourly' = hourly
          BY <1>6, <3>2 DEF Write
        <4>3. \A j \in keysRead : Present(hourly[j])
          BY <1>6, <3>2 DEF Write, HourlyPass
        <4>. QED BY <3>2, <4>1, <4>2, <4>3, <1>t, WrittenDaily
      <3>. QED BY <3>1, <3>2, <1>t
    <2>2. step' = "list"
      BY <1>6 DEF Write
    <2>. QED BY <1>6, <1>t, <1>g, <2>1, <2>2, Zenon DEF Write, histVars
  <1>7. CASE List
    <2>1. doomed' \subseteq Sid \X Times
      BY <1>7, KeysType DEF List
    <2>2. step' = "purge"
      BY <1>7 DEF List
    <2>. QED BY <1>7, <1>t, <1>g, <2>1, <2>2, Zenon DEF List, tables, histVars
  <1>8. CASE Purge
    <2>1. PICK chunk \in SUBSET doomed :
              /\ doomed' = doomed \ chunk
              /\ IF tier = "raw"
                   THEN raw' = raw \ chunk /\ UNCHANGED hourly
                   ELSE /\ hourly' = [k \in DOMAIN hourly |->
                                         IF k \in chunk THEN NoBucket ELSE hourly[k]]
                        /\ UNCHANGED raw
      BY <1>8, Zenon DEF Purge
    <2>2. NoBucket \in Row
      BY NoBucketIsReference DEF Row
    <2>3. hourly' \in [HourKeys -> Row]
      BY <2>1, <2>2, <1>t
    <2>4. raw' \subseteq Sid \X Times /\ doomed' \subseteq Sid \X Times
      BY <2>1, <1>t
    <2>. QED BY <1>8, <1>t, <1>g, <2>3, <2>4, Zenon DEF Purge, histVars
  <1>9. CASE PurgeEnds
    <2>1. EndCompaction
      BY <1>9 DEF PurgeEnds
    <2>. QED BY <1>9, <1>t, <1>g, <1>e, <2>1 DEF PurgeEnds, tables, histVars
  <1>10. CASE StepError
    <2>1. EndCompaction
      BY <1>10 DEF StepError
    <2>. QED BY <1>10, <1>t, <1>g, <1>e, <2>1 DEF StepError, tables
  <1>11. CASE Crash
    BY <1>11, <1>t, <1>g DEF Crash, tables, Forget
  <1>12. CASE UNCHANGED vars
    BY <1>12, <1>t, <1>g, Zenon DEF vars, tables, passVars, histVars
  <1>. QED BY <1>1, <1>2, <1>3, <1>4, <1>5, <1>6, <1>7, <1>8, <1>9, <1>10, <1>11, <1>12, Zenon
           DEF Next

LEMMA MaxReadIs ==
    ASSUME keysRead \subseteq Sid \X Times, keysRead # {}
    PROVE  /\ \E k \in keysRead : MaxRead = k[2]
           /\ \A k \in keysRead : k[2] <= MaxRead
  <1> DEFINE T == {k[2] : k \in keysRead}
  <1>1. T \in SUBSET Times /\ T # {}
    OBVIOUS
  <1>2. [ts \in Times |-> ts] \in [Times -> Int]
    BY TimesAreNats
  <1>3. \E u \in T : \A w \in T : [ts \in Times |-> ts][u] >= [ts \in Times |-> ts][w]
    BY <1>1, <1>2, ExtremesExist
  <1>4. \E u \in T : \A w \in T : u >= w
    BY <1>1, <1>3
  <1>5. MaxRead \in T /\ \A w \in T : MaxRead >= w
    BY <1>4, Zenon DEF MaxRead, Latest
  <1>6. T \subseteq Nat
    BY <1>1, TimesAreNats
  <1>. QED BY <1>5, <1>6

LEMMA PassKept == ASSUME TieringTypes, PassInv, [Next]_vars PROVE PassInv'
  <1>t. /\ now \in Nat /\ cutoff.raw \in Int /\ cutoff.hourly \in Int
        /\ tier \in {"raw", "hourly"} /\ RawRetention \in Nat
        /\ HourRetention \in Nat /\ HourRetention >= RawRetention + Hour /\ Hour \in Nat
        /\ step \in {"sleep", "read", "write", "list", "purge"}
    BY TimesAreNats, TimeFacts, TieringAssumption DEF TieringTypes
  <1>i. /\ tier = "hourly" => step # "sleep"
        /\ ~Folding => keysRead = {}
        /\ step # "purge" => doomed = {}
        /\ Folding => keysRead # {} /\ \A k \in keysRead : k[2] < cutoff[tier]
        /\ cutoff.raw <= now
        /\ step # "sleep" => /\ cutoff.raw <= now - RawRetention
                             /\ cutoff.hourly + Hour <= cutoff.raw
        /\ step = "write" => BuiltIs(Width)
    BY DEF PassInv
  <1>b. UNCHANGED <<built, keysRead, tier, hourly>> => (BuiltIs(Width) => BuiltIs(Width)')
    BY ZenonT(60) DEF BuiltIs, Targets, BuilderOf, Width
  <1>1. CASE Tick
    <2>1. /\ now' = now + 1
          /\ UNCHANGED <<hourly, tier, step, cutoff, keysRead, built, doomed>>
      BY <1>1, Zenon DEF Tick, tables, passVars
    <2>. QED BY <1>t, <1>i, <1>b, <2>1 DEF PassInv, Folding
  <1>2. ASSUME NEW p, Inserted(p) PROVE PassInv'
    <2>1. UNCHANGED <<now, hourly, tier, step, cutoff, keysRead, built, doomed>>
      BY <1>2, Zenon DEF Inserted
    <2>. QED BY <1>t, <1>i, <1>b, <2>1, Zenon DEF PassInv, Folding
  <1>3. CASE StartPass
    <2>1. /\ step = "sleep" /\ step' = "read" /\ tier' = "raw"
          /\ cutoff' = [raw |-> now - RawRetention, hourly |-> now - HourRetention]
          /\ UNCHANGED <<now, keysRead, doomed>>
      BY <1>3 DEF StartPass, Idle
    <2>2. /\ cutoff'.raw = now - RawRetention /\ cutoff'.hourly = now - HourRetention
      BY <2>1
    <2>3. /\ cutoff'.raw <= now /\ cutoff'.hourly + Hour <= cutoff'.raw
          /\ cutoff'.raw <= now - RawRetention
      BY <2>2, <1>t
    <2>. QED BY <1>i, <2>1, <2>3 DEF PassInv, Folding
  <1>o. ASSUME Over, step # "sleep", UNCHANGED now PROVE PassInv'
    BY <1>o, <1>i DEF Over, PassInv, Folding
  <1>4. CASE Read
    <2>1. step = "read" /\ UNCHANGED <<now, hourly>>
      BY <1>4, ReadIs DEF tables
    <2>2. CASE Selected
      <3>1. \A k \in keysRead' : k[2] < cutoff[tier]
        BY <2>2 DEF Selected
      <3>2. BuiltIs(Width)'
        <4>1. \A s, t : BuilderOf(keysRead', s, t) = BuilderOf(keysRead, s, t)'
          BY <2>1, <2>2, Zenon DEF Selected, BuilderOf, Width
        <4>2. Targets(Width)' = {<<k[1], Floor(k[2], Width)>> : k \in keysRead'}
          BY <2>2, Zenon DEF Selected, Targets, Width
        <4>3. built' = [b \in {<<k[1], Floor(k[2], Width)>> : k \in keysRead'} |->
                            BuilderOf(keysRead', b[1], b[2])]
          BY <2>2, Zenon DEF Selected
        <4>. QED BY <4>1, <4>2, <4>3, Zenon DEF BuiltIs
      <3>3. keysRead' # {} /\ step' = "write" /\ UNCHANGED <<tier, cutoff, doomed>>
        BY <2>2, Zenon DEF Selected
      <3>. QED BY <1>i, <2>1, <3>1, <3>2, <3>3 DEF PassInv, Folding
    <2>. QED BY <1>4, <1>o, <2>1, <2>2, ReadIs
  <1>5. CASE Write \/ List \/ Purge
    <2>1. /\ step \in {"write", "list", "purge"} /\ step' \in {"list", "purge"}
          /\ step' # "purge" => UNCHANGED doomed /\ step # "purge"
          /\ UNCHANGED <<now, tier, cutoff, keysRead>>
      BY <1>5 DEF Write, List, Purge
    <2>. QED BY <1>i, <2>1 DEF PassInv, Folding
  <1>6. CASE PurgeEnds
    BY <1>6, <1>o, EndIs DEF PurgeEnds
  <1>7. CASE StepError
    BY <1>7, <1>o, EndIs DEF StepError
  <1>8. CASE Crash
    <2>1. Over /\ step # "sleep" /\ UNCHANGED now
      BY <1>8 DEF Crash, Over, Forget
    <2>. QED BY <2>1, <1>o
  <1>9. CASE UNCHANGED vars
    <2>1. UNCHANGED <<now, hourly, tier, step, cutoff, keysRead, built, doomed>>
      BY <1>9, Zenon DEF vars, tables, passVars
    <2>. QED BY <1>t, <1>i, <1>b, <2>1, Zenon DEF PassInv, Folding
  <1>. QED BY <1>1, <1>2, <1>3, <1>4, <1>5, <1>6, <1>7, <1>8, <1>9, Writes, Zenon DEF Next

LEMMA RawPassKept ==
    ASSUME TieringTypes, PassInv, RawPass, HeldInv, [Next]_vars PROVE RawPass'
  <1>t. /\ raw \subseteq Sid \X Times /\ keysRead \subseteq Sid \X Times
        /\ tier \in {"raw", "hourly"} /\ cutoff.raw \in Int
    BY DEF TieringTypes
  <1>i. /\ Exposed => /\ keysRead \subseteq raw
                      /\ \A k \in raw \ keysRead : k[2] > MaxRead \/ k \in overtaken
        /\ \A k \in keysRead : Doubled("raw", k) => InHourly(k)
        /\ tier = "raw" /\ step = "purge" => /\ keysRead \cap raw \subseteq doomed
                                             /\ doomed \subseteq raw
                                             /\ doomed \subseteq keysRead \cup overtaken
    BY DEF RawPass
  <1>m. Exposed => MaxRead \in Nat /\ MaxRead < cutoff.raw /\ cutoff.raw <= now
                   /\ \A k \in keysRead : k[2] <= MaxRead
    <2> SUFFICES ASSUME Exposed
                 PROVE  /\ MaxRead \in Nat /\ MaxRead < cutoff.raw /\ cutoff.raw <= now
                        /\ \A k \in keysRead : k[2] <= MaxRead
      OBVIOUS
    <2>1. /\ keysRead # {} /\ \A k \in keysRead : k[2] < cutoff.raw
          /\ cutoff.raw <= now
      BY DEF Exposed, PassInv, Folding
    <2>2. (\E k \in keysRead : MaxRead = k[2]) /\ \A k \in keysRead : k[2] <= MaxRead
      BY <2>1, <1>t, MaxReadIs
    <2>. QED BY <2>1, <2>2, <1>t, TimesAreNats
  <1>s. UNCHANGED <<raw, hourly, tier, step, keysRead, doomed, overtaken>> => RawPass'
    BY <1>i, Zenon DEF RawPass, Exposed, Doubled, InHourly, MaxRead
  <1>o. ASSUME keysRead' = {}, step' \in {"sleep", "read"} PROVE RawPass'
    BY <1>o DEF RawPass, Exposed
  <1>1. CASE Tick
    BY <1>1, <1>s, Zenon DEF Tick, tables, passVars, histVars
  <1>2. ASSUME NEW p \in Sid \X Times, Inserted(p) PROVE RawPass'
    <2>1. /\ p \notin written /\ raw' = raw \cup {p}
          /\ UNCHANGED <<hourly, tier, step, keysRead, doomed>>
          /\ overtaken \subseteq overtaken'
      BY <1>2, Zenon DEF Inserted
    <2>2. MaxRead' = MaxRead /\ (Exposed' <=> Exposed)
      BY <2>1, Zenon DEF MaxRead, Exposed
    <2>3. Exposed => p[2] > MaxRead \/ p \in overtaken'
      <3>1. p[2] \in Nat /\ now \in Nat
        BY TimesAreNats DEF TieringTypes
      <3>2. CASE p[2] = now
        BY <3>1, <3>2, <1>m, <1>t
      <3>3. CASE Exposed /\ p[2] <= MaxRead => p \in overtaken'
        BY <3>1, <3>3, <1>m
      <3>. QED BY <1>2, <3>2, <3>3 DEF Inserted
    <2>4. Exposed' => /\ keysRead' \subseteq raw'
                      /\ \A k \in raw' \ keysRead' : k[2] > MaxRead' \/ k \in overtaken'
      BY <1>i, <2>1, <2>2, <2>3
    <2>5. \A k \in keysRead' : Doubled("raw", k)' => InHourly(k)'
      BY <1>i, <2>1, Zenon DEF Doubled, InHourly
    <2>6. tier' = "raw" /\ step' = "purge" => p \notin keysRead
      <3>1. ASSUME tier = "raw", step = "purge", p \in keysRead PROVE p \in written
        <4>1. InHourly(p)
          BY <1>i, <3>1 DEF Doubled
        <4>2. PICK h \in Hours : p[2] \in hourly[<<p[1], h>>].from
          BY <4>1 DEF InHourly
        <4>3. <<p[1], h>> \in HourKeys /\ p = <<p[1], p[2]>>
          BY DEF HourKeys
        <4>. QED BY <4>2, <4>3 DEF HeldInv
      <3>. QED BY <3>1, <2>1
    <2>7. tier' = "raw" /\ step' = "purge" => /\ keysRead' \cap raw' \subseteq doomed'
                                             /\ doomed' \subseteq raw'
                                             /\ doomed' \subseteq keysRead' \cup overtaken'
      BY <1>i, <2>1, <2>6
    <2>. QED BY <2>4, <2>5, <2>7, Zenon DEF RawPass
  <1>3. CASE StartPass
    <2>1. keysRead = {}
      BY <1>3 DEF StartPass, Idle, PassInv, Folding
    <2>. QED BY <1>3, <1>o, <2>1 DEF StartPass
  <1>4. CASE Read
    <2>1. UNCHANGED <<raw, overtaken>>
      BY <1>4, ReadIs DEF tables, histVars
    <2>2. CASE Selected /\ tier = "raw"
      <3>1. /\ keysRead' = {k \in raw : k[2] < cutoff.raw} /\ keysRead' # {}
            /\ step' = "write" /\ tier' = "raw"
        BY <2>2 DEF Selected, Keys
      <3>2. MaxRead' = Latest({k[2] : k \in keysRead'})
        BY Zenon DEF MaxRead
      <3>3. MaxRead' \in Nat /\ MaxRead' < cutoff.raw
        <4>1. (keysRead \subseteq Sid \X Times /\ keysRead # {} =>
                  (\E k \in keysRead : MaxRead = k[2]))'
          BY MaxReadIs, PTL
        <4>2. keysRead' \subseteq Sid \X Times
          BY <3>1, <1>t
        <4>3. \E k \in keysRead' : MaxRead' = k[2]
          BY <4>1, <4>2, <3>1 DEF Times
        <4>. QED BY <4>2, <4>3, <3>1, TimesAreNats
      <3>4. \A k \in raw' \ keysRead' : k[2] > MaxRead'
        <4>1. \A k \in raw : k[2] \in Nat
          BY <1>t, TimesAreNats
        <4>. QED BY <4>1, <3>1, <3>3, <2>1, <1>t
      <3>5. keysRead' \subseteq raw'
        BY <3>1, <2>1
      <3>. QED BY <3>1, <3>4, <3>5, Zenon DEF RawPass, Doubled
    <2>3. CASE Selected /\ tier = "hourly"
      BY <2>3 DEF Selected, RawPass, Exposed, Doubled
    <2>. QED BY <1>4, <1>o, <1>t, <2>2, <2>3, ReadIs DEF Over
  <1>5. CASE Write
    <2>1. /\ step = "write" /\ step' = "list"
          /\ UNCHANGED <<raw, tier, keysRead, doomed, overtaken>>
      BY <1>5 DEF Write, histVars
    <2>2. CASE tier = "hourly"
      BY <2>1, <2>2 DEF RawPass, Exposed, Doubled
    <2>3. CASE tier = "raw"
      <3>1. BuiltIs(Hour) /\ hourly' = WithBuilt(hourly)
        BY <1>5, <2>3 DEF Write, PassInv, Width
      <3>2. ASSUME NEW k \in keysRead PROVE InHourly(k)'
        <4>1. /\ k = <<k[1], k[2]>> /\ k[1] \in Sid /\ Floor(k[2], Hour) \in Hours
              /\ <<k[1], Floor(k[2], Hour)>> \in HourKeys
          BY <1>t, TimeFacts DEF HourKeys
        <4>2. k[2] \in Starts(keysRead, k[1], Floor(k[2], Hour), Hour)
          BY DEF Starts
        <4>3. k[2] \in hourly'[<<k[1], Floor(k[2], Hour)>>].from
          BY <2>3, <3>1, <4>1, <4>2, WrittenHourly
        <4>. QED BY <4>1, <4>3, Zenon DEF InHourly, Hours, Times
      <3>3. MaxRead' = MaxRead /\ Exposed /\ Exposed'
        BY <2>1, <2>3, Zenon DEF MaxRead, Exposed
      <3>. QED BY <1>i, <2>1, <3>2, <3>3 DEF RawPass
    <2>. QED BY <1>t, <2>2, <2>3
  <1>6. CASE List
    <2>1. /\ step = "list" /\ step' = "purge" /\ doomed' = {k \in Keys : k[2] < MaxRead + 1}
          /\ UNCHANGED <<raw, hourly, tier, keysRead, overtaken>>
      BY <1>6, Zenon DEF List, tables, histVars
    <2>2. \A k \in keysRead : Doubled("raw", k)' => InHourly(k)'
      <3>1. \A k \in keysRead : Doubled("raw", k)' => Doubled("raw", k)
        BY <2>1 DEF Doubled
      <3>2. \A k : InHourly(k)' <=> InHourly(k)
        BY <2>1, Zenon DEF InHourly
      <3>. QED BY <3>1, <3>2, <1>i
    <2>3. ASSUME tier = "raw" PROVE /\ keysRead \cap raw \subseteq doomed'
                                   /\ doomed' \subseteq raw
                                   /\ doomed' \subseteq keysRead \cup overtaken
      <3>1. Exposed /\ Keys = raw
        BY <2>1, <2>3 DEF Exposed, Keys
      <3>2. \A k \in raw : k[2] \in Nat
        BY <1>t, TimesAreNats
      <3>. QED BY <1>i, <1>m, <2>1, <3>1, <3>2
    <2>4. ~Exposed'
      BY <2>1 DEF Exposed
    <2>. QED BY <2>1, <2>2, <2>3, <2>4, Zenon DEF RawPass
  <1>7. CASE Purge
    <2>1. /\ step = "purge" /\ UNCHANGED <<tier, step, keysRead, overtaken>>
      BY <1>7, Zenon DEF Purge, histVars
    <2>2. CASE tier = "hourly"
      BY <2>1, <2>2 DEF RawPass, Exposed, Doubled
    <2>3. CASE tier = "raw"
      <3>1. PICK chunk \in SUBSET doomed : doomed' = doomed \ chunk /\ raw' = raw \ chunk
        BY <1>7, <2>3 DEF Purge
      <3>2. hourly' = hourly
        BY <1>7, <2>3 DEF Purge
      <3>3. \A k : (InHourly(k)' <=> InHourly(k)) /\ (Doubled("raw", k)' <=> Doubled("raw", k))
        BY <2>1, <3>2, Zenon DEF InHourly, Doubled
      <3>4. ~Exposed'
        BY <2>1 DEF Exposed
      <3>5. /\ keysRead \cap raw' \subseteq doomed' /\ doomed' \subseteq raw'
            /\ doomed' \subseteq keysRead \cup overtaken
        BY <1>i, <2>1, <2>3, <3>1
      <3>. QED BY <1>i, <2>1, <3>3, <3>4, <3>5, Zenon DEF RawPass
    <2>. QED BY <1>t, <2>2, <2>3
  <1>8. CASE PurgeEnds \/ StepError
    <2>1. Over
      BY <1>8, EndIs DEF PurgeEnds, StepError
    <2>. QED BY <2>1, <1>o DEF Over
  <1>9. CASE Crash
    BY <1>9, <1>o DEF Crash, Forget
  <1>10. CASE UNCHANGED vars
    BY <1>10, <1>s, Zenon DEF vars, tables, passVars, histVars
  <1>. QED BY <1>1, <1>2, <1>3, <1>4, <1>5, <1>6, <1>7, <1>8, <1>9, <1>10, Writes, Zenon DEF Next

LEMMA HourlyPassKept ==
    ASSUME TieringTypes, PassInv, HourlyPass, [Next]_vars PROVE HourlyPass'
  <1>t. /\ hourly \in [HourKeys -> Row] /\ daily \in [DayKeys -> Row]
        /\ tier \in {"raw", "hourly"} /\ cutoff.hourly \in Int
        /\ keysRead \subseteq Sid \X Times /\ (tier = "hourly" => keysRead \subseteq HourKeys)
    BY DEF TieringTypes
  <1>i. tier = "hourly" =>
        /\ step \in {"write", "list"} =>
               keysRead = {k \in HourKeys : Present(hourly[k]) /\ k[2] < cutoff.hourly}
        /\ step = "purge" => doomed = {k \in keysRead : Present(hourly[k])}
        /\ \A k \in keysRead :
               Doubled("hourly", k) => hourly[k].from \subseteq daily[<<k[1], Floor(k[2], Day)>>].from
    BY DEF HourlyPass
  <1>k. HourKeys' = HourKeys /\ \A k : Floor(k, Day)' = Floor(k, Day)
    BY DEF HourKeys, Hours, Times
  <1>s. UNCHANGED <<hourly, daily, tier, step, cutoff, keysRead, doomed>> => HourlyPass'
    BY <1>i, <1>k, Zenon DEF HourlyPass, Doubled
  <1>o. ASSUME keysRead' = {}, step' \in {"sleep", "read"} PROVE HourlyPass'
    BY <1>o DEF HourlyPass
  <1>r. tier' = "raw" => HourlyPass'
    BY DEF HourlyPass
  <1>1. CASE Tick
    BY <1>1, <1>s, Zenon DEF Tick, tables, passVars
  <1>2. ASSUME NEW p \in Sid \X Times, Inserted(p) PROVE HourlyPass'
    BY <1>2, <1>s, Zenon DEF Inserted
  <1>3. CASE StartPass
    BY <1>3, <1>r DEF StartPass
  <1>4. CASE Read
    <2>1. UNCHANGED <<hourly, daily>>
      BY <1>4, ReadIs DEF tables
    <2>2. CASE Selected /\ tier = "hourly"
      <3>1. /\ keysRead' = {k \in HourKeys : Present(hourly[k]) /\ k[2] < cutoff.hourly}
            /\ step' = "write" /\ tier' = "hourly" /\ cutoff' = cutoff
        BY <2>2 DEF Selected, Keys, HourKeys
      <3>. QED BY <2>1, <3>1, <1>k, Zenon DEF HourlyPass, Doubled
    <2>3. CASE Selected /\ tier = "raw"
      BY <2>3, <1>r DEF Selected
    <2>. QED BY <1>4, <1>o, <1>t, <2>2, <2>3, ReadIs DEF Over
  <1>5. CASE Write
    <2>1. /\ step = "write" /\ step' = "list"
          /\ UNCHANGED <<tier, cutoff, keysRead, doomed>>
      BY <1>5 DEF Write
    <2>2. CASE tier = "raw"
      BY <2>1, <2>2, <1>r
    <2>3. CASE tier = "hourly"
      <3>1. BuiltIs(Day) /\ daily' = WithBuilt(daily) /\ hourly' = hourly
        BY <1>5, <2>3 DEF Write, PassInv, Width
      <3>2. /\ \A j \in keysRead : Present(hourly[j])
            /\ keysRead \subseteq HourKeys
        BY <1>i, <2>1, <2>3
      <3>3. ASSUME NEW k \in keysRead
            PROVE  hourly[k].from \subseteq daily'[<<k[1], Floor(k[2], Day)>>].from
        <4>1. PICK d : d = <<k[1], Floor(k[2], Day)>>
          OBVIOUS
        <4>2. d \in DayKeys /\ d[1] = k[1] /\ d[2] = Floor(k[2], Day)
          BY <3>2, <4>1, TimeFacts DEF DayKeys, HourKeys
        <4>3. daily'[d].from = daily[d].from \cup OfDay(d)
          BY <2>3, <3>1, <3>2, <4>2, WrittenDaily
        <4>4. \A u \in hourly[k].from : u \in OfDay(d)
          BY <3>2, <4>2, OfDayIs
        <4>. QED BY <4>1, <4>3, <4>4
      <3>. QED BY <1>i, <1>k, <2>1, <2>3, <3>1, <3>3 DEF HourlyPass
    <2>. QED BY <1>t, <2>2, <2>3
  <1>6. CASE List
    <2>1. /\ step = "list" /\ step' = "purge" /\ doomed' = {k \in Keys : k[2] < MaxRead + 1}
          /\ UNCHANGED <<hourly, daily, tier, cutoff, keysRead>>
      BY <1>6, Zenon DEF List, tables
    <2>2. CASE tier = "raw"
      BY <2>1, <2>2, <1>r
    <2>3. CASE tier = "hourly"
      <3>1. Keys = {k \in HourKeys : Present(hourly[k])}
        BY <2>3 DEF Keys, HourKeys
      <3>2. /\ keysRead = {k \in HourKeys : Present(hourly[k]) /\ k[2] < cutoff.hourly}
            /\ keysRead # {}
        BY <1>i, <2>1, <2>3 DEF PassInv, Folding
      <3>3. (\E k \in keysRead : MaxRead = k[2]) /\ \A k \in keysRead : k[2] <= MaxRead
        BY <1>t, <3>2, MaxReadIs
      <3>4. MaxRead < cutoff.hourly /\ MaxRead \in Nat
        BY <3>2, <3>3, <1>t, TimesAreNats
      <3>5. \A k \in HourKeys : k[2] \in Nat
        BY TimeFacts, TimesAreNats DEF HourKeys
      <3>6. doomed' = {k \in keysRead : Present(hourly[k])}
        <4>1. ASSUME NEW k \in HourKeys, Present(hourly[k]), k[2] < MaxRead + 1
              PROVE  k \in keysRead
          BY <4>1, <3>2, <3>4, <3>5, <1>t
        <4>2. ASSUME NEW k \in keysRead PROVE k \in HourKeys /\ k[2] < MaxRead + 1
          BY <4>2, <3>2, <3>3, <3>4, <3>5
        <4>. QED BY <2>1, <3>1, <4>1, <4>2
      <3>7. \A k : Doubled("hourly", k)' <=> Doubled("hourly", k)
        BY <2>1 DEF Doubled
      <3>. QED BY <1>i, <1>k, <2>1, <2>3, <3>6, <3>7, Zenon DEF HourlyPass
    <2>. QED BY <1>t, <2>2, <2>3
  <1>7. CASE Purge
    <2>1. /\ step = "purge" /\ UNCHANGED <<daily, tier, step, cutoff, keysRead>>
      BY <1>7, Zenon DEF Purge
    <2>2. CASE tier = "raw"
      BY <2>1, <2>2, <1>r
    <2>3. CASE tier = "hourly"
      <3>1. PICK chunk \in SUBSET doomed :
                /\ doomed' = doomed \ chunk
                /\ hourly' = [k \in DOMAIN hourly |-> IF k \in chunk THEN NoBucket ELSE hourly[k]]
        BY <1>7, <2>3 DEF Purge
      <3>2. NoBucket.from = {} /\ ~Present(NoBucket)
        BY NoBucketIsReference DEF Present
      <3>3. \A k \in HourKeys : hourly'[k] = IF k \in chunk THEN NoBucket ELSE hourly[k]
        BY <3>1, <1>t
      <3>4. keysRead \subseteq HourKeys
        BY <1>t, <2>3
      <3>5. doomed' = {k \in keysRead : Present(hourly'[k])}
        BY <1>i, <2>1, <2>3, <3>1, <3>2, <3>3, <3>4
      <3>6. \A k \in keysRead : hourly'[k].from \subseteq hourly[k].from
        BY <3>2, <3>3, <3>4
      <3>7. \A k : Doubled("hourly", k)' <=> Doubled("hourly", k)
        BY <2>1 DEF Doubled
      <3>8. \A k \in keysRead : Doubled("hourly", k)' =>
                hourly'[k].from \subseteq daily[<<k[1], Floor(k[2], Day)>>].from
        BY <1>i, <2>3, <3>6, <3>7
      <3>. QED BY <1>k, <2>1, <2>3, <3>5, <3>8 DEF HourlyPass
    <2>. QED BY <1>t, <2>2, <2>3
  <1>8. CASE PurgeEnds \/ StepError
    <2>1. Over
      BY <1>8, EndIs DEF PurgeEnds, StepError
    <2>. QED BY <2>1, <1>o DEF Over
  <1>9. CASE Crash
    BY <1>9, <1>o DEF Crash, Forget
  <1>10. CASE UNCHANGED vars
    BY <1>10, <1>s, Zenon DEF vars, tables, passVars
  <1>. QED BY <1>1, <1>2, <1>3, <1>4, <1>5, <1>6, <1>7, <1>8, <1>9, <1>10, Writes, Zenon DEF Next

(* What the steps that change a table do to the points it accounts for.    *)
LEMMA KeyFacts ==
    ASSUME TieringTypes
    PROVE  /\ \A k \in HourKeys : /\ k = <<k[1], k[2]>> /\ k[1] \in Sid /\ k[2] \in Hours
                                  /\ k[2] \in Nat /\ hourly[k] \in Row
                                  /\ hourly[k].from \subseteq Nat
                                  /\ Present(hourly[k]) <=> hourly[k].from # {}
           /\ \A k \in DayKeys : /\ k = <<k[1], k[2]>> /\ k[1] \in Sid /\ k[2] \in Days
                                 /\ k[2] \in Nat /\ daily[k] \in Row
                                 /\ daily[k].from \subseteq Nat
           /\ \A q \in Sid \X Times : q = <<q[1], q[2]>> /\ q[1] \in Sid /\ q[2] \in Nat
  <1>1. Hours \subseteq Nat /\ Days \subseteq Nat /\ Times \subseteq Nat
    BY TimeFacts, TimesAreNats
  <1>2. \A r \in Row : r.from \subseteq Nat /\ (Present(r) <=> r.from # {})
    BY <1>1 DEF Row, AnyRow, Present
  <1>3. hourly \in [HourKeys -> Row] /\ daily \in [DayKeys -> Row]
    BY DEF TieringTypes
  <1>4. ASSUME NEW k \in HourKeys
        PROVE  /\ k = <<k[1], k[2]>> /\ k[1] \in Sid /\ k[2] \in Hours /\ k[2] \in Nat
               /\ hourly[k] \in Row
    <2>1. hourly[k] \in Row
      BY <1>3
    <2>2. k = <<k[1], k[2]>> /\ k[1] \in Sid /\ k[2] \in Hours
      BY DEF HourKeys
    <2>. QED BY <1>1, <2>1, <2>2
  <1>5. ASSUME NEW k \in DayKeys
        PROVE  /\ k = <<k[1], k[2]>> /\ k[1] \in Sid /\ k[2] \in Days /\ k[2] \in Nat
               /\ daily[k] \in Row
    <2>1. daily[k] \in Row
      BY <1>3
    <2>2. k = <<k[1], k[2]>> /\ k[1] \in Sid /\ k[2] \in Days
      BY DEF DayKeys
    <2>. QED BY <1>1, <2>1, <2>2
  <1>. QED BY <1>1, <1>2, <1>4, <1>5

LEMMA RawWrite ==
    ASSUME TieringTypes, PassInv, RawPass, Write, tier = "raw"
    PROVE  /\ step = "write" /\ step' = "list" /\ hourly' = WithBuilt(hourly) /\ BuiltIs(Hour)
           /\ UNCHANGED <<now, raw, daily, tier, cutoff, keysRead, doomed,
                          written, late, overtaken, cut>>
           /\ keysRead \subseteq raw /\ \A q \in keysRead : q[2] < cutoff.raw
           /\ \A k \in HourKeys : \A u : u \in hourly'[k].from <=>
                  \/ u \in hourly[k].from
                  \/ <<k[1], u>> \in keysRead /\ Floor(u, Hour) = k[2]
  <1>1. /\ step = "write" /\ step' = "list" /\ hourly' = WithBuilt(hourly)
        /\ UNCHANGED <<now, raw, daily, tier, cutoff, keysRead, doomed,
                       written, late, overtaken, cut>>
    BY DEF Write, histVars
  <1>2. BuiltIs(Hour) /\ \A q \in keysRead : q[2] < cutoff.raw
    BY <1>1 DEF PassInv, Folding, Width
  <1>3. keysRead \subseteq raw
    BY <1>1 DEF RawPass, Exposed
  <1>4. \A k \in HourKeys : hourly'[k].from = hourly[k].from \cup Starts(keysRead, k[1], k[2], Hour)
    BY <1>1, <1>2, WrittenHourly
  <1>5. \A q \in keysRead : q = <<q[1], q[2]>>
    BY DEF TieringTypes
  <1>6. \A k, u : u \in Starts(keysRead, k[1], k[2], Hour) <=>
                      <<k[1], u>> \in keysRead /\ Floor(u, Hour) = k[2]
    BY <1>5 DEF Starts
  <1>. QED BY <1>1, <1>2, <1>3, <1>4, <1>6

LEMMA HourlyWrite ==
    ASSUME TieringTypes, PassInv, HourlyPass, Write, tier = "hourly"
    PROVE  /\ step = "write" /\ step' = "list" /\ daily' = WithBuilt(daily) /\ BuiltIs(Day)
           /\ UNCHANGED <<now, raw, hourly, tier, cutoff, keysRead, doomed,
                          written, late, overtaken, cut>>
           /\ keysRead = {k \in HourKeys : Present(hourly[k]) /\ k[2] < cutoff.hourly}
           /\ \A k \in DayKeys : \A u : u \in daily'[k].from <=>
                  \/ u \in daily[k].from
                  \/ \E j \in keysRead : j[1] = k[1] /\ Floor(j[2], Day) = k[2]
                                         /\ u \in hourly[j].from
  <1>1. /\ step = "write" /\ step' = "list" /\ daily' = WithBuilt(daily)
        /\ UNCHANGED <<now, raw, hourly, tier, cutoff, keysRead, doomed,
                       written, late, overtaken, cut>>
    BY DEF Write, histVars
  <1>2. BuiltIs(Day)
    BY <1>1 DEF PassInv, Width
  <1>3. keysRead = {k \in HourKeys : Present(hourly[k]) /\ k[2] < cutoff.hourly}
    BY <1>1 DEF HourlyPass
  <1>4. keysRead \subseteq HourKeys /\ \A j \in keysRead : Present(hourly[j])
    BY <1>3
  <1>5. \A k \in DayKeys : daily'[k].from = daily[k].from \cup OfDay(k)
    BY <1>1, <1>2, <1>4, WrittenDaily
  <1>6. ASSUME NEW k \in DayKeys, NEW u
        PROVE  u \in daily'[k].from <=>
                  \/ u \in daily[k].from
                  \/ \E j \in keysRead : j[1] = k[1] /\ Floor(j[2], Day) = k[2]
                                         /\ u \in hourly[j].from
    <2>1. u \in OfDay(k) <=>
             \E j \in keysRead : j[1] = k[1] /\ Floor(j[2], Day) = k[2] /\ u \in hourly[j].from
      BY <1>4, OfDayIs
    <2>. QED BY <1>5, <2>1
  <1>. QED BY <1>1, <1>2, <1>3, <1>6

LEMMA RawPurge ==
    ASSUME RawPass, Purge, tier = "raw"
    PROVE  /\ step = "purge" /\ UNCHANGED <<now, hourly, daily, tier, step, cutoff, keysRead,
                                            written, late, overtaken, cut>>
           /\ raw' \subseteq raw
           /\ \A q \in raw \ raw' : q \in overtaken \/ InHourly(q)
  <1>1. /\ step = "purge" /\ UNCHANGED <<now, hourly, daily, tier, step, cutoff, keysRead,
                                         written, late, overtaken, cut>>
    BY DEF Purge, histVars
  <1>2. PICK chunk \in SUBSET doomed : raw' = raw \ chunk
    BY DEF Purge
  <1>3. doomed \subseteq keysRead \cup overtaken /\ \A k \in keysRead : InHourly(k)
    BY <1>1 DEF RawPass, Doubled
  <1>. QED BY <1>1, <1>2, <1>3

LEMMA HourlyPurge ==
    ASSUME TieringTypes, HourlyPass, Purge, tier = "hourly"
    PROVE  /\ step = "purge" /\ UNCHANGED <<now, raw, daily, tier, step, cutoff, keysRead,
                                            written, late, overtaken, cut>>
           /\ \A k \in HourKeys :
                 \/ hourly'[k] = hourly[k]
                 \/ /\ hourly'[k] = NoBucket
                    /\ <<k[1], Floor(k[2], Day)>> \in DayKeys
                    /\ hourly[k].from \subseteq daily[<<k[1], Floor(k[2], Day)>>].from
  <1>1. /\ step = "purge" /\ UNCHANGED <<now, raw, daily, tier, step, cutoff, keysRead,
                                         written, late, overtaken, cut>>
    BY DEF Purge, histVars
  <1>2. PICK chunk \in SUBSET doomed :
            hourly' = [k \in DOMAIN hourly |-> IF k \in chunk THEN NoBucket ELSE hourly[k]]
    BY DEF Purge
  <1>3. DOMAIN hourly = HourKeys
    BY DEF TieringTypes
  <1>4. \A k \in doomed : k \in keysRead /\ Doubled("hourly", k)
    BY <1>1 DEF HourlyPass, Doubled
  <1>5. ASSUME NEW k \in HourKeys, k \in chunk
        PROVE  /\ hourly'[k] = NoBucket
               /\ <<k[1], Floor(k[2], Day)>> \in DayKeys
               /\ hourly[k].from \subseteq daily[<<k[1], Floor(k[2], Day)>>].from
    <2>1. hourly'[k] = NoBucket
      BY <1>2, <1>3, <1>5
    <2>2. hourly[k].from \subseteq daily[<<k[1], Floor(k[2], Day)>>].from
      BY <1>4, <1>5 DEF HourlyPass
    <2>3. <<k[1], Floor(k[2], Day)>> \in DayKeys
      BY TimeFacts DEF DayKeys, HourKeys
    <2>. QED BY <2>1, <2>2, <2>3
  <1>6. ASSUME NEW k \in HourKeys, k \notin chunk PROVE hourly'[k] = hourly[k]
    BY <1>2, <1>3, <1>6
  <1>. QED BY <1>1, <1>5, <1>6

(* The steps that leave the points where they are.                         *)
Steady == /\ UNCHANGED <<raw, hourly, daily, written, overtaken, late>>
          /\ now' \in Nat /\ now <= now'

LEMMA SteadySteps ==
    ASSUME TieringTypes,
           Tick \/ StartPass \/ Read \/ List \/ PurgeEnds \/ StepError \/ Crash \/ UNCHANGED vars
    PROVE  Steady
  <1>0. now \in Nat
    BY TimesAreNats DEF TieringTypes
  <1>1. CASE Tick
    BY <1>0, <1>1 DEF Tick, tables, histVars, Steady
  <1>2. CASE StartPass \/ Read \/ List \/ PurgeEnds \/ StepError \/ Crash \/ UNCHANGED vars
    <2>1. UNCHANGED <<now, raw, hourly, daily, written, overtaken, late>>
      BY <1>2 DEF StartPass, Read, List, PurgeEnds, StepError, Crash, vars, tables, histVars
    <2>. QED BY <1>0, <2>1 DEF Steady
  <1>. QED BY <1>1, <1>2

LEMMA HeldKept ==
    ASSUME TieringTypes, PassInv, RawPass, HourlyPass, HeldInv, [Next]_vars PROVE HeldInv'
  <1>t. /\ now \in Nat /\ RawRetention \in Nat /\ Hour \in Nat \ {0} /\ Day \in Nat \ {0}
        /\ cutoff.raw \in Int /\ keysRead \subseteq Sid \X Times /\ tier \in {"raw", "hourly"}
    BY TimesAreNats, TimeFacts, TieringAssumption DEF TieringTypes
  <1>i. /\ raw \subseteq written
        /\ \A k \in HourKeys : \A ts \in hourly[k].from :
               <<k[1], ts>> \in written /\ k[2] <= ts /\ ts < k[2] + Hour /\ ts < now - RawRetention
        /\ \A k \in DayKeys : \A ts \in daily[k].from :
               <<k[1], ts>> \in written /\ k[2] <= ts /\ ts < k[2] + Day /\ ts < now - RawRetention
        /\ \A p \in written : p \in raw \/ InHourly(p) \/ InDaily(p) \/ p \in overtaken
    BY DEF HeldInv
  <1>k. HourKeys' = HourKeys /\ DayKeys' = DayKeys
    BY DEF HourKeys, DayKeys, Hours, Days, Times
  <1>g. ASSUME NEW grown, written' = written \cup grown, grown \subseteq raw',
               raw' = raw \cup grown, UNCHANGED <<hourly, daily>>,
               overtaken \subseteq overtaken', now' \in Nat, now <= now'
        PROVE  HeldInv'
    <2>1. \A p : (InHourly(p)' <=> InHourly(p)) /\ (InDaily(p)' <=> InDaily(p))
      BY <1>g, Zenon DEF InHourly, InDaily
    <2>2. \A p \in written' : p \in raw' \/ InHourly(p)' \/ InDaily(p)' \/ p \in overtaken'
      BY <1>i, <1>g, <2>1
    <2>3. \A k \in HourKeys : \A ts \in hourly'[k].from :
              <<k[1], ts>> \in written' /\ k[2] <= ts /\ ts < k[2] + Hour /\ ts < now' - RawRetention
      <3> TAKE k \in HourKeys
      <3> TAKE ts \in hourly'[k].from
      <3>1. ts \in hourly[k].from /\ ts \in Nat
        BY <1>g, KeyFacts
      <3>2. <<k[1], ts>> \in written /\ k[2] <= ts /\ ts < k[2] + Hour /\ ts < now - RawRetention
        BY <1>i, <3>1
      <3>3. ts < now' - RawRetention
        BY <1>g, <1>t, <3>1, <3>2
      <3>. QED BY <1>g, <3>2, <3>3
    <2>4. \A k \in DayKeys : \A ts \in daily'[k].from :
              <<k[1], ts>> \in written' /\ k[2] <= ts /\ ts < k[2] + Day /\ ts < now' - RawRetention
      <3> TAKE k \in DayKeys
      <3> TAKE ts \in daily'[k].from
      <3>1. ts \in daily[k].from /\ ts \in Nat
        BY <1>g, KeyFacts
      <3>2. <<k[1], ts>> \in written /\ k[2] <= ts /\ ts < k[2] + Day /\ ts < now - RawRetention
        BY <1>i, <3>1
      <3>3. ts < now' - RawRetention
        BY <1>g, <1>t, <3>1, <3>2
      <3>. QED BY <1>g, <3>2, <3>3
    <2>5. raw' \subseteq written'
      BY <1>i, <1>g
    <2>. QED BY <1>k, <2>2, <2>3, <2>4, <2>5, Zenon DEF HeldInv
  <1>1. ASSUME Steady PROVE HeldInv'
    <2>0. PICK none : none = {}
      OBVIOUS
    <2>1. /\ written' = written \cup none /\ raw' = raw \cup none /\ none \subseteq raw'
          /\ UNCHANGED <<hourly, daily>> /\ overtaken \subseteq overtaken'
          /\ now' \in Nat /\ now <= now'
      BY <1>1, <2>0 DEF Steady
    <2>. QED BY <2>1, <1>g
  <1>2. ASSUME NEW p \in Sid \X Times, Inserted(p) PROVE HeldInv'
    <2>1. /\ written' = written \cup {p} /\ raw' = raw \cup {p} /\ {p} \subseteq raw'
          /\ UNCHANGED <<hourly, daily>> /\ overtaken \subseteq overtaken'
          /\ now' \in Nat /\ now <= now'
      BY <1>2, <1>t DEF Inserted
    <2>. QED BY <2>1, <1>g
  <1>3. CASE Write /\ tier = "raw"
    <2>1. /\ step = "write" /\ UNCHANGED <<now, raw, daily, written, overtaken>>
          /\ keysRead \subseteq raw /\ \A q \in keysRead : q[2] < cutoff.raw
          /\ \A k \in HourKeys : \A u : u \in hourly'[k].from <=>
                  \/ u \in hourly[k].from
                  \/ <<k[1], u>> \in keysRead /\ Floor(u, Hour) = k[2]
      BY <1>3, RawWrite
    <2>2. cutoff.raw <= now - RawRetention
      BY <2>1 DEF PassInv
    <2>3. ASSUME NEW k \in HourKeys, NEW ts \in hourly'[k].from
          PROVE  <<k[1], ts>> \in written /\ k[2] <= ts /\ ts < k[2] + Hour /\ ts < now - RawRetention
      <3>1. CASE ts \in hourly[k].from
        BY <1>i, <3>1
      <3>2. CASE <<k[1], ts>> \in keysRead /\ Floor(ts, Hour) = k[2]
        <4>1. ts \in Nat
          BY <3>2, <1>t, TimesAreNats
        <4>2. k[2] <= ts /\ ts < k[2] + Hour
          BY <3>2, <4>1, <1>t, FloorFacts
        <4>3. ts < cutoff.raw /\ <<k[1], ts>> \in written
          BY <2>1, <3>2, <1>i
        <4>. QED BY <4>1, <4>2, <4>3, <2>2, <1>t
      <3>. QED BY <2>1, <3>1, <3>2
    <2>4. ASSUME NEW p \in written PROVE p \in raw' \/ InHourly(p)' \/ InDaily(p)' \/ p \in overtaken'
      <3>1. InHourly(p) => InHourly(p)'
        <4>1. ASSUME NEW h \in Hours, p[2] \in hourly[<<p[1], h>>].from
              PROVE  p[2] \in hourly'[<<p[1], h>>].from
          <5>1. <<p[1], h>> \in HourKeys
            BY <4>1 DEF HourKeys, TieringTypes
          <5>. QED BY <2>1, <4>1, <5>1
        <4>. QED BY <4>1, Zenon DEF InHourly, Hours, Times
      <3>2. InDaily(p)' <=> InDaily(p)
        BY <2>1, Zenon DEF InDaily
      <3>. QED BY <1>i, <2>1, <3>1, <3>2
    <2>. QED BY <1>i, <1>k, <2>1, <2>3, <2>4 DEF HeldInv
  <1>4. CASE Write /\ tier = "hourly"
    <2>1. /\ UNCHANGED <<now, raw, hourly, written, overtaken>>
          /\ keysRead \subseteq HourKeys
          /\ \A k \in DayKeys : \A u : u \in daily'[k].from <=>
                  \/ u \in daily[k].from
                  \/ \E j \in keysRead : j[1] = k[1] /\ Floor(j[2], Day) = k[2]
                                         /\ u \in hourly[j].from
      BY <1>4, HourlyWrite
    <2>3. ASSUME NEW k \in DayKeys, NEW ts \in daily'[k].from
          PROVE  <<k[1], ts>> \in written /\ k[2] <= ts /\ ts < k[2] + Day /\ ts < now - RawRetention
      <3>1. CASE ts \in daily[k].from
        BY <1>i, <3>1
      <3>2. ASSUME NEW j \in keysRead, j[1] = k[1], Floor(j[2], Day) = k[2], ts \in hourly[j].from
            PROVE <<k[1], ts>> \in written /\ k[2] <= ts /\ ts < k[2] + Day /\ ts < now - RawRetention
        <4>1. j \in HourKeys /\ j[2] \in Nat /\ j[2] \in Hours /\ ts \in Nat
          BY <2>1, <3>2, KeyFacts
        <4>2. <<k[1], ts>> \in written /\ j[2] <= ts /\ ts < j[2] + Hour /\ ts < now - RawRetention
          BY <1>i, <3>2, <4>1
        <4>3. k[2] <= j[2] /\ k[2] \in Nat
          BY <3>2, <4>1, <1>t, FloorFacts
        <4>4. k[2] + Day >= j[2] + Hour
          <5>1. Floor(j[2], Hour) = j[2]
            BY <4>1, TimeFacts
          <5>. QED BY <3>2, <4>1, <5>1, HoursOfDays
        <4>. QED BY <4>1, <4>2, <4>3, <4>4, <1>t
      <3>. QED BY <2>1, <3>1, <3>2
    <2>4. ASSUME NEW p \in written PROVE p \in raw' \/ InHourly(p)' \/ InDaily(p)' \/ p \in overtaken'
      <3>1. InDaily(p) => InDaily(p)'
        <4>1. ASSUME NEW d \in Days, p[2] \in daily[<<p[1], d>>].from
              PROVE  p[2] \in daily'[<<p[1], d>>].from
          <5>1. <<p[1], d>> \in DayKeys
            BY <4>1 DEF DayKeys, TieringTypes
          <5>. QED BY <2>1, <4>1, <5>1
        <4>. QED BY <4>1, Zenon DEF InDaily, Days, Times
      <3>2. InHourly(p)' <=> InHourly(p)
        BY <2>1, Zenon DEF InHourly
      <3>. QED BY <1>i, <2>1, <3>1, <3>2
    <2>. QED BY <1>i, <1>k, <2>1, <2>3, <2>4 DEF HeldInv
  <1>5. CASE Purge /\ tier = "raw"
    <2>1. /\ UNCHANGED <<now, hourly, daily, written, overtaken>> /\ raw' \subseteq raw
          /\ \A q \in raw \ raw' : q \in overtaken \/ InHourly(q)
      BY <1>5, RawPurge
    <2>2. \A p : (InHourly(p)' <=> InHourly(p)) /\ (InDaily(p)' <=> InDaily(p))
      BY <2>1, Zenon DEF InHourly, InDaily
    <2>3. \A p \in written : p \in raw' \/ InHourly(p)' \/ InDaily(p)' \/ p \in overtaken'
      BY <1>i, <2>1, <2>2
    <2>. QED BY <1>i, <1>k, <2>1, <2>3 DEF HeldInv
  <1>6. CASE Purge /\ tier = "hourly"
    <2>1. /\ UNCHANGED <<now, raw, daily, written, overtaken>>
          /\ \A k \in HourKeys :
                 \/ hourly'[k] = hourly[k]
                 \/ /\ hourly'[k] = NoBucket
                    /\ <<k[1], Floor(k[2], Day)>> \in DayKeys
                    /\ hourly[k].from \subseteq daily[<<k[1], Floor(k[2], Day)>>].from
      BY <1>6, HourlyPurge
    <2>2. \A k \in HourKeys : hourly'[k].from \subseteq hourly[k].from
      BY <2>1, NoBucketIsReference
    <2>3. ASSUME NEW p \in written PROVE p \in raw' \/ InHourly(p)' \/ InDaily(p)' \/ p \in overtaken'
      <3>1. InDaily(p)' <=> InDaily(p)
        BY <2>1, Zenon DEF InDaily
      <3>2. ASSUME NEW h \in Hours, p[2] \in hourly[<<p[1], h>>].from
            PROVE  InHourly(p)' \/ InDaily(p)
        <4>1. <<p[1], h>> \in HourKeys
          BY <3>2 DEF HourKeys, TieringTypes
        <4>2. CASE hourly'[<<p[1], h>>] = hourly[<<p[1], h>>]
          BY <3>2, <4>2, Zenon DEF InHourly, Hours, Times
        <4>3. CASE /\ <<p[1], Floor(h, Day)>> \in DayKeys
                   /\ hourly[<<p[1], h>>].from \subseteq daily[<<p[1], Floor(h, Day)>>].from
          <5>1. Floor(h, Day) \in Days
            BY <4>3 DEF DayKeys
          <5>. QED BY <3>2, <4>3, <5>1 DEF InDaily
        <4>. QED BY <2>1, <4>1, <4>2, <4>3
      <3>3. InHourly(p) => InHourly(p)' \/ InDaily(p)
        BY <3>2 DEF InHourly
      <3>. QED BY <1>i, <2>1, <3>1, <3>3
    <2>. QED BY <1>i, <1>k, <2>1, <2>2, <2>3 DEF HeldInv
  <1>7. CASE Tick \/ StartPass \/ Read \/ List \/ PurgeEnds \/ StepError \/ Crash \/ UNCHANGED vars
    BY <1>7, <1>1, SteadySteps
  <1>. QED BY <1>t, <1>2, <1>3, <1>4, <1>5, <1>6, <1>7, Writes, Zenon DEF Next

(* The steps that follow Doubled: the keys of a pass are read again only   *)
(* when none of them is doubled, and a pass ends when none is left.        *)
DoubledKept == \A k : /\ Doubled("raw", k) => Doubled("raw", k)'
                      /\ Doubled("hourly", k) => Doubled("hourly", k)'

LEMMA DoubledSteps ==
    ASSUME TieringTypes
    PROVE  /\ Tick \/ StartPass \/ Read \/ List \/ Purge \/ UNCHANGED vars => DoubledKept
           /\ \A p : Inserted(p) => DoubledKept
  <1>1. CASE Tick \/ UNCHANGED vars
    <2>1. UNCHANGED <<tier, step, keysRead>>
      BY <1>1 DEF Tick, vars, passVars
    <2>. QED BY <2>1, Zenon DEF DoubledKept, Doubled
  <1>2. ASSUME NEW p, Inserted(p) PROVE DoubledKept
    BY <1>2, Zenon DEF Inserted, DoubledKept, Doubled
  <1>3. CASE StartPass \/ Read
    <2>1. step \notin {"list", "purge"}
      BY <1>3 DEF StartPass, Idle, Read
    <2>. QED BY <2>1, Zenon DEF DoubledKept, Doubled
  <1>4. CASE List \/ Purge
    <2>1. step' \in {"list", "purge"} /\ UNCHANGED <<tier, keysRead>>
      BY <1>4 DEF List, Purge
    <2>. QED BY <2>1, Zenon DEF DoubledKept, Doubled
  <1>. QED BY <1>1, <1>2, <1>3, <1>4

(* When the purge is over, no key of the pass is left.                     *)
LEMMA PurgeOver ==
    ASSUME TieringTypes, RawPass, HourlyPass, PurgeEnds
    PROVE  /\ \A q \in raw : ~Doubled("raw", q)
           /\ \A k \in HourKeys : Present(hourly[k]) => ~Doubled("hourly", k)
  <1>1. step = "purge" /\ doomed = {}
    BY DEF PurgeEnds
  <1>2. tier = "raw" => keysRead \cap raw = {}
    BY <1>1 DEF RawPass
  <1>3. tier = "hourly" => \A k \in keysRead : ~Present(hourly[k])
    BY <1>1 DEF HourlyPass
  <1>. QED BY <1>2, <1>3 DEF Doubled

LEMMA OnceKept ==
    ASSUME TieringTypes, PassInv, RawPass, HourlyPass, HeldInv, OnceInv, [Next]_vars PROVE OnceInv'
  <1> SUFFICES ASSUME ~cut' PROVE OnceInv'
    BY DEF OnceInv
  <1>c. ~cut
    <2>1. (\E p : Inserted(p)) => cut' = cut
      BY Zenon DEF Inserted
    <2>2. Tick \/ StartPass \/ Read \/ Write \/ List \/ Purge \/ PurgeEnds \/ UNCHANGED vars => cut' = cut
      BY DEF Tick, StartPass, Read, Write, List, Purge, PurgeEnds, histVars, vars
    <2>3. StepError \/ Crash => cut'
      BY DEF StepError, Crash
    <2>. QED BY <2>1, <2>2, <2>3, Writes DEF Next
  <1>t. /\ raw \subseteq Sid \X Times /\ tier \in {"raw", "hourly"}
        /\ Hour \in Nat \ {0}
    BY TimeFacts DEF TieringTypes
  <1>i. /\ \A p \in raw : ~InDaily(p) /\ (InHourly(p) => Doubled("raw", p))
        /\ \A k \in HourKeys : \A ts \in hourly[k].from :
               InDaily(<<k[1], ts>>) => Doubled("hourly", k)
    BY <1>c DEF OnceInv
  <1>k. HourKeys' = HourKeys
    BY DEF HourKeys, Hours, Times
  <1>h. \A k \in HourKeys : \A ts \in hourly[k].from : InHourly(<<k[1], ts>>)
    BY KeyFacts DEF InHourly
  <1>g. ASSUME raw' \subseteq raw, daily' = daily,
               \A k \in HourKeys : hourly'[k].from \subseteq hourly[k].from,
               \A q \in raw : Doubled("raw", q) => Doubled("raw", q)',
               \A k \in HourKeys : Present(hourly[k]) /\ Doubled("hourly", k) => Doubled("hourly", k)'
        PROVE  OnceInv'
    <2>1. \A p : InDaily(p)' <=> InDaily(p)
      BY <1>g, Zenon DEF InDaily
    <2>2. ASSUME NEW p \in raw', InHourly(p)' PROVE InHourly(p)
      <3>1. PICK h \in Hours : p[2] \in hourly'[<<p[1], h>>].from
        BY <2>2, Zenon DEF InHourly, Hours, Times
      <3>2. <<p[1], h>> \in HourKeys
        BY <1>g, <1>t, <3>1 DEF HourKeys
      <3>. QED BY <1>g, <3>1, <3>2 DEF InHourly
    <2>3. \A p \in raw' : ~InDaily(p)' /\ (InHourly(p)' => Doubled("raw", p)')
      BY <1>g, <1>i, <2>1, <2>2
    <2>4. \A k \in HourKeys : \A ts \in hourly'[k].from :
               InDaily(<<k[1], ts>>)' => Doubled("hourly", k)'
      <3> SUFFICES ASSUME NEW k \in HourKeys, NEW ts \in hourly'[k].from, InDaily(<<k[1], ts>>)'
                   PROVE  Doubled("hourly", k)'
        BY Zenon
      <3>1. ts \in hourly[k].from
        BY <1>g
      <3>2. Present(hourly[k])
        BY <3>1, KeyFacts
      <3>3. InDaily(<<k[1], ts>>)
        BY <2>1
      <3>. QED BY <1>g, <1>i, <3>1, <3>2, <3>3
    <2>. QED BY <1>k, <2>3, <2>4, Zenon DEF OnceInv
  <1>s. ASSUME raw' = raw, hourly' = hourly, daily' = daily, DoubledKept PROVE OnceInv'
    BY <1>s, <1>g DEF DoubledKept
  <1>1. CASE Tick \/ StartPass \/ Read \/ List \/ UNCHANGED vars
    BY <1>1, <1>s, DoubledSteps, SteadySteps DEF Steady
  <1>2. ASSUME NEW p \in Sid \X Times, Inserted(p) PROVE OnceInv'
    <2>1. p \notin written /\ raw' = raw \cup {p} /\ UNCHANGED <<hourly, daily>> /\ DoubledKept
      BY <1>2, DoubledSteps DEF Inserted
    <2>2. \A q : (InHourly(q)' <=> InHourly(q)) /\ (InDaily(q)' <=> InDaily(q))
      BY <2>1, Zenon DEF InHourly, InDaily
    <2>3. ~InHourly(p) /\ ~InDaily(p)
      <3>1. ASSUME NEW h \in Hours, p[2] \in hourly[<<p[1], h>>].from PROVE FALSE
        <4>1. <<p[1], h>> \in HourKeys /\ p = <<p[1], p[2]>>
          BY DEF HourKeys
        <4>. QED BY <2>1, <3>1, <4>1 DEF HeldInv
      <3>2. ASSUME NEW d \in Days, p[2] \in daily[<<p[1], d>>].from PROVE FALSE
        <4>1. <<p[1], d>> \in DayKeys /\ p = <<p[1], p[2]>>
          BY DEF DayKeys
        <4>. QED BY <2>1, <3>2, <4>1 DEF HeldInv
      <3>. QED BY <3>1, <3>2 DEF InHourly, InDaily
    <2>4. \A q \in raw' : ~InDaily(q)' /\ (InHourly(q)' => Doubled("raw", q)')
      BY <1>i, <2>1, <2>2, <2>3 DEF DoubledKept
    <2>5. \A k \in HourKeys : \A ts \in hourly'[k].from :
               InDaily(<<k[1], ts>>)' => Doubled("hourly", k)'
      BY <1>i, <2>1, <2>2 DEF DoubledKept
    <2>. QED BY <1>k, <2>4, <2>5, Zenon DEF OnceInv
  <1>3. CASE Write /\ tier = "raw"
    <2>1. /\ step = "write" /\ step' = "list" /\ UNCHANGED <<raw, daily, tier, keysRead>>
          /\ keysRead \subseteq raw
          /\ \A k \in HourKeys : \A u : u \in hourly'[k].from <=>
                  \/ u \in hourly[k].from
                  \/ <<k[1], u>> \in keysRead /\ Floor(u, Hour) = k[2]
      BY <1>3, RawWrite
    <2>2. \A p : InDaily(p)' <=> InDaily(p)
      BY <2>1, Zenon DEF InDaily
    <2>3. \A k : ~Doubled("raw", k) /\ ~Doubled("hourly", k)
      BY <2>1 DEF Doubled
    <2>4. \A k \in keysRead : Doubled("raw", k)'
      BY <1>3, <2>1 DEF Doubled
    <2>5. ASSUME NEW p \in raw, InHourly(p)' PROVE Doubled("raw", p)'
      <3>1. PICK h \in Hours : p[2] \in hourly'[<<p[1], h>>].from
        BY <2>5, Zenon DEF InHourly, Hours, Times
      <3>2. <<p[1], h>> \in HourKeys /\ p = <<p[1], p[2]>> /\ <<p[1], h>>[1] = p[1]
        BY <1>t, <3>1 DEF HourKeys
      <3>3. CASE p[2] \in hourly[<<p[1], h>>].from
        BY <1>i, <2>3, <3>1, <3>3 DEF InHourly
      <3>4. CASE <<p[1], p[2]>> \in keysRead
        BY <3>2, <3>4, <2>4, Zenon
      <3>. QED BY <2>1, <3>1, <3>2, <3>3, <3>4
    <2>6. ASSUME NEW k \in HourKeys, NEW ts \in hourly'[k].from PROVE ~InDaily(<<k[1], ts>>)
      BY <1>i, <2>1, <2>3
    <2>7. \A p \in raw' : ~InDaily(p)' /\ (InHourly(p)' => Doubled("raw", p)')
      BY <1>i, <2>1, <2>2, <2>5
    <2>8. \A k \in HourKeys : \A ts \in hourly'[k].from :
               InDaily(<<k[1], ts>>)' => Doubled("hourly", k)'
      BY <2>2, <2>6
    <2>. QED BY <1>k, <2>7, <2>8, Zenon DEF OnceInv
  <1>4. CASE Write /\ tier = "hourly"
    <2>1. /\ step = "write" /\ step' = "list" /\ UNCHANGED <<raw, hourly, tier, keysRead>>
          /\ keysRead \subseteq HourKeys
          /\ \A k \in DayKeys : \A u : u \in daily'[k].from <=>
                  \/ u \in daily[k].from
                  \/ \E j \in keysRead : j[1] = k[1] /\ Floor(j[2], Day) = k[2]
                                         /\ u \in hourly[j].from
      BY <1>4, HourlyWrite
    <2>2. \A p : InHourly(p)' <=> InHourly(p)
      BY <2>1, Zenon DEF InHourly
    <2>3. \A k : ~Doubled("raw", k) /\ ~Doubled("hourly", k)
      BY <2>1 DEF Doubled
    <2>4. \A k \in keysRead : Doubled("hourly", k)'
      BY <1>4, <2>1 DEF Doubled
    <2>5. ASSUME NEW p, p[1] \in Sid, InDaily(p)'
          PROVE  InDaily(p) \/ \E j \in keysRead : j[1] = p[1] /\ p[2] \in hourly[j].from
      <3>1. PICK d \in Days : p[2] \in daily'[<<p[1], d>>].from
        BY <2>5, Zenon DEF InDaily, Days, Times
      <3>2. <<p[1], d>> \in DayKeys /\ <<p[1], d>>[1] = p[1]
        BY <2>5, <3>1 DEF DayKeys
      <3>. QED BY <2>1, <3>1, <3>2 DEF InDaily
    <2>6. ASSUME NEW p \in raw PROVE ~InDaily(p)' /\ ~InHourly(p)'
      <3>1. ~InDaily(p) /\ ~InHourly(p) /\ p[1] \in Sid /\ p = <<p[1], p[2]>>
        BY <1>i, <1>t, <2>3
      <3>2. ASSUME NEW j \in keysRead, j[1] = p[1], p[2] \in hourly[j].from PROVE FALSE
        <4>1. InHourly(<<j[1], p[2]>>)
          BY <1>h, <2>1, <3>2
        <4>. QED BY <3>1, <3>2, <4>1
      <3>. QED BY <2>2, <2>5, <3>1, <3>2
    <2>7. ASSUME NEW k \in HourKeys, NEW ts \in hourly[k].from, InDaily(<<k[1], ts>>)'
          PROVE  k \in keysRead
      <3>1. /\ k = <<k[1], k[2]>> /\ k[1] \in Sid /\ k[2] \in Hours /\ k[2] \in Nat /\ ts \in Nat
            /\ k[2] <= ts /\ ts < k[2] + Hour
        BY KeyFacts DEF HeldInv
      <3>2. ~InDaily(<<k[1], ts>>)
        BY <1>i, <2>3
      <3>3. PICK j \in keysRead : j[1] = k[1] /\ ts \in hourly[j].from
        BY <2>5, <2>7, <3>1, <3>2
      <3>4. /\ j = <<j[1], j[2]>> /\ j[2] \in Hours /\ j[2] \in Nat
            /\ j[2] <= ts /\ ts < j[2] + Hour
        BY <2>1, <3>3, KeyFacts DEF HeldInv
      <3>5. (j[2] < k[2] => j[2] + Hour <= k[2]) /\ (k[2] < j[2] => k[2] + Hour <= j[2])
        BY <3>1, <3>4, TimeFacts
      <3>6. j[2] = k[2]
        BY <1>t, <3>1, <3>4, <3>5
      <3>7. j = k
        BY <3>1, <3>3, <3>4, <3>6, Zenon
      <3>. QED BY <3>7
    <2>8. \A p \in raw' : ~InDaily(p)' /\ (InHourly(p)' => Doubled("raw", p)')
      BY <2>1, <2>6
    <2>9. \A k \in HourKeys : \A ts \in hourly'[k].from :
               InDaily(<<k[1], ts>>)' => Doubled("hourly", k)'
      BY <2>1, <2>4, <2>7
    <2>. QED BY <1>k, <2>8, <2>9, Zenon DEF OnceInv
  <1>5. CASE Purge /\ tier = "raw"
    BY <1>5, <1>g, RawPurge, DoubledSteps DEF DoubledKept
  <1>6. CASE Purge /\ tier = "hourly"
    <2>1. \A k \in HourKeys : hourly'[k].from \subseteq hourly[k].from
      BY <1>6, HourlyPurge, NoBucketIsReference
    <2>. QED BY <1>6, <2>1, <1>g, HourlyPurge, DoubledSteps DEF DoubledKept
  <1>7. CASE PurgeEnds
    BY <1>7, <1>g, PurgeOver, SteadySteps DEF Steady
  <1>8. CASE StepError \/ Crash
    BY <1>8 DEF StepError, Crash
  <1>. QED BY <1>t, <1>1, <1>2, <1>3, <1>4, <1>5, <1>6, <1>7, <1>8, Writes, Zenon DEF Next

(* What a live pass may have done before the step.                         *)
LEMMA StillLive ==
    ASSUME TieringTypes, [Next]_vars, Live'
    PROVE  /\ Live /\ ~StepError /\ ~Crash
           /\ \A p : Inserted(p) => p[2] = now
  <1>1. /\ cut' = FALSE /\ late' = 0
        /\ ~StepError /\ ~Crash
    BY DEF Live, StepError, Crash, TieringTypes
  <1>2. \A p : Inserted(p) => p[2] = now /\ UNCHANGED <<cut, late>>
    BY <1>1, Zenon DEF Inserted
  <1>3. Tick \/ StartPass \/ Read \/ Write \/ List \/ Purge \/ PurgeEnds \/ UNCHANGED vars
            => UNCHANGED <<cut, late>>
    BY DEF Tick, StartPass, Read, Write, List, Purge, PurgeEnds, histVars, vars
  <1>4. UNCHANGED <<cut, late>>
    BY <1>1, <1>2, <1>3, Writes DEF Next
  <1>. QED BY <1>1, <1>2, <1>4 DEF Live

LEMMA WaitingKept ==
    ASSUME TieringTypes, PassInv, RawPass, HourlyPass, Waiting, [Next]_vars, Live'
    PROVE  Waiting'
  <1>t. /\ now \in Nat /\ cutoff.raw \in Int /\ tier \in {"raw", "hourly"}
        /\ raw \subseteq Sid \X Times /\ \A q \in raw : q[2] \in Nat
    BY TimesAreNats DEF TieringTypes
  <1>l. ~StepError /\ ~Crash /\ \A p : Inserted(p) => p[2] = now
    BY StillLive
  <1>1. CASE Tick \/ UNCHANGED vars
    <2>1. UNCHANGED <<raw, tier, step, cutoff, keysRead>>
      BY <1>1, Zenon DEF Tick, vars, tables, passVars
    <2>. QED BY <2>1, Zenon DEF Waiting, Folding
  <1>2. ASSUME NEW p \in Sid \X Times, Inserted(p) PROVE Waiting'
    <2>1. raw' = raw \cup {p} /\ UNCHANGED <<tier, step, cutoff, keysRead>>
      BY <1>2, Zenon DEF Inserted
    <2>2. p[2] >= cutoff.raw
      BY <1>2, <1>l, <1>t DEF PassInv
    <2>3. ASSUME NEW q \in raw'
          PROVE  \/ tier' = "raw" /\ step' = "read"
                 \/ Folding' /\ tier' = "raw" /\ q \in keysRead'
                 \/ q[2] >= cutoff'.raw
      BY <2>1, <2>2 DEF Waiting, Folding
    <2>. QED BY <2>3, Zenon DEF Waiting
  <1>3. CASE StartPass
    BY <1>3 DEF StartPass, Waiting
  <1>4. CASE Read
    <2>1. step = "read" /\ raw' = raw /\ keysRead = {}
      BY <1>4, ReadIs DEF tables, PassInv, Folding
    <2>2. CASE tier = "hourly"
      <3>1. \A q \in raw : q[2] >= cutoff.raw
        BY <2>1, <2>2 DEF Waiting
      <3>2. cutoff' = cutoff
        BY <1>4, ReadIs DEF Over, Selected
      <3>. QED BY <2>1, <3>1, <3>2 DEF Waiting
    <2>3. CASE tier = "raw" /\ Over /\ {k \in Keys : k[2] < cutoff[tier]} = {}
      <3>1. \A q \in raw : ~(q[2] < cutoff.raw)
        BY <2>3 DEF Keys
      <3>2. \A q \in raw : q[2] >= cutoff.raw
        BY <3>1, <1>t
      <3>. QED BY <2>1, <2>3, <3>2 DEF Waiting, Over
    <2>4. CASE tier = "raw" /\ Selected
      <3>1. /\ keysRead' = {q \in raw : q[2] < cutoff.raw} /\ step' = "write"
            /\ UNCHANGED <<tier, cutoff>>
        BY <2>4 DEF Selected, Keys
      <3>2. \A q \in raw : q \in keysRead' \/ q[2] >= cutoff.raw
        BY <3>1, <1>t
      <3>. QED BY <2>1, <2>4, <3>1, <3>2 DEF Waiting, Folding
    <2>. QED BY <1>4, <1>t, <2>2, <2>3, <2>4, ReadIs
  <1>5. CASE Write \/ List \/ Purge
    <2>1. /\ raw' \subseteq raw /\ UNCHANGED <<tier, cutoff, keysRead>>
          /\ step \in {"write", "list", "purge"} /\ step' \in {"list", "purge"}
      BY <1>5, RawPurge DEF Write, List, Purge, tables
    <2>2. Folding /\ Folding'
      BY <2>1 DEF Folding
    <2>. QED BY <2>1, <2>2 DEF Waiting
  <1>6. CASE PurgeEnds
    <2>1. step = "purge" /\ raw' = raw /\ cutoff' = cutoff
      BY <1>6, EndIs DEF PurgeEnds, Over, tables
    <2>2. \A q \in raw : ~(tier = "raw" /\ q \in keysRead)
      BY <1>6, <2>1, PurgeOver DEF Doubled
    <2>. QED BY <2>1, <2>2 DEF Waiting
  <1>. QED BY <1>l, <1>1, <1>2, <1>3, <1>4, <1>5, <1>6, Writes, Zenon DEF Next

LEMMA HoursBelowKept ==
    ASSUME TieringTypes, PassInv, RawPass, HourlyPass, HeldInv, Waiting, HoursBelow,
           [Next]_vars, Live'
    PROVE  HoursBelow'
  <1>t. /\ now \in Nat /\ RawRetention \in Nat /\ cutoff.raw \in Int /\ tier \in {"raw", "hourly"}
        /\ \A q \in raw : q[2] \in Nat
    BY TimesAreNats, TieringAssumption DEF TieringTypes
  <1>n. \A k \in HourKeys : \A u \in hourly[k].from : u \in Nat
    BY KeyFacts
  <1>k. HourKeys' = HourKeys
    BY DEF HourKeys, Hours, Times
  <1>l. ~StepError /\ ~Crash /\ \A p : Inserted(p) => p[2] = now
    BY StillLive
  <1>g. ASSUME raw' \subseteq raw,
               \A k \in HourKeys : hourly'[k].from \subseteq hourly[k].from,
               \A q \in raw : Doubled("raw", q) => Doubled("raw", q)'
        PROVE  HoursBelow'
    <2>1. \A k \in HourKeys : \A u \in hourly'[k].from :
              \A q \in raw' : Doubled("raw", q)' \/ u < q[2]
      BY <1>g DEF HoursBelow
    <2>. QED BY <1>k, <2>1, Zenon DEF HoursBelow
  <1>1. CASE Tick \/ StartPass \/ Read \/ List \/ UNCHANGED vars
    BY <1>1, <1>g, DoubledSteps, SteadySteps DEF Steady, DoubledKept
  <1>2. ASSUME NEW p \in Sid \X Times, Inserted(p) PROVE HoursBelow'
    <2>1. raw' = raw \cup {p} /\ UNCHANGED hourly /\ DoubledKept
      BY <1>2, DoubledSteps DEF Inserted
    <2>2. ASSUME NEW k \in HourKeys, NEW u \in hourly[k].from PROVE u < p[2]
      <3>1. u < now - RawRetention
        BY DEF HeldInv
      <3>. QED BY <1>2, <1>l, <1>n, <1>t, <3>1
    <2>3. \A k \in HourKeys : \A u \in hourly'[k].from :
              \A q \in raw' : Doubled("raw", q)' \/ u < q[2]
      BY <2>1, <2>2 DEF HoursBelow, DoubledKept
    <2>. QED BY <1>k, <2>3, Zenon DEF HoursBelow
  <1>3. CASE Write /\ tier = "raw"
    <2>1. /\ step = "write" /\ step' = "list" /\ UNCHANGED <<raw, daily, tier, keysRead>>
          /\ keysRead \subseteq raw /\ \A q \in keysRead : q[2] < cutoff.raw
          /\ \A k \in HourKeys : \A u : u \in hourly'[k].from <=>
                  \/ u \in hourly[k].from
                  \/ <<k[1], u>> \in keysRead /\ Floor(u, Hour) = k[2]
      BY <1>3, RawWrite
    <2>2. \A q : ~Doubled("raw", q)
      BY <2>1 DEF Doubled
    <2>3. \A q \in keysRead : Doubled("raw", q)'
      BY <1>3, <2>1 DEF Doubled
    <2>4. ASSUME NEW k \in HourKeys, NEW u \in hourly'[k].from, NEW q \in raw
          PROVE  Doubled("raw", q)' \/ u < q[2]
      <3>1. CASE u \in hourly[k].from
        BY <2>2, <3>1 DEF HoursBelow
      <3>2. CASE <<k[1], u>> \in keysRead
        <4>1. u < cutoff.raw /\ u \in Nat
          BY <2>1, <3>2, <1>t
        <4>2. q \in keysRead \/ q[2] >= cutoff.raw
          BY <2>1 DEF Waiting
        <4>. QED BY <2>3, <4>1, <4>2, <1>t
      <3>. QED BY <2>1, <3>1, <3>2
    <2>. QED BY <1>k, <2>1, <2>4 DEF HoursBelow
  <1>4. CASE Write /\ tier = "hourly"
    <2>1. step = "write" /\ UNCHANGED <<raw, hourly>>
      BY <1>4, HourlyWrite
    <2>. QED BY <2>1, <1>g DEF Doubled
  <1>5. CASE Purge /\ tier = "raw"
    BY <1>5, <1>g, RawPurge, DoubledSteps DEF DoubledKept
  <1>6. CASE Purge /\ tier = "hourly"
    <2>1. \A k \in HourKeys : hourly'[k].from \subseteq hourly[k].from
      BY <1>6, HourlyPurge, NoBucketIsReference
    <2>. QED BY <1>6, <2>1, <1>g, HourlyPurge, DoubledSteps DEF DoubledKept
  <1>7. CASE PurgeEnds
    BY <1>7, <1>g, PurgeOver, SteadySteps DEF Steady
  <1>. QED BY <1>l, <1>t, <1>1, <1>2, <1>3, <1>4, <1>5, <1>6, <1>7, Writes, Zenon DEF Next

LEMMA DaysBelowKept ==
    ASSUME TieringTypes, PassInv, RawPass, HourlyPass, HeldInv, Waiting, DaysBelow,
           [Next]_vars, Live'
    PROVE  DaysBelow'
  <1>t. /\ now \in Nat /\ cutoff.raw \in Int /\ cutoff.hourly \in Int
        /\ tier \in {"raw", "hourly"} /\ Hour \in Nat \ {0}
        /\ raw \subseteq Sid \X Times /\ \A q \in raw : q[2] \in Nat
    BY TimesAreNats, TimeFacts DEF TieringTypes
  <1>n. \A k \in DayKeys : \A u \in daily[k].from : u \in Nat
    BY KeyFacts
  <1>k. HourKeys' = HourKeys /\ DayKeys' = DayKeys
    BY DEF HourKeys, DayKeys, Hours, Days, Times
  <1>l. ~StepError /\ ~Crash /\ \A p : Inserted(p) => p[2] = now
    BY StillLive
  <1>f. \A a \in Nat : Floor(a, Hour) \in Nat
    BY <1>t, FloorFacts
  <1>g. ASSUME \A q \in raw' : q \in raw \/ q[2] = now, daily' = daily,
               now' \in Nat, now <= now',
               \A k \in HourKeys : Present(hourly'[k]) =>
                  Present(hourly[k]) /\ (Doubled("hourly", k) => Doubled("hourly", k)')
        PROVE  DaysBelow'
    <2>1. ASSUME NEW k \in DayKeys, NEW u \in daily'[k].from
          PROVE  /\ u < Floor(now', Hour)
                 /\ \A q \in raw' : u < Floor(q[2], Hour)
                 /\ \A j \in HourKeys : Present(hourly'[j]) => Doubled("hourly", j)' \/ u < j[2]
      <3>0. /\ u \in Nat /\ u < Floor(now, Hour)
            /\ \A q \in raw : u < Floor(q[2], Hour)
            /\ \A j \in HourKeys : Present(hourly[j]) => Doubled("hourly", j) \/ u < j[2]
        BY <1>g, <1>n DEF DaysBelow
      <3>1. Floor(now, Hour) <= Floor(now', Hour)
        <4>1. Floor(now, Hour) <= now
          BY <1>t, FloorFacts
        <4>2. Floor(now, Hour) <= now'
          BY <4>1, <1>g, <1>t, <1>f
        <4>. QED BY <4>2, <1>g, <1>t, FloorFacts
      <3>2. u < Floor(now', Hour)
        BY <3>0, <3>1, <1>f, <1>g, <1>t
      <3>. QED BY <1>g, <3>0, <3>2
    <2>. QED BY <1>k, <2>1 DEF DaysBelow
  <1>1. CASE Tick \/ StartPass \/ Read \/ List \/ UNCHANGED vars
    BY <1>1, <1>g, DoubledSteps, SteadySteps DEF Steady, DoubledKept
  <1>2. ASSUME NEW p \in Sid \X Times, Inserted(p) PROVE DaysBelow'
    <2>1. /\ raw' = raw \cup {p} /\ UNCHANGED <<now, hourly, daily>> /\ DoubledKept
          /\ p[2] = now
      BY <1>2, <1>l, DoubledSteps DEF Inserted
    <2>. QED BY <2>1, <1>g, <1>t DEF DoubledKept
  <1>3. CASE Write /\ tier = "raw"
    <2>1. /\ step = "write" /\ UNCHANGED <<now, raw, daily, tier>>
          /\ keysRead \subseteq raw
          /\ \A k \in HourKeys : \A u : u \in hourly'[k].from <=>
                  \/ u \in hourly[k].from
                  \/ <<k[1], u>> \in keysRead /\ Floor(u, Hour) = k[2]
      BY <1>3, RawWrite
    <2>2. \A j : ~Doubled("hourly", j)
      BY <2>1 DEF Doubled
    <2>3. \A j \in HourKeys : Present(hourly'[j]) => hourly'[j].from # {}
      <3>1. hourly' \in [HourKeys -> Row]
        BY <1>3, RawWrite, WrittenHourly
      <3>2. \A r \in Row : Present(r) => r.from # {}
        BY DEF Row, Present
      <3>. QED BY <3>1, <3>2
    <2>4. ASSUME NEW k \in DayKeys, NEW u \in daily[k].from,
                 NEW j \in HourKeys, Present(hourly'[j])
          PROVE  u < j[2]
      <3>1. PICK ts : ts \in hourly'[j].from
        BY <2>3, <2>4
      <3>2. CASE ts \in hourly[j].from
        <4>1. Present(hourly[j])
          BY <3>2, KeyFacts
        <4>. QED BY <4>1, <2>2 DEF DaysBelow
      <3>3. CASE <<j[1], ts>> \in keysRead /\ Floor(ts, Hour) = j[2]
        <4>1. <<j[1], ts>> \in raw /\ <<j[1], ts>>[2] = ts
          BY <2>1, <3>3
        <4>. QED BY <3>3, <4>1 DEF DaysBelow
      <3>. QED BY <2>1, <3>1, <3>2, <3>3
    <2>5. \A k \in DayKeys : \A u \in daily[k].from :
              u < Floor(now, Hour) /\ \A q \in raw : u < Floor(q[2], Hour)
      BY DEF DaysBelow
    <2>. QED BY <1>k, <2>1, <2>4, <2>5 DEF DaysBelow
  <1>4. CASE Write /\ tier = "hourly"
    <2>1. /\ step = "write" /\ step' = "list" /\ UNCHANGED <<now, raw, hourly, tier, keysRead>>
          /\ keysRead = {k \in HourKeys : Present(hourly[k]) /\ k[2] < cutoff.hourly}
          /\ \A k \in DayKeys : \A u : u \in daily'[k].from <=>
                  \/ u \in daily[k].from
                  \/ \E j \in keysRead : j[1] = k[1] /\ Floor(j[2], Day) = k[2]
                                         /\ u \in hourly[j].from
      BY <1>4, HourlyWrite
    <2>2. (\A j : ~Doubled("hourly", j)) /\ \A j \in keysRead : Doubled("hourly", j)'
      BY <1>4, <2>1 DEF Doubled
    <2>3. cutoff.hourly + Hour <= cutoff.raw /\ cutoff.raw <= now
      BY <2>1 DEF PassInv
    <2>4. ASSUME NEW k \in DayKeys, NEW u \in daily'[k].from
          PROVE  /\ u < Floor(now, Hour)
                 /\ \A q \in raw : u < Floor(q[2], Hour)
                 /\ \A j \in HourKeys : Present(hourly[j]) => Doubled("hourly", j)' \/ u < j[2]
      <3>1. CASE u \in daily[k].from
        BY <3>1, <2>2 DEF DaysBelow
      <3>2. ASSUME NEW i \in keysRead, u \in hourly[i].from
            PROVE  /\ u < Floor(now, Hour)
                   /\ \A q \in raw : u < Floor(q[2], Hour)
                   /\ \A j \in HourKeys : Present(hourly[j]) => Doubled("hourly", j)' \/ u < j[2]
        <4>1. /\ i \in HourKeys /\ i[2] \in Hours /\ i[2] \in Nat /\ i[2] < cutoff.hourly
              /\ u \in Nat /\ u < i[2] + Hour /\ Floor(i[2], Hour) = i[2]
          BY <2>1, <3>2, KeyFacts, TimeFacts DEF HeldInv
        <4>2. ASSUME NEW a \in Nat, cutoff.raw <= a PROVE u < Floor(a, Hour)
          <5>1. Floor(i[2], Hour) + Hour <= a
            BY <4>1, <4>2, <2>3, <1>t
          <5>2. Floor(i[2], Hour) + Hour <= Floor(a, Hour)
            BY <4>1, <5>1, <1>t, FloorFacts
          <5>. QED BY <4>1, <5>2, <1>f, <1>t
        <4>3. \A q \in raw : q[2] >= cutoff.raw
          BY <1>4, <2>1 DEF Waiting
        <4>4. \A q \in raw : u < Floor(q[2], Hour)
          BY <4>2, <4>3, <1>t
        <4>5. ASSUME NEW j \in HourKeys, Present(hourly[j]) PROVE Doubled("hourly", j)' \/ u < j[2]
          <5>1. j[2] \in Hours /\ j[2] \in Nat
            BY KeyFacts
          <5>2. CASE j \in keysRead
            BY <5>2, <2>2
          <5>3. CASE j \notin keysRead
            <6>1. i[2] < j[2]
              BY <2>1, <4>1, <4>5, <5>1, <5>3, <1>t
            <6>2. i[2] + Hour <= j[2]
              BY <4>1, <5>1, <6>1, TimeFacts
            <6>. QED BY <4>1, <5>1, <6>2, <1>t
          <5>. QED BY <5>2, <5>3
        <4>. QED BY <1>t, <2>3, <4>2, <4>4, <4>5
      <3>. QED BY <2>1, <3>1, <3>2
    <2>. QED BY <1>k, <2>1, <2>4 DEF DaysBelow
  <1>5. CASE Purge /\ tier = "raw"
    BY <1>5, <1>g, <1>t, RawPurge, DoubledSteps DEF DoubledKept
  <1>6. CASE Purge /\ tier = "hourly"
    <2>1. \A k \in HourKeys : Present(hourly'[k]) => Present(hourly[k])
      <3>1. ~Present(NoBucket)
        BY DEF Present, NoBucket, NewBuilder, Finalize
      <3>. QED BY <1>6, <3>1, HourlyPurge
    <2>. QED BY <1>6, <1>g, <1>t, <2>1, HourlyPurge, DoubledSteps DEF DoubledKept
  <1>7. CASE PurgeEnds
    BY <1>7, <1>g, PurgeOver, SteadySteps DEF Steady
  <1>. QED BY <1>l, <1>t, <1>1, <1>2, <1>3, <1>4, <1>5, <1>6, <1>7, Writes, Zenon DEF Next

LEMMA FrontKept ==
    ASSUME TieringTypes, PassInv, RawPass, HourlyPass, HeldInv, FrontInv, [Next]_vars
    PROVE  FrontInv'
  <1> SUFFICES ASSUME Live' PROVE (Waiting /\ HoursBelow /\ DaysBelow)'
    BY DEF FrontInv
  <1>1. Waiting /\ HoursBelow /\ DaysBelow
    BY StillLive DEF FrontInv
  <1>. QED BY <1>1, WaitingKept, HoursBelowKept, DaysBelowKept

LEMMA ExactKept ==
    ASSUME TieringTypes, PassInv, RawPass, HourlyPass, HeldInv, FrontInv, ExactInv, [Next]_vars
    PROVE  ExactInv'
  <1> SUFFICES ASSUME Live'
               PROVE  /\ \A k \in HourKeys : hourly'[k] = Reference(hourly'[k].from)
                      /\ \A k \in DayKeys : daily'[k] = Reference(daily'[k].from)
    <2>1. HourKeys' = HourKeys /\ DayKeys' = DayKeys
      BY DEF HourKeys, DayKeys, Hours, Days, Times
    <2>. QED BY <2>1 DEF ExactInv
  <1>1. /\ Waiting /\ HoursBelow /\ DaysBelow
        /\ \A k \in HourKeys : hourly[k] = Reference(hourly[k].from)
        /\ \A k \in DayKeys : daily[k] = Reference(daily[k].from)
    BY StillLive DEF FrontInv, ExactInv
  <1>t. tier \in {"raw", "hourly"}
    BY DEF TieringTypes
  <1>2. CASE UNCHANGED <<hourly, daily>>
    BY <1>1, <1>2
  <1>3. CASE Write /\ tier = "raw"
    <2>1. /\ step = "write" /\ hourly' = WithBuilt(hourly) /\ BuiltIs(Hour) /\ daily' = daily
          /\ keysRead \subseteq raw
      BY <1>3, RawWrite
    <2>2. ASSUME NEW k \in HourKeys PROVE hourly'[k] = Reference(hourly'[k].from)
      <3>1. \A u \in hourly[k].from : k[2] <= u
        BY DEF HeldInv
      <3>2. \A u \in hourly[k].from, q \in keysRead : q[1] = k[1] => u < q[2]
        BY <1>1, <2>1 DEF HoursBelow, Doubled
      <3>. QED BY <1>1, <1>3, <2>1, <3>1, <3>2, WrittenHourlyExact
    <2>. QED BY <1>1, <2>1, <2>2
  <1>4. CASE Write /\ tier = "hourly"
    <2>1. /\ step = "write" /\ daily' = WithBuilt(daily) /\ BuiltIs(Day) /\ hourly' = hourly
          /\ keysRead = {k \in HourKeys : Present(hourly[k]) /\ k[2] < cutoff.hourly}
      BY <1>4, HourlyWrite
    <2>2. \A j \in keysRead : j \in HourKeys /\ Present(hourly[j])
      BY <2>1
    <2>3. \A j \in keysRead : /\ hourly[j] = Reference(hourly[j].from)
                              /\ \A u \in hourly[j].from : j[2] <= u /\ u < j[2] + Hour
      BY <1>1, <2>2 DEF HeldInv
    <2>4. ASSUME NEW k \in DayKeys PROVE daily'[k] = Reference(daily'[k].from)
      <3>1. \A u \in daily[k].from : k[2] <= u
        BY DEF HeldInv
      <3>2. \A u \in daily[k].from, j \in keysRead : j[1] = k[1] => u < j[2]
        BY <1>1, <2>1, <2>2 DEF DaysBelow, Doubled
      <3>. QED BY <1>1, <1>4, <2>1, <2>2, <2>3, <3>1, <3>2, WrittenDailyExact
    <2>. QED BY <1>1, <2>1, <2>4
  <1>5. CASE Purge /\ tier = "raw"
    BY <1>1, <1>5, RawPurge
  <1>6. CASE Purge /\ tier = "hourly"
    <2>1. Reference(NoBucket.from) = NoBucket
      BY NoBucketIsReference
    <2>. QED BY <1>1, <1>6, <2>1, HourlyPurge
  <1>7. CASE Tick \/ StartPass \/ Read \/ List \/ PurgeEnds \/ StepError \/ Crash \/ UNCHANGED vars
    BY <1>7, <1>2, SteadySteps DEF Steady
  <1>8. ASSUME NEW p, Inserted(p) PROVE UNCHANGED <<hourly, daily>>
    BY <1>8, Zenon DEF Inserted
  <1>. QED BY <1>t, <1>2, <1>3, <1>4, <1>5, <1>6, <1>7, <1>8, Writes, Zenon DEF Next

LEMMA TieringStart == Init => TieringInv
  <1> SUFFICES ASSUME Init PROVE TieringInv
    OBVIOUS
  <1>1. /\ now = 0 /\ raw = {} /\ tier = "raw" /\ step = "sleep"
        /\ cutoff = [raw |-> 0, hourly |-> 0] /\ keysRead = {} /\ doomed = {}
        /\ written = {} /\ late = 0 /\ overtaken = {} /\ cut = FALSE /\ passes = 0
    BY DEF Init
  <1>2. /\ hourly = [k \in HourKeys |-> NoBucket] /\ daily = [k \in DayKeys |-> NoBucket]
    BY DEF Init, HourKeys, DayKeys
  <1>3. NoBucket \in Row /\ NoBucket.from = {} /\ ~Present(NoBucket)
    <2>1. NoBucket.cnt = 0
      BY DEF NoBucket, Finalize, NewBuilder
    <2>. QED BY <2>1, NoBucketIsReference DEF Row, Present
  <1>4. /\ \A k \in HourKeys : hourly[k] = NoBucket
        /\ \A k \in DayKeys : daily[k] = NoBucket
    BY <1>2
  <1>5. TieringTypes
    <2>1. now \in Times
      BY <1>1, TimesAreNats DEF Times
    <2>2. hourly \in [HourKeys -> Row] /\ daily \in [DayKeys -> Row]
      BY <1>2, <1>3
    <2>3. /\ raw \subseteq Sid \X Times /\ keysRead \subseteq Sid \X Times
          /\ doomed \subseteq Sid \X Times /\ written \subseteq Sid \X Times
          /\ overtaken \subseteq written
      BY <1>1
    <2>4. cutoff \in [raw : Int, hourly : Int] /\ late \in Nat /\ passes \in Nat
      BY <1>1
    <2>. QED BY <1>1, <2>1, <2>2, <2>3, <2>4, Zenon DEF TieringTypes
  <1>6. PassInv /\ RawPass /\ HourlyPass
    BY <1>1 DEF PassInv, RawPass, HourlyPass, Folding, Exposed
  <1>7. HeldInv
    BY <1>1, <1>3, <1>4 DEF HeldInv
  <1>8. OnceInv
    BY <1>1, <1>3, <1>4 DEF OnceInv
  <1>9. FrontInv
    BY <1>1, <1>3, <1>4 DEF FrontInv, Waiting, HoursBelow, DaysBelow
  <1>10. ExactInv
    <2>1. Reference(NoBucket.from) = NoBucket
      BY NoBucketIsReference
    <2>. QED BY <1>4, <2>1 DEF ExactInv
  <1>. QED BY <1>5, <1>6, <1>7, <1>8, <1>9, <1>10 DEF TieringInv

LEMMA TieringStep == TieringInv /\ [Next]_vars => TieringInv'
  <1> SUFFICES ASSUME TieringInv, [Next]_vars PROVE TieringInv'
    OBVIOUS
  <1>1. /\ TieringTypes /\ PassInv /\ RawPass /\ HourlyPass
        /\ HeldInv /\ OnceInv /\ FrontInv /\ ExactInv
    BY DEF TieringInv
  <1>. QED BY <1>1, TypesKept, PassKept, RawPassKept, HourlyPassKept, HeldKept, OnceKept,
              FrontKept, ExactKept DEF TieringInv

(* Whatever the interleaving of the writer, of the passes, of their errors *)
(* and of crashes, the invariant above holds of the three tables.          *)
THEOREM TieringInvariant == Spec => []TieringInv
  <1>. QED BY TieringStart, TieringStep, PTL DEF Spec

(* No point is lost by tiering.rs, for every retention, purge chunk and    *)
(* series: a point ever written is raw, or in a bucket of its series, or   *)
(* was written late between the read step and the listing of the keys (R3).*)
(* Unless a pass was cut short, between two passes it is in one tier only. *)
THEOREM NoPointLost == Spec => []OnlyOvertakenLost
  <1>1. ASSUME TieringInv PROVE OnlyOvertakenLost
    <2>1. TieringTypes /\ HeldInv /\ OnceInv /\ FrontInv
      BY <1>1 DEF TieringInv
    <2>2. \A p \in written : p \in raw \/ InHourly(p) \/ InDaily(p) \/ p \in overtaken
      BY <2>1 DEF HeldInv
    <2>3. ASSUME step = "sleep", ~cut, NEW p \in written
          PROVE  /\ ~(p \in raw /\ InHourly(p))
                 /\ ~(p \in raw /\ InDaily(p))
                 /\ ~(InHourly(p) /\ InDaily(p))
                 /\ late = 0 /\ p \in raw => p[2] >= cutoff.raw
      <3>1. \A t, k : ~Doubled(t, k)
        BY <2>3 DEF Doubled
      <3>2. /\ p \in raw => ~InDaily(p) /\ ~InHourly(p)
            /\ \A k \in HourKeys : \A ts \in hourly[k].from : ~InDaily(<<k[1], ts>>)
        BY <2>1, <2>3, <3>1 DEF OnceInv
      <3>3. ~(InHourly(p) /\ InDaily(p))
        <4>1. ASSUME NEW h \in Hours, p[2] \in hourly[<<p[1], h>>].from PROVE ~InDaily(p)
          <5>1. <<p[1], h>> \in HourKeys /\ <<p[1], h>>[1] = p[1] /\ p = <<p[1], p[2]>>
            BY <2>1 DEF HourKeys, TieringTypes
          <5>. QED BY <3>2, <4>1, <5>1
        <4>. QED BY <4>1 DEF InHourly
      <3>4. late = 0 /\ p \in raw => p[2] >= cutoff.raw
        BY <2>1, <2>3 DEF FrontInv, Live, Waiting, Folding
      <3>. QED BY <3>2, <3>3, <3>4
    <2>. QED BY <2>2, <2>3 DEF OnlyOvertakenLost, Idle
  <1>. QED BY <1>1, TieringInvariant, PTL

(* A bucket never holds a point of another hour or day and, as long as the *)
(* sources are live and no pass is cut short, says of its points what the  *)
(* reference aggregation says, in however many passes they were folded:    *)
(* R4 keeps cnt, sum, min, max, first and last exact.                      *)
THEOREM BucketsStayExact == Spec => []BucketsExact
  <1>1. ASSUME TieringInv PROVE BucketsExact
    <2>1. TieringTypes /\ HeldInv /\ ExactInv
      BY <1>1 DEF TieringInv
    <2>2. DOMAIN hourly = HourKeys /\ DOMAIN daily = DayKeys
      BY <2>1 DEF TieringTypes
    <2>3. Hour \in Nat /\ Day \in Nat
      BY TimeFacts
    <2>4. ASSUME NEW k \in HourKeys PROVE hourly[k].from \subseteq k[2] .. (k[2] + Hour - 1)
      <3>1. ASSUME NEW ts \in hourly[k].from PROVE ts \in k[2] .. (k[2] + Hour - 1)
        <4>1. k[2] \in Nat /\ ts \in Nat
          BY <2>1, KeyFacts
        <4>2. k[2] <= ts /\ ts < k[2] + Hour
          BY <2>1 DEF HeldInv
        <4>. QED BY <4>1, <4>2, <2>3
      <3>. QED BY <3>1
    <2>5. ASSUME NEW k \in DayKeys PROVE daily[k].from \subseteq k[2] .. (k[2] + Day - 1)
      <3>1. ASSUME NEW ts \in daily[k].from PROVE ts \in k[2] .. (k[2] + Day - 1)
        <4>1. k[2] \in Nat /\ ts \in Nat
          BY <2>1, KeyFacts
        <4>2. k[2] <= ts /\ ts < k[2] + Day
          BY <2>1 DEF HeldInv
        <4>. QED BY <4>1, <4>2, <2>3
      <3>. QED BY <3>1
    <2>6. ~cut /\ late = 0 =>
            /\ \A k \in HourKeys : hourly[k] = Reference(hourly[k].from)
            /\ \A k \in DayKeys : daily[k] = Reference(daily[k].from)
      BY <2>1 DEF ExactInv, Live
    <2>. QED BY <2>2, <2>4, <2>5, <2>6 DEF BucketsExact
  <1>. QED BY <1>1, TieringInvariant, PTL

(* A range function whose window tier_for_range leaves to the raw table,   *)
(* and which is no longer than the raw retention, finds every point of the *)
(* window: at no step of a pass is a point younger than the retention out  *)
(* of the raw table.                                                       *)
THEOREM RawWindowsComplete == Spec => []RawWindowsFound
  <1>1. ASSUME TieringInv PROVE RawWindowsFound
    <2>1. TieringTypes /\ HeldInv
      BY <1>1 DEF TieringInv
    <2>2. now \in Nat /\ RawRetention \in Nat /\ HourlyThreshold \in Nat
      BY <2>1, TimesAreNats, TieringAssumption DEF TieringTypes
    <2>3. ASSUME NEW s \in Sid, NEW range \in 1 .. Smaller(HourlyThreshold, RawRetention),
                 overtaken = {}
          PROVE  RowsRead(s, range) = {ts \in (now - range) .. now : <<s, ts>> \in written}
      <3>1. range \in Nat /\ range <= HourlyThreshold /\ range <= RawRetention
        BY <2>2, <2>3 DEF Smaller
      <3>2. TierForRange(range) = "raw"
        BY <3>1 DEF TierForRange
      <3>3. RowsRead(s, range) = {ts \in (now - range) .. now : <<s, ts>> \in raw}
        BY <3>2 DEF RowsRead
      <3>4. ASSUME NEW ts \in (now - range) .. now, <<s, ts>> \in written PROVE <<s, ts>> \in raw
        <4>1. /\ ts \in Int /\ ~(ts < now - RawRetention)
              /\ <<s, ts>>[1] = s /\ <<s, ts>>[2] = ts
          BY <2>2, <3>1, <3>4
        <4>2. ~InHourly(<<s, ts>>)
          <5>1. ASSUME NEW h \in Hours, ts \in hourly[<<s, h>>].from PROVE FALSE
            <6>1. <<s, h>> \in HourKeys
              BY DEF HourKeys
            <6>. QED BY <2>1, <4>1, <5>1, <6>1 DEF HeldInv
          <5>. QED BY <4>1, <5>1 DEF InHourly
        <4>3. ~InDaily(<<s, ts>>)
          <5>1. ASSUME NEW d \in Days, ts \in daily[<<s, d>>].from PROVE FALSE
            <6>1. <<s, d>> \in DayKeys
              BY DEF DayKeys
            <6>. QED BY <2>1, <4>1, <5>1, <6>1 DEF HeldInv
          <5>. QED BY <4>1, <5>1 DEF InDaily
        <4>. QED BY <2>1, <2>3, <3>4, <4>2, <4>3 DEF HeldInv
      <3>5. raw \subseteq written
        BY <2>1 DEF HeldInv
      <3>. QED BY <3>3, <3>4, <3>5
    <2>. QED BY <2>3 DEF RawWindowsFound
  <1>. QED BY <1>1, TieringInvariant, PTL
=============================================================================
