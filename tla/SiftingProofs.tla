---------------------------- MODULE SiftingProofs ----------------------------
(***************************************************************************)
(* Induction over data, and with it what Sifted computes for every         *)
(* sequence.  The induction theorems of the library take the property as   *)
(* an operator; here it is a set, and the principle comes from the         *)
(* well-foundedness of < on the natural numbers: a set of numbers that is  *)
(* not empty has a least element.                                          *)
(***************************************************************************)
EXTENDS Sifting, SequenceTheorems, FiniteSetTheorems, FunctionTheorems,
        WellFoundedInduction, TLAPS

Before == {ss \in Nat \X Nat : ss[1] < ss[2]}

(* Every non-empty set of natural numbers has a least element.            *)
LEMMA LeastNatural ==
    ASSUME NEW T, T \subseteq Nat, T # {}
    PROVE  \E n \in T : \A m \in T : n <= m
  <1>1. IsWellFoundedOn(Before, Nat)
    BY NatLessThanWellFounded DEF OpToRel, Before
  <1>2. PICK n \in T : \A m \in T : ~(<<m, n>> \in Before)
    BY <1>1, WFMin
  <1>3. \A m \in T : ~(m < n)
    BY <1>2 DEF Before
  <1>. QED BY <1>3

(* Induction up to n: P is the set of the numbers that have the property.  *)
LEMMA CountUp ==
    ASSUME NEW n \in Nat, NEW P, 0 \in P,
           \A k \in 1 .. n : k - 1 \in P => k \in P
    PROVE  0 .. n \subseteq P
  <1> DEFINE T == {k \in 0 .. n : k \notin P}
  <1>1. SUFFICES ASSUME T # {} PROVE FALSE
    OBVIOUS
  <1>2. PICK k \in T : \A m \in T : k <= m
    <2>1. T \subseteq Nat
      OBVIOUS
    <2>. QED BY <1>1, <2>1, LeastNatural
  <1>3. k \in 1 .. n /\ k \notin P
    OBVIOUS
  <1>4. k - 1 \in 0 .. n /\ k - 1 \notin T
    BY <1>2, <1>3
  <1>5. k - 1 \in P
    BY <1>4
  <1>. QED BY <1>3, <1>5

(* f reads the first n elements of s and keeps those that are not x: the   *)
(* recursion of Sifted.                                                    *)
IsSieve(f, s, x, n) ==
    f = [k \in 0 .. n |-> IF k = 0 THEN <<>>
                          ELSE IF s[k] = x THEN f[k - 1] ELSE Append(f[k - 1], s[k])]

(* The recursion defines something...                                      *)
LEMMA SieveExists ==
    ASSUME NEW S, NEW s \in Seq(S), NEW x
    PROVE  \E f : IsSieve(f, s, x, Len(s))
  <1> DEFINE P == {n \in 0 .. Len(s) : \E f : IsSieve(f, s, x, n)}
  <1>1. 0 \in P
    <2>1. IsSieve([k \in 0 .. 0 |-> <<>>], s, x, 0)
      BY DEF IsSieve
    <2>. QED BY <2>1
  <1>2. ASSUME NEW n \in 1 .. Len(s), n - 1 \in P
        PROVE  n \in P
    <2>1. PICK f : IsSieve(f, s, x, n - 1)
      BY <1>2
    <2> DEFINE g == [k \in 0 .. n |-> IF k < n THEN f[k]
                                      ELSE IF s[n] = x THEN f[n - 1] ELSE Append(f[n - 1], s[n])]
    <2>2. IsSieve(g, s, x, n)
      <3>1. \A k \in 0 .. n : g[k] = IF k = 0 THEN <<>>
                          ELSE IF s[k] = x THEN g[k - 1] ELSE Append(g[k - 1], s[k])
        <4>1. \A k \in 0 .. n - 1 : f[k] = IF k = 0 THEN <<>>
                          ELSE IF s[k] = x THEN f[k - 1] ELSE Append(f[k - 1], s[k])
          BY <2>1 DEF IsSieve
        <4>. QED BY <4>1
      <3>2. g = [k \in 0 .. n |-> g[k]]
        OBVIOUS
      <3> HIDE DEF g
      <3>. QED BY <3>1, <3>2 DEF IsSieve
    <2> HIDE DEF g
    <2>. QED BY <2>2
  <1>3. Len(s) \in Nat
    OBVIOUS
  <1>4. 0 .. Len(s) \subseteq P
    <2> HIDE DEF P
    <2>. QED BY <1>1, <1>2, <1>3, CountUp
  <1>5. Len(s) \in P
    BY <1>3, <1>4
  <1>. QED BY <1>5

(* ... and Sifted is its result.                                           *)
LEMMA SiftedBySieve ==
    ASSUME NEW S, NEW s \in Seq(S), NEW x
    PROVE  \E f : IsSieve(f, s, x, Len(s)) /\ Sifted(s, x) = f[Len(s)]
  <1> DEFINE F == CHOOSE f : IsSieve(f, s, x, Len(s))
  <1>1. IsSieve(F, s, x, Len(s))
    BY SieveExists
  <1>2. Sifted(s, x) = F[Len(s)]
    BY DEF Sifted, IsSieve
  <1> HIDE DEF F
  <1>. QED BY <1>1, <1>2

(* The recursion of a sieve is unique: two of them agree wherever they     *)
(* have read the same elements.                                            *)
LEMMA SievesAgree ==
    ASSUME NEW s, NEW t, NEW x, NEW m \in Nat, NEW n \in Nat, m <= n,
           NEW f, IsSieve(f, s, x, m), NEW g, IsSieve(g, t, x, n),
           \A k \in 1 .. m : s[k] = t[k]
    PROVE  \A k \in 0 .. m : f[k] = g[k]
  <1> DEFINE P == {k \in 0 .. m : f[k] = g[k]}
  <1>1. \A k \in 0 .. m : f[k] = IF k = 0 THEN <<>>
                       ELSE IF s[k] = x THEN f[k - 1] ELSE Append(f[k - 1], s[k])
    BY DEF IsSieve
  <1>2. \A k \in 0 .. n : g[k] = IF k = 0 THEN <<>>
                       ELSE IF t[k] = x THEN g[k - 1] ELSE Append(g[k - 1], t[k])
    BY DEF IsSieve
  <1>3. 0 \in P
    BY <1>1, <1>2
  <1>4. ASSUME NEW k \in 1 .. m, k - 1 \in P
        PROVE  k \in P
    <2>1. k \in 0 .. m /\ k \in 0 .. n /\ k # 0 /\ s[k] = t[k] /\ f[k - 1] = g[k - 1]
      BY <1>4
    <2>2. f[k] = IF s[k] = x THEN f[k - 1] ELSE Append(f[k - 1], s[k])
      BY <1>1, <2>1
    <2>3. g[k] = IF t[k] = x THEN g[k - 1] ELSE Append(g[k - 1], t[k])
      BY <1>2, <2>1
    <2>. QED BY <2>1, <2>2, <2>3
  <1>5. 0 .. m \subseteq P
    <2> HIDE DEF P
    <2>. QED BY <1>3, <1>4, CountUp
  <1>. QED BY <1>5

(* Induction on sequences, the property given as a set.                    *)
KeptByAppend(P, S) == \A s \in Seq(S), e \in S : s \in P => Append(s, e) \in P

LEMMA GrowingSequences ==
    ASSUME NEW S, NEW P, <<>> \in P, KeptByAppend(P, S)
    PROVE  Seq(S) \subseteq P
  <1> SUFFICES ASSUME NEW s \in Seq(S) PROVE s \in P
    OBVIOUS
  <1> DEFINE Q == {n \in 0 .. Len(s) : SubSeq(s, 1, n) \in P}
  <1>1. Len(s) \in Nat
    OBVIOUS
  <1>2. 0 \in Q
    <2>1. SubSeq(s, 1, 0) = <<>> /\ 0 \in 0 .. Len(s)
      BY <1>1
    <2>. QED BY <2>1, Zenon
  <1>3. ASSUME NEW n \in 1 .. Len(s), n - 1 \in Q
        PROVE  n \in Q
    <2>1. PICK r : r = SubSeq(s, 1, n - 1)
      OBVIOUS
    <2>2. r \in Seq(S) /\ s[n] \in S /\ SubSeq(s, 1, n) = Append(r, s[n])
      BY <2>1
    <2>3. r \in P
      BY <1>3, <2>1
    <2>4. Append(r, s[n]) \in P
      BY <2>2, <2>3 DEF KeptByAppend
    <2>5. n \in 0 .. Len(s)
      OBVIOUS
    <2>. QED BY <2>2, <2>4, <2>5, Zenon
  <1>4. 0 .. Len(s) \subseteq Q
    <2> HIDE DEF Q
    <2>. QED BY <1>1, <1>2, <1>3, CountUp
  <1>5. SubSeq(s, 1, Len(s)) = s /\ Len(s) \in 0 .. Len(s)
    BY <1>1, SubSeqFull
  <1>. QED BY <1>4, <1>5, Zenon

(* The two equations of Sifted: nothing is kept of nothing, and an element *)
(* more is appended unless it is x.                                        *)
LEMMA SiftedEmpty == ASSUME NEW x PROVE Sifted(<<>>, x) = <<>>
  <1>1. PICK f : IsSieve(f, <<>>, x, Len(<<>>)) /\ Sifted(<<>>, x) = f[Len(<<>>)]
    BY SiftedBySieve, EmptySeq
  <1>. QED BY <1>1 DEF IsSieve

LEMMA SiftedAppend ==
    ASSUME NEW S, NEW s \in Seq(S), NEW e \in S, NEW x
    PROVE  Sifted(Append(s, e), x) = IF e = x THEN Sifted(s, x) ELSE Append(Sifted(s, x), e)
  <1>1. PICK t : t = Append(s, e)
    OBVIOUS
  <1>2. /\ t \in Seq(S) /\ Len(t) = Len(s) + 1 /\ Len(s) \in Nat /\ t[Len(s) + 1] = e
        /\ \A k \in 1 .. Len(s) : s[k] = t[k]
    BY <1>1
  <1>3. PICK f : IsSieve(f, s, x, Len(s)) /\ Sifted(s, x) = f[Len(s)]
    BY SiftedBySieve
  <1>4. PICK g : IsSieve(g, t, x, Len(s) + 1) /\ Sifted(t, x) = g[Len(s) + 1]
    BY <1>2, SiftedBySieve
  <1>5. f[Len(s)] = g[Len(s)]
    <2>1. \A k \in 0 .. Len(s) : f[k] = g[k]
      <3>1. Len(s) <= Len(s) + 1 /\ Len(s) + 1 \in Nat
        BY <1>2
      <3>. QED BY <1>2, <1>3, <1>4, <3>1, SievesAgree
    <2>. QED BY <1>2, <2>1
  <1>6. g[Len(s) + 1] = IF t[Len(s) + 1] = x THEN g[Len(s)] ELSE Append(g[Len(s)], t[Len(s) + 1])
    <2>1. \A k \in 0 .. Len(s) + 1 : g[k] = IF k = 0 THEN <<>>
                       ELSE IF t[k] = x THEN g[k - 1] ELSE Append(g[k - 1], t[k])
      BY <1>4 DEF IsSieve
    <2>2. Len(s) + 1 \in 0 .. Len(s) + 1 /\ Len(s) + 1 # 0 /\ (Len(s) + 1) - 1 = Len(s)
      BY <1>2
    <2>. QED BY <2>1, <2>2, Zenon
  <1>. QED BY <1>1, <1>2, <1>3, <1>4, <1>5, <1>6, Zenon

(* What is kept is a sequence of the other elements.                       *)
LEMMA SiftedSeq ==
    ASSUME NEW S, NEW s \in Seq(S), NEW x
    PROVE  Sifted(s, x) \in Seq(S \ {x})
  <1> DEFINE P == {r \in Seq(S) : Sifted(r, x) \in Seq(S \ {x})}
  <1>1. <<>> \in P
    <2>1. <<>> \in Seq(S) /\ <<>> \in Seq(S \ {x})
      BY EmptySeq
    <2>. QED BY <2>1, SiftedEmpty, Zenon
  <1>2. ASSUME NEW r \in Seq(S), NEW e \in S, r \in P
        PROVE  Append(r, e) \in P
    <2>1. Sifted(r, x) \in Seq(S \ {x})
      BY <1>2
    <2>2. /\ Append(r, e) \in Seq(S)
          /\ e # x => Append(Sifted(r, x), e) \in Seq(S \ {x})
      BY <2>1
    <2>3. Sifted(Append(r, e), x) = IF e = x THEN Sifted(r, x) ELSE Append(Sifted(r, x), e)
      BY SiftedAppend
    <2>. QED BY <2>1, <2>2, <2>3, Zenon
  <1>3. Seq(S) \subseteq P
    <2>1. KeptByAppend(P, S)
      <3> HIDE DEF P
      <3>. QED BY <1>2 DEF KeptByAppend
    <2> HIDE DEF P
    <2>. QED BY <1>1, <2>1, GrowingSequences
  <1>. QED BY <1>3

(* Sifting a concatenation sifts its two parts.                            *)
LEMMA AppendOfConcat ==
    ASSUME NEW S, NEW s \in Seq(S), NEW t \in Seq(S), NEW e \in S
    PROVE  Append(s \o t, e) = s \o Append(t, e) /\ s \o t \in Seq(S)
  OBVIOUS

LEMMA SiftedConcat ==
    ASSUME NEW S, NEW s \in Seq(S), NEW t \in Seq(S), NEW x
    PROVE  Sifted(s \o t, x) = Sifted(s, x) \o Sifted(t, x)
  <1> DEFINE P == {r \in Seq(S) : Sifted(s \o r, x) = Sifted(s, x) \o Sifted(r, x)}
  <1>0. Sifted(s, x) \in Seq(S \ {x})
    BY SiftedSeq
  <1>1. <<>> \in P
    <2>1. s \o <<>> = s /\ Sifted(s, x) \o <<>> = Sifted(s, x)
      BY <1>0, ConcatEmptySeq
    <2>2. <<>> \in Seq(S)
      BY EmptySeq
    <2>. QED BY <2>1, <2>2, SiftedEmpty, Zenon
  <1>2. ASSUME NEW r \in Seq(S), NEW e \in S, r \in P
        PROVE  Append(r, e) \in P
    <2>1. /\ s \o Append(r, e) = Append(s \o r, e) /\ s \o r \in Seq(S)
          /\ Append(r, e) \in Seq(S)
      BY AppendOfConcat
    <2>2. Sifted(s \o r, x) = Sifted(s, x) \o Sifted(r, x)
      BY <1>2
    <2>3. /\ Sifted(Append(s \o r, e), x)
                = IF e = x THEN Sifted(s \o r, x) ELSE Append(Sifted(s \o r, x), e)
          /\ Sifted(Append(r, e), x) = IF e = x THEN Sifted(r, x) ELSE Append(Sifted(r, x), e)
      <3>1. \A q \in Seq(S) : Sifted(Append(q, e), x)
                = IF e = x THEN Sifted(q, x) ELSE Append(Sifted(q, x), e)
        BY SiftedAppend
      <3>. QED BY <2>1, <3>1
    <2>4. e # x => Append(Sifted(s, x) \o Sifted(r, x), e)
                      = Sifted(s, x) \o Append(Sifted(r, x), e)
      BY <1>0, SiftedSeq, AppendOfConcat
    <2>. QED BY <2>1, <2>2, <2>3, <2>4, Zenon
  <1>3. Seq(S) \subseteq P
    <2>1. KeptByAppend(P, S)
      <3> HIDE DEF P
      <3>. QED BY <1>2 DEF KeptByAppend
    <2> HIDE DEF P
    <2>. QED BY <1>1, <2>1, GrowingSequences
  <1>. QED BY <1>3

(* The first element goes first, or is x.                                  *)
LEMMA SiftedHead ==
    ASSUME NEW S, NEW s \in Seq(S), s # <<>>, NEW x
    PROVE  Sifted(s, x) = IF Head(s) = x THEN Sifted(Tail(s), x)
                          ELSE <<Head(s)>> \o Sifted(Tail(s), x)
  <1>1. PICK h, r : h = Head(s) /\ r = Tail(s)
    OBVIOUS
  <1>2. h \in S /\ r \in Seq(S) /\ <<h>> \in Seq(S)
    BY <1>1
  <1>3. s = <<h>> \o r
    BY <1>1
  <1>4. Sifted(<<h>>, x) = IF h = x THEN <<>> ELSE <<h>>
    <2>1. <<>> \in Seq(S) /\ Append(<<>>, h) = <<h>>
      BY <1>2
    <2>2. Sifted(Append(<<>>, h), x) = IF h = x THEN Sifted(<<>>, x) ELSE Append(Sifted(<<>>, x), h)
      <3>1. \A q \in Seq(S), e \in S :
                Sifted(Append(q, e), x) = IF e = x THEN Sifted(q, x) ELSE Append(Sifted(q, x), e)
        BY SiftedAppend
      <3>. QED BY <1>2, <2>1, <3>1, Zenon
    <2>. QED BY <2>1, <2>2, SiftedEmpty, Zenon
  <1>5. Sifted(<<h>> \o r, x) = Sifted(<<h>>, x) \o Sifted(r, x)
    <2>1. \A a, b \in Seq(S) : Sifted(a \o b, x) = Sifted(a, x) \o Sifted(b, x)
      BY SiftedConcat
    <2>. QED BY <1>2, <2>1, Zenon
  <1>6. <<>> \o Sifted(r, x) = Sifted(r, x)
    BY <1>2, SiftedSeq, ConcatEmptySeq
  <1>. QED BY <1>1, <1>3, <1>4, <1>5, <1>6, Zenon

(* Nothing is dropped from a sequence without x.                           *)
LEMMA SiftedWithout ==
    ASSUME NEW S, NEW s \in Seq(S), NEW x, x \notin S
    PROVE  Sifted(s, x) = s
  <1> DEFINE P == {r \in Seq(S) : Sifted(r, x) = r}
  <1>1. <<>> \in P
    BY SiftedEmpty, EmptySeq, Zenon
  <1>2. ASSUME NEW r \in Seq(S), NEW e \in S, r \in P
        PROVE  Append(r, e) \in P
    <2>1. Sifted(Append(r, e), x) = IF e = x THEN Sifted(r, x) ELSE Append(Sifted(r, x), e)
      BY SiftedAppend
    <2>2. e # x /\ Sifted(r, x) = r
      BY <1>2
    <2>3. Append(r, e) \in Seq(S)
      OBVIOUS
    <2>. QED BY <2>1, <2>2, <2>3, Zenon
  <1>3. Seq(S) \subseteq P
    <2>1. KeptByAppend(P, S)
      <3> HIDE DEF P
      <3>. QED BY <1>2 DEF KeptByAppend
    <2> HIDE DEF P
    <2>. QED BY <1>1, <2>1, GrowingSequences
  <1>. QED BY <1>3

(* What is kept: every element but x.                                      *)
Elements(s) == {s[j] : j \in 1 .. Len(s)}

LEMMA SiftedElements ==
    ASSUME NEW S, NEW s \in Seq(S), NEW x
    PROVE  Elements(Sifted(s, x)) = Elements(s) \ {x}
  <1> DEFINE P == {r \in Seq(S) : Elements(Sifted(r, x)) = Elements(r) \ {x}}
  <1>0. ASSUME NEW R, NEW r \in Seq(R), NEW e \in R
        PROVE  Elements(Append(r, e)) = Elements(r) \cup {e}
    <2>1. PICK t : t = Append(r, e)
      OBVIOUS
    <2>2. /\ Len(t) = Len(r) + 1 /\ Len(r) \in Nat /\ t[Len(r) + 1] = e
          /\ \A k \in 1 .. Len(r) : t[k] = r[k]
      BY <2>1
    <2>3. 1 .. Len(t) = 1 .. Len(r) \cup {Len(r) + 1}
      BY <2>2
    <2>. QED BY <2>1, <2>2, <2>3 DEF Elements
  <1>1. <<>> \in P
    <2>1. Elements(<<>>) = {}
      BY DEF Elements
    <2>. QED BY <2>1, SiftedEmpty
  <1>2. ASSUME NEW r \in Seq(S), NEW e \in S, r \in P
        PROVE  Append(r, e) \in P
    <2>1. Elements(Append(r, e)) = Elements(r) \cup {e}
      BY <1>0
    <2>2. Elements(Sifted(r, x)) = Elements(r) \ {x}
      BY <1>2
    <2>3. Sifted(Append(r, e), x) = IF e = x THEN Sifted(r, x) ELSE Append(Sifted(r, x), e)
      BY SiftedAppend
    <2>4. e # x => Elements(Append(Sifted(r, x), e)) = Elements(Sifted(r, x)) \cup {e}
      <3>1. Sifted(r, x) \in Seq(S \ {x}) /\ (e # x => e \in S \ {x})
        BY SiftedSeq
      <3>2. \A a \in Seq(S \ {x}), b \in S \ {x} : Elements(Append(a, b)) = Elements(a) \cup {b}
        BY <1>0
      <3>. QED BY <3>1, <3>2, Zenon
    <2>5. Elements(Sifted(Append(r, e), x)) = Elements(Append(r, e)) \ {x}
      <3>1. CASE e = x
        BY <2>1, <2>2, <2>3, <3>1
      <3>2. CASE e # x
        BY <2>1, <2>2, <2>3, <2>4, <3>2
      <3>. QED BY <3>1, <3>2
    <2>6. Append(r, e) \in Seq(S)
      OBVIOUS
    <2>. QED BY <2>5, <2>6, Zenon
  <1>3. Seq(S) \subseteq P
    <2>1. KeptByAppend(P, S)
      <3> HIDE DEF P
      <3>. QED BY <1>2 DEF KeptByAppend
    <2> HIDE DEF P
    <2>. QED BY <1>1, <2>1, GrowingSequences
  <1>. QED BY <1>3
-----------------------------------------------------------------------------
(* The elements of a finite set as a sequence, each once: there is one, and *)
(* it misses none.                                                         *)
LEMMA ListingExists ==
    ASSUME NEW S, IsFiniteSet(S)
    PROVE  /\ Cardinality(S) \in Nat
           /\ \E f \in [1 .. Cardinality(S) -> S] : IsInjective(f)
  <1>1. Cardinality(S) \in Nat /\ ExistsBijection(1 .. Cardinality(S), S)
    BY FS_CardinalityType
  <1>. QED BY <1>1 DEF ExistsBijection, Bijection, Injection

LEMMA ListingComplete ==
    ASSUME NEW S, IsFiniteSet(S), NEW f \in [1 .. Cardinality(S) -> S], IsInjective(f)
    PROVE  \A x \in S : \E i \in 1 .. Cardinality(S) : f[i] = x
  <1>1. f \in Injection(1 .. Cardinality(S), S)
    BY DEF Injection
  <1>2. Cardinality(1 .. Cardinality(S)) = Cardinality(S)
    BY FS_CardinalityType, FS_Interval
  <1>3. f \in Surjection(1 .. Cardinality(S), S)
    BY <1>1, <1>2, FS_Injection
  <1>. QED BY <1>3 DEF Surjection

-----------------------------------------------------------------------------
(* The two ends of a queue.                                                *)

LEMMA QueueAppend ==
    ASSUME NEW S, NEW s \in Seq(S), NEW e \in S
    PROVE  /\ Append(s, e) \in Seq(S) /\ Len(s) \in Nat /\ Len(Append(s, e)) = Len(s) + 1
           /\ Append(s, e)[Len(s) + 1] = e
           /\ \A i \in 1 .. Len(s) : Append(s, e)[i] = s[i]
           /\ \A i \in 1 .. Len(Append(s, e)) : i \in 1 .. Len(s) \/ i = Len(s) + 1
           /\ DOMAIN Append(s, e) = 1 .. Len(s) + 1
  OBVIOUS

LEMMA QueueTail ==
    ASSUME NEW S, NEW s \in Seq(S), s # <<>>
    PROVE  /\ Tail(s) \in Seq(S) /\ Len(s) \in Nat \ {0} /\ Len(Tail(s)) = Len(s) - 1
           /\ \A i \in 1 .. Len(s) - 1 : Tail(s)[i] = s[i + 1]
           /\ Head(s) \in S /\ Head(s) = s[1]
           /\ DOMAIN Tail(s) = 1 .. Len(s) - 1
  OBVIOUS

LEMMA QueueSuffix ==
    ASSUME NEW S, NEW s \in Seq(S), NEW f \in 0 .. Len(s)
    PROVE  /\ SubSeq(s, f + 1, Len(s)) \in Seq(S)
           /\ Len(s) \in Nat /\ Len(SubSeq(s, f + 1, Len(s))) = Len(s) - f
           /\ \A i \in 1 .. Len(s) - f : SubSeq(s, f + 1, Len(s))[i] = s[i + f]
           /\ DOMAIN SubSeq(s, f + 1, Len(s)) = 1 .. Len(s) - f
  <1>1. PICK n : n = Len(s)
    OBVIOUS
  <1>2. n \in Nat /\ f \in 0 .. n
    BY <1>1
  <1>3. PICK t : t = SubSeq(s, f + 1, n)
    OBVIOUS
  <1>4. \A i \in f + 1 .. n : s[i] \in S
    BY <1>1, <1>2
  <1>5. t = [i \in 1 .. n - f |-> s[i + f]]
    BY <1>1, <1>2, <1>3 DEF SubSeq
  <1>. QED BY <1>1, <1>2, <1>3, <1>4, <1>5

-----------------------------------------------------------------------------
(* Folds.                                                                  *)

(* A function folds g over the subsets of T that have at most n elements,  *)
(* taking from each the element that pick names.                           *)
Small(T, n) == {s \in SUBSET T : Cardinality(s) <= n}
FoldsUpTo(f, T, n, pick, g, base) ==
    f = [s \in Small(T, n) |->
            IF s = {} THEN base ELSE g[<<pick[s], f[s \ {pick[s]}]>>]]

FoldedBy(f, T, pick, g, base) ==
    \A s \in SUBSET T : f[s] = IF s = {} THEN base ELSE g[<<pick[s], f[s \ {pick[s]}]>>]

LEMMA FoldByExists ==
    ASSUME NEW T, IsFiniteSet(T), NEW B, NEW base \in B, NEW g \in [T \X B -> B],
           NEW pick, \A s \in SUBSET T : s # {} => pick[s] \in s
    PROVE  \E f \in [SUBSET T -> B] : FoldedBy(f, T, pick, g, base)
  <1> DEFINE N == Cardinality(T)
             Q == {n \in 0 .. N : \E f \in [Small(T, n) -> B] : FoldsUpTo(f, T, n, pick, g, base)}
  <1>0. N \in Nat
    BY FS_CardinalityType
  <1>s. \A s \in SUBSET T : IsFiniteSet(s) /\ Cardinality(s) \in Nat /\ Cardinality(s) <= N
    BY FS_Subset, FS_CardinalityType
  <1>c. \A s \in SUBSET T : s # {} => /\ pick[s] \in s
                                     /\ s \ {pick[s]} \in SUBSET T
                                     /\ Cardinality(s \ {pick[s]}) = Cardinality(s) - 1
    BY <1>s, FS_RemoveElement
  <1>1. 0 \in Q
    <2>1. \A s \in Small(T, 0) : s = {}
      BY <1>s, FS_EmptySet DEF Small
    <2>2. FoldsUpTo([s \in Small(T, 0) |-> base], T, 0, pick, g, base)
      BY <2>1, Zenon DEF FoldsUpTo
    <2>. QED BY <1>0, <2>2
  <1>2. ASSUME NEW n \in 1 .. N, n - 1 \in Q PROVE n \in Q
    <2>1. PICK e \in [Small(T, n - 1) -> B] : FoldsUpTo(e, T, n - 1, pick, g, base)
      BY <1>2
    <2> DEFINE f == [s \in Small(T, n) |->
                        IF s = {} THEN base ELSE g[<<pick[s], e[s \ {pick[s]}]>>]]
    <2>2. \A s \in Small(T, n) : s # {} => s \ {pick[s]} \in Small(T, n - 1)
      BY <1>s, <1>c DEF Small
    <2>3. \A s \in Small(T, n - 1) : s \in Small(T, n)
      BY <1>s DEF Small
    <2>4. f \in [Small(T, n) -> B]
      <3>1. ASSUME NEW s \in Small(T, n), s # {}
            PROVE  g[<<pick[s], e[s \ {pick[s]}]>>] \in B
        <4>1. e[s \ {pick[s]}] \in B
          BY <3>1, <2>2
        <4>2. pick[s] \in T
          BY <3>1, <1>c DEF Small
        <4>. QED BY <4>1, <4>2
      <3>. QED BY <3>1
    <2>5. \A s \in Small(T, n - 1) : f[s] = e[s]
      <3>1. \A s \in Small(T, n - 1) :
               e[s] = IF s = {} THEN base ELSE g[<<pick[s], e[s \ {pick[s]}]>>]
        BY <2>1, Zenon DEF FoldsUpTo
      <3>2. \A s \in Small(T, n - 1) :
               f[s] = IF s = {} THEN base ELSE g[<<pick[s], e[s \ {pick[s]}]>>]
        BY <2>3, Zenon
      <3>. QED BY <3>1, <3>2, Zenon
    <2>6. FoldsUpTo(f, T, n, pick, g, base)
      <3>1. \A s \in Small(T, n) :
               (IF s = {} THEN base ELSE g[<<pick[s], e[s \ {pick[s]}]>>])
                 = (IF s = {} THEN base ELSE g[<<pick[s], f[s \ {pick[s]}]>>])
        BY <2>2, <2>5, Zenon
      <3> HIDE DEF f
      <3>2. \A s \in Small(T, n) :
               f[s] = (IF s = {} THEN base ELSE g[<<pick[s], f[s \ {pick[s]}]>>])
        BY <3>1, Zenon DEF f
      <3>3. f = [s \in Small(T, n) |-> f[s]]
        BY <2>4, Zenon
      <3>. QED BY <3>2, <3>3, Zenon DEF FoldsUpTo
    <2> HIDE DEF f
    <2>7. \E h \in [Small(T, n) -> B] : FoldsUpTo(h, T, n, pick, g, base)
      BY <2>4, <2>6, Zenon
    <2>. QED BY <2>7
  <1> HIDE DEF Q
  <1>3. N \in Q
    <2>1. 0 .. N \subseteq Q
      BY <1>0, <1>1, <1>2, CountUp
    <2>. QED BY <2>1, <1>0
  <1>4. PICK f \in [Small(T, N) -> B] : FoldsUpTo(f, T, N, pick, g, base)
    BY <1>3 DEF Q
  <1>5. Small(T, N) = SUBSET T
    BY <1>s DEF Small
  <1>6. FoldedBy(f, T, pick, g, base)
    BY <1>4, <1>5, Zenon DEF FoldsUpTo, FoldedBy
  <1>. QED BY <1>4, <1>5, <1>6, Zenon
=============================================================================
