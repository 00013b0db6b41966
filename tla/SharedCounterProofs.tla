-------------------------- MODULE SharedCounterProofs -------------------------
(***************************************************************************)
(* What threads count together without a lock around it: the walked        *)
(* entries and the time of the last progress line (ProgressSink), the      *)
(* bytes that are allocated and their peak (PeakAlloc), the folds and the  *)
(* count of the node digest (NodeDigest) and the scan that feeds it from   *)
(* the tables (TablesDigest).  In all of them an operation of a thread is  *)
(* several atomic steps, and the invariant says what a counter lacks while *)
(* some threads are between two of theirs.                                 *)
(*                                                                         *)
(* For any number of threads and any values.  The first part proves the    *)
(* facts about sums that the others need.                                  *)
(***************************************************************************)
EXTENDS ProgressSink, PeakAlloc, TablesDigest, FiniteSetTheorems, FunctionTheorems,
        SequenceTheorems, TLAPS

-----------------------------------------------------------------------------
(* Sums over a finite set *)

\* A sum as a set: f[x] units for every x.
Units(f, S) == {p \in S \X Nat : 1 <= p[2] /\ p[2] <= f[p[1]]}

Weight(f, S) == Cardinality(Units(f, S))

(* The units of one x.                                                        *)
LEMMA UnitsOfOne ==
    ASSUME NEW x, NEW n \in Nat
    PROVE  IsFiniteSet({x} \X (1..n)) /\ Cardinality({x} \X (1..n)) = n
<1>1. IsFiniteSet({x}) /\ Cardinality({x}) = 1
  BY FS_Singleton
<1>2. IsFiniteSet(1..n) /\ Cardinality(1..n) = n
  BY FS_Interval
<1>3. /\ IsFiniteSet({x} \X (1..n))
      /\ Cardinality({x} \X (1..n)) = Cardinality({x}) * Cardinality(1..n)
  BY ONLY <1>1, <1>2, FS_Product
<1> QED BY <1>1, <1>2, <1>3

(* The units of finitely many x are finitely many.                            *)
LEMMA UnitsFinite ==
    ASSUME NEW S, IsFiniteSet(S), NEW f, \A x \in S : f[x] \in Nat
    PROVE  IsFiniteSet(Units(f, S)) /\ Weight(f, S) \in Nat
<1> DEFINE g == [x \in S |-> {x} \X (1..f[x])]
           C == {g[x] : x \in S}
<1>1. g \in Surjection(S, C)
  BY DEF Surjection
<1>2. IsFiniteSet(C)
  BY <1>1, FS_Surjection
<1>3. \A c \in C : IsFiniteSet(c)
  <2> SUFFICES ASSUME NEW x \in S PROVE IsFiniteSet(g[x])
    OBVIOUS
  <2> QED BY f[x] \in Nat, UnitsOfOne
<1>4. IsFiniteSet(UNION C)
  BY <1>2, <1>3, FS_UNION
<1>5. Units(f, S) \subseteq UNION C
  <2> SUFFICES ASSUME NEW p \in Units(f, S) PROVE p \in UNION C
    OBVIOUS
  <2>1. p[1] \in S /\ p[2] \in 1..f[p[1]] /\ p = <<p[1], p[2]>>
    BY DEF Units
  <2>2. p \in g[p[1]]
    BY <2>1
  <2> QED BY <2>1, <2>2
<1> QED BY <1>4, <1>5, FS_Subset, FS_CardinalityType DEF Weight

(* The units of x are counted apart from those of the others.                 *)
LEMMA WeightStep ==
    ASSUME NEW S, IsFiniteSet(S), NEW f, \A y \in S : f[y] \in Nat, NEW x \in S
    PROVE  Weight(f, S) = f[x] + Weight(f, S \ {x})
<1> DEFINE R == S \ {x}
           c == {x} \X (1..f[x])
<1>1. IsFiniteSet(R) /\ \A y \in R : f[y] \in Nat
  BY FS_RemoveElement
<1>2. IsFiniteSet(Units(f, R)) /\ Weight(f, R) \in Nat
  BY <1>1, UnitsFinite
<1>3. IsFiniteSet(c) /\ Cardinality(c) = f[x]
  BY UnitsOfOne
<1>4. Units(f, S) = Units(f, R) \cup c
  <2>1. ASSUME NEW p \in Units(f, S) PROVE p \in Units(f, R) \cup c
    <3>1. p[1] \in S /\ p[2] \in Nat /\ p[2] \in 1..f[p[1]] /\ p = <<p[1], p[2]>>
      BY DEF Units
    <3> QED BY <3>1 DEF Units
  <2>2. ASSUME NEW p \in c PROVE p \in Units(f, S)
    <3>1. p[1] = x /\ p[2] \in 1..f[x] /\ p = <<x, p[2]>>
      OBVIOUS
    <3> QED BY <3>1 DEF Units
  <2>3. ASSUME NEW p \in Units(f, R) PROVE p \in Units(f, S)
    BY DEF Units
  <2> QED BY <2>1, <2>2, <2>3
<1>5. Units(f, R) \cap c = {}
  BY DEF Units
<1>6. Cardinality(Units(f, R) \cap c) = 0
  BY <1>5, FS_EmptySet
<1>7. Cardinality(Units(f, R) \cup c)
        = Cardinality(Units(f, R)) + Cardinality(c) - Cardinality(Units(f, R) \cap c)
  BY ONLY <1>2, <1>3, FS_Union
<1> QED BY <1>2, <1>3, <1>4, <1>6, <1>7 DEF Weight

(* There are no units of nothing.                                             *)
LEMMA WeightEmpty == ASSUME NEW f PROVE Weight(f, {}) = 0
<1>1. Units(f, {}) = {}
  BY DEF Units
<1> QED BY <1>1, FS_EmptySet DEF Weight

(* The library defines the sum by a recursion over the subsets of S whose     *)
(* solution is a CHOOSE. The weight is a solution, so there is one; and no    *)
(* subset that is minimal among those on which the two differ exists, so it   *)
(* is the only one. With this every fact about a sum is one about the         *)
(* cardinality of a set.                                                      *)
LEMMA SumIsWeight ==
    ASSUME NEW S, IsFiniteSet(S), NEW f, \A x \in S : f[x] \in Nat
    PROVE  SumFunctionOnSet(f, S) = Weight(f, S)
<1> DEFINE some(s)   == CHOOSE x \in s : TRUE
           Unfold(i) == [s \in SUBSET S |->
                           IF s = {} THEN 0
                           ELSE LET x == CHOOSE x \in s : TRUE IN f[x] + i[s \ {x}]]
           iter      == CHOOSE i : i = Unfold(i)
           sums      == [s \in SUBSET S |-> Weight(f, s)]
<1>1. SumFunctionOnSet(f, S) = iter[S]
  BY DEF SumFunctionOnSet, FoldFunctionOnSet, MapThenFoldSet
<1>2. \A s \in SUBSET S : IsFiniteSet(s) /\ Weight(f, s) \in Nat
  BY FS_Subset, UnitsFinite
<1>3. \A s \in SUBSET S : s # {} => Weight(f, s) = f[some(s)] + Weight(f, s \ {some(s)})
  <2> SUFFICES ASSUME NEW s \in SUBSET S, s # {}
               PROVE  Weight(f, s) = f[some(s)] + Weight(f, s \ {some(s)})
    OBVIOUS
  <2>1. some(s) \in s
    OBVIOUS
  <2> HIDE DEF some
  <2> QED BY <1>2, <2>1, WeightStep
<1>4. sums = Unfold(sums)
  BY <1>3, WeightEmpty
<1>5. iter = Unfold(iter)
  BY <1>4
<1> HIDE DEF iter
<1>6. \A s \in SUBSET S : iter[s] = Weight(f, s)
  <2> DEFINE Bad == {s \in SUBSET S : iter[s] # Weight(f, s)}
  <2> SUFFICES ASSUME Bad # {} PROVE FALSE
    OBVIOUS
  <2>1. IsWellFoundedOn(StrictSubsetOrdering(S), SUBSET S)
    BY FS_StrictSubsetOrderingWellFounded, FS_FiniteSubsetsOfFinite
  <2>2. PICK s \in Bad : \A t \in Bad : ~(<<t, s>> \in StrictSubsetOrdering(S))
    BY <2>1, WFMin
  <2>3. s # {}
    BY <1>5, WeightEmpty
  <2>4. some(s) \in s
    BY <2>3
  <2>5. PICK x : x = some(s)
    OBVIOUS
  <2>6. s \ {x} \in SUBSET S /\ <<s \ {x}, s>> \in StrictSubsetOrdering(S)
    BY <2>4, <2>5 DEF StrictSubsetOrdering
  <2>7. iter[s \ {x}] = Weight(f, s \ {x})
    BY <2>2, <2>6
  <2>8. iter[s] = f[x] + iter[s \ {x}]
    BY <1>5, <2>3, <2>5
  <2> QED BY <1>3, <2>3, <2>5, <2>7, <2>8
<1> QED BY <1>1, <1>6
(* A sum without one of its summands.                                         *)
LEMMA SumStep ==
    ASSUME NEW S, IsFiniteSet(S), NEW f, \A y \in S : f[y] \in Nat, NEW x \in S
    PROVE  /\ SumFunctionOnSet(f, S) \in Nat
           /\ SumFunctionOnSet(f, S \ {x}) \in Nat
           /\ SumFunctionOnSet(f, S) = f[x] + SumFunctionOnSet(f, S \ {x})
<1>1. IsFiniteSet(S \ {x})
  BY FS_RemoveElement
<1>2. \A y \in S \ {x} : f[y] \in Nat
  OBVIOUS
<1> QED BY <1>1, <1>2, SumIsWeight, WeightStep, UnitsFinite

(* A sum of naturals is a natural.                                            *)
LEMMA SumNat ==
    ASSUME NEW S, IsFiniteSet(S), NEW f, \A y \in S : f[y] \in Nat
    PROVE  SumFunctionOnSet(f, S) \in Nat
    BY SumIsWeight, UnitsFinite

(* Functions with the same values have the same sum.                          *)
LEMMA SumAgree ==
    ASSUME NEW S, IsFiniteSet(S), NEW f, NEW g, \A y \in S : f[y] \in Nat,
           \A y \in S : f[y] = g[y]
    PROVE  SumFunctionOnSet(f, S) = SumFunctionOnSet(g, S)
<1>1. Units(f, S) = Units(g, S)
  <2>1. \A p \in S \X Nat : f[p[1]] = g[p[1]]
    OBVIOUS
  <2> QED BY <2>1 DEF Units
<1>2. \A y \in S : g[y] \in Nat
  OBVIOUS
<1> QED BY <1>1, <1>2, SumIsWeight DEF Weight

(* A function changed at one place has the sum changed by as much.            *)
LEMMA SumUpdate ==
    ASSUME NEW S, IsFiniteSet(S), NEW f, NEW g, NEW x \in S,
           \A y \in S : f[y] \in Nat /\ g[y] \in Nat,
           \A y \in S \ {x} : f[y] = g[y]
    PROVE  SumFunctionOnSet(g, S) + f[x] = SumFunctionOnSet(f, S) + g[x]
<1>1. IsFiniteSet(S \ {x})
  BY FS_RemoveElement
<1>2. SumFunctionOnSet(f, S \ {x}) = SumFunctionOnSet(g, S \ {x})
  BY <1>1, SumAgree
<1>3. /\ SumFunctionOnSet(f, S \ {x}) \in Nat
      /\ SumFunctionOnSet(f, S) = f[x] + SumFunctionOnSet(f, S \ {x})
  BY SumStep
<1>4. SumFunctionOnSet(g, S) = g[x] + SumFunctionOnSet(g, S \ {x})
  BY SumStep
<1> QED BY <1>2, <1>3, <1>4

(* A sum of zeros.                                                            *)
LEMMA SumZero ==
    ASSUME NEW S, IsFiniteSet(S), NEW f, \A y \in S : f[y] = 0
    PROVE  SumFunctionOnSet(f, S) = 0
<1>1. Units(f, S) = {}
  BY DEF Units
<1> QED BY <1>1, SumIsWeight, FS_EmptySet DEF Weight

(* A sum of naturals that are bounded is bounded.                             *)
LEMMA SumBound ==
    ASSUME NEW S, IsFiniteSet(S), NEW f, NEW m \in Nat,
           \A y \in S : f[y] \in Nat /\ f[y] <= m
    PROVE  /\ SumFunctionOnSet(f, S) \in Nat
           /\ SumFunctionOnSet(f, S) <= Cardinality(S) * m
<1>1. IsFiniteSet(1..m) /\ Cardinality(1..m) = m
  BY FS_Interval
<1>2. IsFiniteSet(S \X (1..m)) /\ Cardinality(S \X (1..m)) = Cardinality(S) * Cardinality(1..m)
  BY ONLY <1>1, IsFiniteSet(S), FS_Product
<1>3. Units(f, S) \subseteq S \X (1..m)
  BY DEF Units
<1>4. Cardinality(Units(f, S)) <= Cardinality(S \X (1..m))
  BY <1>2, <1>3, FS_Subset
<1> QED BY <1>1, <1>2, <1>4, SumIsWeight, SumNat DEF Weight

(* The sum of one value.                                                      *)
LEMMA SumOne ==
    ASSUME NEW x, NEW f, f[x] \in Nat
    PROVE  SumFunctionOnSet(f, {x}) = f[x]
<1>1. IsFiniteSet({x})
  BY FS_Singleton
<1>2. {x} \ {x} = {} /\ IsFiniteSet({})
  BY FS_EmptySet
<1>3. SumFunctionOnSet(f, {}) = 0
  BY <1>2, SumZero
<1> QED BY <1>1, <1>2, <1>3, SumStep

(* Two functions of which one is nowhere larger and which have the same sum   *)
(* are equal.                                                                 *)
LEMMA SumEqual ==
    ASSUME NEW S, IsFiniteSet(S), NEW f, NEW g,
           \A y \in S : f[y] \in Nat /\ g[y] \in Nat /\ f[y] <= g[y],
           SumFunctionOnSet(f, S) = SumFunctionOnSet(g, S)
    PROVE  \A y \in S : f[y] = g[y]
<1>1. Units(f, S) \subseteq Units(g, S)
  <2>1. \A p \in S \X Nat : f[p[1]] \in Nat /\ g[p[1]] \in Nat /\ f[p[1]] <= g[p[1]]
    OBVIOUS
  <2> QED BY <2>1 DEF Units
<1>2. IsFiniteSet(Units(g, S)) /\ Cardinality(Units(g, S)) = Cardinality(Units(f, S))
  BY SumIsWeight, UnitsFinite DEF Weight
<1>3. Units(g, S) = Units(f, S)
  BY <1>1, <1>2, FS_Subset
<1> SUFFICES ASSUME NEW y \in S, f[y] < g[y] PROVE FALSE
  OBVIOUS
<1>4. <<y, g[y]>> \in Units(g, S)
  BY DEF Units
<1>5. <<y, g[y]>> \notin Units(f, S)
  BY DEF Units
<1> QED BY <1>3, <1>4, <1>5

(* The sizes of disjoint sets add up to the size of their union.              *)
LEMMA SumOfSizes ==
    ASSUME NEW S, IsFiniteSet(S), NEW R, NEW f,
           \A y \in S : IsFiniteSet(R[y]) /\ f[y] = Cardinality(R[y]),
           \A y, z \in S : y # z => R[y] \cap R[z] = {}
    PROVE  SumFunctionOnSet(f, S) = Cardinality(UNION {R[y] : y \in S})
<1> DEFINE U(s) == UNION {R[y] : y \in s}
           Bad  == {s \in SUBSET S : SumFunctionOnSet(f, s) # Cardinality(U(s))}
<1> SUFFICES ASSUME Bad # {} PROVE FALSE
  OBVIOUS
<1>1. \A y \in S : f[y] \in Nat
  BY FS_CardinalityType
<1>2. IsWellFoundedOn(StrictSubsetOrdering(S), SUBSET S)
  BY FS_StrictSubsetOrderingWellFounded, FS_FiniteSubsetsOfFinite
<1>3. PICK s \in Bad : \A t \in Bad : ~(<<t, s>> \in StrictSubsetOrdering(S))
  BY <1>2, WFMin
<1>4. s \in SUBSET S /\ IsFiniteSet(s)
  BY FS_Subset
<1>5. s # {}
  <2> SUFFICES ASSUME s = {} PROVE FALSE
    OBVIOUS
  <2>1. U(s) = {}
    OBVIOUS
  <2> QED BY <1>4, <2>1, SumZero, FS_EmptySet
<1>6. PICK x : x \in s
  BY <1>5
<1>7. s \ {x} \in SUBSET S /\ <<s \ {x}, s>> \in StrictSubsetOrdering(S)
  BY <1>4, <1>6 DEF StrictSubsetOrdering
<1>8. SumFunctionOnSet(f, s \ {x}) = Cardinality(U(s \ {x}))
  BY <1>3, <1>7
<1>9. U(s) = U(s \ {x}) \cup R[x] /\ U(s \ {x}) \cap R[x] = {}
  BY <1>4, <1>6
<1>10. IsFiniteSet(U(s \ {x}))
  <2> DEFINE r == s \ {x}
             g == [y \in r |-> R[y]]
             C == {R[y] : y \in r}
  <2>1. g \in Surjection(r, C)
    BY DEF Surjection
  <2>2. IsFiniteSet(r)
    BY <1>4, FS_RemoveElement
  <2>3. IsFiniteSet(C)
    BY <2>1, <2>2, FS_Surjection
  <2>4. \A c \in C : IsFiniteSet(c)
    BY <1>7
  <2> QED BY <2>3, <2>4, FS_UNION
<1>11. IsFiniteSet(R[x]) /\ f[x] = Cardinality(R[x]) /\ f[x] \in Nat
  BY <1>1, <1>4, <1>6
<1>12. Cardinality(U(s)) = Cardinality(U(s \ {x})) + f[x]
  <2>1. Cardinality(U(s \ {x}) \cap R[x]) = 0
    BY <1>9, FS_EmptySet
  <2>2. Cardinality(U(s \ {x})) \in Nat
    BY <1>10, FS_CardinalityType
  <2> HIDE DEF U
  <2>3. Cardinality(U(s \ {x}) \cup R[x])
          = Cardinality(U(s \ {x})) + Cardinality(R[x]) - Cardinality(U(s \ {x}) \cap R[x])
    BY ONLY <1>10, <1>11, FS_Union
  <2>4. Cardinality(U(s)) = Cardinality(U(s \ {x}) \cup R[x])
    BY ONLY <1>9
  <2> QED BY ONLY <1>11, <2>1, <2>2, <2>3, <2>4
<1>13. SumFunctionOnSet(f, s) = f[x] + SumFunctionOnSet(f, s \ {x})
  BY <1>1, <1>4, <1>6, SumStep
<1> QED
  <2>1. Cardinality(U(s \ {x})) \in Nat
    BY <1>10, FS_CardinalityType
  <2> HIDE DEF U
  <2> QED BY <1>3, <1>8, <1>11, <1>12, <1>13, <2>1 DEF Bad

(* The sum does not depend on what the summands are numbered by.              *)
LEMMA SumReindex ==
    ASSUME NEW S, NEW T, IsFiniteSet(S), IsFiniteSet(T), NEW f, NEW h,
           NEW g \in Bijection(T, S),
           \A x \in S : f[x] \in Nat, \A y \in T : h[y] = f[g[y]]
    PROVE  SumFunctionOnSet(h, T) = SumFunctionOnSet(f, S)
<1> DEFINE A == Units(h, T)
           B == Units(f, S)
           j == [p \in A |-> <<g[p[1]], p[2]>>]
<1>1. /\ g \in [T -> S] /\ (\A y, z \in T : g[y] = g[z] => y = z)
      /\ \A x \in S : \E y \in T : g[y] = x
  BY DEF Bijection, Injection, Surjection, IsInjective
<1>2. \A p \in A : p[1] \in T /\ p[2] \in Nat /\ p = <<p[1], p[2]>>
                     /\ 1 <= p[2] /\ p[2] <= f[g[p[1]]]
  BY DEF Units
<1>3. \A p \in A : <<g[p[1]], p[2]>> \in B
  <2> SUFFICES ASSUME NEW p \in A PROVE <<g[p[1]], p[2]>> \in B
    OBVIOUS
  <2>1. g[p[1]] \in S /\ p[2] \in Nat /\ 1 <= p[2] /\ p[2] <= f[g[p[1]]]
    BY <1>1, <1>2
  <2> QED BY <2>1 DEF Units
<1>4. ASSUME NEW p \in A, NEW q \in A, <<g[p[1]], p[2]>> = <<g[q[1]], q[2]>> PROVE p = q
  <2>1. g[p[1]] = g[q[1]] /\ p[2] = q[2]
    BY <1>4
  <2>2. p[1] = q[1]
    BY <1>1, <1>2, <2>1
  <2>3. p = <<p[1], p[2]>> /\ q = <<q[1], q[2]>>
    BY <1>2
  <2> QED BY <2>1, <2>2, <2>3
<1>5. ASSUME NEW b \in B PROVE \E p \in A : <<g[p[1]], p[2]>> = b
  <2>1. b[1] \in S /\ b[2] \in Nat /\ 1 <= b[2] /\ b[2] <= f[b[1]] /\ b = <<b[1], b[2]>>
    BY DEF Units
  <2>2. PICK y \in T : g[y] = b[1]
    BY <1>1, <2>1
  <2> PICK p : p = <<y, b[2]>>
    OBVIOUS
  <2>3. p[1] = y /\ p[2] = b[2] /\ p \in T \X Nat
    BY <2>1
  <2>4. h[y] = f[b[1]]
    BY <2>2
  <2>5. p \in A
    BY <2>1, <2>3, <2>4 DEF Units
  <2> QED BY <2>1, <2>2, <2>3, <2>5
<1> HIDE DEF A, B
<1>6. j \in Bijection(A, B)
  BY <1>3, <1>4, <1>5 DEF Bijection, Injection, Surjection, IsInjective
<1>7. \A y \in T : h[y] \in Nat
  BY <1>1
<1>8. IsFiniteSet(A) /\ Weight(h, T) = Cardinality(A)
  BY <1>7, UnitsFinite DEF Weight, A
<1>9. Cardinality(A) = Cardinality(B)
  BY <1>6, <1>8, FS_Bijection DEF ExistsBijection
<1> QED BY <1>7, <1>8, <1>9, SumIsWeight DEF Weight, B

(* The sum of a sequence, one element at a time.                              *)
LEMMA SumSeq ==
    ASSUME NEW s \in Seq(Nat)
    PROVE  /\ SumFunction(s) \in Nat
           /\ s = <<>> => SumFunction(s) = 0
           /\ s # <<>> => SumFunction(s) = Head(s) + SumFunction(Tail(s))
<1> DEFINE n == Len(s)
<1>1. n \in Nat /\ DOMAIN s = 1..n /\ \A i \in 1..n : s[i] \in Nat
  OBVIOUS
<1>2. IsFiniteSet(1..n)
  BY <1>1, FS_Interval
<1>3. SumFunction(s) = SumFunctionOnSet(s, 1..n)
  BY <1>1 DEF SumFunction
<1>4. SumFunction(s) \in Nat
  BY <1>1, <1>2, <1>3, SumNat
<1>5. ASSUME s = <<>> PROVE SumFunction(s) = 0
  <2>1. 1..n = {}
    BY <1>5
  <2> QED BY <1>2, <1>3, <2>1, SumZero
<1>6. ASSUME s # <<>> PROVE SumFunction(s) = Head(s) + SumFunction(Tail(s))
  <2> PICK m : m = Len(Tail(s))
    OBVIOUS
  <2>1. m \in Nat /\ n = m + 1
    BY <1>1, <1>6
  <2>2. /\ DOMAIN Tail(s) = 1..m
        /\ \A i \in 1..m : Tail(s)[i] = s[i + 1]
    BY <1>6, HeadTailProperties, <2>1
  <2>3. SumFunction(Tail(s)) = SumFunctionOnSet(Tail(s), 1..m)
    BY <2>2 DEF SumFunction
  <2> HIDE DEF n
  <2> DEFINE S == (1..n) \ {1}
             g == [i \in 1..m |-> i + 1]
  <2>4. 1 \in 1..n /\ \A i \in S : i - 1 \in 1..m /\ (i - 1) + 1 = i
    BY <2>1
  <2>5. \A i \in 1..m : i + 1 \in S
    BY <2>1
  <2>6. g \in Bijection(1..m, S)
    <3>1. g \in [1..m -> S]
      BY <2>5
    <3>2. \A i, k \in 1..m : g[i] = g[k] => i = k
      OBVIOUS
    <3>3. \A x \in S : \E i \in 1..m : g[i] = x
      BY <2>4
    <3> QED BY <3>1, <3>2, <3>3 DEF Bijection, Injection, Surjection, IsInjective
  <2>7. IsFiniteSet(S) /\ IsFiniteSet(1..m)
    <3>1. IsFiniteSet(S)
      BY <1>2, FS_RemoveElement
    <3>2. IsFiniteSet(1..m)
      BY <2>1, FS_Interval
    <3> QED BY <3>1, <3>2
  <2>8. \A i \in S : s[i] \in Nat
    BY <1>1
  <2>9. \A i \in 1..m : Tail(s)[i] = s[g[i]]
    BY <2>2
  <2> HIDE DEF S, g
  <2>10. SumFunctionOnSet(Tail(s), 1..m) = SumFunctionOnSet(s, S)
    BY ONLY <2>6, <2>7, <2>8, <2>9, SumReindex
  <2>11. SumFunctionOnSet(s, 1..n) = s[1] + SumFunctionOnSet(s, S)
    BY <1>1, <1>2, <2>4, SumStep DEF S
  <2>12. Head(s) = s[1]
    BY <1>6
  <2> QED BY <1>3, <2>3, <2>10, <2>11, <2>12
<1> QED BY <1>4, <1>5, <1>6

-----------------------------------------------------------------------------
(* The progress lines.  LinesAnIntervalApart speaks of lines, and a line is   *)
(* logged steps after the worker has found it due: the invariant has to say   *)
(* what the mutex keeps true in between, for the one worker that holds it.    *)

Places == {"idle", "counted", "locked", "due", "stamped"}

Line == [walked : Nat, remaining : Nat, began : Nat, time : Nat]

\* The last line logged.
LastBegan == IF Len(lines) = 0 THEN 0 ELSE lines[Len(lines)].began
LastTime  == IF Len(lines) = 0 THEN 0 ELSE lines[Len(lines)].time

\* The types of the variables.
ProgressTyped ==
    /\ clock \in Nat
    /\ walked \in Nat
    /\ lastLog \in Nat
    /\ lock \in Workers \cup {Nobody}
    /\ todo \in [Workers -> Seq(Nat)]
    /\ at \in [Workers -> Places]
    /\ mine \in [Workers -> Nat]
    /\ began \in Nat
    /\ lines \in Seq(Line)

(* Exactly the holder of the mutex is between its lock and its return.        *)
Mutex == \A w \in Workers : at[w] \in {"locked", "due", "stamped"} <=> lock = w

(* The stamp behind the mutex is not before the last line was begun, and a    *)
(* worker that has stamped but not yet logged began an interval after that    *)
(* and after the last line was out.                                           *)
Stamps ==
    /\ lastLog <= clock /\ LastTime <= clock /\ LastBegan <= lastLog
    /\ \A w \in Workers :
         /\ at[w] = "due" => lastLog + Interval <= clock
         /\ at[w] = "stamped" => /\ began = lastLog /\ LastTime <= began
                                 /\ LastBegan + Interval <= began

(* The count a worker has got is one the walk has reached.                    *)
Reached == \A w \in Workers : at[w] # "idle" => 0 < mine[w] /\ mine[w] <= walked

ProgressInv ==
    /\ ProgressTyped /\ Mutex /\ Stamps /\ Reached
    /\ LinesAnIntervalApart /\ LinesTruthful

-----------------------------------------------------------------------------
(* The last line is a line.                                                   *)
LEMMA LastTyped == ProgressTyped => LastBegan \in Nat /\ LastTime \in Nat
<1> SUFFICES ASSUME ProgressTyped, Len(lines) # 0 PROVE lines[Len(lines)] \in Line
  BY DEF LastBegan, LastTime, Line
<1> QED BY ElementOfSeq DEF ProgressTyped

(* What the line shows as remaining completes what it shows as walked.        *)
LEMMA RemainingCompletes ==
    ASSUME NEW n \in Nat
    PROVE  Remaining(n) \in Nat /\ n + Remaining(n) >= Total
    BY ProgressSinkAssumption DEF Remaining

(* The invariant holds when the sink is made.                                 *)
LEMMA InitProgress == ProgressInit => ProgressInv
<1> SUFFICES ASSUME ProgressInit PROVE ProgressInv
  OBVIOUS
<1>1. lines = <<>> /\ Len(lines) = 0 /\ lines \in Seq(Line)
  BY EmptySeq DEF ProgressInit
<1>2. ProgressTyped
  BY <1>1, ProgressSinkAssumption DEF ProgressInit, ProgressTyped, Places
<1>3. Mutex /\ Reached
  BY ProgressSinkAssumption DEF ProgressInit, Mutex, Reached
<1>4. Stamps
  BY <1>1 DEF ProgressInit, Stamps, LastBegan, LastTime
<1>5. LinesAnIntervalApart /\ LinesTruthful
  BY <1>1 DEF LinesAnIntervalApart, LinesTruthful
<1> QED BY <1>2, <1>3, <1>4, <1>5 DEF ProgressInv

(* fetch_add: the count grows by a batch that is not empty.                   *)
LEMMA CountProgress ==
    ASSUME ProgressInv, NEW w \in Workers, Count(w) PROVE ProgressInv'
<1> DEFINE batch == Head(todo[w])
<1>1. batch \in Nat /\ batch > 0 /\ Tail(todo[w]) \in Seq(Nat)
  BY HeadTailProperties DEF ProgressInv, ProgressTyped, Count, Ignored
<1>2. /\ walked' = walked + batch
      /\ mine' = [mine EXCEPT ![w] = walked + batch]
      /\ todo' = [todo EXCEPT ![w] = Tail(todo[w])]
      /\ at[w] = "idle" /\ at' = [at EXCEPT ![w] = "counted"]
      /\ UNCHANGED <<clock, lastLog, lock, began, lines>>
  BY DEF Count, Goto
<1> HIDE DEF batch
<1>3. ProgressTyped'
  BY <1>1, <1>2 DEF ProgressInv, ProgressTyped, Places
<1>4. Mutex'
  BY <1>2 DEF ProgressInv, ProgressTyped, Mutex
<1>5. Stamps'
  BY <1>2 DEF ProgressInv, ProgressTyped, Stamps, LastBegan, LastTime
<1>6. Reached'
  BY <1>1, <1>2 DEF ProgressInv, ProgressTyped, Reached
<1>7. LinesAnIntervalApart'
  BY <1>2 DEF ProgressInv, LinesAnIntervalApart
<1>8. LinesTruthful'
  <2>1. \A i \in 1..Len(lines) : lines[i].walked \in Nat
    <3>1. \A i \in 1..Len(lines) : lines[i] \in Line
      BY ElementOfSeq DEF ProgressInv, ProgressTyped
    <3> QED BY <3>1 DEF Line
  <2> QED BY <1>1, <1>2, <2>1 DEF ProgressInv, ProgressTyped, LinesTruthful
<1> QED BY <1>3, <1>4, <1>5, <1>6, <1>7, <1>8 DEF ProgressInv

(* The line is logged under the mutex, an interval after the line before it.  *)
LEMMA LogProgress ==
    ASSUME ProgressInv, NEW w \in Workers, Log(w) PROVE ProgressInv'
<1> DEFINE n    == Len(lines)
           line == [walked |-> mine[w], remaining |-> Remaining(mine[w]),
                    began |-> began, time |-> clock]
<1>1. /\ at[w] = "stamped" /\ at' = [at EXCEPT ![w] = "idle"]
      /\ lines' = Append(lines, line)
      /\ lock' = Nobody
      /\ UNCHANGED <<clock, walked, lastLog, todo, mine, began>>
  BY DEF Log, Goto, Released
<1>2. n \in Nat /\ mine[w] \in Nat /\ line \in Line
  BY RemainingCompletes DEF ProgressInv, ProgressTyped, Line
<1>3. /\ lines' \in Seq(Line) /\ Len(lines') = n + 1
      /\ \A i \in 1..n : lines'[i] = lines[i]
      /\ lines'[n + 1] = line
  BY <1>1, <1>2 DEF ProgressInv, ProgressTyped
<1>4. lock = w /\ \A v \in Workers : v # w => at[v] \notin {"locked", "due", "stamped"}
  BY <1>1 DEF ProgressInv, Mutex
<1>5. /\ began = lastLog /\ lastLog <= clock /\ LastTime <= began
      /\ LastBegan + Interval <= began
      /\ clock \in Nat /\ began \in Nat /\ Interval \in Nat
      /\ LastBegan \in Nat /\ LastTime \in Nat
  BY <1>1, LastTyped, ProgressSinkAssumption DEF ProgressInv, ProgressTyped, Stamps
<1>6. /\ line.began = began /\ line.time = clock /\ line.walked = mine[w]
      /\ line.remaining = Remaining(mine[w])
  OBVIOUS
<1>7. \A i \in 1..n : lines[i].began \in Nat /\ lines[i].time \in Nat
  <2>1. \A i \in 1..n : lines[i] \in Line
    BY ElementOfSeq DEF ProgressInv, ProgressTyped
  <2> QED BY <2>1 DEF Line
<1>8. n # 0 => LastBegan = lines[n].began /\ LastTime = lines[n].time
  BY DEF LastBegan, LastTime
<1>9. LastBegan' = began /\ LastTime' = clock
  <2>1. Len(lines') # 0 /\ Len(lines') = n + 1
    BY <1>2, <1>3
  <2> HIDE DEF n, line
  <2> QED BY <1>3, <1>6, <2>1 DEF LastBegan, LastTime
<1> HIDE DEF n, line
<1>10. ProgressTyped'
  BY <1>1, <1>3 DEF ProgressInv, ProgressTyped, Places
<1>11. Mutex'
  BY <1>1, <1>4, ProgressSinkAssumption DEF ProgressInv, ProgressTyped, Mutex
<1>12. Stamps'
  <2>1. \A v \in Workers : at'[v] # "due" /\ at'[v] # "stamped"
    BY <1>1, <1>4 DEF ProgressInv, ProgressTyped
  <2> QED BY <1>1, <1>5, <1>9, <2>1 DEF Stamps
<1>13. Reached'
  BY <1>1 DEF ProgressInv, ProgressTyped, Reached
<1>14. LinesAnIntervalApart'
  <2> DEFINE Apart(ls, i) ==
        /\ Interval <= ls[i].began /\ ls[i].began <= ls[i].time
        /\ i > 1 => /\ ls[i - 1].began + Interval <= ls[i].began
                    /\ ls[i - 1].time <= ls[i].began
        /\ i > 2 => ls[i - 2].time + Interval <= ls[i].time
  <2>1. \A i \in 1..n : Apart(lines, i)
    BY DEF ProgressInv, LinesAnIntervalApart, n
  <2>2. ASSUME NEW i \in 1..n PROVE Apart(lines', i)
    <3>1. /\ lines'[i] = lines[i]
          /\ i > 1 => lines'[i - 1] = lines[i - 1]
          /\ i > 2 => lines'[i - 2] = lines[i - 2]
      BY <1>2, <1>3
    <3> QED BY <2>1, <3>1
  <2>3. Apart(lines', n + 1)
    <3>1. Interval <= began /\ began <= clock
      BY <1>5
    <3>2. ASSUME n + 1 > 1
          PROVE  lines[n].began + Interval <= began /\ lines[n].time <= began
      BY <1>2, <1>5, <1>8, <3>2
    <3>3. ASSUME n + 1 > 2 PROVE lines[n - 1].time + Interval <= clock
      <4>1. n \in 1..n /\ n > 1 /\ n - 1 \in 1..n
        BY <1>2, <3>3
      <4>2. lines[n - 1].time <= lines[n].began
        BY <2>1, <4>1
      <4>3. lines[n].began + Interval <= began
        BY <1>2, <3>2, <3>3
      <4>4. lines[n].began \in Nat /\ lines[n - 1].time \in Nat
        BY <1>7, <4>1
      <4> QED BY <1>5, <3>1, <4>2, <4>3, <4>4
    <3>4. /\ n + 1 > 1 => n \in 1..n /\ lines'[n] = lines[n]
          /\ n + 1 > 2 => n - 1 \in 1..n /\ lines'[n - 1] = lines[n - 1]
      BY <1>2, <1>3
    <3>5. (n + 1) - 1 = n /\ (n + 1) - 2 = n - 1
      BY <1>2
    <3> QED BY <1>3, <1>6, <3>1, <3>2, <3>3, <3>4, <3>5
  <2>4. \A i \in 1..(n + 1) : i \in 1..n \/ i = n + 1
    BY <1>2
  <2>5. \A i \in 1..Len(lines') : Apart(lines', i)
    BY <1>3, <2>2, <2>3, <2>4
  <2> QED BY <2>5 DEF LinesAnIntervalApart
<1>15. LinesTruthful'
  <2>1. \A i \in 1..n : /\ 0 < lines'[i].walked /\ lines'[i].walked <= walked
                        /\ lines'[i].walked + lines'[i].remaining >= Total
    BY <1>3 DEF ProgressInv, LinesTruthful, n
  <2>2. 0 < mine[w] /\ mine[w] <= walked /\ mine[w] + Remaining(mine[w]) >= Total
    BY <1>1, <1>2, RemainingCompletes DEF ProgressInv, Reached
  <2> QED BY <1>1, <1>2, <1>3, <1>6, <2>1, <2>2 DEF LinesTruthful
<1> QED BY <1>10, <1>11, <1>12, <1>13, <1>14, <1>15 DEF ProgressInv

(* The steps that log no line and count nothing.                              *)
LEMMA QuietProgress ==
    ASSUME ProgressInv, UNCHANGED <<walked, mine, lines>>, ProgressTyped', Mutex', Stamps',
           \A w \in Workers : at'[w] # "idle" => at[w] # "idle"
    PROVE  ProgressInv'
    BY DEF ProgressInv, Reached, LinesAnIntervalApart, LinesTruthful

(* The invariant holds in every state of every behaviour of the sink.         *)
THEOREM ProgressInvariant == ProgressSpec => []ProgressInv
<1>1. ProgressInit => ProgressInv
  BY InitProgress
<1>2. ProgressInv /\ [ProgressNext]_progressVars => ProgressInv'
  <2> SUFFICES ASSUME ProgressInv, [ProgressNext]_progressVars PROVE ProgressInv'
    OBVIOUS
  <2> USE ProgressSinkAssumption
  <2>1. ASSUME NEW w \in Workers, Ignore(w) PROVE ProgressInv'
    <3>1. Tail(todo[w]) \in Seq(Nat)
      BY <2>1, HeadTailProperties DEF ProgressInv, ProgressTyped, Ignore
    <3>2. ProgressTyped' /\ Mutex' /\ Stamps'
      BY <2>1, <3>1
         DEF ProgressInv, ProgressTyped, Mutex, Stamps, LastBegan, LastTime, Ignore
    <3> QED BY <2>1, <3>2, QuietProgress DEF Ignore
  <2>2. ASSUME NEW w \in Workers, Count(w) PROVE ProgressInv'
    BY <2>2, CountProgress
  <2>3. ASSUME NEW w \in Workers, Lock(w) PROVE ProgressInv'
    <3>1. ProgressTyped'
      BY <2>3 DEF ProgressInv, ProgressTyped, Places, Lock, Goto
    <3>2. Mutex'
      BY <2>3 DEF ProgressInv, ProgressTyped, Mutex, Lock, Goto
    <3>3. Stamps'
      BY <2>3 DEF ProgressInv, ProgressTyped, Stamps, LastBegan, LastTime, Lock, Goto
    <3>4. \A v \in Workers : at'[v] # "idle" => at[v] # "idle"
      BY <2>3 DEF ProgressInv, ProgressTyped, Lock, Goto
    <3> QED BY <2>3, <3>1, <3>2, <3>3, <3>4, QuietProgress DEF Lock
  <2>4. ASSUME NEW w \in Workers, Return(w) PROVE ProgressInv'
    <3>1. ProgressTyped'
      BY <2>4 DEF ProgressInv, ProgressTyped, Places, Return, Goto, Released
    <3>2. Mutex'
      BY <2>4 DEF ProgressInv, ProgressTyped, Mutex, Return, Goto, Released
    <3>3. Stamps'
      BY <2>4 DEF ProgressInv, ProgressTyped, Stamps, LastBegan, LastTime, Return, Goto
    <3>4. \A v \in Workers : at'[v] # "idle" => at[v] # "idle"
      BY <2>4 DEF ProgressInv, ProgressTyped, Return, Goto
    <3> QED BY <2>4, <3>1, <3>2, <3>3, <3>4, QuietProgress DEF Return
  <2>5. ASSUME NEW w \in Workers, Due(w) PROVE ProgressInv'
    <3>1. ProgressTyped' /\ Mutex'
      BY <2>5 DEF ProgressInv, ProgressTyped, Places, Mutex, Due, Goto
    <3>2. lastLog + Interval <= clock
      BY <2>5 DEF ProgressInv, ProgressTyped, Due
    <3>3. Stamps'
      BY <2>5, <3>2 DEF ProgressInv, ProgressTyped, Stamps, LastBegan, LastTime, Due, Goto
    <3>4. \A v \in Workers : at'[v] # "idle" => at[v] # "idle"
      BY <2>5 DEF ProgressInv, ProgressTyped, Due, Goto
    <3> QED BY <2>5, <3>1, <3>3, <3>4, QuietProgress DEF Due
  <2>6. ASSUME NEW w \in Workers, Stamp(w) PROVE ProgressInv'
    <3>1. ProgressTyped' /\ Mutex'
      BY <2>6 DEF ProgressInv, ProgressTyped, Places, Mutex, Stamp, Goto, NewStamp
    <3>2. \A v \in Workers : v # w => at[v] \notin {"due", "stamped"}
      BY <2>6 DEF ProgressInv, Mutex, Stamp, Goto
    <3>3. Stamps'
      <4>1. /\ lastLog' = clock /\ began' = clock /\ clock' = clock /\ lines' = lines
            /\ at' = [at EXCEPT ![w] = "stamped"]
            /\ lastLog + Interval <= clock
            /\ LastTime <= clock /\ LastBegan <= lastLog
        BY <2>6 DEF ProgressInv, Stamps, Stamp, Goto, NewStamp
      <4>2. LastBegan' = LastBegan /\ LastTime' = LastTime
        BY <4>1 DEF LastBegan, LastTime
      <4>3. LastBegan + Interval <= clock /\ LastBegan <= clock
        BY <4>1, LastTyped DEF ProgressInv, ProgressTyped
      <4> QED BY <3>2, <4>1, <4>2, <4>3 DEF ProgressInv, ProgressTyped, Stamps
    <3>4. \A v \in Workers : at'[v] # "idle" => at[v] # "idle"
      BY <2>6 DEF ProgressInv, ProgressTyped, Stamp, Goto
    <3> QED BY <2>6, <3>1, <3>3, <3>4, QuietProgress DEF Stamp
  <2>7. ASSUME NEW w \in Workers, Log(w) PROVE ProgressInv'
    BY <2>7, LogProgress
  <2>8. CASE Tick
    <3>1. ProgressTyped' /\ Mutex'
      BY <2>8 DEF ProgressInv, ProgressTyped, Mutex, Tick
    <3>2. Stamps'
      <4>1. LastBegan' = LastBegan /\ LastTime' = LastTime
        BY <2>8 DEF Tick, LastBegan, LastTime
      <4>2. LastBegan \in Nat /\ LastTime \in Nat
        BY LastTyped DEF ProgressInv
      <4> QED BY <2>8, <4>1, <4>2 DEF ProgressInv, ProgressTyped, Stamps, Tick
    <3> QED BY <2>8, <3>1, <3>2, QuietProgress DEF Tick
  <2>9. CASE UNCHANGED progressVars
    BY <2>9 DEF progressVars, ProgressInv, ProgressTyped, Mutex, Stamps, Reached,
                LastBegan, LastTime, LinesAnIntervalApart, LinesTruthful
  <2> QED
    BY <2>1, <2>2, <2>3, <2>4, <2>5, <2>6, <2>7, <2>8, <2>9
    DEF ProgressNext, OnProgress, Over
<1> QED BY <1>1, <1>2, PTL DEF ProgressSpec

(* Progress lines are begun at least an interval apart and never before the   *)
(* one before is out, however many workers report and however long a line     *)
(* takes, so that no interval sees three of them.                             *)
THEOREM LinesAreApart == ProgressSpec => []LinesAnIntervalApart
<1>1. ProgressInv => LinesAnIntervalApart
  BY DEF ProgressInv
<1> QED BY <1>1, ProgressInvariant, PTL

(* Every line shows a count the walk had reached, never zero, and what it     *)
(* shows as walked and as remaining makes up the total.                       *)
THEOREM LinesAreTruthful == ProgressSpec => []LinesTruthful
<1>1. ProgressInv => LinesTruthful
  BY DEF ProgressInv
<1> QED BY <1>1, ProgressInvariant, PTL

\* The entries each worker has still to report.
ToReport(td) == [w \in Workers |-> SumFunction(td[w])]

(* The count and the entries still to report make up the entries there are.   *)
Walks ==
    walked + SumFunctionOnSet(ToReport(todo), Workers)
      = SumFunctionOnSet(ToReport(Batches), Workers)

(* A worker that takes its next batch has as much less to report.             *)
LEMMA TakeBatch ==
    ASSUME NEW td \in [Workers -> Seq(Nat)], NEW tn, NEW w \in Workers, td[w] # <<>>,
           tn = [td EXCEPT ![w] = Tail(td[w])]
    PROVE  /\ SumFunctionOnSet(ToReport(td), Workers) \in Nat
           /\ SumFunctionOnSet(ToReport(tn), Workers) \in Nat
           /\ Head(td[w]) \in Nat
           /\ SumFunctionOnSet(ToReport(td), Workers)
                = Head(td[w]) + SumFunctionOnSet(ToReport(tn), Workers)
<1> PICK f : f = ToReport(td)
  OBVIOUS
<1> PICK g : g = ToReport(tn)
  OBVIOUS
<1>1. Head(td[w]) \in Nat /\ Tail(td[w]) \in Seq(Nat)
  BY HeadTailProperties
<1>2. tn \in [Workers -> Seq(Nat)] /\ tn[w] = Tail(td[w])
  BY <1>1
<1>3. \A v \in Workers : f[v] \in Nat /\ g[v] \in Nat
  BY <1>2, SumSeq DEF ToReport
<1>4. \A v \in Workers \ {w} : f[v] = g[v]
  BY DEF ToReport
<1>5. f[w] = Head(td[w]) + g[w]
  BY <1>2, SumSeq DEF ToReport
<1>6. IsFiniteSet(Workers)
  BY ProgressSinkAssumption
<1>7. SumFunctionOnSet(f, Workers) \in Nat /\ SumFunctionOnSet(g, Workers) \in Nat
  BY <1>3, <1>6, SumNat
<1>8. SumFunctionOnSet(g, Workers) + f[w] = SumFunctionOnSet(f, Workers) + g[w]
  <2>1. \A v \in Workers : f[v] \in Nat
    BY <1>3
  <2>2. \A v \in Workers : g[v] \in Nat
    BY <1>3
  <2>3. /\ SumFunctionOnSet(f, Workers \ {w}) \in Nat
        /\ SumFunctionOnSet(f, Workers) = f[w] + SumFunctionOnSet(f, Workers \ {w})
    BY ONLY <1>6, <2>1, w \in Workers, SumStep
  <2>4. SumFunctionOnSet(g, Workers) = g[w] + SumFunctionOnSet(g, Workers \ {w})
    BY ONLY <1>6, <2>2, w \in Workers, SumStep
  <2>5. SumFunctionOnSet(f, Workers \ {w}) = SumFunctionOnSet(g, Workers \ {w})
    <3>1. IsFiniteSet(Workers \ {w}) /\ \A v \in Workers \ {w} : f[v] \in Nat
      BY <1>6, <2>1, FS_RemoveElement
    <3> QED BY ONLY <1>4, <3>1, SumAgree
  <2>6. f[w] \in Nat /\ g[w] \in Nat
    BY <1>3
  <2> QED BY <2>3, <2>4, <2>5, <2>6
<1>9. g[w] \in Nat
  BY <1>3
<1> QED BY <1>1, <1>5, <1>7, <1>8, <1>9

(* The safety half of EveryEntryCounted: when every worker has reported all   *)
(* its batches, walked() is the number of entries in them, however the        *)
(* fetch_adds interleaved and whoever was ahead at the mutex.                 *)
THEOREM WalkIsCounted ==
    ProgressSpec => [](AllReported => walked = SumFunction([w \in Workers |-> EntriesOf(w)]))
<1>1. ProgressInit => Walks
  <2>1. \A w \in Workers : ToReport(Batches)[w] \in Nat
    BY SumSeq, ProgressSinkAssumption DEF ToReport
  <2>2. SumFunctionOnSet(ToReport(Batches), Workers) \in Nat
    BY <2>1, SumNat, ProgressSinkAssumption
  <2> QED BY <2>2 DEF ProgressInit, Walks
<1>2. ProgressInv /\ Walks /\ [ProgressNext]_progressVars => Walks'
  <2> SUFFICES ASSUME ProgressInv, Walks, [ProgressNext]_progressVars PROVE Walks'
    OBVIOUS
  <2>0. todo \in [Workers -> Seq(Nat)] /\ walked \in Nat
    BY DEF ProgressInv, ProgressTyped
  <2>1. ASSUME NEW w \in Workers, Count(w) PROVE Walks'
    <3>1. /\ todo[w] # <<>> /\ walked' = walked + Head(todo[w])
          /\ todo' = [todo EXCEPT ![w] = Tail(todo[w])]
      BY <2>1 DEF Count
    <3>2. /\ SumFunctionOnSet(ToReport(todo'), Workers) \in Nat /\ Head(todo[w]) \in Nat
          /\ SumFunctionOnSet(ToReport(todo), Workers)
               = Head(todo[w]) + SumFunctionOnSet(ToReport(todo'), Workers)
      BY ONLY <2>0, <3>1, w \in Workers, TakeBatch
    <3> QED BY <2>0, <3>1, <3>2 DEF Walks
  <2>2. ASSUME NEW w \in Workers, Ignore(w) PROVE Walks'
    <3>1. /\ todo[w] # <<>> /\ walked' = walked /\ Head(todo[w]) = 0
          /\ todo' = [todo EXCEPT ![w] = Tail(todo[w])]
      BY <2>2 DEF Ignore, Ignored
    <3>2. /\ SumFunctionOnSet(ToReport(todo'), Workers) \in Nat /\ Head(todo[w]) \in Nat
          /\ SumFunctionOnSet(ToReport(todo), Workers)
               = Head(todo[w]) + SumFunctionOnSet(ToReport(todo'), Workers)
      BY ONLY <2>0, <3>1, w \in Workers, TakeBatch
    <3> QED BY <2>0, <3>1, <3>2 DEF Walks
  <2>3. CASE UNCHANGED <<walked, todo>>
    BY <2>3 DEF Walks
  <2>4. ASSUME NEW w \in Workers, Lock(w) \/ Return(w) \/ Due(w) \/ Stamp(w) \/ Log(w)
        PROVE  UNCHANGED <<walked, todo>>
    BY <2>4 DEF Lock, Return, Due, Stamp, Log
  <2>5. Tick \/ UNCHANGED progressVars => UNCHANGED <<walked, todo>>
    BY DEF Tick, progressVars
  <2> QED BY <2>1, <2>2, <2>3, <2>4, <2>5 DEF ProgressNext, OnProgress, Over
<1>3. ProgressInv /\ Walks
        => (AllReported => walked = SumFunction([w \in Workers |-> EntriesOf(w)]))
  <2> SUFFICES ASSUME ProgressInv, Walks, AllReported
               PROVE  walked = SumFunction([w \in Workers |-> EntriesOf(w)])
    OBVIOUS
  <2>1. \A w \in Workers : todo[w] = <<>> /\ todo[w] \in Seq(Nat)
    BY DEF AllReported, ProgressInv, ProgressTyped
  <2>2. \A w \in Workers : ToReport(todo)[w] = 0
    BY <2>1, SumSeq DEF ToReport
  <2>3. SumFunctionOnSet(ToReport(todo), Workers) = 0
    BY <2>2, SumZero, ProgressSinkAssumption
  <2> PICK f : f = [w \in Workers |-> EntriesOf(w)]
    OBVIOUS
  <2>4. f = ToReport(Batches) /\ DOMAIN f = Workers
    BY DEF ToReport, EntriesOf
  <2>5. SumFunction(f) = SumFunctionOnSet(f, Workers)
    BY <2>4 DEF SumFunction
  <2>6. walked \in Nat
    BY DEF ProgressInv, ProgressTyped
  <2> QED BY <2>3, <2>4, <2>5, <2>6 DEF Walks
<1> QED BY <1>1, <1>2, <1>3, ProgressInvariant, PTL DEF ProgressSpec

-----------------------------------------------------------------------------
(* The counting allocator.  The counter is behind the blocks by what the      *)
(* calls that are under way have still to add or subtract.                    *)

\* The calls a thread can be in, by what is left of them.
AddCall(b, s)     == [todo |-> <<[op |-> "add", bytes |-> s]>>, block |-> {b}]
SubCall(s)        == [todo |-> <<[op |-> "sub", bytes |-> s]>>, block |-> {}]
MoveCall(b, o, s) == [todo |-> <<[op |-> "sub", bytes |-> o],
                                 [op |-> "add", bytes |-> s]>>, block |-> {b}]
MaxCall(b, n)     == [todo |-> <<[op |-> "max", bytes |-> n]>>, block |-> {b}]

CallShape == {NoCall}
    \cup {AddCall(b, s) : b \in Blocks, s \in Sizes}
    \cup {SubCall(s) : s \in Sizes}
    \cup {MoveCall(b, o, s) : b \in Blocks, o \in Sizes, s \in Sizes}
    \cup {MaxCall(b, n) : b \in Blocks, n \in Nat}

\* The bytes a call has still to subtract, the blocks it has still to add, the
\* sums it has still to offer to the peak.
Owed(c)   == IF c.todo # <<>> /\ c.todo[1].op = "sub" THEN c.todo[1].bytes ELSE 0
Adds(c)   == IF c.todo # <<>> /\ c.todo[Len(c.todo)].op = "add" THEN c.block ELSE {}
Adding(c) == c.todo[Len(c.todo)].bytes
Offers(c) == IF c.todo # <<>> /\ c.todo[1].op = "max" THEN {c.todo[1].bytes} ELSE {}

(* A thread in no call owes nothing.                                          *)
LEMMA ShapeNoCall ==
    /\ NoCall.todo = <<>> /\ NoCall.block = {}
    /\ Owed(NoCall) = 0 /\ Adds(NoCall) = {} /\ Offers(NoCall) = {}
    BY DEF NoCall, Owed, Adds, Adding, Offers

(* A call that has still to add its block.                                    *)
LEMMA ShapeAdd ==
    ASSUME NEW b, NEW s
    PROVE  LET c == AddCall(b, s) IN
           /\ c.block = {b} /\ c.todo = <<[op |-> "add", bytes |-> s]>>
           /\ c.todo # <<>> /\ c.todo[1].op = "add" /\ c.todo[1].bytes = s
           /\ Len(c.todo) = 1
           /\ Owed(c) = 0 /\ Adds(c) = {b} /\ Adding(c) = s /\ Offers(c) = {}
           /\ c # NoCall
    BY DEF AddCall, NoCall, Owed, Adds, Adding, Offers

(* A call that has still to subtract.                                         *)
LEMMA ShapeSub ==
    ASSUME NEW s
    PROVE  LET c == SubCall(s) IN
           /\ c.block = {} /\ c.todo # <<>>
           /\ c.todo[1].op = "sub" /\ c.todo[1].bytes = s /\ Len(c.todo) = 1
           /\ Owed(c) = s /\ Adds(c) = {} /\ Offers(c) = {}
           /\ c # NoCall
    BY DEF SubCall, NoCall, Owed, Adds, Adding, Offers

(* A realloc that has done neither.                                           *)
LEMMA ShapeMove ==
    ASSUME NEW b, NEW o, NEW s
    PROVE  LET c == MoveCall(b, o, s) IN
           /\ c.block = {b} /\ c.todo # <<>>
           /\ c.todo[1].op = "sub" /\ c.todo[1].bytes = o /\ Len(c.todo) = 2
           /\ [c EXCEPT !.todo = Tail(@)] = AddCall(b, s)
           /\ Owed(c) = o /\ Adds(c) = {b} /\ Adding(c) = s /\ Offers(c) = {}
           /\ c # NoCall
<1> DEFINE x == [op |-> "sub", bytes |-> o]
           y == [op |-> "add", bytes |-> s]
<1>1. Tail(<<x, y>>) = <<y>>
  OBVIOUS
<1>2. [MoveCall(b, o, s) EXCEPT !.todo = Tail(@)] = AddCall(b, s)
  BY <1>1 DEF MoveCall, AddCall
<1>3. <<x, y>> # <<>> /\ <<x, y>>[1] = x /\ <<x, y>>[2] = y /\ Len(<<x, y>>) = 2
  OBVIOUS
<1> QED BY <1>2, <1>3 DEF MoveCall, NoCall, Owed, Adds, Adding, Offers

(* A call that has still to offer to the peak.                                *)
LEMMA ShapeMax ==
    ASSUME NEW b, NEW n
    PROVE  LET c == MaxCall(b, n) IN
           /\ c.block = {b} /\ c.todo # <<>>
           /\ c.todo[1].op = "max" /\ c.todo[1].bytes = n /\ Len(c.todo) = 1
           /\ Owed(c) = 0 /\ Adds(c) = {} /\ Offers(c) = {n}
           /\ c # NoCall
    BY DEF MaxCall, NoCall, Owed, Adds, Adding, Offers

(* What the add leaves of a call.                                             *)
LEMMA AddGoesOn ==
    ASSUME NEW b, NEW s, NEW n
    PROVE  [AddCall(b, s) EXCEPT !.todo = <<[op |-> "max", bytes |-> n]>>] = MaxCall(b, n)
    BY DEF AddCall, MaxCall

(* The shapes cover every call, and every one of them adds a block it holds.  *)
LEMMA ShapeCases ==
    ASSUME NEW c \in CallShape
    PROVE  /\ \/ c = NoCall
              \/ \E b \in Blocks, s \in Sizes : c = AddCall(b, s)
              \/ \E s \in Sizes : c = SubCall(s)
              \/ \E b \in Blocks, o \in Sizes, s \in Sizes : c = MoveCall(b, o, s)
              \/ \E b \in Blocks, n \in Nat : c = MaxCall(b, n)
           /\ Owed(c) \in Sizes \cup {0} /\ Adds(c) \subseteq c.block
<1>1. \/ c = NoCall
      \/ \E b \in Blocks, s \in Sizes : c = AddCall(b, s)
      \/ \E s \in Sizes : c = SubCall(s)
      \/ \E b \in Blocks, o \in Sizes, s \in Sizes : c = MoveCall(b, o, s)
      \/ \E b \in Blocks, n \in Nat : c = MaxCall(b, n)
  BY DEF CallShape
<1>2. Owed(c) \in Sizes \cup {0}
  <2>1. CASE c = NoCall
    BY <2>1, ShapeNoCall
  <2>2. ASSUME NEW b \in Blocks, NEW s \in Sizes, c = AddCall(b, s)
        PROVE  Owed(c) \in Sizes \cup {0}
    BY <2>2, ShapeAdd
  <2>3. ASSUME NEW s \in Sizes, c = SubCall(s) PROVE Owed(c) \in Sizes \cup {0}
    BY <2>3, ShapeSub
  <2>4. ASSUME NEW b \in Blocks, NEW o \in Sizes, NEW s \in Sizes, c = MoveCall(b, o, s)
        PROVE  Owed(c) \in Sizes \cup {0}
    BY <2>4, ShapeMove
  <2>5. ASSUME NEW b \in Blocks, NEW n \in Nat, c = MaxCall(b, n)
        PROVE  Owed(c) \in Sizes \cup {0}
    BY <2>5, ShapeMax
  <2> QED BY <1>1, <2>1, <2>2, <2>3, <2>4, <2>5
<1>3. Adds(c) \subseteq c.block
  BY DEF Adds
<1> QED BY <1>1, <1>2, <1>3

-----------------------------------------------------------------------------
(* The counter *)

\* What the counter has seen of each block, and what each thread owes it.
CountedOf(sz, cl) == [b \in Blocks |->
                        IF \E t \in AllocThreads : b \in Adds(cl[t]) THEN 0 ELSE sz[b]]
OwedOf(cl)        == [t \in AllocThreads |-> Owed(cl[t])]

TotalOf(sz, cl) == SumFunctionOnSet(CountedOf(sz, cl), Blocks)
                     + SumFunctionOnSet(OwedOf(cl), AllocThreads)

\* The types of the variables.
AllocTyped ==
    /\ current \in Nat /\ peak \in Nat /\ highCount \in Nat /\ loaded \in Nat
    /\ size \in [Blocks -> Sizes \cup {0}]
    /\ call \in [AllocThreads -> CallShape]
    /\ calls \in Nat
    /\ stage \in {"idle", "resetting", "building", "scanning"}

(* Two calls work on different blocks, and a call adds the size of its block. *)
OwnBlocks ==
    /\ \A t, u \in AllocThreads : t # u => call[t].block \cap call[u].block = {}
    /\ \A t \in AllocThreads : \A b \in Adds(call[t]) : Adding(call[t]) = size[b]

(* The counter is the sum of what it has seen and what is still owed.         *)
Counter == current = TotalOf(size, call)

(* Only the main thread allocates outside a build and a scan, and nobody      *)
(* while the peak is reset.                                                   *)
Alone ==
    /\ stage \in {"idle", "resetting"} =>
         \A t \in AllocThreads \ {Main} : call[t] = NoCall
    /\ stage = "resetting" => call[Main] = NoCall /\ loaded = current

(* The highest value is the peak, or a thread is about to offer it.           *)
Highest ==
    /\ peak <= highCount
    /\ \A t \in AllocThreads : \A n \in Offers(call[t]) : n <= highCount
    /\ peak = highCount \/ \E t \in AllocThreads : highCount \in Offers(call[t])

AllocInv == AllocTyped /\ OwnBlocks /\ Counter /\ Alone /\ Highest

-----------------------------------------------------------------------------
(* There is a largest size: the least bound on the sizes is one of them.      *)
LEMMA MaxSize == /\ Max(Sizes) \in Sizes /\ Max(Sizes) \in Nat
                 /\ \A s \in Sizes : s <= Max(Sizes)
<1> DEFINE Bounds == {n \in Nat : \A s \in Sizes : s <= n}
<1>1. Cardinality(Blocks) \in Nat /\ Cardinality(AllocThreads) \in Nat
      /\ Cardinality(AllocThreads) # 0
  BY PeakAllocAssumption, FS_CardinalityType, FS_EmptySet
<1>2. \A k \in Nat, s \in Nat : k # 0 => s <= k * s
  OBVIOUS
<1>3. Width \in Bounds
  <2> SUFFICES ASSUME NEW s \in Sizes PROVE s <= Width
    BY PeakAllocAssumption
  <2> DEFINE k == Cardinality(Blocks) + Cardinality(AllocThreads)
  <2>1. k \in Nat /\ k # 0
    BY <1>1
  <2>2. k * s < Width /\ s \in Nat /\ Width \in Nat
    BY PeakAllocAssumption
  <2> HIDE DEF k
  <2>3. s <= k * s /\ k * s \in Nat
    BY <1>2, <2>1, <2>2
  <2> QED BY <2>2, <2>3
<1>4. PICK m \in Bounds : \A n \in Bounds : ~(<<n, m>> \in OpToRel(<, Nat))
  BY <1>3, NatLessThanWellFounded, WFMin
<1>5. \A n \in Bounds : ~(n < m)
  BY <1>4 DEF OpToRel
<1>6. m \in Sizes
  <2> SUFFICES ASSUME m \notin Sizes PROVE FALSE
    OBVIOUS
  <2>1. PICK s \in Sizes : TRUE
    BY PeakAllocAssumption
  <2>2. \A z \in Sizes : z \in Nat /\ z > 0 /\ z <= m /\ z # m
    BY PeakAllocAssumption
  <2>3. m - 1 \in Bounds
    BY <2>1, <2>2
  <2> QED BY <1>5, <2>3
<1>7. \E x \in Sizes : \A y \in Sizes : x >= y
  BY <1>6, PeakAllocAssumption
<1>8. Max(Sizes) \in Sizes /\ \A y \in Sizes : Max(Sizes) >= y
  BY <1>7 DEF Max
<1> QED BY <1>8, PeakAllocAssumption

(* However much of the calls is counted, the counter does not wrap.           *)
LEMMA TotalBound ==
    ASSUME NEW sz \in [Blocks -> Sizes \cup {0}],
           NEW cl \in [AllocThreads -> CallShape]
    PROVE  /\ \A b \in Blocks : CountedOf(sz, cl)[b] \in Nat
           /\ \A t \in AllocThreads : OwedOf(cl)[t] \in Nat
           /\ SumFunctionOnSet(CountedOf(sz, cl), Blocks) \in Nat
           /\ SumFunctionOnSet(OwedOf(cl), AllocThreads) \in Nat
           /\ TotalOf(sz, cl) \in Nat /\ TotalOf(sz, cl) < Width
           /\ TotalOf(sz, cl)
                <= (Cardinality(Blocks) + Cardinality(AllocThreads)) * Max(Sizes)
<1> DEFINE m == Max(Sizes)
           f == CountedOf(sz, cl)
           g == OwedOf(cl)
           B == Cardinality(Blocks)
           T == Cardinality(AllocThreads)
<1>1. m \in Nat /\ m \in Sizes /\ \A s \in Sizes \cup {0} : s \in Nat /\ s <= m
  BY MaxSize, PeakAllocAssumption
<1>2. \A b \in Blocks : f[b] \in Sizes \cup {0}
  BY DEF CountedOf
<1>3. \A t \in AllocThreads : g[t] \in Sizes \cup {0}
  BY ShapeCases DEF OwedOf
<1>4. IsFiniteSet(Blocks) /\ IsFiniteSet(AllocThreads) /\ B \in Nat /\ T \in Nat
  BY PeakAllocAssumption, FS_CardinalityType
<1> HIDE DEF m, f, g
<1>5. SumFunctionOnSet(f, Blocks) \in Nat /\ SumFunctionOnSet(f, Blocks) <= B * m
  BY <1>1, <1>2, <1>4, SumBound
<1>6. SumFunctionOnSet(g, AllocThreads) \in Nat /\ SumFunctionOnSet(g, AllocThreads) <= T * m
  BY <1>1, <1>3, <1>4, SumBound
<1>7. (B + T) * m < Width /\ Width \in Nat
  BY <1>1, PeakAllocAssumption
<1> HIDE DEF B, T
<1>8. (B + T) * m = B * m + T * m /\ B * m \in Nat /\ T * m \in Nat
  BY <1>1, <1>4
<1>9. /\ SumFunctionOnSet(f, Blocks) + SumFunctionOnSet(g, AllocThreads) \in Nat
      /\ SumFunctionOnSet(f, Blocks) + SumFunctionOnSet(g, AllocThreads) <= (B + T) * m
      /\ SumFunctionOnSet(f, Blocks) + SumFunctionOnSet(g, AllocThreads) < Width
  BY <1>5, <1>6, <1>7, <1>8
<1> QED BY <1>1, <1>2, <1>3, <1>5, <1>6, <1>9 DEF TotalOf, f, g, m, B, T

(* What a change of one thread's call and of one block does to the total.     *)
LEMMA TotalStep ==
    ASSUME NEW sz \in [Blocks -> Sizes \cup {0}], NEW cl \in [AllocThreads -> CallShape],
           NEW sz2 \in [Blocks -> Sizes \cup {0}], NEW cl2 \in [AllocThreads -> CallShape],
           NEW t \in AllocThreads, NEW b \in Blocks,
           \A y \in Blocks \ {b} : sz[y] = sz2[y],
           \A u \in AllocThreads \ {t} : cl[u] = cl2[u],
           Adds(cl[t]) \ {b} = Adds(cl2[t]) \ {b}
    PROVE  TotalOf(sz2, cl2) + CountedOf(sz, cl)[b] + Owed(cl[t])
             = TotalOf(sz, cl) + CountedOf(sz2, cl2)[b] + Owed(cl2[t])
<1> DEFINE f   == CountedOf(sz, cl)
           f2  == CountedOf(sz2, cl2)
           g   == OwedOf(cl)
           g2  == OwedOf(cl2)
<1>1. \A y \in Blocks \ {b} : f[y] = f2[y]
  <2> SUFFICES ASSUME NEW y \in Blocks \ {b} PROVE f[y] = f2[y]
    OBVIOUS
  <2>1. \A u \in AllocThreads : y \in Adds(cl[u]) <=> y \in Adds(cl2[u])
    OBVIOUS
  <2> QED BY <2>1 DEF CountedOf
<1>2. \A u \in AllocThreads \ {t} : g[u] = g2[u]
  BY DEF OwedOf
<1>3. g[t] = Owed(cl[t]) /\ g2[t] = Owed(cl2[t])
  BY DEF OwedOf
<1>4. /\ \A y \in Blocks : f[y] \in Nat /\ f2[y] \in Nat
      /\ \A u \in AllocThreads : g[u] \in Nat /\ g2[u] \in Nat
      /\ SumFunctionOnSet(f, Blocks) \in Nat /\ SumFunctionOnSet(f2, Blocks) \in Nat
      /\ SumFunctionOnSet(g, AllocThreads) \in Nat
      /\ SumFunctionOnSet(g2, AllocThreads) \in Nat
  BY TotalBound
<1>5. IsFiniteSet(Blocks) /\ IsFiniteSet(AllocThreads)
  BY PeakAllocAssumption
<1> HIDE DEF f, f2, g, g2
<1>6. SumFunctionOnSet(f2, Blocks) + f[b] = SumFunctionOnSet(f, Blocks) + f2[b]
  BY <1>1, <1>4, <1>5, SumUpdate
<1>7. SumFunctionOnSet(g2, AllocThreads) + g[t] = SumFunctionOnSet(g, AllocThreads) + g2[t]
  BY <1>2, <1>4, <1>5, SumUpdate
<1>8. TotalOf(sz, cl) = SumFunctionOnSet(f, Blocks) + SumFunctionOnSet(g, AllocThreads)
  BY DEF TotalOf, f, g
<1>9. TotalOf(sz2, cl2) = SumFunctionOnSet(f2, Blocks) + SumFunctionOnSet(g2, AllocThreads)
  BY DEF TotalOf, f2, g2
<1>10. TotalOf(sz2, cl2) + f[b] + g[t] = TotalOf(sz, cl) + f2[b] + g2[t]
  <2>1. f[b] \in Nat /\ f2[b] \in Nat /\ g[t] \in Nat /\ g2[t] \in Nat
    BY <1>4
  <2> QED BY ONLY <1>4, <1>6, <1>7, <1>8, <1>9, <2>1
<1> QED BY <1>3, <1>10 DEF f, f2

-----------------------------------------------------------------------------
(* The bytes that are live *)

\* What a thread whose memory is handed out has still to add.
AddOf(cl) == [t \in AllocThreads |-> IF Adds(cl[t]) = {} THEN 0 ELSE Adding(cl[t])]

\* One block for every thread but one.
Slack == (Cardinality(AllocThreads) - 1) * Max(Sizes)

(* The counter and the live bytes differ by what the calls under way have     *)
(* still to add and to subtract.                                              *)
LiveCount ==
    current + SumFunctionOnSet(AddOf(call), AllocThreads)
      = Bytes(Blocks) + SumFunctionOnSet(OwedOf(call), AllocThreads)

(* The two maxima.  The counter can lag by a block of every thread only while *)
(* all of them are adding, and then the live bytes cannot change before one   *)
(* of them has added its block.                                               *)
Maxima ==
    /\ highLive \in Nat
    /\ current <= highCount
    /\ Bytes(Blocks) <= highLive
    /\ highCount <= highLive + Slack
    /\ \/ highLive <= highCount + Slack
       \/ Bytes(Blocks) = highLive /\ \A t \in AllocThreads : Adds(call[t]) # {}

LiveInv == LiveCount /\ Maxima

(* A call has at most one size to add.                                        *)
LEMMA AddTyped ==
    ASSUME NEW cl \in [AllocThreads -> CallShape]
    PROVE  \A t \in AllocThreads : AddOf(cl)[t] \in Sizes \cup {0}
<1> SUFFICES ASSUME NEW t \in AllocThreads PROVE AddOf(cl)[t] \in Sizes \cup {0}
  OBVIOUS
<1> PICK c \in CallShape : c = cl[t]
  OBVIOUS
<1>1. Adds(c) # {} => Adding(c) \in Sizes
  <2>1. ASSUME NEW b \in Blocks, NEW s \in Sizes, c = AddCall(b, s)
        PROVE  Adding(c) \in Sizes
    <3> PICK x : x = AddCall(b, s)
      OBVIOUS
    <3>1. Adding(x) = s
      BY ShapeAdd
    <3> QED BY <2>1, <3>1
  <2>2. ASSUME NEW s \in Sizes, c = SubCall(s) PROVE Adds(c) = {}
    BY <2>2, ShapeSub
  <2>3. ASSUME NEW b \in Blocks, NEW o \in Sizes, NEW s \in Sizes, c = MoveCall(b, o, s)
        PROVE  Adding(c) \in Sizes
    BY <2>3, ShapeMove
  <2>4. ASSUME NEW b \in Blocks, NEW n \in Nat, c = MaxCall(b, n) PROVE Adds(c) = {}
    BY <2>4, ShapeMax
  <2> QED BY <2>1, <2>2, <2>3, <2>4, ShapeCases, ShapeNoCall
<1> QED BY <1>1 DEF AddOf

(* The sums over all threads, and over all but one that has nothing to add.   *)
LEMMA SlackBound ==
    ASSUME NEW f, \A t \in AllocThreads : f[t] \in Sizes \cup {0}
    PROVE  /\ Slack \in Nat
           /\ \A t \in AllocThreads : f[t] \in Nat
           /\ SumFunctionOnSet(f, AllocThreads) \in Nat
           /\ \A u \in AllocThreads :
                f[u] = 0 => SumFunctionOnSet(f, AllocThreads) <= Slack
<1> PICK m : m = Max(Sizes)
  OBVIOUS
<1>1. m \in Nat /\ \A s \in Sizes \cup {0} : s \in Nat /\ s <= m
  BY MaxSize, PeakAllocAssumption
<1>2. \A t \in AllocThreads : f[t] \in Nat /\ f[t] <= m
  BY <1>1
<1>3. IsFiniteSet(AllocThreads) /\ Main \in AllocThreads
  BY PeakAllocAssumption
<1>4. SumFunctionOnSet(f, AllocThreads) \in Nat
  BY <1>2, <1>3, SumNat
<1>5. ASSUME NEW u \in AllocThreads
      PROVE  /\ IsFiniteSet(AllocThreads \ {u})
             /\ Cardinality(AllocThreads \ {u}) = Cardinality(AllocThreads) - 1
             /\ Cardinality(AllocThreads \ {u}) \in Nat
  BY <1>3, FS_RemoveElement, FS_CardinalityType
<1>6. Slack \in Nat
  <2>1. Cardinality(AllocThreads) - 1 \in Nat
    BY <1>3, <1>5
  <2> QED BY <1>1, <2>1 DEF Slack
<1>7. ASSUME NEW u \in AllocThreads, f[u] = 0
      PROVE  SumFunctionOnSet(f, AllocThreads) <= Slack
  <2> PICK S : S = AllocThreads \ {u}
    OBVIOUS
  <2>1. SumFunctionOnSet(f, S) <= Cardinality(S) * m /\ SumFunctionOnSet(f, S) \in Nat
    BY <1>1, <1>2, <1>5, SumBound
  <2>2. SumFunctionOnSet(f, AllocThreads) = f[u] + SumFunctionOnSet(f, S)
    BY <1>2, <1>3, SumStep
  <2>3. Cardinality(S) * m = Slack
    BY <1>5 DEF Slack
  <2> QED BY <1>7, <2>1, <2>2, <2>3
<1> QED BY <1>2, <1>4, <1>6, <1>7

(* The sums of a state are numbers, and small when a thread has nothing to    *)
(* add or to subtract.                                                        *)
LEMMA LiveSums ==
    ASSUME NEW sz \in [Blocks -> Sizes \cup {0}], NEW cl \in [AllocThreads -> CallShape]
    PROVE  /\ Slack \in Nat
           /\ \A b \in Blocks : sz[b] \in Nat
           /\ \A t \in AllocThreads : AddOf(cl)[t] \in Nat /\ OwedOf(cl)[t] \in Nat
           /\ SumFunctionOnSet(sz, Blocks) \in Nat
           /\ SumFunctionOnSet(AddOf(cl), AllocThreads) \in Nat
           /\ SumFunctionOnSet(OwedOf(cl), AllocThreads) \in Nat
           /\ \A u \in AllocThreads : Adds(cl[u]) = {} =>
                SumFunctionOnSet(AddOf(cl), AllocThreads) <= Slack
           /\ \A u \in AllocThreads : Owed(cl[u]) = 0 =>
                SumFunctionOnSet(OwedOf(cl), AllocThreads) <= Slack
<1>1. \A s \in Sizes \cup {0} : s \in Nat
  BY PeakAllocAssumption
<1>2. \A b \in Blocks : sz[b] \in Nat
  BY <1>1
<1>3. SumFunctionOnSet(sz, Blocks) \in Nat
  BY <1>2, SumNat, PeakAllocAssumption
<1> PICK f : f = AddOf(cl)
  OBVIOUS
<1> PICK g : g = OwedOf(cl)
  OBVIOUS
<1>4. \A t \in AllocThreads : f[t] \in Sizes \cup {0}
  BY AddTyped
<1>5. \A t \in AllocThreads : g[t] \in Sizes \cup {0}
  BY ShapeCases DEF OwedOf
<1>6. \A u \in AllocThreads : Adds(cl[u]) = {} => f[u] = 0
  BY DEF AddOf
<1>7. \A u \in AllocThreads : Owed(cl[u]) = 0 => g[u] = 0
  BY DEF OwedOf
<1>8. /\ Slack \in Nat /\ \A t \in AllocThreads : f[t] \in Nat
      /\ SumFunctionOnSet(f, AllocThreads) \in Nat
      /\ \A u \in AllocThreads : f[u] = 0 => SumFunctionOnSet(f, AllocThreads) <= Slack
  BY <1>4, SlackBound
<1>9. /\ \A t \in AllocThreads : g[t] \in Nat
      /\ SumFunctionOnSet(g, AllocThreads) \in Nat
      /\ \A u \in AllocThreads : g[u] = 0 => SumFunctionOnSet(g, AllocThreads) <= Slack
  BY <1>5, SlackBound
<1> QED BY <1>2, <1>3, <1>6, <1>7, <1>8, <1>9

(* What a change of one thread's call does to the sums.                       *)
LEMMA ThreadSums ==
    ASSUME NEW cl \in [AllocThreads -> CallShape], NEW cl2 \in [AllocThreads -> CallShape],
           NEW t \in AllocThreads, \A u \in AllocThreads \ {t} : cl[u] = cl2[u]
    PROVE  /\ SumFunctionOnSet(AddOf(cl2), AllocThreads) + AddOf(cl)[t]
                = SumFunctionOnSet(AddOf(cl), AllocThreads) + AddOf(cl2)[t]
           /\ SumFunctionOnSet(OwedOf(cl2), AllocThreads) + OwedOf(cl)[t]
                = SumFunctionOnSet(OwedOf(cl), AllocThreads) + OwedOf(cl2)[t]
<1>0. PICK sz \in [Blocks -> Sizes \cup {0}] : sz = [b \in Blocks |-> 0]
  OBVIOUS
<1>1. \A u \in AllocThreads : AddOf(cl)[u] \in Nat /\ AddOf(cl2)[u] \in Nat
  BY LiveSums
<1>2. \A u \in AllocThreads : OwedOf(cl)[u] \in Nat /\ OwedOf(cl2)[u] \in Nat
  BY LiveSums
<1>3. \A u \in AllocThreads \ {t} : /\ AddOf(cl)[u] = AddOf(cl2)[u]
                                    /\ OwedOf(cl)[u] = OwedOf(cl2)[u]
  BY DEF AddOf, OwedOf
<1>4. IsFiniteSet(AllocThreads)
  BY PeakAllocAssumption
<1> PICK f : f = AddOf(cl)
  OBVIOUS
<1> PICK f2 : f2 = AddOf(cl2)
  OBVIOUS
<1> PICK g : g = OwedOf(cl)
  OBVIOUS
<1> PICK g2 : g2 = OwedOf(cl2)
  OBVIOUS
<1>5. SumFunctionOnSet(f2, AllocThreads) + f[t] = SumFunctionOnSet(f, AllocThreads) + f2[t]
  <2>1. \A u \in AllocThreads : f[u] \in Nat /\ f2[u] \in Nat
    BY <1>1
  <2>2. \A u \in AllocThreads \ {t} : f[u] = f2[u]
    BY <1>3
  <2> PICK R : R = AllocThreads \ {t}
    OBVIOUS
  <2>3. /\ SumFunctionOnSet(f, R) \in Nat
        /\ SumFunctionOnSet(f, AllocThreads) = f[t] + SumFunctionOnSet(f, R)
    BY <1>4, <2>1, SumStep
  <2>4. SumFunctionOnSet(f2, AllocThreads) = f2[t] + SumFunctionOnSet(f2, R)
    BY <1>4, <2>1, SumStep
  <2>5. SumFunctionOnSet(f, R) = SumFunctionOnSet(f2, R)
    <3>1. IsFiniteSet(R)
      BY <1>4, FS_RemoveElement
    <3> QED BY <2>1, <2>2, <3>1, SumAgree
  <2> QED BY <2>1, <2>3, <2>4, <2>5
<1>6. SumFunctionOnSet(g2, AllocThreads) + g[t] = SumFunctionOnSet(g, AllocThreads) + g2[t]
  BY <1>2, <1>3, <1>4, SumUpdate
<1> QED BY <1>5, <1>6

(* The maxima after a step, from the sums before and after it: live, add and  *)
(* owe are the live bytes and what the threads have still to add and to       *)
(* subtract.                                                                  *)
LEMMA MaximaCount ==
    ASSUME NEW cur \in Nat, NEW live \in Nat, NEW add \in Nat, NEW owe \in Nat,
           NEW slack \in Nat, NEW hc \in Nat, NEW hl \in Nat,
           cur + add = live + owe
    PROVE  /\ add <= slack /\ cur <= hc => live <= hc + slack
           /\ owe <= slack /\ live <= hl => cur <= hl + slack
    OBVIOUS

-----------------------------------------------------------------------------
(* A call that begins leaves the main thread alone where it must be, and has  *)
(* nothing to offer to the peak yet.                                          *)
LEMMA EnterQuiet ==
    ASSUME AllocInv, NEW t \in AllocThreads, NEW c \in CallShape, Offers(c) = {},
           call[t] = NoCall, Runs(t), call' = [call EXCEPT ![t] = c],
           UNCHANGED <<counters, main>>
    PROVE  Alone' /\ Highest'
<1>1. \A u \in AllocThreads : call'[u] = IF u = t THEN c ELSE call[u]
  BY DEF AllocInv, AllocTyped
<1>2. /\ stage' = stage /\ loaded' = loaded /\ current' = current
      /\ peak' = peak /\ highCount' = highCount
  BY DEF counters, main
<1>3. Alone'
  BY <1>1, <1>2 DEF AllocInv, Alone, Runs
<1>4. Offers(call[t]) = {}
  BY ShapeNoCall
<1>5. \A u \in AllocThreads : Offers(call'[u]) = Offers(call[u])
  BY <1>1, <1>4
<1> QED BY <1>2, <1>3, <1>5 DEF AllocInv, Highest

(* Nobody else adds a block that no call works on.                            *)
LEMMA NotBusy ==
    ASSUME AllocInv, NEW b \in Blocks, b \notin Busy
    PROVE  /\ \A t \in AllocThreads : b \notin call[t].block /\ b \notin Adds(call[t])
           /\ CountedOf(size, call)[b] = size[b]
<1>1. \A t \in AllocThreads : b \notin call[t].block
  BY DEF Busy
<1>2. \A t \in AllocThreads : b \notin Adds(call[t])
  BY <1>1, ShapeCases DEF AllocInv, AllocTyped
<1> QED BY <1>1, <1>2 DEF CountedOf

(* alloc, dealloc and realloc: one block changes its size, and what the       *)
(* counter is behind by is in the new call.                                   *)
LEMMA EnterInv ==
    ASSUME AllocInv, NEW t \in AllocThreads, NEW b \in Blocks,
           NEW s \in Sizes \cup {0}, NEW c \in CallShape,
           b \notin Busy, Enter(t, b, s, c.todo, c.block),
           c = [todo |-> c.todo, block |-> c.block],
           \/ c.block = {b} /\ Adds(c) = {b} /\ Adding(c) = s
           \/ c.block = {} /\ Adds(c) = {} /\ s = 0,
           Offers(c) = {}, Owed(c) = size[b]
    PROVE  AllocInv' /\ (LiveInv => LiveInv')
<1>1. /\ call[t] = NoCall /\ Runs(t) /\ calls' = calls + 1
      /\ call' = [call EXCEPT ![t] = c]
      /\ size' = [size EXCEPT ![b] = s]
      /\ UNCHANGED <<counters, main>>
  BY DEF Enter
<1>2. /\ stage' = stage /\ loaded' = loaded /\ current' = current
      /\ peak' = peak /\ highCount' = highCount
  BY <1>1 DEF counters, main
<1>3. AllocTyped'
  BY <1>1, <1>2 DEF AllocInv, AllocTyped
<1>4. Alone' /\ Highest'
  BY <1>1, EnterQuiet
<1>5. \A u \in AllocThreads : call'[u] = IF u = t THEN c ELSE call[u]
  BY <1>1 DEF AllocInv, AllocTyped
<1>6. /\ \A u \in AllocThreads : b \notin call[u].block /\ b \notin Adds(call[u])
      /\ CountedOf(size, call)[b] = size[b]
  BY NotBusy
<1>7. OwnBlocks'
  <2>1. ASSUME NEW u \in AllocThreads, NEW v \in AllocThreads, u # v
        PROVE  call'[u].block \cap call'[v].block = {}
    BY <1>5, <1>6, <2>1 DEF AllocInv, OwnBlocks
  <2>2. ASSUME NEW u \in AllocThreads, NEW y \in Adds(call'[u])
        PROVE  Adding(call'[u]) = size'[y]
    <3>1. CASE u = t
      BY <1>1, <1>5, <3>1 DEF AllocInv, AllocTyped
    <3>2. CASE u # t
      <4>1. y \in Adds(call[u]) /\ call'[u] = call[u]
        BY <1>5, <3>2
      <4>2. y # b
        BY <1>6, <4>1
      <4> QED BY <1>1, <4>1, <4>2 DEF AllocInv, AllocTyped, OwnBlocks
    <3> QED BY <3>1, <3>2
  <2> QED BY <2>1, <2>2 DEF OwnBlocks
<1>8. Counter'
  <2>1. size \in [Blocks -> Sizes \cup {0}] /\ call \in [AllocThreads -> CallShape]
    BY DEF AllocInv, AllocTyped
  <2>2. size' \in [Blocks -> Sizes \cup {0}] /\ call' \in [AllocThreads -> CallShape]
    BY <1>3 DEF AllocTyped
  <2>3. Adds(call[t]) = {} /\ Owed(call[t]) = 0
    BY <1>1, ShapeNoCall
  <2>4. Adds(call[t]) \ {b} = Adds(call'[t]) \ {b} /\ call'[t] = c
    BY <1>5, <2>3
  <2>5. TotalOf(size', call') + CountedOf(size, call)[b] + Owed(call[t])
          = TotalOf(size, call) + CountedOf(size', call')[b] + Owed(call'[t])
    <3>1. \A y \in Blocks \ {b} : size[y] = size'[y]
      BY <1>1, <2>1
    <3>2. \A u \in AllocThreads \ {t} : call[u] = call'[u]
      BY <1>5
    <3>3. Adds(call[t]) \ {b} = Adds(call'[t]) \ {b}
      BY <2>4
    <3> QED BY ONLY <2>1, <2>2, <3>1, <3>2, <3>3, t \in AllocThreads, b \in Blocks,
               TotalStep
  <2>6. CountedOf(size', call')[b] = 0
    <3>1. CASE Adds(c) = {b}
      <4>1. b \in Adds(call'[t])
        BY <1>5, <3>1
      <4> QED BY <4>1 DEF CountedOf
    <3>2. CASE s = 0
      <4>1. size'[b] = 0
        BY <1>1, <2>1, <3>2
      <4> QED BY <4>1 DEF CountedOf
    <3> QED BY <3>1, <3>2
  <2>7. TotalOf(size', call') \in Nat /\ TotalOf(size, call) \in Nat /\ size[b] \in Nat
    <3>1. TotalOf(size', call') \in Nat /\ TotalOf(size, call) \in Nat
      BY <2>1, <2>2, TotalBound
    <3>2. CountedOf(size, call)[b] \in Nat
      BY <2>1, TotalBound
    <3> QED BY <1>6, <3>1, <3>2
  <2>8. TotalOf(size', call') = TotalOf(size, call)
    BY <1>6, <2>3, <2>4, <2>5, <2>6, <2>7
  <2> QED BY <1>2, <2>8 DEF AllocInv, Counter
<1>9. ASSUME LiveInv PROVE LiveInv'
  <2>1. size \in [Blocks -> Sizes \cup {0}] /\ call \in [AllocThreads -> CallShape]
    BY DEF AllocInv, AllocTyped
  <2>2. size' \in [Blocks -> Sizes \cup {0}] /\ call' \in [AllocThreads -> CallShape]
    BY <1>3 DEF AllocTyped
  <2> PICK A, A2, O, O2, B, B2 :
        /\ A = SumFunctionOnSet(AddOf(call), AllocThreads)
        /\ A2 = SumFunctionOnSet(AddOf(call'), AllocThreads)
        /\ O = SumFunctionOnSet(OwedOf(call), AllocThreads)
        /\ O2 = SumFunctionOnSet(OwedOf(call'), AllocThreads)
        /\ B = SumFunctionOnSet(size, Blocks)
        /\ B2 = SumFunctionOnSet(size', Blocks)
    OBVIOUS
  <2>3. /\ Slack \in Nat /\ A \in Nat /\ O \in Nat /\ B \in Nat
        /\ \A y \in Blocks : size[y] \in Nat
    BY <2>1, LiveSums
  <2>4. /\ A2 \in Nat /\ O2 \in Nat /\ B2 \in Nat
        /\ \A y \in Blocks : size'[y] \in Nat
        /\ \A u \in AllocThreads : Adds(call'[u]) = {} => A2 <= Slack
    BY <2>2, LiveSums
  <2>5. \A u \in AllocThreads \ {t} : call[u] = call'[u]
    BY <1>5
  <2>6. /\ A2 + AddOf(call)[t] = A + AddOf(call')[t]
        /\ O2 + OwedOf(call)[t] = O + OwedOf(call')[t]
    BY <2>1, <2>2, <2>5, ThreadSums
  <2>7. /\ Adds(call[t]) = {} /\ AddOf(call)[t] = 0 /\ OwedOf(call)[t] = 0
        /\ AddOf(call')[t] = s /\ OwedOf(call')[t] = size[b]
    BY <1>1, <1>5, ShapeNoCall DEF AddOf, OwedOf
  <2>8. B2 + size[b] = B + s
    <3>1. \A y \in Blocks \ {b} : size[y] = size'[y]
      BY <1>1, <2>1
    <3>2. size'[b] = s
      BY <1>1, <2>1
    <3>3. B2 + size[b] = B + size'[b]
      <4> PICK f, g : f = size /\ g = size'
        OBVIOUS
      <4>1. IsFiniteSet(Blocks) /\ \A y \in Blocks : f[y] \in Nat /\ g[y] \in Nat
        BY <2>3, <2>4, PeakAllocAssumption
      <4>2. SumFunctionOnSet(g, Blocks) + f[b] = SumFunctionOnSet(f, Blocks) + g[b]
        BY <3>1, <4>1, SumUpdate
      <4> QED BY <4>2
    <3> QED BY <3>2, <3>3
  <2>9. Bytes(Blocks) = B /\ Bytes(Blocks)' = B2
    BY DEF Bytes
  <2>10. /\ highLive \in Nat /\ current <= highCount /\ B <= highLive
         /\ highCount <= highLive + Slack /\ current + A = B + O
         /\ highLive <= highCount + Slack
    BY <1>9, <2>7, <2>9 DEF LiveInv, LiveCount, Maxima
  <2>11. current' = current /\ highCount' = highCount /\ highLive' = Higher(B2, highLive)
    BY <1>2, <2>9 DEF Enter
  <2>12. current \in Nat /\ highCount \in Nat /\ s \in Nat /\ size[b] \in Nat
    BY <2>3, PeakAllocAssumption DEF AllocInv, AllocTyped
  <2>13. current + A2 = B2 + O2
    BY <2>3, <2>4, <2>6, <2>7, <2>8, <2>10, <2>12
  <2>14. /\ highLive' \in Nat /\ B2 <= highLive' /\ highLive <= highLive'
         /\ highLive' = B2 \/ highLive' = highLive
    BY <2>4, <2>10, <2>11 DEF Higher
  <2>15. \/ highLive' <= highCount + Slack
         \/ B2 = highLive' /\ \A u \in AllocThreads : Adds(call'[u]) # {}
    <3>1. CASE highLive' = highLive
      BY <2>10, <3>1
    <3>2. CASE highLive' = B2
      <4>1. ASSUME NEW u \in AllocThreads, Adds(call'[u]) = {}
            PROVE  B2 <= highCount + Slack
        BY <2>3, <2>4, <2>10, <2>12, <2>13, <4>1, MaximaCount
      <4> QED BY <3>2, <4>1
    <3> QED BY <2>14, <3>1, <3>2
  <2>16. highCount <= highLive' + Slack
    BY <2>3, <2>10, <2>12, <2>14
  <2>17. LiveCount'
    BY <2>9, <2>11, <2>13 DEF LiveCount
  <2>18. Maxima'
    BY <2>9, <2>10, <2>11, <2>14, <2>15, <2>16 DEF Maxima
  <2> QED BY <2>17, <2>18 DEF LiveInv
<1> QED BY <1>3, <1>4, <1>7, <1>8, <1>9 DEF AllocInv

(* The memory a call takes or gives back, in the three calls.                 *)
LEMMA AllocatorCalls ==
    ASSUME AllocInv, NEW t \in AllocThreads, NEW b \in Blocks, NEW s \in Sizes,
           Alloc(t, b, s) \/ Realloc(t, b, s) \/ Dealloc(t, b)
    PROVE  AllocInv' /\ (LiveInv => LiveInv')
<1>1. size[b] \in Sizes \cup {0} /\ 0 \notin Sizes
  BY PeakAllocAssumption DEF AllocInv, AllocTyped
<1>2. CASE Alloc(t, b, s)
  <2> DEFINE c == AddCall(b, s)
  <2>1. c \in CallShape
    BY DEF CallShape
  <2>2. /\ c = [todo |-> c.todo, block |-> c.block] /\ c.block = {b}
        /\ c.todo = <<[op |-> "add", bytes |-> s]>>
        /\ Adds(c) = {b} /\ Adding(c) = s /\ Offers(c) = {} /\ Owed(c) = 0
    BY ShapeAdd DEF AddCall
  <2> HIDE DEF c
  <2>3. size[b] = 0 /\ b \notin Busy /\ Enter(t, b, s, c.todo, c.block)
    BY <1>2, <2>2 DEF Alloc
  <2> QED BY <2>1, <2>2, <2>3, EnterInv
<1>3. CASE Realloc(t, b, s)
  <2> DEFINE c == MoveCall(b, size[b], s)
  <2>1. b \notin Busy /\ size[b] \in Sizes
    BY <1>1, <1>3 DEF Realloc, Live
  <2>2. c \in CallShape
    BY <2>1 DEF CallShape
  <2>3. /\ c = [todo |-> c.todo, block |-> c.block] /\ c.block = {b}
        /\ c.todo = <<[op |-> "sub", bytes |-> size[b]], [op |-> "add", bytes |-> s]>>
    BY DEF MoveCall
  <2>4. Adds(c) = {b} /\ Adding(c) = s /\ Offers(c) = {} /\ Owed(c) = size[b]
    BY ShapeMove
  <2> HIDE DEF c
  <2>5. Enter(t, b, s, c.todo, c.block)
    BY <1>3, <2>3 DEF Realloc
  <2> QED BY <2>1, <2>2, <2>3, <2>4, <2>5, EnterInv
<1>4. CASE Dealloc(t, b)
  <2> DEFINE c == SubCall(size[b])
  <2>1. b \notin Busy /\ size[b] \in Sizes
    BY <1>1, <1>4 DEF Dealloc, Live
  <2>2. c \in CallShape
    BY <2>1 DEF CallShape
  <2>3. /\ c = [todo |-> c.todo, block |-> c.block] /\ c.block = {}
        /\ c.todo = <<[op |-> "sub", bytes |-> size[b]]>>
    BY DEF SubCall
  <2>4. Adds(c) = {} /\ Offers(c) = {} /\ Owed(c) = size[b]
    BY ShapeSub
  <2> HIDE DEF c
  <2>5. Enter(t, b, 0, c.todo, c.block)
    BY <1>4, <2>3 DEF Dealloc
  <2> QED BY <2>1, <2>2, <2>3, <2>4, <2>5, EnterInv
<1> QED BY <1>2, <1>3, <1>4

(* fetch_sub: the counter does not go below zero, and nothing else is owed.   *)
LEMMA SubInv ==
    ASSUME AllocInv, NEW t \in AllocThreads, Sub(t)
    PROVE  AllocInv' /\ (LiveInv => LiveInv')
<1> PICK c : c = call[t]
  OBVIOUS
<1>1. c \in CallShape /\ c.todo # <<>> /\ c.todo[1].op = "sub"
  BY DEF AllocInv, AllocTyped, Sub, Update
<1>2. PICK r \in CallShape :
        /\ r = Rest(t)
        /\ r.block = c.block /\ Adds(r) = Adds(c) /\ Offers(r) = {} /\ Offers(c) = {}
        /\ Owed(r) = 0
        /\ Adds(c) # {} => Adding(r) = Adding(c)
        /\ Owed(c) \in Sizes /\ Owed(c) = c.todo[1].bytes /\ c # NoCall
  <2>1. ASSUME NEW s \in Sizes, c = SubCall(s)
        PROVE  /\ NoCall \in CallShape /\ NoCall = Rest(t)
               /\ NoCall.block = c.block /\ Adds(NoCall) = Adds(c) /\ Offers(NoCall) = {}
               /\ Offers(c) = {} /\ Owed(NoCall) = 0 /\ Adds(c) = {}
               /\ Owed(c) \in Sizes /\ Owed(c) = c.todo[1].bytes /\ c # NoCall
    <3>1. NoCall \in CallShape
      BY DEF CallShape
    <3>2. NoCall = Rest(t)
      BY <2>1, ShapeSub DEF Rest
    <3> QED BY <2>1, <3>1, <3>2, ShapeSub, ShapeNoCall
  <2>2. ASSUME NEW b \in Blocks, NEW o \in Sizes, NEW s \in Sizes, c = MoveCall(b, o, s)
        PROVE  \E r \in CallShape :
                 /\ r = Rest(t)
                 /\ r.block = c.block /\ Adds(r) = Adds(c) /\ Offers(r) = {}
                 /\ Offers(c) = {} /\ Owed(r) = 0 /\ Adding(r) = Adding(c)
                 /\ Owed(c) \in Sizes /\ Owed(c) = c.todo[1].bytes /\ c # NoCall
    <3>1. AddCall(b, s) \in CallShape
      BY DEF CallShape
    <3>2. AddCall(b, s) = Rest(t)
      <4>1. Len(c.todo) = 2 /\ [c EXCEPT !.todo = Tail(@)] = AddCall(b, s)
        BY <2>2, ShapeMove
      <4> QED BY <4>1 DEF Rest
    <3>3. /\ c.block = {b} /\ Adds(c) = {b} /\ Adding(c) = s /\ Offers(c) = {}
          /\ Owed(c) = o /\ o = c.todo[1].bytes /\ c # NoCall
      BY <2>2, ShapeMove
    <3>4. /\ AddCall(b, s).block = {b} /\ Adds(AddCall(b, s)) = {b}
          /\ Adding(AddCall(b, s)) = s
          /\ Offers(AddCall(b, s)) = {} /\ Owed(AddCall(b, s)) = 0
      BY ShapeAdd
    <3> QED BY <3>1, <3>2, <3>3, <3>4
  <2>3. \/ \E s \in Sizes : c = SubCall(s)
        \/ \E b \in Blocks, o \in Sizes, s \in Sizes : c = MoveCall(b, o, s)
    <3>1. \A b, s : AddCall(b, s).todo[1].op # "sub"
      BY ShapeAdd
    <3>2. \A b, n : MaxCall(b, n).todo[1].op # "sub"
      BY ShapeMax
    <3> QED BY <1>1, <3>1, <3>2, ShapeCases, ShapeNoCall
  <2> QED BY <2>1, <2>2, <2>3
<1>3. /\ call' = [call EXCEPT ![t] = r]
      /\ current' = (current + Width - Owed(c)) % Width
      /\ UNCHANGED <<peak, size, calls, highCount, highLive, stage, loaded>>
  BY <1>2 DEF Sub, highs, main
<1>4. /\ size \in [Blocks -> Sizes \cup {0}] /\ call \in [AllocThreads -> CallShape]
      /\ current = TotalOf(size, call)
  BY DEF AllocInv, AllocTyped, Counter
<1>5. call' \in [AllocThreads -> CallShape]
  BY <1>3, <1>4
<1>6. \A u \in AllocThreads : call'[u] = IF u = t THEN r ELSE call[u]
  BY <1>3, <1>4
<1>7. /\ current' = TotalOf(size, call') /\ current' \in Nat
      /\ current' + Owed(c) = current
      /\ SumFunctionOnSet(OwedOf(call'), AllocThreads) + Owed(c)
           = SumFunctionOnSet(OwedOf(call), AllocThreads)
  <2>1. \A u \in AllocThreads : Adds(call'[u]) = Adds(call[u])
    BY <1>2, <1>6
  <2>2. CountedOf(size, call') = CountedOf(size, call)
    BY <2>1 DEF CountedOf
  <2>3. SumFunctionOnSet(OwedOf(call'), AllocThreads) + Owed(c)
          = SumFunctionOnSet(OwedOf(call), AllocThreads)
    <3>1. \A u \in AllocThreads : OwedOf(call)[u] \in Nat /\ OwedOf(call')[u] \in Nat
      BY <1>4, <1>5, TotalBound
    <3>2. \A u \in AllocThreads \ {t} : OwedOf(call)[u] = OwedOf(call')[u]
      BY <1>6 DEF OwedOf
    <3>3. OwedOf(call)[t] = Owed(c) /\ OwedOf(call')[t] = 0
      BY <1>2, <1>6 DEF OwedOf
    <3>4. SumFunctionOnSet(OwedOf(call'), AllocThreads) + OwedOf(call)[t]
            = SumFunctionOnSet(OwedOf(call), AllocThreads) + OwedOf(call')[t]
      BY <3>1, <3>2, SumUpdate, PeakAllocAssumption
    <3>5. SumFunctionOnSet(OwedOf(call), AllocThreads) \in Nat
      BY <1>4, TotalBound
    <3> QED BY <3>3, <3>4, <3>5
  <2>4. /\ TotalOf(size, call) \in Nat /\ TotalOf(size, call) < Width
        /\ TotalOf(size, call') \in Nat /\ TotalOf(size, call') < Width
        /\ Width \in Nat /\ Owed(c) \in Nat
        /\ SumFunctionOnSet(CountedOf(size, call), Blocks) \in Nat
        /\ SumFunctionOnSet(OwedOf(call'), AllocThreads) \in Nat
    BY <1>2, <1>4, <1>5, TotalBound, PeakAllocAssumption
  <2>5. TotalOf(size, call') + Owed(c) = TotalOf(size, call)
    BY <2>2, <2>3, <2>4 DEF TotalOf
  <2>6. current' = (TotalOf(size, call') + Width) % Width
    <3>1. current + Width - Owed(c) = TotalOf(size, call') + Width
      BY <1>4, <2>4, <2>5
    <3> QED BY <1>3, <3>1
  <2>7. \A n \in Nat, w \in Nat : n < w => (n + w) % w = n
    OBVIOUS
  <2> QED BY <1>4, <2>3, <2>4, <2>5, <2>6, <2>7
<1>8. AllocTyped'
  BY <1>3, <1>5, <1>7 DEF AllocInv, AllocTyped
<1>9. OwnBlocks'
  <2>1. \A u \in AllocThreads : /\ call'[u].block = call[u].block
                                /\ Adds(call'[u]) = Adds(call[u])
                                /\ Adds(call[u]) # {} => Adding(call'[u]) = Adding(call[u])
    BY <1>2, <1>6
  <2> QED BY <1>3, <2>1 DEF AllocInv, OwnBlocks
<1>10. Counter'
  BY <1>3, <1>7 DEF Counter
<1>11. Alone'
  <2>1. stage # "resetting"
    BY <1>2 DEF AllocInv, Alone
  <2>2. stage \in {"idle", "resetting"} => t = Main
    BY <1>2 DEF AllocInv, Alone
  <2> QED BY <1>3, <1>6, <2>1, <2>2 DEF AllocInv, Alone
<1>12. Highest'
  <2>1. \A u \in AllocThreads : Offers(call'[u]) = Offers(call[u])
    BY <1>2, <1>6
  <2> QED BY <1>3, <2>1 DEF AllocInv, Highest
<1>13. ASSUME LiveInv PROVE LiveInv'
  <2>1. \A u \in AllocThreads : /\ Adds(call'[u]) = Adds(call[u])
                                /\ Adds(call[u]) # {} => Adding(call'[u]) = Adding(call[u])
    BY <1>2, <1>6
  <2>2. AddOf(call') = AddOf(call)
    BY <2>1 DEF AddOf
  <2>3. Bytes(Blocks)' = Bytes(Blocks) /\ highCount' = highCount /\ highLive' = highLive
    BY <1>3 DEF Bytes
  <2>4. /\ SumFunctionOnSet(AddOf(call), AllocThreads) \in Nat
        /\ SumFunctionOnSet(OwedOf(call'), AllocThreads) \in Nat
        /\ Bytes(Blocks) \in Nat /\ Owed(c) \in Nat
        /\ current \in Nat /\ current' \in Nat /\ highCount \in Nat
    BY <1>2, <1>4, <1>5, <1>8, LiveSums, PeakAllocAssumption
       DEF Bytes, AllocInv, AllocTyped
  <2>5. LiveCount'
    BY <1>7, <1>13, <2>2, <2>3, <2>4 DEF LiveInv, LiveCount
  <2>6. current' <= highCount
    BY <1>7, <1>13, <2>4 DEF LiveInv, Maxima
  <2>7. Maxima'
    BY <1>13, <2>1, <2>3, <2>6 DEF LiveInv, Maxima
  <2> QED BY <2>5, <2>7 DEF LiveInv
<1> QED BY <1>8, <1>9, <1>10, <1>11, <1>12, <1>13 DEF AllocInv

(* fetch_add: the counter does not wrap, and the sum it saw is offered next.  *)
LEMMA AddInv ==
    ASSUME AllocInv, NEW t \in AllocThreads, Add(t)
    PROVE  AllocInv' /\ (LiveInv => LiveInv')
<1> PICK c : c = call[t]
  OBVIOUS
<1>1. c \in CallShape /\ c.todo # <<>> /\ c.todo[1].op = "add"
  BY DEF AllocInv, AllocTyped, Add, Update
<1>2. PICK b \in Blocks, s \in Sizes : c = AddCall(b, s)
  <2>1. \A x : SubCall(x).todo[1].op # "add"
    BY ShapeSub
  <2>2. \A x, y, z : MoveCall(x, y, z).todo[1].op # "add"
    BY ShapeMove
  <2>3. \A x, n : MaxCall(x, n).todo[1].op # "add"
    BY ShapeMax
  <2> QED BY <1>1, <2>1, <2>2, <2>3, ShapeCases, ShapeNoCall
<1>3. /\ c.block = {b} /\ c.todo[1].bytes = s /\ Owed(c) = 0 /\ Adds(c) = {b}
      /\ Adding(c) = s /\ Offers(c) = {} /\ c # NoCall
  <2> PICK x : x = AddCall(b, s)
    OBVIOUS
  <2>1. /\ x.block = {b} /\ x.todo[1].bytes = s /\ Owed(x) = 0 /\ Adds(x) = {b}
        /\ Adding(x) = s /\ Offers(x) = {} /\ x # NoCall
    BY ShapeAdd
  <2> QED BY <1>2, <2>1
<1> PICK now : now = (current + s) % Width
  OBVIOUS
<1> PICK r : r = MaxCall(b, now)
  OBVIOUS
<1>4. /\ current' = now /\ highCount' = IF now > highCount THEN now ELSE highCount
      /\ call' = [call EXCEPT ![t] = r]
      /\ UNCHANGED <<peak, size, calls, highLive, stage, loaded>>
  <2>1. call' = [call EXCEPT ![t].todo = <<[op |-> "max", bytes |-> now]>>]
    BY <1>3 DEF Add
  <2>2. [c EXCEPT !.todo = <<[op |-> "max", bytes |-> now]>>] = r
    BY <1>2, AddGoesOn
  <2>3. call' = [call EXCEPT ![t] = r]
    BY <2>1, <2>2 DEF AllocInv, AllocTyped
  <2> QED BY <1>3, <2>3 DEF Add, Higher, main
<1>5. r.block = {b} /\ Owed(r) = 0 /\ Adds(r) = {} /\ Offers(r) = {now}
  BY ShapeMax
<1>6. /\ size \in [Blocks -> Sizes \cup {0}] /\ call \in [AllocThreads -> CallShape]
      /\ current = TotalOf(size, call) /\ current \in Nat /\ s \in Nat /\ Width \in Nat
      /\ size[b] = s /\ highCount \in Nat
  <2>1. size[b] = s
    BY <1>3 DEF AllocInv, OwnBlocks
  <2> QED BY <2>1, PeakAllocAssumption DEF AllocInv, AllocTyped, Counter
<1>7. now \in Nat
  <2>1. TotalOf(size, call) < Width
    BY <1>6, TotalBound
  <2> QED BY <1>6, <2>1
<1>8. r \in CallShape
  BY <1>7 DEF CallShape
<1>9. call' \in [AllocThreads -> CallShape]
  BY <1>4, <1>6, <1>8
<1>10. \A u \in AllocThreads : call'[u] = IF u = t THEN r ELSE call[u]
  BY <1>4, <1>6
<1>11. \A u \in AllocThreads \ {t} : b \notin Adds(call[u])
  BY <1>3, <1>6, ShapeCases DEF AllocInv, OwnBlocks
<1>12. now = TotalOf(size, call') /\ now = current + s
  <2>1. TotalOf(size, call') + CountedOf(size, call)[b] + Owed(call[t])
          = TotalOf(size, call) + CountedOf(size, call')[b] + Owed(call'[t])
    <3>1. \A y \in Blocks \ {b} : size[y] = size[y]
      OBVIOUS
    <3>2. \A u \in AllocThreads \ {t} : call[u] = call'[u]
      BY <1>10
    <3>3. Adds(call[t]) \ {b} = Adds(call'[t]) \ {b}
      BY <1>3, <1>5, <1>10
    <3> QED BY ONLY <1>6, <1>9, <3>1, <3>2, <3>3, t \in AllocThreads, b \in Blocks,
               TotalStep
  <2>2. CountedOf(size, call)[b] = 0
    BY <1>3 DEF CountedOf
  <2>3. \A u \in AllocThreads : b \notin Adds(call'[u])
    BY <1>5, <1>10, <1>11
  <2>4. CountedOf(size, call')[b] = s
    BY <1>6, <2>3 DEF CountedOf
  <2>5. /\ TotalOf(size, call) \in Nat
        /\ TotalOf(size, call') \in Nat /\ TotalOf(size, call') < Width
    BY <1>6, <1>9, TotalBound
  <2>6. Owed(call[t]) = 0 /\ Owed(call'[t]) = 0
    BY <1>3, <1>5, <1>10
  <2>7. TotalOf(size, call') = current + s
    BY <1>6, <2>1, <2>2, <2>4, <2>5, <2>6
  <2>8. \A n \in Nat, w \in Nat : n < w => n % w = n
    OBVIOUS
  <2> QED BY <1>6, <2>5, <2>7, <2>8
<1>13. AllocTyped'
  BY <1>4, <1>6, <1>7, <1>9 DEF AllocInv, AllocTyped
<1>14. OwnBlocks'
  <2>1. \A u \in AllocThreads : call'[u].block = call[u].block
    BY <1>3, <1>5, <1>10
  <2>2. \A u \in AllocThreads : \A y \in Adds(call'[u]) : Adding(call'[u]) = size[y]
    BY <1>5, <1>10 DEF AllocInv, OwnBlocks
  <2> QED BY <1>4, <2>1, <2>2 DEF AllocInv, OwnBlocks
<1>15. Counter'
  BY <1>4, <1>12 DEF Counter
<1>16. Alone'
  <2>1. stage # "resetting"
    BY <1>3 DEF AllocInv, Alone
  <2>2. stage \in {"idle", "resetting"} => t = Main
    BY <1>3 DEF AllocInv, Alone
  <2> QED BY <1>4, <1>10, <2>1, <2>2 DEF AllocInv, Alone
<1>17. Highest'
  <2>1. \A u \in AllocThreads : Offers(call'[u]) = IF u = t THEN {now} ELSE Offers(call[u])
    BY <1>5, <1>10
  <2>2. highCount <= highCount' /\ now <= highCount' /\ highCount' \in Nat
    BY <1>4, <1>6, <1>7
  <2>3. peak' <= highCount'
    BY <1>4, <1>6, <2>2 DEF AllocInv, AllocTyped, Highest
  <2>4. ASSUME NEW u \in AllocThreads, NEW n \in Offers(call'[u]) PROVE n <= highCount'
    <3>1. CASE u = t
      BY <2>1, <2>2, <3>1
    <3>2. CASE u # t
      <4>1. n \in Offers(call[u]) /\ n <= highCount
        BY <2>1, <3>2 DEF AllocInv, Highest
      <4>2. n \in Nat
        <5>1. call[u] \in CallShape
          BY <1>6
        <5>2. \A x : Offers(SubCall(x)) = {}
          BY ShapeSub
        <5>3. \A x, y : Offers(AddCall(x, y)) = {}
          BY ShapeAdd
        <5>4. \A x, y, z : Offers(MoveCall(x, y, z)) = {}
          BY ShapeMove
        <5>5. \A x, y : Offers(MaxCall(x, y)) = {y}
          BY ShapeMax
        <5> QED BY <4>1, <5>1, <5>2, <5>3, <5>4, <5>5, ShapeCases, ShapeNoCall
      <4> QED BY <1>6, <2>2, <4>1, <4>2
    <3> QED BY <3>1, <3>2
  <2>5. peak' = highCount' \/ \E u \in AllocThreads : highCount' \in Offers(call'[u])
    <3>1. CASE highCount' = now
      BY <2>1, <3>1
    <3>2. CASE highCount' = highCount
      <4>1. CASE peak = highCount
        BY <1>4, <3>2, <4>1
      <4>2. CASE \E u \in AllocThreads : highCount \in Offers(call[u])
        BY <1>3, <2>1, <3>2, <4>2
      <4> QED BY <4>1, <4>2 DEF AllocInv, Highest
    <3> QED BY <1>4, <3>1, <3>2
  <2> QED BY <2>3, <2>4, <2>5 DEF Highest
<1>18. ASSUME LiveInv PROVE LiveInv'
  <2> PICK A, A2, O, O2, B :
        /\ A = SumFunctionOnSet(AddOf(call), AllocThreads)
        /\ A2 = SumFunctionOnSet(AddOf(call'), AllocThreads)
        /\ O = SumFunctionOnSet(OwedOf(call), AllocThreads)
        /\ O2 = SumFunctionOnSet(OwedOf(call'), AllocThreads)
        /\ B = SumFunctionOnSet(size, Blocks)
    OBVIOUS
  <2>1. A \in Nat /\ O \in Nat /\ B \in Nat /\ Slack \in Nat
    BY <1>6, LiveSums
  <2>2. /\ A2 \in Nat /\ O2 \in Nat
        /\ \A u \in AllocThreads : Adds(call'[u]) = {} => A2 <= Slack
        /\ \A u \in AllocThreads : Owed(call'[u]) = 0 => O2 <= Slack
    BY <1>6, <1>9, LiveSums
  <2>3. /\ A2 + AddOf(call)[t] = A + AddOf(call')[t]
        /\ O2 + OwedOf(call)[t] = O + OwedOf(call')[t]
    BY <1>6, <1>9, <1>10, ThreadSums
  <2>4. /\ AddOf(call)[t] = s /\ AddOf(call')[t] = 0
        /\ OwedOf(call)[t] = 0 /\ OwedOf(call')[t] = 0
        /\ Adds(call'[t]) = {} /\ Owed(call'[t]) = 0
    BY <1>3, <1>5, <1>10 DEF AddOf, OwedOf
  <2>5. A2 <= Slack /\ O2 <= Slack
    BY <2>2, <2>4
  <2>6. Bytes(Blocks) = B /\ Bytes(Blocks)' = B
    BY <1>4 DEF Bytes
  <2>7. /\ highLive \in Nat /\ current <= highCount /\ B <= highLive
        /\ highCount <= highLive + Slack /\ current + A = B + O
        /\ highLive <= highCount + Slack \/ B = highLive
    BY <1>18, <2>6 DEF LiveInv, LiveCount, Maxima
  <2>8. now + A2 = B + O2
    BY <1>6, <1>12, <2>1, <2>2, <2>3, <2>4, <2>7
  <2>9. /\ highCount' \in Nat /\ now <= highCount' /\ highCount <= highCount'
        /\ highCount' = now \/ highCount' = highCount
    BY <1>4, <1>6, <1>7
  <2>10. B <= highCount' + Slack /\ now <= highLive + Slack
    BY <1>7, <2>1, <2>2, <2>5, <2>7, <2>8, <2>9, MaximaCount
  <2>11. highCount' <= highLive + Slack
    BY <2>7, <2>9, <2>10
  <2>12. highLive <= highCount' + Slack
    <3>1. CASE highLive <= highCount + Slack
      <4>1. \A x, y, k, l \in Nat : x <= y + k /\ y <= l => x <= l + k
        OBVIOUS
      <4>2. /\ highLive \in Nat /\ highCount \in Nat /\ Slack \in Nat
            /\ highCount' \in Nat /\ highCount <= highCount'
        BY <1>6, <2>1, <2>7, <2>9
      <4> QED BY ONLY <3>1, <4>1, <4>2
    <3>2. CASE B = highLive
      BY <2>10, <3>2
    <3> QED BY <2>7, <3>1, <3>2
  <2>13. LiveCount'
    BY <1>4, <2>6, <2>8 DEF LiveCount
  <2>14. Maxima'
    BY <1>4, <2>6, <2>7, <2>9, <2>11, <2>12 DEF Maxima
  <2> QED BY <2>13, <2>14 DEF LiveInv
<1> QED BY <1>13, <1>14, <1>15, <1>16, <1>17, <1>18 DEF AllocInv

(* fetch_max: the offer is taken if it is higher, and the call is over.       *)
LEMMA FetchMaxInv ==
    ASSUME AllocInv, NEW t \in AllocThreads, FetchMax(t)
    PROVE  AllocInv' /\ (LiveInv => LiveInv')
<1> PICK c : c = call[t]
  OBVIOUS
<1>1. c \in CallShape /\ c.todo # <<>> /\ c.todo[1].op = "max"
  BY DEF AllocInv, AllocTyped, FetchMax, Update
<1>2. PICK b \in Blocks, n \in Nat : c = MaxCall(b, n)
  <2>1. \A x : SubCall(x).todo[1].op # "max"
    BY ShapeSub
  <2>2. \A x, y, z : MoveCall(x, y, z).todo[1].op # "max"
    BY ShapeMove
  <2>3. \A x, y : AddCall(x, y).todo[1].op # "max"
    BY ShapeAdd
  <2> QED BY <1>1, <2>1, <2>2, <2>3, ShapeCases, ShapeNoCall
<1>3. /\ c.block = {b} /\ c.todo[1].bytes = n /\ Owed(c) = 0 /\ Adds(c) = {}
      /\ Offers(c) = {n} /\ c # NoCall
  BY <1>2, ShapeMax
<1>4. /\ peak' = IF n > peak THEN n ELSE peak
      /\ call' = [call EXCEPT ![t] = NoCall]
      /\ UNCHANGED <<current, size, calls, highCount, highLive, stage, loaded>>
  BY <1>3 DEF FetchMax, Higher, highs, main
<1>5. /\ size \in [Blocks -> Sizes \cup {0}] /\ call \in [AllocThreads -> CallShape]
      /\ NoCall \in CallShape
  BY DEF AllocInv, AllocTyped, CallShape
<1>6. \A u \in AllocThreads : call'[u] = IF u = t THEN NoCall ELSE call[u]
  BY <1>4, <1>5
<1>7. AllocTyped'
  BY <1>4, <1>5 DEF AllocInv, AllocTyped
<1>8. \A u \in AllocThreads : /\ Adds(call'[u]) = Adds(call[u])
                              /\ Owed(call'[u]) = Owed(call[u])
                              /\ call'[u].block \subseteq call[u].block
                              /\ Adds(call[u]) # {} => call'[u] = call[u]
  BY <1>3, <1>6, ShapeNoCall
<1>9. OwnBlocks'
  BY <1>4, <1>8 DEF AllocInv, OwnBlocks
<1>10. Counter'
  <2>1. CountedOf(size, call') = CountedOf(size, call)
    BY <1>8 DEF CountedOf
  <2>2. OwedOf(call') = OwedOf(call)
    BY <1>8 DEF OwedOf
  <2> QED BY <1>4, <2>1, <2>2 DEF AllocInv, Counter, TotalOf
<1>11. Alone'
  BY <1>3, <1>4, <1>6 DEF AllocInv, Alone
<1>12. Highest'
  <2>1. peak \in Nat /\ highCount \in Nat /\ n <= highCount /\ peak <= highCount
    BY <1>3 DEF AllocInv, AllocTyped, Highest
  <2>2. peak' <= highCount' /\ (n = highCount => peak' = highCount') /\ (peak = highCount => peak' = highCount')
    BY <1>4, <2>1
  <2>3. \A u \in AllocThreads : Offers(call'[u]) = IF u = t THEN {} ELSE Offers(call[u])
    BY <1>6, ShapeNoCall
  <2>4. \A u \in AllocThreads : \A k \in Offers(call'[u]) : k <= highCount'
    BY <1>4, <2>3 DEF AllocInv, Highest
  <2>5. peak' = highCount' \/ \E u \in AllocThreads : highCount' \in Offers(call'[u])
    BY <1>3, <1>4, <2>2, <2>3 DEF AllocInv, Highest
  <2> QED BY <2>2, <2>4, <2>5 DEF Highest
<1>13. ASSUME LiveInv PROVE LiveInv'
  <2>1. AddOf(call') = AddOf(call) /\ OwedOf(call') = OwedOf(call)
    BY <1>8 DEF AddOf, OwedOf
  <2>2. Bytes(Blocks)' = Bytes(Blocks)
    BY <1>4 DEF Bytes
  <2> QED BY <1>4, <1>8, <1>13, <2>1, <2>2 DEF LiveInv, LiveCount, Maxima
<1> QED BY <1>7, <1>9, <1>10, <1>11, <1>12, <1>13 DEF AllocInv

(* The steps of the main thread around a build: the load sees what the store  *)
(* keeps, because nobody allocates in between.                                *)
LEMMA ResetInv ==
    ASSUME AllocInv, ResetLoad \/ ResetStore \/ ScanBegins \/ PoolEnds
    PROVE  AllocInv' /\ (LiveInv => LiveInv')
<1>1. /\ UNCHANGED <<current, size, call, calls>>
      /\ stage' \in {"idle", "resetting", "building", "scanning"}
  BY DEF ResetLoad, ResetStore, ScanBegins, PoolEnds, counters
<1>2. OwnBlocks' /\ Counter'
  BY <1>1 DEF AllocInv, OwnBlocks, Counter
<1>3. /\ Bytes(Blocks)' = Bytes(Blocks)
      /\ UNCHANGED <<highCount, highLive>> => (LiveInv => LiveInv')
  BY <1>1 DEF Bytes, LiveInv, LiveCount, Maxima
<1>4. CASE ResetLoad
  BY <1>1, <1>2, <1>3, <1>4 DEF AllocInv, AllocTyped, Alone, Highest, ResetLoad, counters
<1>5. CASE ResetStore
  <2>1. \A t \in AllocThreads : call[t] = NoCall
    BY <1>5 DEF AllocInv, Alone, ResetStore
  <2>2. \A t \in AllocThreads : Offers(call[t]) = {}
    BY <2>1, ShapeNoCall
  <2>3. /\ peak' = current /\ highCount' = current /\ highLive' = Bytes(Blocks)
        /\ loaded' = loaded /\ stage' = "building"
    BY <1>5 DEF AllocInv, Alone, ResetStore
  <2>4. AllocTyped'
    BY <1>1, <2>3 DEF AllocInv, AllocTyped
  <2>5. Alone'
    BY <2>3 DEF Alone
  <2>6. Highest'
    BY <1>1, <2>2, <2>3 DEF AllocInv, AllocTyped, Highest
  <2>7. ASSUME LiveInv PROVE LiveInv'
    <3>1. /\ SumFunctionOnSet(AddOf(call), AllocThreads) = 0
          /\ SumFunctionOnSet(OwedOf(call), AllocThreads) = 0
      <4>1. \A t \in AllocThreads : AddOf(call)[t] = 0 /\ OwedOf(call)[t] = 0
        BY <2>1, ShapeNoCall DEF AddOf, OwedOf
      <4> QED BY <4>1, SumZero, PeakAllocAssumption
    <3>2. current \in Nat /\ Bytes(Blocks) \in Nat /\ Slack \in Nat
      BY LiveSums DEF AllocInv, AllocTyped, Bytes
    <3>3. current = Bytes(Blocks)
      BY <2>7, <3>1, <3>2 DEF LiveInv, LiveCount
    <3>4. LiveCount'
      BY <1>1, <1>3, <2>7 DEF LiveInv, LiveCount
    <3>5. Maxima'
      BY <1>1, <1>3, <2>3, <3>2, <3>3 DEF Maxima
    <3> QED BY <3>4, <3>5 DEF LiveInv
  <2> QED BY <1>2, <2>4, <2>5, <2>6, <2>7 DEF AllocInv
<1>6. CASE ScanBegins
  BY <1>1, <1>2, <1>3, <1>6 DEF AllocInv, AllocTyped, Alone, Highest, ScanBegins, counters
<1>7. CASE PoolEnds
  BY <1>1, <1>2, <1>3, <1>7 DEF AllocInv, AllocTyped, Alone, Highest, PoolEnds, counters
<1> QED BY <1>4, <1>5, <1>6, <1>7

(* The invariant holds when the program starts.                               *)
LEMMA InitAlloc == AllocInit => AllocInv /\ LiveInv
<1> SUFFICES ASSUME AllocInit PROVE AllocInv /\ LiveInv
  OBVIOUS
<1>1. AllocTyped
  BY DEF AllocInit, AllocTyped, CallShape
<1>2. \A t \in AllocThreads : /\ call[t] = NoCall /\ call[t].block = {}
                              /\ Adds(call[t]) = {} /\ Owed(call[t]) = 0
                              /\ Offers(call[t]) = {}
  BY ShapeNoCall DEF AllocInit
<1>3. OwnBlocks /\ Alone /\ Highest
  BY <1>2 DEF AllocInit, OwnBlocks, Alone, Highest
<1>4. Counter
  <2>1. SumFunctionOnSet(CountedOf(size, call), Blocks) = 0
    <3>1. \A b \in Blocks : CountedOf(size, call)[b] = 0
      BY DEF AllocInit, CountedOf
    <3> QED BY <3>1, SumZero, PeakAllocAssumption
  <2>2. SumFunctionOnSet(OwedOf(call), AllocThreads) = 0
    <3>1. \A t \in AllocThreads : OwedOf(call)[t] = 0
      BY <1>2 DEF OwedOf
    <3> QED BY <3>1, SumZero, PeakAllocAssumption
  <2> QED BY <2>1, <2>2 DEF AllocInit, Counter, TotalOf
<1>5. LiveInv
  <2>1. /\ SumFunctionOnSet(AddOf(call), AllocThreads) = 0
        /\ SumFunctionOnSet(OwedOf(call), AllocThreads) = 0
    <3>1. \A t \in AllocThreads : AddOf(call)[t] = 0 /\ OwedOf(call)[t] = 0
      BY <1>2 DEF AddOf, OwedOf
    <3> QED BY <3>1, SumZero, PeakAllocAssumption
  <2>2. Bytes(Blocks) = 0
    BY SumZero, PeakAllocAssumption DEF Bytes, AllocInit
  <2>3. Slack \in Nat
    BY <1>1, LiveSums DEF AllocTyped
  <2> QED BY <2>1, <2>2, <2>3 DEF AllocInit, LiveInv, LiveCount, Maxima
<1> QED BY <1>1, <1>3, <1>4, <1>5 DEF AllocInv

(* The invariant holds in every state of every behaviour of the allocator.    *)
THEOREM AllocInvariant == AllocSpec => [](AllocInv /\ LiveInv)
<1>1. AllocInit => AllocInv /\ LiveInv
  BY InitAlloc
<1>2. AllocInv /\ LiveInv /\ [AllocNext]_allocVars => AllocInv' /\ LiveInv'
  <2> SUFFICES ASSUME AllocInv, LiveInv, [AllocNext]_allocVars
               PROVE  AllocInv' /\ LiveInv'
    OBVIOUS
  <2>1. ASSUME NEW t \in AllocThreads, NEW b \in Blocks, NEW s \in Sizes,
               Alloc(t, b, s) \/ Realloc(t, b, s)
        PROVE  AllocInv' /\ LiveInv'
    BY <2>1, AllocatorCalls
  <2>2. ASSUME NEW t \in AllocThreads, NEW b \in Blocks, Dealloc(t, b) PROVE AllocInv' /\ LiveInv'
    <3>1. PICK s \in Sizes : TRUE
      BY PeakAllocAssumption
    <3> QED BY <2>2, AllocatorCalls
  <2>3. ASSUME NEW t \in AllocThreads, NoMemory(t) PROVE AllocInv' /\ LiveInv'
    BY <2>3 DEF NoMemory, counters, main, AllocInv, AllocTyped, OwnBlocks, Counter, Alone,
                Highest, LiveInv, LiveCount, Maxima, Bytes
  <2>4. ASSUME NEW t \in AllocThreads, Sub(t) PROVE AllocInv' /\ LiveInv'
    BY <2>4, SubInv
  <2>5. ASSUME NEW t \in AllocThreads, Add(t) PROVE AllocInv' /\ LiveInv'
    BY <2>5, AddInv
  <2>6. ASSUME NEW t \in AllocThreads, FetchMax(t) PROVE AllocInv' /\ LiveInv'
    BY <2>6, FetchMaxInv
  <2>7. CASE ResetLoad \/ ResetStore \/ ScanBegins \/ PoolEnds
    BY <2>7, ResetInv
  <2>8. CASE UNCHANGED allocVars
    BY <2>8 DEF allocVars, counters, main, AllocInv, AllocTyped, OwnBlocks, Counter, Alone,
                Highest, LiveInv, LiveCount, Maxima, Bytes
  <2> QED BY <2>1, <2>2, <2>3, <2>4, <2>5, <2>6, <2>7, <2>8 DEF AllocNext
<1> QED BY <1>1, <1>2, PTL DEF AllocSpec

(* The counter never wraps, however the additions and subtractions of the     *)
(* threads interleave, and between calls it is the number of live bytes.      *)
THEOREM CounterIsExact == AllocSpec => []CurrentExact
<1>1. AllocInv => CurrentExact
  <2> SUFFICES ASSUME AllocInv PROVE CurrentExact
    OBVIOUS
  <2>1. size \in [Blocks -> Sizes \cup {0}] /\ call \in [AllocThreads -> CallShape]
    BY DEF AllocInv, AllocTyped
  <2>2. current <= (Cardinality(Blocks) + Cardinality(AllocThreads)) * Max(Sizes)
    BY <2>1, TotalBound DEF AllocInv, Counter
  <2>3. ASSUME Quiescent PROVE current = Bytes(Blocks)
    <3>1. \A t \in AllocThreads : Adds(call[t]) = {} /\ Owed(call[t]) = 0
      BY <2>3, ShapeNoCall DEF Quiescent
    <3>2. \A b \in Blocks : CountedOf(size, call)[b] = size[b]
      BY <3>1 DEF CountedOf
    <3>3. \A t \in AllocThreads : OwedOf(call)[t] = 0
      BY <3>1 DEF OwedOf
    <3>4. SumFunctionOnSet(OwedOf(call), AllocThreads) = 0
      BY <3>3, SumZero, PeakAllocAssumption
    <3>5. \A b \in Blocks : CountedOf(size, call)[b] \in Nat
      BY <2>1, TotalBound
    <3>6. SumFunctionOnSet(CountedOf(size, call), Blocks) = SumFunctionOnSet(size, Blocks)
      BY <3>2, <3>5, SumAgree, PeakAllocAssumption
    <3>7. SumFunctionOnSet(CountedOf(size, call), Blocks) \in Nat
      BY <2>1, TotalBound
    <3> QED BY <3>4, <3>6, <3>7 DEF AllocInv, Counter, TotalOf, Bytes
  <2> QED BY <2>2, <2>3 DEF CurrentExact
<1> QED BY <1>1, AllocInvariant, PTL

(* No interleaving of fetch_add and fetch_max loses a maximum of the counter  *)
(* or invents one: the peak is the highest value of the counter since the     *)
(* reset as soon as no call is under way, and never above it.                 *)
THEOREM PeakIsExact == AllocSpec => []PeakExact
<1>1. AllocInv => PeakExact
  <2> SUFFICES ASSUME AllocInv PROVE PeakExact
    OBVIOUS
  <2>1. ASSUME Quiescent PROVE peak = highCount
    <3>1. \A t \in AllocThreads : Offers(call[t]) = {}
      BY <2>1, ShapeNoCall DEF Quiescent
    <3> QED BY <3>1 DEF AllocInv, Highest
  <2> QED BY <2>1 DEF AllocInv, Highest, PeakExact
<1> QED BY <1>1, AllocInvariant, PTL

(* The peak differs from the highest number of live bytes since the reset,    *)
(* which alloc.rs documents it to be, by no more than one block for every     *)
(* thread beside the one that is counting: above it at any time, and below it *)
(* once no call is under way.  With one thread it is exact.                   *)
THEOREM PeakIsNearLive == AllocSpec => []PeakNearLive
<1>1. AllocInv /\ LiveInv => PeakNearLive
  <2> SUFFICES ASSUME AllocInv, LiveInv PROVE PeakNearLive
    OBVIOUS
  <2>1. /\ peak \in Nat /\ highCount \in Nat /\ highLive \in Nat /\ Slack \in Nat
    BY LiveSums DEF AllocInv, AllocTyped, LiveInv, Maxima
  <2>2. peak <= highLive + Slack
    BY <2>1 DEF AllocInv, Highest, LiveInv, Maxima
  <2>3. ASSUME Quiescent PROVE highLive <= peak + Slack
    <3>1. \A t \in AllocThreads : Offers(call[t]) = {} /\ Adds(call[t]) = {}
      BY <2>3, ShapeNoCall DEF Quiescent
    <3>2. peak = highCount
      BY <3>1 DEF AllocInv, Highest
    <3> QED BY <3>1, <3>2, PeakAllocAssumption DEF LiveInv, Maxima
  <2> QED BY <2>2, <2>3 DEF PeakNearLive, Slack
<1> QED BY <1>1, AllocInvariant, PTL

-----------------------------------------------------------------------------
(* The byte string of a node *)

\* The byte string up to a part of it.
Head1(n) == <<UnwrapOrZero(n.addr), IsSome(n.addr), Len(n.path)>>
Head2(n) == Head1(n) \o Pack(n.path)
Head3(n) == Head2(n) \o <<n.masks>>
Head4(n) == Head3(n) \o n.hashes
Foot(n)  == <<UnwrapOrZero(n.root), IsSome(n.root)>>

(* The elements of a concatenation.                                           *)
LEMMA ConcatAt ==
    ASSUME NEW s \in Seq(Nat), NEW u \in Seq(Nat)
    PROVE  /\ s \o u \in Seq(Nat) /\ Len(s \o u) = Len(s) + Len(u)
           /\ \A i \in 1..Len(s) : (s \o u)[i] = s[i]
           /\ \A i \in 1..Len(u) : (s \o u)[Len(s) + i] = u[i]
  BY ConcatProperties

(* A node is a record of the fields push serialises.                          *)
LEMMA NodeTyped ==
    ASSUME NEW n \in Nodes
    PROVE  /\ n = [addr |-> n.addr, path |-> n.path, masks |-> n.masks,
                   hashes |-> n.hashes, root |-> n.root]
           /\ n.addr \in Nat \cup {None} /\ n.root \in Nat \cup {None}
           /\ n.path \in Seq(Digits) /\ Len(n.path) \in Nat
           /\ n.masks \in Nat /\ n.hashes \in Seq(Nat)
<1>1. n \in [addr : Nat \cup {None}, path : Seq(Digits), masks : Nat,
             hashes : Seq(Nat), root : Nat \cup {None}]
  BY NodeDigestAssumption
<1> QED BY <1>1

(* The packed path is a byte string of half the length, rounded up.           *)
LEMMA PackTyped ==
    ASSUME NEW p \in Seq(Digits)
    PROVE  Pack(p) \in Seq(Nat) /\ Len(Pack(p)) = (Len(p) + 1) \div 2
<1> DEFINE k == (Len(p) + 1) \div 2
<1>1. Len(p) \in Nat /\ k \in Nat /\ 2 * k <= Len(p) + 1
  OBVIOUS
<1>2. \A i \in 1..Len(p) : p[i] \in Nat
  BY ElementOfSeq DEF Digits
<1>3. ASSUME NEW i \in 1..k
      PROVE  16 * p[2 * i - 1] + (IF 2 * i <= Len(p) THEN p[2 * i] ELSE 0) \in Nat
  <2>1. 2 * i - 1 \in 1..Len(p) /\ (2 * i <= Len(p) => 2 * i \in 1..Len(p))
    BY <1>1
  <2> QED BY <1>2, <2>1
<1>4. Pack(p) \in [1..k -> Nat]
  BY <1>3 DEF Pack
<1> HIDE DEF k
<1>5. Pack(p) \in Seq(Nat) /\ Len(Pack(p)) = k
  BY <1>1, <1>4, SeqDef, LenProperties
<1> QED BY <1>5 DEF k

(* The length and the packed nibbles give the path back.                      *)
LEMMA PackInjective ==
    ASSUME NEW p \in Seq(Digits), NEW q \in Seq(Digits),
           Len(p) = Len(q), Pack(p) = Pack(q)
    PROVE  p = q
<1> DEFINE k == (Len(p) + 1) \div 2
<1>1. \A j \in 1..Len(p) : p[j] \in 0..15 /\ q[j] \in 0..15
  BY ElementOfSeq DEF Digits
<1>2. Len(p) \in Nat /\ k \in Nat
  OBVIOUS
<1>3. ASSUME NEW i \in 1..k
      PROVE  /\ p[2 * i - 1] = q[2 * i - 1]
             /\ 2 * i <= Len(p) => p[2 * i] = q[2 * i]
  <2>1. 2 * i - 1 \in 1..Len(p) /\ (2 * i <= Len(p) => 2 * i \in 1..Len(p))
    BY <1>2
  <2>2. 16 * p[2 * i - 1] + (IF 2 * i <= Len(p) THEN p[2 * i] ELSE 0)
          = 16 * q[2 * i - 1] + (IF 2 * i <= Len(p) THEN q[2 * i] ELSE 0)
    <3>1. Pack(p)[i] = 16 * p[2 * i - 1] + (IF 2 * i <= Len(p) THEN p[2 * i] ELSE 0)
      BY DEF Pack
    <3>2. Pack(q)[i] = 16 * q[2 * i - 1] + (IF 2 * i <= Len(p) THEN q[2 * i] ELSE 0)
      BY DEF Pack
    <3> QED BY <3>1, <3>2
  <2>3. p[2 * i - 1] \in 0..15 /\ q[2 * i - 1] \in 0..15
    BY <1>1, <2>1
  <2>4. CASE 2 * i <= Len(p)
    <3>1. p[2 * i] \in 0..15 /\ q[2 * i] \in 0..15
      BY <1>1, <2>1, <2>4
    <3>2. 16 * p[2 * i - 1] + p[2 * i] = 16 * q[2 * i - 1] + q[2 * i]
      BY <2>2, <2>4
    <3> PICK a \in 0..15, b \in 0..15, c \in 0..15, d \in 0..15 :
           /\ a = p[2 * i - 1] /\ b = p[2 * i]
           /\ c = q[2 * i - 1] /\ d = q[2 * i]
      BY <2>3, <3>1
    <3>3. 16 * a + b = 16 * c + d
      BY <3>2
    <3>4. a = c /\ b = d
      BY ONLY <3>3, a \in 0..15, b \in 0..15, c \in 0..15, d \in 0..15
    <3> QED BY <3>4
  <2>5. CASE ~(2 * i <= Len(p))
    <3> PICK a \in 0..15, c \in 0..15 : a = p[2 * i - 1] /\ c = q[2 * i - 1]
      BY <2>3
    <3>1. 16 * a + 0 = 16 * c + 0
      BY <2>2, <2>5
    <3>2. a = c
      BY ONLY <3>1, a \in 0..15, c \in 0..15
    <3> QED BY <2>5, <3>2
  <2> QED BY <2>4, <2>5
<1>4. ASSUME NEW j \in 1..Len(p) PROVE p[j] = q[j]
  <2>1. PICK i \in 1..k : j = 2 * i - 1 \/ j = 2 * i
    <3>1. (j + 1) \div 2 \in 1..k /\ (j = 2 * ((j + 1) \div 2) - 1 \/ j = 2 * ((j + 1) \div 2))
      BY <1>2
    <3> QED BY <3>1
  <2> QED BY <1>3, <2>1
<1> QED BY <1>4, SeqEqual

\* The bytes of the packed path.
PackLen(n) == (Len(n.path) + 1) \div 2

(* Where the parts of the byte string are.                                    *)
LEMMA BufParts ==
    ASSUME NEW n \in Nodes
    PROVE  /\ PackLen(n) \in Nat /\ Len(n.hashes) \in Nat
           /\ Buf(n)[1] = UnwrapOrZero(n.addr) /\ Buf(n)[2] = IsSome(n.addr)
           /\ Buf(n)[3] = Len(n.path)
           /\ \A i \in 1..PackLen(n) : Buf(n)[3 + i] = Pack(n.path)[i]
           /\ Buf(n)[4 + PackLen(n)] = n.masks
           /\ \A i \in 1..Len(n.hashes) : Buf(n)[4 + PackLen(n) + i] = n.hashes[i]
           /\ Buf(n)[4 + PackLen(n) + Len(n.hashes) + 1] = UnwrapOrZero(n.root)
           /\ Buf(n)[4 + PackLen(n) + Len(n.hashes) + 2] = IsSome(n.root)
<1> DEFINE k == PackLen(n)
           h == Len(n.hashes)
<1>1. /\ Len(n.path) \in Nat /\ n.masks \in Nat /\ n.hashes \in Seq(Nat)
      /\ UnwrapOrZero(n.addr) \in Nat /\ IsSome(n.addr) \in Nat
      /\ UnwrapOrZero(n.root) \in Nat /\ IsSome(n.root) \in Nat
  BY NodeTyped DEF UnwrapOrZero, IsSome
<1>2. k \in Nat /\ h \in Nat
  <2>1. k \in Nat
    <3>1. \A x \in Nat : (x + 1) \div 2 \in Nat
      OBVIOUS
    <3> QED BY <1>1, <3>1 DEF PackLen
  <2>2. h \in Nat
    BY <1>1, LenProperties
  <2> QED BY <2>1, <2>2
<1>3. Pack(n.path) \in Seq(Nat) /\ Len(Pack(n.path)) = k
  BY NodeTyped, PackTyped DEF PackLen
<1>4. /\ Head1(n) \in Seq(Nat) /\ Len(Head1(n)) = 3
      /\ Head1(n)[1] = UnwrapOrZero(n.addr) /\ Head1(n)[2] = IsSome(n.addr)
      /\ Head1(n)[3] = Len(n.path)
  BY <1>1 DEF Head1
<1>5. /\ <<n.masks>> \in Seq(Nat) /\ Len(<<n.masks>>) = 1 /\ <<n.masks>>[1] = n.masks
  BY <1>1
<1>6. /\ Foot(n) \in Seq(Nat) /\ Len(Foot(n)) = 2
      /\ Foot(n)[1] = UnwrapOrZero(n.root) /\ Foot(n)[2] = IsSome(n.root)
  BY <1>1 DEF Foot
<1> HIDE DEF k, h
<1>7. /\ Head2(n) \in Seq(Nat) /\ Len(Head2(n)) = 3 + k
      /\ \A i \in 1..3 : Head2(n)[i] = Head1(n)[i]
      /\ \A i \in 1..k : Head2(n)[3 + i] = Pack(n.path)[i]
  <2>1. /\ Head2(n) \in Seq(Nat) /\ Len(Head2(n)) = Len(Head1(n)) + Len(Pack(n.path))
        /\ \A i \in 1..Len(Head1(n)) : Head2(n)[i] = Head1(n)[i]
        /\ \A i \in 1..Len(Pack(n.path)) : Head2(n)[Len(Head1(n)) + i] = Pack(n.path)[i]
    BY <1>3, <1>4, ConcatAt DEF Head2
  <2> QED BY <1>3, <1>4, <2>1
<1>8. /\ Head3(n) \in Seq(Nat) /\ Len(Head3(n)) = 3 + k + 1
      /\ \A i \in 1..(3 + k) : Head3(n)[i] = Head2(n)[i]
      /\ \A i \in 1..1 : Head3(n)[3 + k + i] = <<n.masks>>[i]
  <2>1. /\ Head3(n) \in Seq(Nat) /\ Len(Head3(n)) = Len(Head2(n)) + Len(<<n.masks>>)
        /\ \A i \in 1..Len(Head2(n)) : Head3(n)[i] = Head2(n)[i]
        /\ \A i \in 1..Len(<<n.masks>>) : Head3(n)[Len(Head2(n)) + i] = <<n.masks>>[i]
    BY <1>5, <1>7, ConcatAt DEF Head3
  <2> QED BY <1>5, <1>7, <2>1
<1>9. /\ Head4(n) \in Seq(Nat) /\ Len(Head4(n)) = 4 + k + h
      /\ \A i \in 1..(4 + k) : Head4(n)[i] = Head3(n)[i]
      /\ \A i \in 1..h : Head4(n)[4 + k + i] = n.hashes[i]
  <2>1. Len(Head3(n)) = 4 + k /\ Len(n.hashes) = h
    BY <1>2, <1>8 DEF h
  <2>2. /\ Head4(n) \in Seq(Nat) /\ Len(Head4(n)) = Len(Head3(n)) + Len(n.hashes)
        /\ \A i \in 1..Len(Head3(n)) : Head4(n)[i] = Head3(n)[i]
        /\ \A i \in 1..Len(n.hashes) : Head4(n)[Len(Head3(n)) + i] = n.hashes[i]
    BY <1>1, <1>8, ConcatAt DEF Head4
  <2> QED BY <2>1, <2>2
<1>10. /\ \A i \in 1..(4 + k + h) : Buf(n)[i] = Head4(n)[i]
       /\ \A i \in 1..2 : Buf(n)[4 + k + h + i] = Foot(n)[i]
  <2>1. Buf(n) = Head4(n) \o Foot(n)
    BY DEF Buf, Head1, Head2, Head3, Head4, Foot
  <2>2. /\ \A i \in 1..Len(Head4(n)) : (Head4(n) \o Foot(n))[i] = Head4(n)[i]
        /\ \A i \in 1..Len(Foot(n)) : (Head4(n) \o Foot(n))[Len(Head4(n)) + i] = Foot(n)[i]
    BY ONLY <1>6, <1>9, ConcatAt
  <2> QED BY <1>6, <1>9, <2>1, <2>2
<1>11. /\ Buf(n)[1] = UnwrapOrZero(n.addr) /\ Buf(n)[2] = IsSome(n.addr)
       /\ Buf(n)[3] = Len(n.path)
  <2>1. \A i \in 1..3 : i \in 1..(3 + k) /\ i \in 1..(4 + k) /\ i \in 1..(4 + k + h)
    BY <1>2
  <2>2. \A i \in 1..3 : Buf(n)[i] = Head1(n)[i]
    BY <1>7, <1>8, <1>9, <1>10, <2>1
  <2> QED BY <1>4, <2>2
<1>12. \A i \in 1..k : Buf(n)[3 + i] = Pack(n.path)[i]
  <2> SUFFICES ASSUME NEW i \in 1..k PROVE Buf(n)[3 + i] = Pack(n.path)[i]
    OBVIOUS
  <2>1. 3 + i \in 1..(3 + k) /\ 3 + i \in 1..(4 + k) /\ 3 + i \in 1..(4 + k + h)
    BY <1>2
  <2> QED BY <1>7, <1>8, <1>9, <1>10, <2>1
<1>13. Buf(n)[4 + k] = n.masks
  <2>1. 4 + k \in 1..(4 + k) /\ 4 + k \in 1..(4 + k + h) /\ 3 + k + 1 = 4 + k
    BY <1>2
  <2>2. Head3(n)[3 + k + 1] = n.masks
    BY <1>5, <1>8
  <2> QED BY <1>9, <1>10, <2>1, <2>2
<1>14. \A i \in 1..h : Buf(n)[4 + k + i] = n.hashes[i]
  <2> SUFFICES ASSUME NEW i \in 1..h PROVE Buf(n)[4 + k + i] = n.hashes[i]
    OBVIOUS
  <2>1. 4 + k + i \in 1..(4 + k + h)
    BY <1>2
  <2> QED BY <1>9, <1>10, <2>1
<1>15. Buf(n)[4 + k + h + 1] = UnwrapOrZero(n.root) /\ Buf(n)[4 + k + h + 2] = IsSome(n.root)
  BY <1>6, <1>10
<1> QED BY <1>2, <1>11, <1>12, <1>13, <1>14, <1>15 DEF k, h

(* The byte string that push hashes determines the node: the flags tell None  *)
(* from zero, the length says where the packed path ends and whether its last *)
(* nibble is padding, and the masks say how many hashes there are. Without    *)
(* this two nodes could cancel each other in a fold.                          *)
THEOREM BufInjective ==
    ASSUME NEW n \in Nodes, NEW m \in Nodes, Buf(n) = Buf(m)
    PROVE  n = m
<1>1. \A x, y \in Nat \cup {None} :
        UnwrapOrZero(x) = UnwrapOrZero(y) /\ IsSome(x) = IsSome(y) => x = y
  BY NodeDigestAssumption DEF UnwrapOrZero, IsSome
<1>2. n.addr = m.addr /\ Len(n.path) = Len(m.path)
  <2>1. UnwrapOrZero(n.addr) = UnwrapOrZero(m.addr) /\ IsSome(n.addr) = IsSome(m.addr)
    BY BufParts
  <2>2. Len(n.path) = Len(m.path)
    BY BufParts
  <2>3. n.addr \in Nat \cup {None} /\ m.addr \in Nat \cup {None}
    BY NodeTyped
  <2> QED BY <1>1, <2>1, <2>2, <2>3
<1>3. PackLen(n) = PackLen(m) /\ PackLen(n) \in Nat
  BY <1>2, BufParts DEF PackLen
<1>4. n.path = m.path
  <2>1. /\ Pack(n.path) \in Seq(Nat) /\ Len(Pack(n.path)) = PackLen(n)
        /\ Pack(m.path) \in Seq(Nat) /\ Len(Pack(m.path)) = PackLen(n)
    BY <1>3, NodeTyped, PackTyped DEF PackLen
  <2>2. \A i \in 1..PackLen(n) : Pack(n.path)[i] = Pack(m.path)[i]
    BY <1>3, BufParts
  <2>3. Pack(n.path) = Pack(m.path)
    BY <2>1, <2>2, SeqEqual
  <2> QED BY <1>2, <2>3, NodeTyped, PackInjective
<1>5. n.masks = m.masks
  BY <1>3, BufParts
<1>6. Len(n.hashes) = Len(m.hashes)
  BY <1>5, NodeDigestAssumption
<1>7. n.hashes = m.hashes
  <2>1. n.hashes \in Seq(Nat) /\ m.hashes \in Seq(Nat)
    BY NodeTyped
  <2>2. \A i \in 1..Len(n.hashes) : Buf(n)[4 + PackLen(n) + i] = n.hashes[i]
    BY BufParts
  <2>3. \A i \in 1..Len(n.hashes) : Buf(n)[4 + PackLen(n) + i] = m.hashes[i]
    BY <1>3, <1>6, BufParts
  <2> QED BY <1>6, <2>1, <2>2, <2>3, SeqEqual
<1>8. n.root = m.root
  <2>1. UnwrapOrZero(n.root) = UnwrapOrZero(m.root) /\ IsSome(n.root) = IsSome(m.root)
    BY <1>3, <1>6, BufParts
  <2>2. n.root \in Nat \cup {None} /\ m.root \in Nat \cup {None}
    BY NodeTyped
  <2> QED BY <1>1, <2>1, <2>2
<1> QED BY <1>2, <1>4, <1>5, <1>7, <1>8, NodeTyped

-----------------------------------------------------------------------------
(* The pushes *)

\* The pushes of a node that have not reached the k-th fold, and all that are
\* not complete.
PendingIn(p, n, k) == {t \in Threads : p[t] # None /\ p[t].node = n /\ p[t].step <= k}
OpenIn(p)          == {t \in Threads : p[t] # None}

\* The types of the variables of the digest.
DigestTyped ==
    /\ fold \in [0..1 -> SUBSET Bufs]
    /\ count \in Nat
    /\ push \in [Threads -> {None} \cup [node : Nodes, step : 0..2]]
    /\ pushes \in [Threads -> Nat]
    /\ pushed \in [Nodes -> Nat]

(* A fold holds the nodes that reached it an odd number of times; a push that *)
(* has not is added to those that are pushed, which has the same parity.      *)
Parity ==
    \A n \in Nodes, k \in 0..1 :
        Buf(n) \in fold[k] <=> (pushed[n] + Cardinality(PendingIn(push, n, k))) % 2 = 1

(* The count lacks exactly the pushes that are not complete.                  *)
Counted == count + Cardinality(OpenIn(push)) = SumFunctionOnSet(pushed, Nodes)

DigestInv == DigestTyped /\ Parity /\ Counted

(* A snapshot is taken between pushes and nothing is pushed after it.         *)
Snapped ==
    snapshot # None => Idle /\ snapshot = Snapshot

(* The pushes under way are finitely many.                                    *)
LEMMA OpenFinite ==
    ASSUME NEW p, NEW n, NEW k
    PROVE  /\ IsFiniteSet(PendingIn(p, n, k)) /\ Cardinality(PendingIn(p, n, k)) \in Nat
           /\ IsFiniteSet(OpenIn(p)) /\ Cardinality(OpenIn(p)) \in Nat
<1>1. PendingIn(p, n, k) \in SUBSET Threads /\ OpenIn(p) \in SUBSET Threads
  BY DEF PendingIn, OpenIn
<1> QED BY <1>1, FS_Subset, FS_CardinalityType, NodeDigestAssumption

(* A push in progress is not None.                                            *)
LEMMA PushIsSome ==
    ASSUME NEW n \in Nodes, NEW k \in 0..2
    PROVE  /\ [node |-> n, step |-> k] # None
           /\ [node |-> n, step |-> k] \in [node : Nodes, step : 0..2]
    BY NodeDigestAssumption

(* A push begins: it is pending in both folds, which keeps the parity.        *)
LEMMA PushBeginInv ==
    ASSUME DigestInv, NEW t \in Threads, NEW n \in Nodes, PushBegin(t, n)
    PROVE  DigestInv'
<1> PICK r : r = [node |-> n, step |-> 0]
  OBVIOUS
<1>1. /\ r # None /\ r \in [node : Nodes, step : 0..2] /\ r.node = n /\ r.step = 0
  BY PushIsSome
<1>2. /\ push[t] = None /\ push' = [push EXCEPT ![t] = r]
      /\ pushes' = [pushes EXCEPT ![t] = pushes[t] + 1]
      /\ pushed' = [pushed EXCEPT ![n] = pushed[n] + 1]
      /\ fold' = fold /\ count' = count
  BY DEF PushBegin
<1>3. DigestTyped'
  BY <1>1, <1>2 DEF DigestInv, DigestTyped
<1>4. \A u \in Threads : push'[u] = IF u = t THEN r ELSE push[u]
  BY <1>2 DEF DigestInv, DigestTyped
<1>5. /\ pushed \in [Nodes -> Nat] /\ pushed' \in [Nodes -> Nat]
      /\ pushed'[n] = pushed[n] + 1
      /\ \A m \in Nodes \ {n} : pushed'[m] = pushed[m]
  BY <1>2, <1>3 DEF DigestInv, DigestTyped
<1>6. Parity'
  <2> SUFFICES ASSUME NEW m \in Nodes, NEW k \in 0..1
               PROVE  Buf(m) \in fold[k]
                        <=> (pushed'[m] + Cardinality(PendingIn(push', m, k))) % 2 = 1
    BY <1>2 DEF Parity
  <2>1. Buf(m) \in fold[k] <=> (pushed[m] + Cardinality(PendingIn(push, m, k))) % 2 = 1
    BY DEF DigestInv, Parity
  <2>2. CASE m # n
    <3>1. PendingIn(push', m, k) = PendingIn(push, m, k)
      BY <1>1, <1>2, <1>4, <2>2 DEF PendingIn
    <3> QED BY <1>5, <2>1, <2>2, <3>1
  <2>3. CASE m = n
    <3>1. /\ PendingIn(push', n, k) = PendingIn(push, n, k) \cup {t}
          /\ t \notin PendingIn(push, n, k)
      BY <1>1, <1>2, <1>4 DEF PendingIn
    <3>2. Cardinality(PendingIn(push', n, k)) = Cardinality(PendingIn(push, n, k)) + 1
      BY <3>1, OpenFinite, FS_AddElement
    <3> PICK a \in Nat, c \in Nat : a = pushed[n] /\ c = Cardinality(PendingIn(push, n, k))
      BY <1>5, OpenFinite
    <3>3. pushed'[n] + Cardinality(PendingIn(push', n, k)) = (a + 1) + (c + 1)
      BY <1>5, <3>2
    <3>4. ((a + 1) + (c + 1)) % 2 = (a + c) % 2
      OBVIOUS
    <3> QED BY <2>1, <2>3, <3>3, <3>4
  <2> QED BY <2>2, <2>3
<1>7. Counted'
  <2>1. OpenIn(push') = OpenIn(push) \cup {t} /\ t \notin OpenIn(push)
    BY <1>1, <1>2, <1>4 DEF OpenIn
  <2>2. Cardinality(OpenIn(push')) = Cardinality(OpenIn(push)) + 1
    BY <2>1, OpenFinite, FS_AddElement
  <2>3. SumFunctionOnSet(pushed', Nodes) + pushed[n]
          = SumFunctionOnSet(pushed, Nodes) + pushed'[n]
    <3>1. IsFiniteSet(Nodes)
      BY NodeDigestAssumption
    <3>2. \A m \in Nodes : pushed[m] \in Nat /\ pushed'[m] \in Nat
      BY <1>5
    <3>3. \A m \in Nodes \ {n} : pushed[m] = pushed'[m]
      BY <1>5
    <3> QED BY ONLY <3>1, <3>2, <3>3, n \in Nodes, SumUpdate
  <2>4. SumFunctionOnSet(pushed', Nodes) \in Nat /\ SumFunctionOnSet(pushed, Nodes) \in Nat
    BY <1>5, SumNat, NodeDigestAssumption
  <2>5. pushed[n] \in Nat
    BY <1>5
  <2>6. SumFunctionOnSet(pushed', Nodes) = SumFunctionOnSet(pushed, Nodes) + 1
    BY <1>5, <2>3, <2>4, <2>5
  <2>7. Cardinality(OpenIn(push)) \in Nat /\ count \in Nat
    BY OpenFinite DEF DigestInv, DigestTyped
  <2> QED BY <1>2, <2>2, <2>4, <2>6, <2>7 DEF DigestInv, Counted
<1> QED BY <1>3, <1>6, <1>7 DEF DigestInv

(* fetch_xor: the node changes sides in one fold and is no longer pending     *)
(* there; no other node has its byte string.                                  *)
LEMMA PushFoldInv ==
    ASSUME DigestInv, NEW t \in Threads, PushFold(t)
    PROVE  DigestInv' /\ ~Idle
<1>1. PICK n \in Nodes, s \in 0..1 : push[t] = [node |-> n, step |-> s]
  <2>1. push[t] \in [node : Nodes, step : 0..2] /\ push[t].step < 2
    BY DEF DigestInv, DigestTyped, PushFold
  <2> QED BY <2>1
<1> PICK r : r = [node |-> n, step |-> s + 1]
  OBVIOUS
<1>2. /\ r # None /\ r \in [node : Nodes, step : 0..2] /\ r.node = n /\ r.step = s + 1
      /\ push[t] # None /\ push[t].node = n /\ push[t].step = s
  <2>1. s + 1 \in 0..2 /\ s \in 0..2
    OBVIOUS
  <2> QED BY <1>1, <2>1, PushIsSome
<1>3. /\ push' = [push EXCEPT ![t] = r]
      /\ fold' = [fold EXCEPT ![s] = Xor(fold[s], Buf(n))]
      /\ count' = count /\ pushes' = pushes /\ pushed' = pushed
  BY <1>1, <1>2 DEF PushFold, DigestInv, DigestTyped
<1>4. Buf(n) \in Bufs
  BY DEF Bufs
<1>5. DigestTyped'
  <2>1. Xor(fold[s], Buf(n)) \in SUBSET Bufs
    BY <1>4 DEF Xor, DigestInv, DigestTyped
  <2> QED BY <1>2, <1>3, <2>1 DEF DigestInv, DigestTyped
<1>6. \A u \in Threads : push'[u] = IF u = t THEN r ELSE push[u]
  BY <1>3 DEF DigestInv, DigestTyped
<1>7. Parity'
  <2> SUFFICES ASSUME NEW m \in Nodes, NEW k \in 0..1
               PROVE  Buf(m) \in fold'[k]
                        <=> (pushed[m] + Cardinality(PendingIn(push', m, k))) % 2 = 1
    BY <1>3 DEF Parity
  <2>1. Buf(m) \in fold[k] <=> (pushed[m] + Cardinality(PendingIn(push, m, k))) % 2 = 1
    BY DEF DigestInv, Parity
  <2>2. fold'[k] = IF k = s THEN Xor(fold[s], Buf(n)) ELSE fold[k]
    BY <1>3 DEF DigestInv, DigestTyped
  <2>3. CASE k = s /\ m = n
    <3>1. /\ PendingIn(push', n, k) = PendingIn(push, n, k) \ {t}
          /\ t \in PendingIn(push, n, k)
      BY <1>2, <1>6, <2>3 DEF PendingIn
    <3>2. Cardinality(PendingIn(push', n, k)) = Cardinality(PendingIn(push, n, k)) - 1
      BY <3>1, OpenFinite, FS_RemoveElement
    <3>3. pushed[n] \in Nat /\ Cardinality(PendingIn(push', n, k)) \in Nat
      BY OpenFinite DEF DigestInv, DigestTyped
    <3> PICK a \in Nat, c \in Nat : a = pushed[n] /\ c = Cardinality(PendingIn(push', n, k))
      BY <3>3
    <3>4. Cardinality(PendingIn(push, n, k)) = c + 1
      BY <3>2, OpenFinite
    <3>5. (a + c) % 2 = 1 <=> ~((a + (c + 1)) % 2 = 1)
      OBVIOUS
    <3>6. Buf(n) \in fold'[k] <=> ~(Buf(n) \in fold[k])
      BY <2>2, <2>3 DEF Xor
    <3> QED BY <2>1, <2>3, <3>4, <3>5, <3>6
  <2>4. CASE ~(k = s /\ m = n)
    <3>1. PendingIn(push', m, k) = PendingIn(push, m, k)
      <4>1. CASE m # n
        BY <1>2, <1>6, <4>1 DEF PendingIn
      <4>2. CASE k # s
        <5>1. s + 1 <= k <=> s <= k
          BY <4>2
        <5> QED BY <1>2, <1>6, <5>1 DEF PendingIn
      <4> QED BY <2>4, <4>1, <4>2
    <3>2. Buf(m) \in fold'[k] <=> Buf(m) \in fold[k]
      <4>1. CASE k # s
        BY <2>2, <4>1
      <4>2. CASE m # n
        <5>1. Buf(m) # Buf(n)
          BY <4>2, BufInjective
        <5> QED BY <2>2, <5>1 DEF Xor
      <4> QED BY <2>4, <4>1, <4>2
    <3> QED BY <2>1, <3>1, <3>2
  <2> QED BY <2>3, <2>4
<1>8. Counted'
  <2>1. OpenIn(push') = OpenIn(push)
    BY <1>2, <1>6 DEF OpenIn
  <2> QED BY <1>3, <2>1 DEF DigestInv, Counted
<1> QED BY <1>2, <1>5, <1>7, <1>8 DEF DigestInv, Idle

(* fetch_add: the push is complete and counted.                               *)
LEMMA PushCountInv ==
    ASSUME DigestInv, NEW t \in Threads, PushCount(t)
    PROVE  DigestInv' /\ ~Idle
<1>1. /\ push[t] # None /\ push[t].step = 2
      /\ push' = [push EXCEPT ![t] = None]
      /\ count' = count + 1
      /\ fold' = fold /\ pushes' = pushes /\ pushed' = pushed
  BY DEF PushCount, PushOver
<1>2. DigestTyped'
  BY <1>1 DEF DigestInv, DigestTyped
<1>3. \A u \in Threads : push'[u] = IF u = t THEN None ELSE push[u]
  BY <1>1 DEF DigestInv, DigestTyped
<1>4. Parity'
  <2>1. ASSUME NEW m \in Nodes, NEW k \in 0..1
        PROVE  PendingIn(push', m, k) = PendingIn(push, m, k)
    <3>1. ~(push[t].step <= k)
      BY <1>1
    <3> QED BY <1>3, <3>1 DEF PendingIn
  <2> QED BY <1>1, <2>1 DEF DigestInv, Parity
<1>5. Counted'
  <2>1. OpenIn(push') = OpenIn(push) \ {t} /\ t \in OpenIn(push)
    BY <1>1, <1>3 DEF OpenIn
  <2>2. Cardinality(OpenIn(push')) = Cardinality(OpenIn(push)) - 1
    BY <2>1, OpenFinite, FS_RemoveElement
  <2>3. Cardinality(OpenIn(push)) \in Nat /\ count \in Nat
    BY OpenFinite DEF DigestInv, DigestTyped
  <2> QED BY <1>1, <2>2, <2>3 DEF DigestInv, Counted
<1> QED BY <1>1, <1>2, <1>4, <1>5 DEF DigestInv, Idle

(* An empty digest.                                                           *)
LEMMA InitDigest == NewDigest => DigestInv
<1> SUFFICES ASSUME NewDigest PROVE DigestInv
  OBVIOUS
<1>1. DigestTyped
  BY DEF NewDigest, DigestTyped
<1>2. \A n, k : PendingIn(push, n, k) = {}
  BY DEF NewDigest, PendingIn
<1>3. OpenIn(push) = {}
  BY DEF NewDigest, OpenIn
<1>4. Parity
  BY <1>2, FS_EmptySet DEF NewDigest, Parity
<1>5. Counted
  <2>1. SumFunctionOnSet(pushed, Nodes) = 0
    BY SumZero, NodeDigestAssumption DEF NewDigest
  <2> QED BY <1>3, <2>1, FS_EmptySet DEF NewDigest, Counted
<1> QED BY <1>1, <1>4, <1>5 DEF DigestInv

(* The digest of nodes pushed once each: the byte strings of those nodes.     *)
LEMMA DigestOfOnce ==
    ASSUME NEW S \in SUBSET Nodes
    PROVE  /\ OfTrieUpdates(S).count = SumFunctionOnSet(Once(S), Nodes)
           /\ OfTrieUpdates(S).fold \subseteq Bufs
           /\ \A n \in Nodes : Buf(n) \in OfTrieUpdates(S).fold <=> n \in S
<1> DEFINE bag == Once(S)
<1>1. \A n \in Nodes : bag[n] = IF n \in S THEN 1 ELSE 0
  BY DEF Once
<1>2. ASSUME NEW n \in Nodes
      PROVE  Buf(n) \in OfTrieUpdates(S).fold <=> n \in S
  <2>1. {m \in Nodes : Buf(m) = Buf(n)} = {n}
    BY BufInjective
  <2>2. Buf(n) \in Bufs
    BY DEF Bufs
  <2>3. SumFunctionOnSet(bag, {n}) = bag[n]
    BY <1>1, SumOne
  <2>4. Buf(n) \in OfTrieUpdates(S).fold <=> bag[n] % 2 = 1
    BY <2>1, <2>2, <2>3 DEF OfTrieUpdates, DigestOfBag
  <2> QED BY <1>1, <2>4
<1>3. OfTrieUpdates(S).count = SumFunctionOnSet(bag, Nodes)
  BY DEF OfTrieUpdates, DigestOfBag
<1>4. OfTrieUpdates(S).fold \subseteq Bufs
  BY DEF OfTrieUpdates, DigestOfBag
<1> QED BY <1>2, <1>3, <1>4

(* Between pushes the folds hold the nodes pushed an odd number of times.     *)
LEMMA IdleDigest ==
    ASSUME DigestInv, Idle
    PROVE  /\ \A n \in Nodes, k \in 0..1 : Buf(n) \in fold[k] <=> pushed[n] % 2 = 1
           /\ count = SumFunctionOnSet(pushed, Nodes)
<1>1. \A n, k : PendingIn(push, n, k) = {}
  BY DEF Idle, PendingIn
<1>2. OpenIn(push) = {}
  BY DEF Idle, OpenIn
<1>3. \A n \in Nodes : pushed[n] \in Nat /\ pushed[n] + 0 = pushed[n]
  BY DEF DigestInv, DigestTyped
<1>4. count \in Nat
  BY DEF DigestInv, DigestTyped
<1>5. count = SumFunctionOnSet(pushed, Nodes)
  BY <1>2, <1>4, FS_EmptySet DEF DigestInv, Counted
<1>6. \A n \in Nodes, k \in 0..1 : Buf(n) \in fold[k] <=> pushed[n] % 2 = 1
  <2>1. \A n, k : Cardinality(PendingIn(push, n, k)) = 0
    BY <1>1, FS_EmptySet
  <2> SUFFICES ASSUME NEW n \in Nodes, NEW k \in 0..1
               PROVE  Buf(n) \in fold[k] <=> pushed[n] % 2 = 1
    OBVIOUS
  <2>2. pushed[n] + Cardinality(PendingIn(push, n, k)) = pushed[n]
    BY <1>3, <2>1
  <2>3. Buf(n) \in fold[k] <=> (pushed[n] + Cardinality(PendingIn(push, n, k))) % 2 = 1
    BY DEF DigestInv, Parity
  <2> QED BY <2>2, <2>3
<1> QED BY <1>5, <1>6

(* A snapshot between pushes is that of a set exactly if each of its nodes    *)
(* was pushed once and no other. From the folds alone only the parity         *)
(* follows; the count excludes a node pushed three times, or a pair pushed    *)
(* twice.                                                                     *)
LEMMA Decides ==
    ASSUME DigestInv, Idle, snapshot = Snapshot, NEW S \in SUBSET Nodes
    PROVE  snapshot = AsSnapshot(OfTrieUpdates(S)) <=> pushed = Once(S)
<1> PICK d : d = OfTrieUpdates(S)
  OBVIOUS
<1>1. /\ \A n \in Nodes, k \in 0..1 : Buf(n) \in fold[k] <=> pushed[n] % 2 = 1
      /\ count = SumFunctionOnSet(pushed, Nodes)
  BY IdleDigest
<1>2. /\ d.count = SumFunctionOnSet(Once(S), Nodes) /\ d.fold \subseteq Bufs
      /\ \A n \in Nodes : Buf(n) \in d.fold <=> n \in S
  BY DigestOfOnce
<1>3. snapshot = AsSnapshot(d) <=> count = d.count /\ \A k \in 0..1 : fold[k] = d.fold
  <2>1. snapshot = [count |-> count, fold |-> fold]
    BY DEF Snapshot
  <2>2. AsSnapshot(d) = [count |-> d.count, fold |-> [k \in 0..1 |-> d.fold]]
    BY DEF AsSnapshot
  <2>3. fold = [k \in 0..1 |-> d.fold] <=> \A k \in 0..1 : fold[k] = d.fold
    BY DEF DigestInv, DigestTyped
  <2>4. snapshot = AsSnapshot(d) <=> count = d.count /\ fold = [k \in 0..1 |-> d.fold]
    BY <2>1, <2>2
  <2> QED BY <2>3, <2>4
<1>4. \A n \in Nodes : /\ pushed[n] \in Nat /\ Once(S)[n] = IF n \in S THEN 1 ELSE 0
  BY DEF DigestInv, DigestTyped, Once
<1>5. ASSUME pushed = Once(S)
      PROVE  count = d.count /\ \A k \in 0..1 : fold[k] = d.fold
  <2>1. count = d.count
    BY <1>1, <1>2, <1>5
  <2>2. ASSUME NEW k \in 0..1 PROVE fold[k] = d.fold
    <3>1. \A n \in Nodes : pushed[n] % 2 = 1 <=> n \in S
      BY <1>4, <1>5
    <3>2. \A n \in Nodes : Buf(n) \in fold[k] <=> Buf(n) \in d.fold
      BY <1>1, <1>2, <3>1
    <3>3. \A b \in Bufs : b \in fold[k] <=> b \in d.fold
      BY <3>2 DEF Bufs
    <3>4. fold[k] \subseteq Bufs
      BY DEF DigestInv, DigestTyped
    <3> QED BY <1>2, <3>3, <3>4
  <2> QED BY <2>1, <2>2
<1>6. ASSUME count = d.count, \A k \in 0..1 : fold[k] = d.fold
      PROVE  pushed = Once(S)
  <2>1. \A n \in Nodes : pushed[n] % 2 = 1 <=> n \in S
    <3>1. 0 \in 0..1
      OBVIOUS
    <3>2. \A n \in Nodes : Buf(n) \in fold[0] <=> pushed[n] % 2 = 1
      BY <1>1, <3>1
    <3>3. fold[0] = d.fold
      BY <1>6, <3>1
    <3> QED BY <1>2, <3>2, <3>3
  <2>2. \A n \in Nodes : Once(S)[n] \in Nat /\ pushed[n] \in Nat /\ Once(S)[n] <= pushed[n]
    <3>1. \A a \in Nat : a % 2 = 1 => 1 <= a
      OBVIOUS
    <3> QED BY <1>4, <2>1, <3>1
  <2>3. SumFunctionOnSet(Once(S), Nodes) = SumFunctionOnSet(pushed, Nodes)
    BY <1>1, <1>2, <1>6
  <2>4. IsFiniteSet(Nodes)
    BY NodeDigestAssumption
  <2>5. \A n \in Nodes : Once(S)[n] = pushed[n]
    BY <2>2, <2>3, <2>4, SumEqual
  <2>6. pushed \in [Nodes -> Nat] /\ Once(S) \in [Nodes -> Nat]
    BY DEF DigestInv, DigestTyped, Once
  <2> QED BY <2>5, <2>6
<1> QED BY <1>3, <1>5, <1>6

-----------------------------------------------------------------------------
(* A generator run *)

RunInv == DigestInv /\ Snapped

(* A step of a generator run keeps the invariant.                             *)
LEMMA RunStep ==
    ASSUME RunInv, [Next]_vars PROVE RunInv'
<1>1. ASSUME NEW t \in Threads, NEW n \in Nodes, Emit(t, n) PROVE RunInv'
  BY <1>1, PushBeginInv DEF RunInv, Snapped, Emit
<1>2. ASSUME NEW t \in Threads, PushStep(t) PROVE RunInv'
  <2>1. DigestInv' /\ ~Idle
    BY <1>2, PushFoldInv, PushCountInv DEF RunInv, PushStep
  <2> QED BY <1>2, <2>1 DEF RunInv, Snapped, PushStep
<1>3. CASE Report
  BY <1>3 DEF Report, RunInv, Snapped, Snapshot, Idle, digest, DigestInv, DigestTyped,
              Parity, Counted
<1>4. CASE UNCHANGED vars
  BY <1>4 DEF vars, digest, RunInv, Snapped, Snapshot, Idle, DigestInv, DigestTyped,
              Parity, Counted
<1> QED BY <1>1, <1>2, <1>3, <1>4 DEF Next, Reported

(* The invariant holds when the digest is made.                               *)
LEMMA InitRun == Init => RunInv
  BY InitDigest DEF Init, RunInv, Snapped

(* The invariant implies the types of the variables.                          *)
LEMMA RunTyped == ASSUME RunInv PROVE TypeOK
<1>1. snapshot # None => snapshot \in [count : Nat, fold : [0..1 -> SUBSET Bufs]]
  BY DEF RunInv, Snapped, Snapshot, DigestInv, DigestTyped
<1> QED BY <1>1 DEF RunInv, DigestInv, DigestTyped, TypeOK

-----------------------------------------------------------------------------
(* The scan *)

(* Every address is in the range of exactly one first nibble.                 *)
LEMMA RangesPartition ==
    ASSUME NEW a \in 0..(Base * Base - 1)
    PROVE  /\ \E t \in Threads : RangeLow(t) <= a /\ a <= RangeHigh(t)
           /\ \A t, u \in Threads :
                 /\ RangeLow(t) <= a /\ a <= RangeHigh(t)
                 /\ RangeLow(u) <= a /\ a <= RangeHigh(u)
                 => t = u
<1>1. Base \in Nat /\ Base > 0 /\ Threads = 0..(Base - 1)
  BY TablesDigestAssumption
<1>2. \A x, y, b \in Nat : x < y => x * b + b <= y * b
  <2> SUFFICES ASSUME NEW x \in Nat, NEW y \in Nat, NEW b \in Nat, x < y
               PROVE  x * b + b <= y * b
    OBVIOUS
  <2>1. PICK d \in Nat : y = x + 1 + d
    <3>1. y - x - 1 \in Nat /\ y = x + 1 + (y - x - 1)
      OBVIOUS
    <3> QED BY <3>1
  <2>2. (x + 1 + d) * b = x * b + b + d * b
    OBVIOUS
  <2>3. x * b \in Nat /\ d * b \in Nat
    OBVIOUS
  <2> QED BY <2>1, <2>2, <2>3
<1>3. ASSUME NEW t \in Threads, NEW u \in Threads, t < u,
             a <= RangeHigh(t), RangeLow(u) <= a
      PROVE  FALSE
  <2>1. t \in Nat /\ u \in Nat /\ t * Base \in Nat /\ u * Base \in Nat
    BY <1>1
  <2>2. t * Base + Base <= u * Base
    BY <1>1, <1>2, <1>3, <2>1
  <2>3. a <= t * Base + (Base - 1) /\ u * Base <= a
    BY <1>3 DEF RangeHigh, RangeLow
  <2> QED BY <1>1, <2>1, <2>2, <2>3
<1>4. \E t \in Threads : RangeLow(t) <= a /\ a <= RangeHigh(t)
  <2> PICK q : q = a \div Base
    OBVIOUS
  <2>1. q \in Nat /\ q * Base <= a /\ a <= q * Base + (Base - 1)
    BY <1>1
  <2>2. q < Base
    <3> SUFFICES ASSUME Base <= q PROVE FALSE
      BY <1>1, <2>1
    <3>1. q # Base => Base * Base + Base <= q * Base
      BY <1>1, <1>2, <2>1
    <3>2. Base * Base <= q * Base
      BY <1>1, <2>1, <3>1
    <3>3. Base * Base \in Nat /\ q * Base \in Nat
      BY <1>1, <2>1
    <3> QED BY <2>1, <3>2, <3>3
  <2>3. q \in Threads
    BY <1>1, <2>1, <2>2
  <2>4. RangeLow(q) <= a /\ a <= RangeHigh(q)
    BY <2>1 DEF RangeHigh, RangeLow
  <2> QED BY <2>3, <2>4
<1>5. ASSUME NEW t \in Threads, NEW u \in Threads,
             RangeLow(t) <= a, a <= RangeHigh(t), RangeLow(u) <= a, a <= RangeHigh(u)
      PROVE  t = u
  <2>1. ~(t < u) /\ ~(u < t)
    BY <1>3, <1>5
  <2> QED BY <1>1, <2>1
<1> QED BY <1>4, <1>5

(* The count of a set of nodes is its size.                                   *)
LEMMA SumOnce ==
    ASSUME NEW S \in SUBSET Nodes
    PROVE  SumFunctionOnSet(Once(S), Nodes) = Cardinality(S)
<1> DEFINE R == [n \in Nodes |-> IF n \in S THEN {n} ELSE {}]
<1>1. UNION {R[n] : n \in Nodes} = S
  OBVIOUS
<1>2. \A n \in Nodes : IsFiniteSet(R[n]) /\ Once(S)[n] = Cardinality(R[n])
  BY FS_Singleton, FS_EmptySet DEF Once
<1>3. \A n, m \in Nodes : n # m => R[n] \cap R[m] = {}
  OBVIOUS
<1>4. IsFiniteSet(Nodes)
  BY NodeDigestAssumption
<1> HIDE DEF R
<1>5. SumFunctionOnSet(Once(S), Nodes) = Cardinality(UNION {R[n] : n \in Nodes})
  BY <1>2, <1>3, <1>4, SumOfSizes
<1> QED BY <1>1, <1>5

\* The types of the variables of the scan.
ScanTyped ==
    /\ tables \in SUBSET Nodes
    /\ phase \in {"emits", "accounts", "storage", "done", "failed"}
    /\ returned \in [Threads \cup {None} -> SUBSET Nodes]
    /\ account_nodes \in Nat
    /\ counts \in [Threads -> [done : BOOLEAN, rows : Nat]]

(* Every row a cursor has returned is pushed once, and counted once.          *)
RowsOnce ==
    /\ \A n \in Nodes :
         pushed[n] = IF \E c \in Threads \cup {None} : n \in returned[c] THEN 1 ELSE 0
    /\ returned[None] \subseteq Accounts
    /\ account_nodes = Cardinality(returned[None])
    /\ \A t \in Threads :
         /\ \A n \in returned[t] : n \in Storages /\ InRange(n, t)
         /\ counts[t].rows = Cardinality(returned[t])

(* A range that is done has returned all its rows and has no push under way.  *)
RangesDone ==
    \A t \in Threads : counts[t].done =>
        /\ phase # "accounts"
        /\ push[t] = None
        /\ \A n \in Storages : InRange(n, t) => n \in returned[t]

(* The account table is exhausted before the ranges begin, and all ranges     *)
(* before the snapshot.                                                       *)
ScanOrder ==
    /\ phase \in {"storage", "done"} => returned[None] = Accounts
    /\ phase = "done" =>
         /\ \A t \in Threads : counts[t].done
         /\ storage_nodes = SumFunctionOnSet([t \in Threads |-> counts[t].rows], Threads)
         /\ snapshot = Snapshot
    /\ phase # "done" => snapshot = None

ScanInv ==
    RunInv /\ ScanTyped /\ (phase # "emits" => RowsOnce /\ RangesDone /\ ScanOrder)

(* None is the serial cursor's key and no thread.                             *)
LEMMA SerialCursor == None \notin Threads /\ 0 \in Threads
    BY NodeDigestAssumption, TablesDigestAssumption

(* What a cursor has returned is finite.                                      *)
LEMMA ReturnedFinite ==
    ASSUME ScanTyped, NEW c \in Threads \cup {None}
    PROVE  IsFiniteSet(returned[c]) /\ Cardinality(returned[c]) \in Nat
  BY FS_Subset, FS_CardinalityType, NodeDigestAssumption DEF ScanTyped

(* A row of the account table is returned to the serial loop.                 *)
LEMMA AccountRowInv ==
    ASSUME ScanInv, NEW n \in Nodes, AccountRow(n) PROVE ScanInv'
<1>1. /\ phase = "accounts" /\ n \in Accounts /\ n \notin returned[None]
      /\ PushBegin(0, n) /\ account_nodes' = account_nodes + 1
      /\ returned' = [returned EXCEPT ![None] = returned[None] \cup {n}]
      /\ snapshot' = snapshot /\ tables' = tables /\ phase' = phase
      /\ counts' = counts /\ storage_nodes' = storage_nodes
  BY DEF AccountRow
<1>2. ScanTyped /\ RowsOnce /\ RangesDone /\ ScanOrder /\ DigestInv
  BY <1>1 DEF ScanInv, RunInv
<1>3. snapshot = None
  BY <1>1, <1>2 DEF ScanOrder
<1>4. RunInv'
  <2>1. DigestInv'
    BY <1>1, <1>2, SerialCursor, PushBeginInv
  <2> QED BY <1>1, <1>3, <2>1 DEF RunInv, Snapped
<1>5. /\ returned'[None] = returned[None] \cup {n}
      /\ \A t \in Threads : returned'[t] = returned[t]
  BY <1>1, <1>2, SerialCursor DEF ScanTyped
<1>6. ScanTyped'
  BY <1>1, <1>2 DEF ScanTyped
<1>7. Accounts' = Accounts /\ Storages' = Storages
  BY <1>1 DEF Accounts, Storages
<1>8. RowsOnce'
  <2>1. /\ pushed \in [Nodes -> Nat] /\ pushed' = [pushed EXCEPT ![n] = pushed[n] + 1]
    BY <1>1, <1>2 DEF PushBegin, DigestInv, DigestTyped
  <2>2. \A t \in Threads : n \notin returned[t]
    BY <1>1, <1>2 DEF RowsOnce, Accounts, Storages
  <2>3. pushed[n] = 0
    BY <1>1, <1>2, <2>2 DEF RowsOnce
  <2>4. ASSUME NEW m \in Nodes
        PROVE  pushed'[m] = IF \E c \in Threads \cup {None} : m \in returned'[c] THEN 1 ELSE 0
    <3>1. CASE m = n
      BY <1>5, <2>1, <2>3, <3>1
    <3>2. CASE m # n
      <4>1. pushed'[m] = pushed[m]
        BY <2>1, <3>2
      <4>2. (\E c \in Threads \cup {None} : m \in returned'[c])
              <=> (\E c \in Threads \cup {None} : m \in returned[c])
        BY <1>5, <3>2
      <4> QED BY <1>2, <4>1, <4>2 DEF RowsOnce
    <3> QED BY <3>1, <3>2
  <2>5. account_nodes' = Cardinality(returned'[None])
    BY <1>1, <1>2, <1>5, ReturnedFinite, FS_AddElement DEF RowsOnce
  <2>6. returned'[None] \subseteq Accounts'
    BY <1>1, <1>2, <1>5, <1>7 DEF RowsOnce
  <2>7. \A t \in Threads :
         /\ \A m \in returned'[t] : m \in Storages' /\ InRange(m, t)
         /\ counts'[t].rows = Cardinality(returned'[t])
    BY <1>1, <1>2, <1>5, <1>7 DEF RowsOnce
  <2> QED BY <2>4, <2>5, <2>6, <2>7 DEF RowsOnce
<1>9. RangesDone'
  BY <1>1, <1>2 DEF RangesDone
<1>10. ScanOrder'
  BY <1>1, <1>2 DEF ScanOrder
<1> QED BY <1>4, <1>6, <1>8, <1>9, <1>10 DEF ScanInv

(* A row of the storage table is returned to the loop of a range.             *)
LEMMA StorageRowInv ==
    ASSUME ScanInv, NEW t \in Threads, NEW n \in Nodes, StorageRow(t, n) PROVE ScanInv'
<1>1. /\ phase = "storage" /\ ~counts[t].done
      /\ n \in Storages /\ n \notin returned[t] /\ InRange(n, t)
      /\ PushBegin(t, n) /\ counts' = [counts EXCEPT ![t].rows = @ + 1]
      /\ returned' = [returned EXCEPT ![t] = returned[t] \cup {n}]
      /\ snapshot' = snapshot /\ tables' = tables /\ phase' = phase
      /\ account_nodes' = account_nodes /\ storage_nodes' = storage_nodes
  BY DEF StorageRow
<1>2. ScanTyped /\ RowsOnce /\ RangesDone /\ ScanOrder /\ DigestInv
  BY <1>1 DEF ScanInv, RunInv
<1>3. snapshot = None
  BY <1>1, <1>2 DEF ScanOrder
<1>4. RunInv'
  <2>1. DigestInv'
    BY <1>1, <1>2, PushBeginInv
  <2> QED BY <1>1, <1>3, <2>1 DEF RunInv, Snapped
<1>5. /\ returned'[None] = returned[None]
      /\ returned'[t] = returned[t] \cup {n}
      /\ \A u \in Threads \ {t} : returned'[u] = returned[u]
  BY <1>1, <1>2, SerialCursor DEF ScanTyped
<1>6. /\ counts'[t].rows = counts[t].rows + 1 /\ counts'[t].done = counts[t].done
      /\ \A u \in Threads \ {t} : counts'[u] = counts[u]
      /\ counts' \in [Threads -> [done : BOOLEAN, rows : Nat]]
  BY <1>1, <1>2 DEF ScanTyped
<1>7. ScanTyped'
  BY <1>1, <1>2, <1>6 DEF ScanTyped
<1>8. Accounts' = Accounts /\ Storages' = Storages
  BY <1>1 DEF Accounts, Storages
<1>9. RowsOnce'
  <2>1. /\ pushed \in [Nodes -> Nat] /\ pushed' = [pushed EXCEPT ![n] = pushed[n] + 1]
    BY <1>1, <1>2 DEF PushBegin, DigestInv, DigestTyped
  <2>2. ASSUME NEW u \in Threads, n \in returned[u] PROVE FALSE
    <3>1. InRange(n, u)
      BY <1>2, <2>2 DEF RowsOnce
    <3>2. n.addr \in 0..(Base * Base - 1)
      BY <1>1, TablesDigestAssumption DEF Storages
    <3>3. u = t
      BY <1>1, <3>1, <3>2, RangesPartition DEF InRange
    <3> QED BY <1>1, <2>2, <3>3
  <2>3. n \notin returned[None]
    BY <1>1, <1>2 DEF RowsOnce, Accounts, Storages
  <2>4. pushed[n] = 0
    BY <1>2, <2>2, <2>3 DEF RowsOnce
  <2>5. ASSUME NEW m \in Nodes
        PROVE  pushed'[m] = IF \E c \in Threads \cup {None} : m \in returned'[c] THEN 1 ELSE 0
    <3>1. CASE m = n
      BY <1>5, <2>1, <2>4, <3>1
    <3>2. CASE m # n
      <4>1. pushed'[m] = pushed[m]
        BY <2>1, <3>2
      <4>2. (\E c \in Threads \cup {None} : m \in returned'[c])
              <=> (\E c \in Threads \cup {None} : m \in returned[c])
        BY <1>5, <3>2
      <4> QED BY <1>2, <4>1, <4>2 DEF RowsOnce
    <3> QED BY <3>1, <3>2
  <2>6. counts'[t].rows = Cardinality(returned'[t])
    <3>1. IsFiniteSet(returned[t])
      BY <1>2, ReturnedFinite
    <3>2. Cardinality(returned[t] \cup {n}) = Cardinality(returned[t]) + 1
      BY <1>1, <3>1, FS_AddElement
    <3>3. counts[t].rows = Cardinality(returned[t])
      BY <1>2 DEF RowsOnce
    <3> QED BY <1>5, <1>6, <3>2, <3>3
  <2>7. ASSUME NEW u \in Threads
        PROVE  /\ \A m \in returned'[u] : m \in Storages' /\ InRange(m, u)
               /\ counts'[u].rows = Cardinality(returned'[u])
    <3>1. CASE u = t
      <4>1. \A m \in returned[t] : m \in Storages /\ InRange(m, t)
        BY <1>2 DEF RowsOnce
      <4>2. \A m \in returned'[t] : m \in Storages /\ InRange(m, t)
        BY <1>1, <1>5, <4>1
      <4> QED BY <1>8, <2>6, <3>1, <4>2
    <3>2. CASE u # t
      <4>1. returned'[u] = returned[u] /\ counts'[u] = counts[u]
        BY <1>5, <1>6, <3>2
      <4> QED BY <1>2, <1>8, <4>1 DEF RowsOnce
    <3> QED BY <3>1, <3>2
  <2> QED BY <1>1, <1>2, <1>5, <1>8, <2>5, <2>7 DEF RowsOnce
<1>10. RangesDone'
  <2> SUFFICES ASSUME NEW u \in Threads, counts'[u].done
               PROVE  /\ phase' # "accounts" /\ push'[u] = None
                      /\ \A m \in Storages : InRange(m, u) => m \in returned'[u]
    BY <1>8 DEF RangesDone
  <2>1. u # t /\ counts[u].done
    BY <1>1, <1>6
  <2>2. push'[u] = push[u]
    BY <1>1, <1>2, <2>1 DEF PushBegin, DigestInv, DigestTyped
  <2> QED BY <1>1, <1>2, <1>5, <2>1, <2>2 DEF RangesDone
<1>11. ScanOrder'
  BY <1>1, <1>2, <1>5, <1>8 DEF ScanOrder
<1> QED BY <1>4, <1>7, <1>9, <1>10, <1>11 DEF ScanInv

(* A push of the scan goes on: no snapshot has been taken, and no range that  *)
(* is done has a push to go on with.                                          *)
LEMMA ScanPushInv ==
    ASSUME ScanInv, NEW t \in Threads, ScanPush(t) PROVE ScanInv'
<1>1. /\ phase # "emits" /\ (PushFold(t) \/ PushCount(t)) /\ snapshot' = snapshot
      /\ tables' = tables /\ phase' = phase /\ returned' = returned
      /\ account_nodes' = account_nodes /\ counts' = counts
      /\ storage_nodes' = storage_nodes
  BY DEF ScanPush, PushStep, scan
<1>2. ScanTyped /\ RowsOnce /\ RangesDone /\ ScanOrder /\ DigestInv /\ Snapped
  BY <1>1 DEF ScanInv, RunInv
<1>3. DigestInv' /\ ~Idle
  BY <1>1, <1>2, PushFoldInv, PushCountInv
<1>4. snapshot = None /\ phase # "done"
  <2>1. snapshot = None
    BY <1>2, <1>3 DEF Snapped
  <2>2. phase = "done" => FALSE
    BY <1>2, <1>3 DEF RangesDone, ScanOrder, Idle
  <2> QED BY <2>1, <2>2
<1>5. RunInv'
  BY <1>1, <1>3, <1>4 DEF RunInv, Snapped
<1>6. ScanTyped'
  BY <1>1, <1>2 DEF ScanTyped
<1>7. pushed' = pushed /\ push[t] # None /\ \A u \in Threads \ {t} : push'[u] = push[u]
  BY <1>1, <1>2 DEF PushFold, PushCount, DigestInv, DigestTyped
<1>8. Accounts' = Accounts /\ Storages' = Storages
  BY <1>1 DEF Accounts, Storages
<1>9. RowsOnce'
  BY <1>1, <1>2, <1>7, <1>8 DEF RowsOnce
<1>10. RangesDone'
  BY <1>1, <1>2, <1>7, <1>8 DEF RangesDone
<1>11. ScanOrder'
  BY <1>1, <1>2, <1>4, <1>8 DEF ScanOrder
<1> QED BY <1>5, <1>6, <1>9, <1>10, <1>11 DEF ScanInv

(* The steps that leave the digest alone.                                     *)
LEMMA DigestSame ==
    ASSUME RunInv, UNCHANGED vars PROVE RunInv'
  BY DEF vars, digest, RunInv, Snapped, Snapshot, Idle, DigestInv, DigestTyped, Parity,
         Counted

(* The steps between the rows, and a scan that fails or is over.              *)
LEMMA ScanQuietInv ==
    ASSUME ScanInv, NEW t \in Threads,
           AccountsDone \/ RangeDone(t) \/ ScanFails \/ UNCHANGED scanVars
    PROVE  ScanInv'
<1>1. CASE AccountsDone
  <2>1. /\ phase = "accounts" /\ Accounts = returned[None] /\ phase' = "storage"
        /\ UNCHANGED vars /\ tables' = tables /\ returned' = returned
        /\ account_nodes' = account_nodes /\ counts' = counts
        /\ storage_nodes' = storage_nodes
    BY <1>1 DEF AccountsDone, scan
  <2>2. ScanTyped /\ RowsOnce /\ RangesDone /\ ScanOrder /\ RunInv
    BY <2>1 DEF ScanInv
  <2>3. RunInv' /\ push' = push /\ pushed' = pushed /\ snapshot' = snapshot
    BY <2>1, <2>2, DigestSame DEF vars, digest
  <2>4. Accounts' = Accounts /\ Storages' = Storages
    BY <2>1 DEF Accounts, Storages
  <2>5. ScanTyped'
    BY <2>1, <2>2 DEF ScanTyped
  <2>6. RowsOnce'
    BY <2>1, <2>2, <2>3, <2>4 DEF RowsOnce
  <2>7. RangesDone'
    BY <2>1, <2>2 DEF RangesDone
  <2>8. ScanOrder'
    BY <2>1, <2>2, <2>3, <2>4 DEF ScanOrder
  <2> QED BY <2>3, <2>5, <2>6, <2>7, <2>8 DEF ScanInv
<1>2. CASE RangeDone(t)
  <2>1. /\ phase = "storage" /\ push[t] = None
        /\ \A n \in Storages \ returned[t] : ~InRange(n, t)
        /\ counts' = [counts EXCEPT ![t].done = TRUE]
        /\ UNCHANGED vars /\ tables' = tables /\ returned' = returned
        /\ account_nodes' = account_nodes /\ phase' = phase
        /\ storage_nodes' = storage_nodes
    BY <1>2 DEF RangeDone
  <2>2. ScanTyped /\ RowsOnce /\ RangesDone /\ ScanOrder /\ RunInv
    BY <2>1 DEF ScanInv
  <2>3. RunInv' /\ push' = push /\ pushed' = pushed /\ snapshot' = snapshot
    BY <2>1, <2>2, DigestSame DEF vars, digest
  <2>4. Accounts' = Accounts /\ Storages' = Storages
    BY <2>1 DEF Accounts, Storages
  <2>5. /\ \A u \in Threads : counts'[u].rows = counts[u].rows
        /\ \A u \in Threads \ {t} : counts'[u].done = counts[u].done
        /\ counts' \in [Threads -> [done : BOOLEAN, rows : Nat]]
    BY <2>1, <2>2 DEF ScanTyped
  <2>6. ScanTyped'
    BY <2>1, <2>2, <2>5 DEF ScanTyped
  <2>7. RowsOnce'
    BY <2>1, <2>2, <2>3, <2>4, <2>5 DEF RowsOnce
  <2>8. RangesDone'
    <3> SUFFICES ASSUME NEW u \in Threads, counts'[u].done
                 PROVE  /\ phase # "accounts" /\ push[u] = None
                        /\ \A n \in Storages : InRange(n, u) => n \in returned[u]
      BY <2>1, <2>3, <2>4 DEF RangesDone
    <3>1. CASE u = t
      BY <2>1, <3>1
    <3>2. CASE u # t
      BY <2>2, <2>5, <3>2 DEF RangesDone
    <3> QED BY <3>1, <3>2
  <2>9. ScanOrder'
    BY <2>1, <2>2, <2>3, <2>4 DEF ScanOrder
  <2> QED BY <2>3, <2>6, <2>7, <2>8, <2>9 DEF ScanInv
<1>3. CASE ScanFails
  <2>1. /\ phase \in {"accounts", "storage"} /\ phase' = "failed"
        /\ UNCHANGED vars /\ tables' = tables /\ returned' = returned
        /\ account_nodes' = account_nodes /\ counts' = counts
        /\ storage_nodes' = storage_nodes
    BY <1>3 DEF ScanFails, scan
  <2>2. ScanTyped /\ RowsOnce /\ RangesDone /\ ScanOrder /\ RunInv
    BY <2>1 DEF ScanInv
  <2>3. RunInv' /\ push' = push /\ pushed' = pushed /\ snapshot' = snapshot
    BY <2>1, <2>2, DigestSame DEF vars, digest
  <2>4. Accounts' = Accounts /\ Storages' = Storages
    BY <2>1 DEF Accounts, Storages
  <2>5. ScanTyped'
    BY <2>1, <2>2 DEF ScanTyped
  <2>6. RowsOnce'
    BY <2>1, <2>2, <2>3, <2>4 DEF RowsOnce
  <2>7. RangesDone'
    BY <2>1, <2>2, <2>3, <2>4 DEF RangesDone
  <2>8. ScanOrder'
    BY <2>1, <2>2, <2>3 DEF ScanOrder
  <2> QED BY <2>3, <2>5, <2>6, <2>7, <2>8 DEF ScanInv
<1>4. CASE UNCHANGED scanVars
  <2>1. /\ UNCHANGED vars /\ tables' = tables /\ returned' = returned
        /\ account_nodes' = account_nodes /\ counts' = counts /\ phase' = phase
        /\ storage_nodes' = storage_nodes
    BY <1>4 DEF scanVars, scan
  <2>2. ScanTyped /\ RunInv
    BY DEF ScanInv
  <2>3. /\ RunInv' /\ push' = push /\ pushed' = pushed /\ snapshot' = snapshot
        /\ fold' = fold /\ count' = count
    BY <2>1, <2>2, DigestSame DEF vars, digest
  <2>4. Accounts' = Accounts /\ Storages' = Storages
    BY <2>1 DEF Accounts, Storages
  <2>5. ScanTyped'
    BY <2>1, <2>2 DEF ScanTyped
  <2>6. RowsOnce => RowsOnce'
    BY <2>1, <2>3, <2>4 DEF RowsOnce
  <2>7. RangesDone => RangesDone'
    BY <2>1, <2>3, <2>4 DEF RangesDone
  <2>8. ScanOrder => ScanOrder'
    BY <2>1, <2>3, <2>4 DEF ScanOrder, Snapshot
  <2> QED BY <2>1, <2>3, <2>5, <2>6, <2>7, <2>8 DEF ScanInv
<1> QED BY <1>1, <1>2, <1>3, <1>4

(* All ranges are joined: no push is under way when the snapshot is taken.    *)
LEMMA ScanDoneInv ==
    ASSUME ScanInv, ScanDone PROVE ScanInv'
<1>1. /\ phase = "storage" /\ (\A t \in Threads : counts[t].done)
      /\ storage_nodes' = SumFunction([t \in Threads |-> counts[t].rows])
      /\ snapshot' = Snapshot /\ phase' = "done" /\ UNCHANGED digest
      /\ tables' = tables /\ returned' = returned /\ counts' = counts
      /\ account_nodes' = account_nodes
  BY DEF ScanDone
<1>2. ScanTyped /\ RowsOnce /\ RangesDone /\ ScanOrder /\ RunInv
  BY <1>1 DEF ScanInv
<1>3. push' = push /\ pushed' = pushed /\ fold' = fold /\ count' = count /\ pushes' = pushes
  BY <1>1 DEF digest
<1>4. Idle
  BY <1>1, <1>2 DEF RangesDone, Idle
<1>5. RunInv'
  BY <1>1, <1>2, <1>3, <1>4 DEF RunInv, Snapped, Snapshot, Idle, DigestInv, DigestTyped,
                                Parity, Counted
<1>6. Accounts' = Accounts /\ Storages' = Storages
  BY <1>1 DEF Accounts, Storages
<1>7. ScanTyped'
  BY <1>1, <1>2 DEF ScanTyped
<1>8. RowsOnce'
  BY <1>1, <1>2, <1>3, <1>6 DEF RowsOnce
<1>9. RangesDone'
  BY <1>1, <1>2, <1>3, <1>6 DEF RangesDone
<1>10. storage_nodes' = SumFunctionOnSet([t \in Threads |-> counts'[t].rows], Threads)
  <2> DEFINE f == [t \in Threads |-> counts[t].rows]
  <2>1. DOMAIN f = Threads
    OBVIOUS
  <2> HIDE DEF f
  <2>2. SumFunction(f) = SumFunctionOnSet(f, Threads)
    BY <2>1 DEF SumFunction
  <2> QED BY <1>1, <2>2 DEF f
<1>11. ScanOrder'
  BY <1>1, <1>2, <1>3, <1>6, <1>10 DEF ScanOrder, Snapshot
<1> QED BY <1>5, <1>7, <1>8, <1>9, <1>11 DEF ScanInv

(* The scan's invariant holds at the start ...                                *)
LEMMA InitScan == ScanInit => ScanInv
<1> SUFFICES ASSUME ScanInit PROVE ScanInv
  OBVIOUS
<1>1. RunInv
  BY InitRun DEF ScanInit
<1>2. /\ tables \in SUBSET Nodes /\ phase \in {"accounts", "emits"}
      /\ returned = [c \in Threads \cup {None} |-> {}] /\ account_nodes = 0
      /\ counts = [t \in Threads |-> [done |-> FALSE, rows |-> 0]]
  BY DEF ScanInit
<1>3. pushed = [n \in Nodes |-> 0] /\ snapshot = None
  BY DEF ScanInit, Init, NewDigest
<1>4. ScanTyped
  BY <1>2 DEF ScanTyped
<1>5. RowsOnce
  BY <1>2, <1>3, FS_EmptySet DEF RowsOnce
<1>6. RangesDone
  BY <1>2 DEF RangesDone
<1>7. ScanOrder
  BY <1>2, <1>3 DEF ScanOrder
<1> QED BY <1>1, <1>4, <1>5, <1>6, <1>7 DEF ScanInv

(* Every step of the scan keeps the invariant.                                *)
THEOREM ScanInvariant == ScanSpec => []ScanInv
<1>1. ASSUME ScanInv, [ScanNext]_scanVars PROVE ScanInv'
  <2>1. CASE GeneratorStep
    <3>1. RunInv'
      BY <1>1, <2>1, RunStep DEF ScanInv, GeneratorStep
    <3>2. ScanTyped' /\ phase' = "emits"
      BY <1>1, <2>1 DEF ScanInv, ScanTyped, GeneratorStep, scan
    <3> QED BY <3>1, <3>2 DEF ScanInv
  <2>2. ASSUME NEW n \in Nodes, AccountRow(n) PROVE ScanInv'
    BY <1>1, <2>2, AccountRowInv
  <2>3. ASSUME NEW t \in Threads, NEW n \in Nodes, StorageRow(t, n) PROVE ScanInv'
    BY <1>1, <2>3, StorageRowInv
  <2>4. ASSUME NEW t \in Threads, ScanPush(t) PROVE ScanInv'
    BY <1>1, <2>4, ScanPushInv
  <2>5. ASSUME NEW t \in Threads, RangeDone(t) PROVE ScanInv'
    BY <1>1, <2>5, ScanQuietInv
  <2>6. CASE AccountsDone \/ ScanFails \/ UNCHANGED scanVars
    BY <1>1, <2>6, SerialCursor, ScanQuietInv
  <2>7. CASE ScanDone
    BY <1>1, <2>7, ScanDoneInv
  <2> QED BY <1>1, <2>1, <2>2, <2>3, <2>4, <2>5, <2>6, <2>7 DEF ScanNext, ScanStopped
<1>2. ScanInv /\ [ScanNext]_scanVars => ScanInv'
  BY <1>1
<1> QED BY <1>2, InitScan, PTL DEF ScanSpec

(* The types of the variables of the digest, in a generator run and in a      *)
(* scan.                                                                      *)
THEOREM DigestTypeCorrect == ScanSpec => []TypeOK
<1>1. ScanInv => TypeOK
  BY RunTyped DEF ScanInv
<1> QED BY <1>1, ScanInvariant, PTL

(* However the pushes of any number of threads interleave, a reported digest  *)
(* is that of a set of nodes exactly if every node of the set was pushed once *)
(* and no other node at all: equal digest and count means equal rows.         *)
THEOREM DigestVouches == ScanSpec => []DigestDecides
<1>1. RunInv => DigestDecides
  BY Decides DEF RunInv, Snapped, DigestDecides
<1>2. ScanInv => DigestDecides
  BY <1>1 DEF ScanInv
<1> QED BY <1>2, ScanInvariant, PTL

(* The scan of the tables reports the digest and the counts of their rows,    *)
(* for every base and every table: the ranges partition the addresses, and no *)
(* push is under way when the snapshot is taken.                              *)
THEOREM ScanIsExact == ScanSpec => []ScanExact
<1>1. ASSUME ScanInv PROVE ScanExact
  <2> SUFFICES ASSUME phase = "done"
               PROVE  /\ snapshot = AsSnapshot(OfTrieUpdates(tables))
                      /\ account_nodes = Cardinality(Accounts)
                      /\ storage_nodes = Cardinality(Storages)
                      /\ account_nodes + storage_nodes = snapshot.count
    BY DEF ScanExact
  <2>1. ScanTyped /\ RowsOnce /\ RangesDone /\ ScanOrder /\ DigestInv
    BY <1>1 DEF ScanInv, RunInv
  <2>2. Idle /\ snapshot = Snapshot
    BY <2>1 DEF RangesDone, ScanOrder, Idle
  <2>3. /\ Accounts \cup Storages = tables /\ Accounts \cap Storages = {}
        /\ tables \in SUBSET Nodes
    BY <2>1 DEF ScanTyped, Accounts, Storages
  <2>4. ASSUME NEW n \in Storages PROVE \E t \in Threads : InRange(n, t)
    <3>1. n \in Nodes /\ n.addr \in 0..(Base * Base - 1)
      BY <2>3, TablesDigestAssumption DEF Storages
    <3> QED BY <3>1, RangesPartition DEF InRange
  <2>5. UNION {returned[t] : t \in Threads} = Storages
    <3>1. \A t \in Threads : returned[t] \subseteq Storages
      BY <2>1 DEF RowsOnce
    <3>2. ASSUME NEW n \in Storages PROVE \E t \in Threads : n \in returned[t]
      BY <2>1, <2>4 DEF RangesDone, ScanOrder
    <3> QED BY <3>1, <3>2
  <2>6. pushed = Once(tables)
    <3>1. \A n \in Nodes : (\E c \in Threads \cup {None} : n \in returned[c]) <=> n \in tables
      <4>1. returned[None] = Accounts
        BY <2>1 DEF ScanOrder
      <4> QED BY <2>3, <2>5, <4>1
    <3>2. \A n \in Nodes : pushed[n] = IF n \in tables THEN 1 ELSE 0
      BY <2>1, <3>1 DEF RowsOnce
    <3> QED BY <2>1, <3>2 DEF Once, DigestInv, DigestTyped
  <2>7. snapshot = AsSnapshot(OfTrieUpdates(tables))
    BY <2>1, <2>2, <2>3, <2>6, Decides
  <2>8. account_nodes = Cardinality(Accounts)
    BY <2>1 DEF RowsOnce, ScanOrder
  <2>9. storage_nodes = Cardinality(Storages)
    <3> PICK f : f = [t \in Threads |-> counts[t].rows]
      OBVIOUS
    <3> PICK R : R = returned
      OBVIOUS
    <3>1. \A t \in Threads : IsFiniteSet(R[t]) /\ f[t] = Cardinality(R[t])
      BY <2>1, ReturnedFinite DEF RowsOnce
    <3>2. ASSUME NEW t \in Threads, NEW u \in Threads, t # u PROVE R[t] \cap R[u] = {}
      <4>1. ASSUME NEW n, n \in R[t], n \in R[u] PROVE FALSE
        <5>1. n \in Storages /\ InRange(n, t) /\ InRange(n, u)
          BY <2>1, <4>1 DEF RowsOnce
        <5>2. n.addr \in 0..(Base * Base - 1)
          BY <2>3, <5>1, TablesDigestAssumption DEF Storages
        <5> QED BY <3>2, <5>1, <5>2, RangesPartition DEF InRange
      <4> QED BY <4>1
    <3>3. IsFiniteSet(Threads)
      BY NodeDigestAssumption
    <3>4. SumFunctionOnSet(f, Threads) = Cardinality(UNION {R[t] : t \in Threads})
      BY ONLY <3>1, <3>2, <3>3, SumOfSizes
    <3>5. storage_nodes = SumFunctionOnSet(f, Threads)
      BY <2>1 DEF ScanOrder
    <3> QED BY <2>5, <3>4, <3>5
  <2>10. account_nodes + storage_nodes = snapshot.count
    <3>1. IsFiniteSet(Accounts) /\ IsFiniteSet(Storages)
      BY <2>3, FS_Subset, NodeDigestAssumption
    <3>2. Cardinality(tables) = Cardinality(Accounts) + Cardinality(Storages)
      <4>1. Cardinality(Accounts) \in Nat /\ Cardinality(Storages) \in Nat
        BY <3>1, FS_CardinalityType
      <4>2. Cardinality(Accounts \cup Storages)
              = Cardinality(Accounts) + Cardinality(Storages)
                  - Cardinality(Accounts \cap Storages)
        BY <3>1, FS_Union
      <4>3. Cardinality(Accounts \cap Storages) = 0
        BY <2>3, FS_EmptySet
      <4>4. Cardinality(tables) = Cardinality(Accounts \cup Storages)
        BY <2>3
      <4> PICK a \in Nat, b \in Nat : a = Cardinality(Accounts) /\ b = Cardinality(Storages)
        BY <4>1
      <4>5. Cardinality(tables) = a + b - 0
        BY <4>2, <4>3, <4>4
      <4>6. a + b - 0 = a + b
        OBVIOUS
      <4> QED BY <4>5, <4>6
    <3>3. count = SumFunctionOnSet(pushed, Nodes)
      BY <2>1, <2>2, IdleDigest
    <3>4. count = Cardinality(tables)
      BY <2>3, <2>6, <3>3, SumOnce
    <3> QED BY <2>2, <2>8, <2>9, <3>2, <3>4 DEF Snapshot
  <2> QED BY <2>7, <2>8, <2>9, <2>10
<1>2. ScanInv => ScanExact
  BY <1>1
<1> QED BY <1>2, ScanInvariant, PTL

=============================================================================
