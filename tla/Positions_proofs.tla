--------------------------- MODULE Positions_proofs ---------------------------
(***************************************************************************)
(* What the list of a finite set of integers holds and in what order, that *)
(* such a set has a smallest and a largest member, induction over finite   *)
(* sets, and what SumFunctionOnSet computes.                               *)
(***************************************************************************)
EXTENDS Positions, FiniteSetTheorems, SequenceTheorems, TLAPS

\* Nth finds a member of S from its rank in S.
LEMMA NthOfRank ==
  ASSUME NEW S \in SUBSET Int, IsFiniteSet(S), NEW e \in S
  PROVE  Nth(S, Cardinality({f \in S : f <= e})) = e
<1> DEFINE Upto(x) == {f \in S : f <= x}
<1>1. ASSUME NEW x \in S, NEW y \in S, x < y
      PROVE  Cardinality(Upto(x)) # Cardinality(Upto(y))
  <2>1. ASSUME NEW f \in S, f <= x PROVE f <= y
    BY <1>1, <2>1
  <2>2. Upto(x) \in SUBSET Upto(y) /\ y \in Upto(y) /\ y \notin Upto(x)
    <3>1. y <= y /\ ~(y <= x)
      BY <1>1
    <3>2. QED
      BY <2>1, <3>1
  <2>3. IsFiniteSet(Upto(y))
    BY FS_Subset
  <2>4. QED
    BY <2>2, <2>3, FS_Subset
<1>2. \A x \in S : Cardinality(Upto(x)) = Cardinality(Upto(e)) => x = e
  BY <1>1
<1>3. QED
  BY <1>2 DEF Nth

\* Every number up to the size of S is the rank of a member.
LEMMA RankOnto ==
  ASSUME NEW S \in SUBSET Int, IsFiniteSet(S)
  PROVE  /\ \A e \in S : Cardinality({f \in S : f <= e}) \in 1 .. Cardinality(S)
         /\ \A k \in 1 .. Cardinality(S) : \E e \in S : Cardinality({f \in S : f <= e}) = k
<1> DEFINE Rank(x) == Cardinality({f \in S : f <= x})
           place == [e \in S |-> Rank(e)]
<1>1. IsFiniteSet(S) /\ Cardinality(S) \in Nat
  BY FS_CardinalityType
<1>2. ASSUME NEW e \in S PROVE Rank(e) \in 1 .. Cardinality(S)
  <2>1. e \in {f \in S : f <= e}
    OBVIOUS
  <2>2. /\ IsFiniteSet({f \in S : f <= e})
        /\ Rank(e) \in Nat /\ Rank(e) <= Cardinality(S)
    BY <1>1, FS_Subset, FS_CardinalityType
  <2>3. Rank(e) # 0
    BY <2>1, <2>2, FS_EmptySet
  <2>4. QED
    BY <1>1, <2>2, <2>3
<1>3. \A x, y \in S : Rank(x) = Rank(y) => x = y
  <2>1. \A x \in S : Nth(S, Rank(x)) = x
    BY NthOfRank
  <2> HIDE DEF Rank
  <2>2. QED
    BY <2>1
<1>4. place \in Injection(S, 1 .. Cardinality(S))
  <2> HIDE DEF Rank
  <2>1. QED
    BY <1>2, <1>3 DEF Injection, IsInjective
<1>5. IsFiniteSet(1 .. Cardinality(S)) /\ Cardinality(1 .. Cardinality(S)) = Cardinality(S)
  BY <1>1, FS_Interval
<1>6. place \in Surjection(S, 1 .. Cardinality(S))
  BY <1>1, <1>4, <1>5, FS_Injection
<1>7. QED
  <2> HIDE DEF Rank
  <2>1. \A k \in 1 .. Cardinality(S) : \E e \in S : Rank(e) = k
    BY <1>6 DEF Surjection
  <2>2. QED
    BY <1>2, <2>1 DEF Rank

\* The list has each member of S once, in ascending order, at its rank.
LEMMA InOrderFacts ==
  ASSUME NEW S \in SUBSET Int, IsFiniteSet(S)
  PROVE  /\ InOrder(S) \in Seq(S) /\ Len(InOrder(S)) = Cardinality(S)
         /\ \A k \in 1 .. Len(InOrder(S)) :
              InOrder(S)[k] \in S /\ Cardinality({f \in S : f <= InOrder(S)[k]}) = k
         /\ \A e \in S : /\ Cardinality({f \in S : f <= e}) \in 1 .. Len(InOrder(S))
                         /\ InOrder(S)[Cardinality({f \in S : f <= e})] = e
         /\ \A j, k \in 1 .. Len(InOrder(S)) : InOrder(S)[j] = InOrder(S)[k] => j = k
<1>1. Cardinality(S) \in Nat
  BY FS_CardinalityType
<1>2. ASSUME NEW k \in 1 .. Cardinality(S)
      PROVE  Nth(S, k) \in S /\ Cardinality({f \in S : f <= Nth(S, k)}) = k
  BY RankOnto DEF Nth
<1>3. InOrder(S) \in Seq(S) /\ Len(InOrder(S)) = Cardinality(S)
  <2> DEFINE n == Cardinality(S)
             at(k) == Nth(S, k)
  <2>1. n \in Nat /\ \A k \in 1 .. n : at(k) \in S
    BY <1>1, <1>2
  <2>2. InOrder(S) = [k \in 1 .. n |-> at(k)]
    BY DEF InOrder
  <2> HIDE DEF n, at
  <2>3. [k \in 1 .. n |-> at(k)] \in Seq(S) /\ Len([k \in 1 .. n |-> at(k)]) = n
    BY <2>1
  <2>4. InOrder(S) \in Seq(S) /\ Len(InOrder(S)) = n
    BY <2>2, <2>3
  <2>5. QED
    BY <2>4 DEF n
<1>4. \A k \in 1 .. Cardinality(S) : InOrder(S)[k] = Nth(S, k)
  BY DEF InOrder
<1>5. ASSUME NEW e \in S
      PROVE  /\ Cardinality({f \in S : f <= e}) \in 1 .. Cardinality(S)
             /\ InOrder(S)[Cardinality({f \in S : f <= e})] = e
  BY <1>4, NthOfRank, RankOnto
<1>6. ASSUME NEW j \in 1 .. Cardinality(S), NEW k \in 1 .. Cardinality(S),
             InOrder(S)[j] = InOrder(S)[k]
      PROVE  j = k
  BY <1>2, <1>4, <1>6
<1>7. QED
  BY <1>2, <1>3, <1>4, <1>5, <1>6

\* A nonempty finite set of integers has a first and a last member.
LEMMA FirstAndLast ==
  ASSUME NEW S \in SUBSET Int, IsFiniteSet(S), S # {}
  PROVE  /\ \E x \in S : \A y \in S : x <= y
         /\ \E x \in S : \A y \in S : y <= x
<1> DEFINE Upto(x) == {f \in S : f <= x}
<1>1. Cardinality(S) \in Nat /\ Cardinality(S) # 0
  BY FS_CardinalityType, FS_EmptySet
<1>2. PICK first \in S : Cardinality(Upto(first)) = 1
  BY <1>1, RankOnto
<1>3. PICK last \in S : Cardinality(Upto(last)) = Cardinality(S)
  BY <1>1, RankOnto
<1>4. ASSUME NEW y \in S PROVE first <= y
  <2>1. IsFiniteSet(Upto(first)) /\ first \in Upto(first)
    BY FS_Subset
  <2>2. Upto(first) = {first}
    BY <1>2, <2>1, FS_Singleton
  <2>3. SUFFICES ASSUME y < first PROVE FALSE
    OBVIOUS
  <2>4. y \in Upto(first)
    BY <2>3
  <2> HIDE DEF Upto
  <2>5. QED
    BY <2>2, <2>3, <2>4
<1>5. Upto(last) = S
  BY <1>3, FS_Subset
<1>6. \A y \in S : y <= last
  BY <1>5
<1>7. QED
  BY <1>4, <1>6

\* An integer-valued function on a finite set has a least and a greatest value.
LEMMA LeastAndGreatest ==
  ASSUME NEW S, IsFiniteSet(S), S # {}, NEW v \in [S -> Int]
  PROVE  /\ \E x \in S : \A y \in S : v[x] <= v[y]
         /\ \E x \in S : \A y \in S : v[y] <= v[x]
         /\ IsFiniteSet({v[x] : x \in S})
<1> DEFINE T == {v[x] : x \in S}
<1>1. v \in Surjection(S, T)
  BY DEF Surjection
<1>2. IsFiniteSet(T) /\ T \in SUBSET Int /\ T # {}
  <2>1. IsFiniteSet(T)
    BY <1>1, FS_Surjection
  <2>2. QED
    BY <2>1
<1>3. (\E x \in T : \A y \in T : x <= y) /\ (\E x \in T : \A y \in T : y <= x)
  <2> HIDE DEF T
  <2>1. QED
    BY <1>2, FirstAndLast
<1>4. QED
  BY <1>2, <1>3

\* The list ascends.
LEMMA InOrderAscends ==
  ASSUME NEW S \in SUBSET Int, IsFiniteSet(S),
         NEW j \in 1 .. Len(InOrder(S)), NEW k \in 1 .. Len(InOrder(S))
  PROVE  j <= k <=> InOrder(S)[j] <= InOrder(S)[k]
<1> DEFINE Upto(x) == {f \in S : f <= x}
           at(i) == InOrder(S)[i]
<1>1. \A i \in 1 .. Len(InOrder(S)) : at(i) \in S /\ Cardinality(Upto(at(i))) = i
  BY InOrderFacts
<1>2. \A i, l \in 1 .. Len(InOrder(S)) : at(i) <= at(l) => i <= l
  <2> SUFFICES ASSUME NEW i \in 1 .. Len(InOrder(S)), NEW l \in 1 .. Len(InOrder(S)),
                      at(i) <= at(l)
               PROVE  i <= l
    OBVIOUS
  <2>1. at(i) \in Int /\ at(l) \in Int
    BY <1>1
  <2>2. Upto(at(i)) \in SUBSET Upto(at(l)) /\ IsFiniteSet(Upto(at(l)))
    <3>1. IsFiniteSet(Upto(at(l)))
      BY FS_Subset
    <3>2. ASSUME NEW f \in S, f <= at(i) PROVE f <= at(l)
      BY <2>1, <3>2
    <3>3. QED
      BY <3>1, <3>2
  <2>3. QED
    <3> HIDE DEF Upto, at
    <3>1. QED
      BY <1>1, <2>2, FS_Subset
<1>3. at(j) \in Int /\ at(k) \in Int /\ j \in Int /\ k \in Int
  <2>1. at(j) \in S /\ at(k) \in S
    BY <1>1
  <2>2. Len(InOrder(S)) \in Nat
    BY InOrderFacts, FS_CardinalityType
  <2>3. j \in Int /\ k \in Int
    BY <2>2
  <2>4. at(j) \in Int /\ at(k) \in Int
    <3> HIDE DEF at
    <3>1. QED
      BY <2>1
  <2>5. QED
    BY <2>3, <2>4
<1> HIDE DEF at
<1>4. QED
  BY <1>2, <1>3 DEF at

\* A set of places in the list and the set of what stands there count alike, as
\* a whole and up to any place.
LEMMA CountThrough ==
  ASSUME NEW S \in SUBSET Int, IsFiniteSet(S), NEW T \in SUBSET (1 .. Len(InOrder(S)))
  PROVE  /\ Cardinality({InOrder(S)[f] : f \in T}) = Cardinality(T)
         /\ \A k \in T : Cardinality({e \in {InOrder(S)[f] : f \in T} : e <= InOrder(S)[k]})
                           = Cardinality({f \in T : f <= k})
<1> DEFINE list == InOrder(S)
           Here(A) == {list[f] : f \in A}
<1>1. Len(list) \in Nat /\ IsFiniteSet(1 .. Len(list))
  <2>1. Len(list) \in Nat
    BY InOrderFacts, FS_CardinalityType
  <2>2. QED
    BY <2>1, FS_Interval
<1>2. \A j, k \in 1 .. Len(list) : list[j] = list[k] => j = k
  BY InOrderFacts
<1> HIDE DEF list
<1>3. ASSUME NEW A \in SUBSET (1 .. Len(list)) PROVE Cardinality(Here(A)) = Cardinality(A)
  <2> DEFINE move == [f \in A |-> list[f]]
  <2>1. move \in Bijection(A, Here(A))
    <3>1. move \in Injection(A, Here(A))
      BY <1>2 DEF Injection, IsInjective
    <3>2. move \in Surjection(A, Here(A))
      BY DEF Surjection
    <3>3. QED
      BY <3>1, <3>2 DEF Bijection
  <2>2. IsFiniteSet(A) /\ ExistsBijection(A, Here(A))
    BY <1>1, <2>1, FS_Subset DEF ExistsBijection
  <2>3. QED
    BY <2>2, FS_Bijection
<1>4. ASSUME NEW k \in T
      PROVE  Cardinality({e \in Here(T) : e <= list[k]}) = Cardinality({f \in T : f <= k})
  <2>1. \A f \in T : f <= k <=> list[f] <= list[k]
    BY InOrderAscends DEF list
  <2>2. {e \in Here(T) : e <= list[k]} = Here({f \in T : f <= k})
    BY <2>1
  <2>3. {f \in T : f <= k} \in SUBSET (1 .. Len(list))
    BY DEF list
  <2> HIDE DEF Here
  <2>4. QED
    BY <1>3, <2>2, <2>3
<1>5. QED
  BY <1>3, <1>4 DEF list

-----------------------------------------------------------------------------
\* Induction over data.  The library's theorems of induction take an operator;
\* these take the set of what has the property, which the provers can match.

\* Induction along 0 .. N, for a property given as the set of the numbers that have it.
LEMMA UpTo ==
  ASSUME NEW N \in Nat, NEW Good \in SUBSET (0 .. N), 0 \in Good,
         \A n \in Good : n < N => n + 1 \in Good
  PROVE  \A n \in 0 .. N : n \in Good
<1> SUFFICES ASSUME NEW n \in 0 .. N, n \notin Good PROVE FALSE
  OBVIOUS
<1> DEFINE Below == {m \in Good : m < n}
<1>1. Below \in SUBSET Int /\ 0 \in Below
  <2>1. \A m \in Good : m \in Int
    OBVIOUS
  <2>2. n # 0 /\ 0 < n
    OBVIOUS
  <2>3. QED
    BY <2>1, <2>2
<1>2. IsFiniteSet(Below)
  <2>1. IsFiniteSet(0 .. N)
    BY FS_Interval
  <2>2. QED
    BY <2>1, FS_Subset
<1> HIDE DEF Below
<1>3. PICK m \in Below : \A k \in Below : k <= m
  BY <1>1, <1>2, FirstAndLast
<1>4. m \in Good /\ m < n /\ m + 1 \in Good /\ m \in Int
  BY <1>1, <1>3 DEF Below
<1>5. m + 1 < n
  BY <1>4
<1>6. m + 1 \in Below
  BY <1>4, <1>5 DEF Below
<1>7. QED
  BY <1>3, <1>4, <1>6

\* Induction over the subsets of a finite set, for a property given as the set
\* of the subsets that have it.
LEMMA SubsetBySubset ==
  ASSUME NEW S, IsFiniteSet(S), NEW Good \in SUBSET (SUBSET S), {} \in Good,
         \A T \in Good : \A x \in S \ T : T \cup {x} \in Good
  PROVE  S \in Good
<1> DEFINE Sizes == {Cardinality(T) : T \in Good}
<1>1. \A T \in Good : IsFiniteSet(T) /\ Cardinality(T) \in 0 .. Cardinality(S)
                      /\ (Cardinality(T) = Cardinality(S) => T = S)
  BY FS_Subset, FS_CardinalityType
<1>2. Sizes \in SUBSET (0 .. Cardinality(S)) /\ Sizes # {} /\ Cardinality(S) \in Nat
  BY <1>1, FS_CardinalityType
<1>3. IsFiniteSet(Sizes) /\ Sizes \in SUBSET Int
  <2>1. IsFiniteSet(0 .. Cardinality(S)) /\ 0 .. Cardinality(S) \subseteq Int
    BY <1>2, FS_Interval
  <2> HIDE DEF Sizes
  <2>2. QED
    BY <1>2, <2>1, FS_Subset
<1>4. \E n \in Sizes : \A m \in Sizes : m <= n
  BY <1>2, <1>3, FirstAndLast
<1>5. PICK T \in Good : \A U \in Good : Cardinality(U) <= Cardinality(T)
  BY <1>4
<1>6. ASSUME T # S PROVE FALSE
  <2>1. PICK x \in S : x \notin T
    BY <1>6
  <2>2. T \cup {x} \in Good
    BY <2>1
  <2>3. Cardinality(T \cup {x}) = Cardinality(T) + 1 /\ Cardinality(T) \in Nat
    BY <1>1, <2>1, FS_AddElement
  <2>4. QED
    BY <1>5, <2>2, <2>3
<1>7. QED
  BY <1>6

-----------------------------------------------------------------------------
\* What SumFunctionOnSet computes.

\* One turn of the fold: the sum over s from the sums over smaller sets.
Turn(f, g, s) == IF s = {} THEN 0 ELSE LET x == CHOOSE x \in s : TRUE IN f[x] + g[s \ {x}]

Fold(f, g, S) == g = [s \in SUBSET S |-> Turn(f, g, s)]

\* The recursion of the fold has a solution.
LEMMA FoldExists ==
  ASSUME NEW f, NEW S, IsFiniteSet(S)
  PROVE  \E g : Fold(f, g, S)
<1> DEFINE Small(n) == {s \in SUBSET S : Cardinality(s) <= n}
           Good == {n \in 0 .. Cardinality(S) : \E g : g = [s \in Small(n) |-> Turn(f, g, s)]}
<1>1. Cardinality(S) \in Nat /\ \A s \in SUBSET S : IsFiniteSet(s) /\ Cardinality(s) \in 0 .. Cardinality(S)
                                 /\ (Cardinality(s) = 0 <=> s = {})
  BY FS_CardinalityType, FS_Subset, FS_EmptySet
<1>2. 0 \in Good
  <2> DEFINE g == [s \in Small(0) |-> 0]
  <2>1. \A s \in Small(0) : s = {}
    BY <1>1
  <2>2. g = [s \in Small(0) |-> Turn(f, g, s)]
    BY <2>1 DEF Turn
  <2>3. QED
    BY <1>1, <2>2
<1>3. ASSUME NEW n \in Good, n < Cardinality(S) PROVE n + 1 \in Good
  <2>1. PICK g : g = [s \in Small(n) |-> Turn(f, g, s)]
    OBVIOUS
  <2> DEFINE h == [s \in Small(n + 1) |-> Turn(f, g, s)]
  <2>2. \A s \in Small(n) : s \in Small(n + 1) /\ h[s] = g[s]
    BY <1>1, <2>1
  <2>3. ASSUME NEW s \in Small(n + 1) PROVE h[s] = Turn(f, h, s)
    <3>1. CASE s = {}
      BY <3>1 DEF Turn
    <3>2. CASE s # {}
      <4> DEFINE x == CHOOSE x \in s : TRUE
      <4>1. x \in s
        BY <3>2
      <4>2. IsFiniteSet(s) /\ Cardinality(s) \in Nat /\ Cardinality(s) <= n + 1
        BY <1>1
      <4>3. Cardinality(s \ {x}) = Cardinality(s) - 1
        BY <4>1, <4>2, FS_RemoveElement
      <4>4. s \ {x} \in Small(n)
        BY <4>2, <4>3
      <4>5. h[s \ {x}] = g[s \ {x}]
        BY <2>2, <4>4
      <4> HIDE DEF Small
      <4>6. h[s] = Turn(f, g, s)
        OBVIOUS
      <4> HIDE DEF h
      <4>7. QED
        BY <3>2, <4>5, <4>6 DEF Turn
    <3>3. QED
      BY <3>1, <3>2
  <2>4. h = [s \in Small(n + 1) |-> Turn(f, h, s)]
    <3> DEFINE k == [s \in Small(n + 1) |-> Turn(f, h, s)]
    <3>1. \A s \in Small(n + 1) : h[s] = k[s]
      BY <2>3
    <3>2. QED
      BY <3>1
  <2>5. n + 1 \in 0 .. Cardinality(S)
    BY <1>1, <1>3
  <2>6. QED
    BY <2>4, <2>5
<1>4. Cardinality(S) \in Good
  <2>1. Good \in SUBSET (0 .. Cardinality(S))
    OBVIOUS
  <2> HIDE DEF Good
  <2>2. QED
    BY <1>1, <1>2, <1>3, <2>1, UpTo
<1>5. Small(Cardinality(S)) = SUBSET S
  BY <1>1
<1>6. QED
  BY <1>4, <1>5 DEF Fold

\* The recursion has one solution, below any set it is taken over.
LEMMA FoldUnique ==
  ASSUME NEW f, NEW S, IsFiniteSet(S), NEW T \in SUBSET S,
         NEW g, Fold(f, g, S), NEW h, Fold(f, h, T)
  PROVE  g[T] = h[T]
<1> DEFINE Good == {n \in 0 .. Cardinality(S) :
                      \A s \in SUBSET T : Cardinality(s) <= n => g[s] = h[s]}
<1>1. Cardinality(S) \in Nat /\ \A s \in SUBSET S : IsFiniteSet(s) /\ Cardinality(s) \in 0 .. Cardinality(S)
                                 /\ (Cardinality(s) = 0 <=> s = {})
  BY FS_CardinalityType, FS_Subset, FS_EmptySet
<1>2. \A s \in SUBSET T : s \in SUBSET S /\ g[s] = Turn(f, g, s) /\ h[s] = Turn(f, h, s)
  BY DEF Fold
<1>3. 0 \in Good
  <2>1. \A s \in SUBSET T : Cardinality(s) <= 0 => s = {}
    BY <1>1, <1>2
  <2>2. g[{}] = 0 /\ h[{}] = 0
    BY <1>2 DEF Turn
  <2>3. QED
    BY <1>1, <2>1, <2>2
<1>4. ASSUME NEW n \in Good, n < Cardinality(S) PROVE n + 1 \in Good
  <2>1. ASSUME NEW s \in SUBSET T, Cardinality(s) <= n + 1 PROVE g[s] = h[s]
    <3>1. CASE s = {}
      BY <1>2, <3>1 DEF Turn
    <3>2. CASE s # {}
      <4> DEFINE x == CHOOSE x \in s : TRUE
      <4>1. x \in s
        BY <3>2
      <4> HIDE DEF x
      <4>2. IsFiniteSet(s) /\ Cardinality(s) \in Nat
        BY <1>1, <1>2
      <4>3. Cardinality(s \ {x}) = Cardinality(s) - 1
        BY <4>1, <4>2, FS_RemoveElement
      <4>4. s \ {x} \in SUBSET T /\ Cardinality(s \ {x}) <= n
        BY <1>1, <2>1, <4>2, <4>3
      <4>5. g[s \ {x}] = h[s \ {x}]
        BY <4>4
      <4>6. g[s] = Turn(f, g, s) /\ h[s] = Turn(f, h, s)
        BY <1>2
      <4>7. QED
        BY <3>2, <4>5, <4>6 DEF Turn, x
    <3>3. QED
      BY <3>1, <3>2
  <2>2. n + 1 \in 0 .. Cardinality(S)
    BY <1>1, <1>4
  <2>3. QED
    BY <2>1, <2>2
<1>5. Cardinality(S) \in Good
  <2>1. Good \in SUBSET (0 .. Cardinality(S))
    OBVIOUS
  <2> HIDE DEF Good
  <2>2. QED
    BY <1>1, <1>3, <1>4, <2>1, UpTo
<1>6. T \in SUBSET T /\ Cardinality(T) <= Cardinality(S)
  BY <1>1
<1>7. QED
  BY <1>5, <1>6

\* The sum over nothing, and the sum over a set from the sum without the member
\* that the fold takes first.
LEMMA SumTurn ==
  ASSUME NEW f, NEW S, IsFiniteSet(S)
  PROVE  SumFunctionOnSet(f, S)
           = IF S = {} THEN 0
             ELSE LET x == CHOOSE x \in S : TRUE IN f[x] + SumFunctionOnSet(f, S \ {x})
<1> DEFINE F(T) == CHOOSE g : Fold(f, g, T)
<1>1. \A T : SumFunctionOnSet(f, T) = F(T)[T]
  BY DEF SumFunctionOnSet, FoldFunctionOnSet, MapThenFoldSet, Turn, Fold
<1>2. ASSUME NEW T, IsFiniteSet(T) PROVE Fold(f, F(T), T)
  BY <1>2, FoldExists
<1> HIDE DEF F
<1>3. F(S)[S] = Turn(f, F(S), S)
  BY <1>2 DEF Fold
<1>4. CASE S = {}
  BY <1>1, <1>3, <1>4 DEF Turn
<1>5. CASE S # {}
  <2> DEFINE x == CHOOSE x \in S : TRUE
  <2>1. IsFiniteSet(S \ {x}) /\ S \ {x} \in SUBSET S
    BY FS_RemoveElement
  <2>2. F(S)[S \ {x}] = F(S \ {x})[S \ {x}]
    BY <1>2, <2>1, FoldUnique
  <2>3. QED
    BY <1>1, <1>3, <1>5, <2>2 DEF Turn
<1>6. QED
  BY <1>4, <1>5

\* The sum over a set of integers is an integer, and any member may be taken first.
LEMMA SumTake ==
  ASSUME NEW f, NEW S, IsFiniteSet(S), \A x \in S : f[x] \in Int
  PROVE  /\ SumFunctionOnSet(f, S) \in Int
         /\ \A x \in S : SumFunctionOnSet(f, S) = f[x] + SumFunctionOnSet(f, S \ {x})
<1> DEFINE Sum(T) == SumFunctionOnSet(f, T)
           Fine(T) == Sum(T) \in Int /\ \A x \in T : Sum(T) = f[x] + Sum(T \ {x})
           Good == {n \in 0 .. Cardinality(S) :
                      \A T \in SUBSET S : Cardinality(T) <= n => Fine(T)}
<1>1. Cardinality(S) \in Nat /\ \A T \in SUBSET S : IsFiniteSet(T) /\ Cardinality(T) \in 0 .. Cardinality(S)
                                 /\ (Cardinality(T) = 0 <=> T = {})
  BY FS_CardinalityType, FS_Subset, FS_EmptySet
<1>2. Sum({}) = 0
  BY FS_EmptySet, SumTurn
<1>3. \A T \in SUBSET S : T # {} => Sum(T) = f[CHOOSE x \in T : TRUE] + Sum(T \ {CHOOSE x \in T : TRUE})
  BY <1>1, SumTurn
<1>4. \A T \in SUBSET S : \A x \in T : T \ {x} \in SUBSET S /\ Cardinality(T \ {x}) = Cardinality(T) - 1
  BY <1>1, FS_RemoveElement
<1> HIDE DEF Sum
<1>5. 0 \in Good
  BY <1>1, <1>2
<1>6. ASSUME NEW n \in Good, n < Cardinality(S) PROVE n + 1 \in Good
  <2>1. ASSUME NEW T \in SUBSET S, Cardinality(T) <= n + 1 PROVE Fine(T)
    <3>1. CASE T = {}
      BY <1>2, <3>1
    <3>2. CASE T # {}
      <4> DEFINE y == CHOOSE y \in T : TRUE
      <4>1. y \in T /\ Sum(T) = f[y] + Sum(T \ {y})
        BY <1>3, <3>2
      <4> HIDE DEF y
      <4>2. \A x \in T : T \ {x} \in SUBSET S /\ Cardinality(T \ {x}) <= n
        BY <1>1, <1>4, <2>1
      <4>3. \A x \in T : Fine(T \ {x}) /\ f[x] \in Int
        BY <4>2
      <4>4. ASSUME NEW x \in T, x # y PROVE Sum(T) = f[x] + Sum(T \ {x})
        <5>1. (T \ {x}) \ {y} = (T \ {y}) \ {x}
          OBVIOUS
        <5>2. x \in T \ {y} /\ y \in T \ {x} /\ T \ {x, y} \in SUBSET S
          BY <4>1, <4>4
        <5>3. Sum(T \ {y}) = f[x] + Sum((T \ {y}) \ {x})
          BY <4>1, <4>3, <5>2
        <5>4. Sum(T \ {x}) = f[y] + Sum((T \ {x}) \ {y})
          BY <4>3, <5>2
        <5>5. Sum((T \ {x}) \ {y}) \in Int
          <6> DEFINE U == T \ {x}
          <6>1. U \in SUBSET S /\ Cardinality(U) <= n /\ Cardinality(U) \in Int /\ y \in U
            BY <1>1, <4>2, <5>2
          <6> HIDE DEF U
          <6>2. U \ {y} \in SUBSET S /\ Cardinality(U \ {y}) = Cardinality(U) - 1
            BY <1>4, <6>1
          <6>3. (T \ {x}) \ {y} \in SUBSET S /\ Cardinality((T \ {x}) \ {y}) <= n
            BY <6>1, <6>2 DEF U
          <6>4. QED
            BY <6>3
        <5>6. f[x] \in Int /\ f[y] \in Int
          BY <4>1, <4>3
        <5>7. \A a, b, c \in Int : a + (b + c) = b + (a + c)
          OBVIOUS
        <5> DEFINE rest == Sum((T \ {x}) \ {y})
        <5>8. Sum(T) = f[y] + (f[x] + rest) /\ Sum(T \ {x}) = f[y] + rest /\ rest \in Int
          BY <4>1, <5>1, <5>3, <5>4, <5>5
        <5> HIDE DEF Fine, Good, rest
        <5>9. QED
          BY <5>6, <5>7, <5>8
      <4>5. Sum(T) \in Int
        BY <4>1, <4>3
      <4>6. QED
        BY <4>1, <4>4, <4>5
    <3>3. QED
      BY <3>1, <3>2
  <2>2. n + 1 \in 0 .. Cardinality(S)
    BY <1>1, <1>6
  <2>3. QED
    BY <2>1, <2>2
<1>7. Cardinality(S) \in Good
  <2>1. Good \in SUBSET (0 .. Cardinality(S))
    OBVIOUS
  <2> HIDE DEF Good
  <2>2. QED
    BY <1>1, <1>5, <1>6, <2>1, UpTo
<1>8. Fine(S)
  BY <1>1, <1>7
<1>9. QED
  BY <1>8 DEF Sum

\* Sums of equal terms are equal.
LEMMA SumSame ==
  ASSUME NEW f, NEW g, NEW S, IsFiniteSet(S), \A x \in S : f[x] \in Int /\ f[x] = g[x]
  PROVE  SumFunctionOnSet(f, S) = SumFunctionOnSet(g, S)
<1> DEFINE F(T) == SumFunctionOnSet(f, T)
           G(T) == SumFunctionOnSet(g, T)
           Good == {T \in SUBSET S : F(T) = G(T)}
<1>1. \A T \in SUBSET S : IsFiniteSet(T)
  BY FS_Subset
<1>2. F({}) = 0 /\ G({}) = 0
  BY FS_EmptySet, SumTurn
<1>3. ASSUME NEW T \in Good, NEW x \in S \ T PROVE T \cup {x} \in Good
  <2>1. IsFiniteSet(T \cup {x}) /\ x \in T \cup {x} /\ (T \cup {x}) \ {x} = T
        /\ \A y \in T \cup {x} : f[y] \in Int /\ g[y] \in Int /\ f[y] = g[y]
    BY <1>1
  <2>2. F(T \cup {x}) = f[x] + F(T)
    BY <2>1, SumTake
  <2>3. G(T \cup {x}) = g[x] + G(T)
    BY <2>1, SumTake
  <2>4. QED
    BY <2>1, <2>2, <2>3
<1>4. {} \in Good /\ Good \in SUBSET (SUBSET S)
  BY <1>2
<1>5. S \in Good
  <2> HIDE DEF Good
  <2>1. QED
    BY <1>3, <1>4, SubsetBySubset
<1>6. QED
  BY <1>5

\* The sum over two sets with no common member is the sum of their sums.
LEMMA SumUnion ==
  ASSUME NEW f, NEW S, IsFiniteSet(S), NEW T, IsFiniteSet(T), S \cap T = {},
         \A x \in S \cup T : f[x] \in Int
  PROVE  SumFunctionOnSet(f, S \cup T) = SumFunctionOnSet(f, S) + SumFunctionOnSet(f, T)
<1> DEFINE F(U) == SumFunctionOnSet(f, U)
           Good == {U \in SUBSET T : F(S \cup U) = F(S) + F(U)}
<1>1. \A U \in SUBSET T : IsFiniteSet(U) /\ IsFiniteSet(S \cup U)
  BY FS_Subset, FS_Union
<1>2. \A U \in SUBSET (S \cup T) : IsFiniteSet(U) => F(U) \in Int
  BY SumTake
<1>3. ASSUME NEW U \in Good, NEW x \in T \ U PROVE U \cup {x} \in Good
  <2>1. /\ IsFiniteSet(U \cup {x}) /\ x \in U \cup {x} /\ (U \cup {x}) \ {x} = U
        /\ IsFiniteSet(S \cup (U \cup {x})) /\ x \in S \cup (U \cup {x})
        /\ (S \cup (U \cup {x})) \ {x} = S \cup U
    BY <1>1
  <2>2. F(U \cup {x}) = f[x] + F(U)
    BY <2>1, SumTake
  <2>3. F(S \cup (U \cup {x})) = f[x] + F(S \cup U)
    BY <2>1, SumTake
  <2>4. F(S) \in Int /\ F(U) \in Int /\ f[x] \in Int
    BY <1>1, <1>2
  <2> HIDE DEF F
  <2>5. \A a, b, c \in Int : a + (b + c) = b + (a + c)
    OBVIOUS
  <2>6. QED
    BY <2>2, <2>3, <2>4, <2>5
<1>4. {} \in Good
  <2>1. F({}) = 0 /\ F(S) \in Int /\ S \cup {} = S
    BY <1>2, FS_EmptySet, SumTurn
  <2> HIDE DEF F
  <2>2. QED
    BY <2>1
<1>5. T \in Good
  <2>1. Good \in SUBSET (SUBSET T)
    OBVIOUS
  <2> HIDE DEF Good
  <2>2. QED
    BY <1>3, <1>4, <2>1, SubsetBySubset
<1>6. QED
  BY <1>5

\* A sum does not depend on what its terms are called.
LEMMA SumRenamed ==
  ASSUME NEW f, NEW S, IsFiniteSet(S), NEW g, NEW R, NEW b \in Bijection(S, R),
         \A x \in S : f[x] \in Int /\ f[x] = g[b[x]]
  PROVE  SumFunctionOnSet(f, S) = SumFunctionOnSet(g, R)
<1>1. /\ \A x \in S : b[x] \in R
      /\ \A x, y \in S : b[x] = b[y] => x = y
      /\ \A z \in R : \E x \in S : b[x] = z
  BY DEF Bijection, Injection, Surjection, IsInjective
<1> DEFINE Image(T) == {b[x] : x \in T}
           F(T) == SumFunctionOnSet(f, T)
           G(T) == SumFunctionOnSet(g, T)
           Good == {T \in SUBSET S : IsFiniteSet(Image(T)) /\ F(T) = G(Image(T))}
<1>2. \A T \in SUBSET S : IsFiniteSet(T)
  BY FS_Subset
<1>3. ASSUME NEW T \in Good, NEW x \in S \ T PROVE T \cup {x} \in Good
  <2>1. /\ IsFiniteSet(T \cup {x}) /\ x \in T \cup {x} /\ (T \cup {x}) \ {x} = T
        /\ \A y \in T \cup {x} : f[y] \in Int
    BY <1>2
  <2>2. Image(T \cup {x}) = Image(T) \cup {b[x]} /\ b[x] \notin Image(T)
    BY <1>1
  <2>3. IsFiniteSet(Image(T) \cup {b[x]})
    BY FS_AddElement
  <2>4. (Image(T) \cup {b[x]}) \ {b[x]} = Image(T)
    BY <2>2
  <2>5. \A z \in Image(T) \cup {b[x]} : g[z] \in Int
    OBVIOUS
  <2>6. F(T \cup {x}) = f[x] + F(T)
    BY <2>1, SumTake
  <2>7. b[x] \in Image(T) \cup {b[x]}
    OBVIOUS
  <2> HIDE DEF Image
  <2>8. G(Image(T) \cup {b[x]}) = g[b[x]] + G(Image(T))
    BY <2>3, <2>4, <2>5, <2>7, SumTake
  <2>9. QED
    BY <2>2, <2>3, <2>6, <2>8
<1>4. {} \in Good
  <2>1. Image({}) = {} /\ F({}) = 0 /\ G({}) = 0 /\ IsFiniteSet({})
    BY FS_EmptySet, SumTurn
  <2> HIDE DEF F, G
  <2>2. QED
    BY <2>1
<1>5. S \in Good
  <2>1. Good \in SUBSET (SUBSET S)
    OBVIOUS
  <2> HIDE DEF Good
  <2>2. QED
    BY <1>3, <1>4, <2>1, SubsetBySubset
<1>6. Image(S) = R
  BY <1>1
<1> HIDE DEF Image
<1>7. QED
  BY <1>5, <1>6

\* A sum of natural numbers is one.
LEMMA SumIsNat ==
  ASSUME NEW f, NEW S, IsFiniteSet(S), \A x \in S : f[x] \in Nat
  PROVE  SumFunctionOnSet(f, S) \in Nat
<1> DEFINE F(T) == SumFunctionOnSet(f, T)
           Good == {T \in SUBSET S : F(T) \in Nat}
<1>1. ASSUME NEW T \in Good, NEW x \in S \ T PROVE T \cup {x} \in Good
  <2>1. /\ IsFiniteSet(T \cup {x}) /\ x \in T \cup {x} /\ (T \cup {x}) \ {x} = T
        /\ \A y \in T \cup {x} : f[y] \in Int
    BY FS_Subset
  <2>2. F(T \cup {x}) = f[x] + F(T)
    BY <2>1, SumTake
  <2>3. QED
    BY <2>2
<1>2. {} \in Good /\ Good \in SUBSET (SUBSET S)
  <2>1. F({}) = 0
    BY FS_EmptySet, SumTurn
  <2>2. QED
    BY <2>1
<1>3. S \in Good
  <2> HIDE DEF Good
  <2>1. QED
    BY <1>1, <1>2, SubsetBySubset
<1>4. QED
  BY <1>3

=============================================================================
