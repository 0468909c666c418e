----------------------------- MODULE FiniteSums -----------------------------
(***************************************************************************)
(* Lemmas about numbers, sums over finite sets and folds of sequences, for *)
(* the proofs about modules that compute them.  The folds of the library   *)
(* are recursive functions, of which nothing is known until a solution of  *)
(* the recursion has been shown to exist (FoldsExist); induction is by a   *)
(* minimal counterexample (MinimalSubset, LeastNumber).                    *)
(***************************************************************************)
EXTENDS Integers, FiniteSets, FiniteSetsExt, Functions, SequencesExt, TLAPS,
        FiniteSetTheorems, WellFoundedInduction

(* Minimal counterexamples                                                  *)

\* A set of subsets of a finite set has a minimal member.
LEMMA MinimalSubset ==
  ASSUME NEW S, IsFiniteSet(S), NEW Bad, Bad \subseteq SUBSET S, Bad # {}
  PROVE  \E T \in Bad : \A U \in Bad : U \subseteq T => U = T
<1>1. Bad \subseteq FiniteSubsetsOf(S)
  BY FS_Subset DEF FiniteSubsetsOf
<1>2. PICK T \in Bad : \A U \in Bad : <<U, T>> \notin StrictSubsetOrdering(S)
  BY <1>1, WFMin, FS_StrictSubsetOrderingWellFounded
<1>3. QED
  BY <1>2 DEF StrictSubsetOrdering

\* A set of natural numbers has a least member.
LEMMA LeastNumber ==
  ASSUME NEW Bad, Bad \subseteq Nat, Bad # {}
  PROVE  \E n \in Bad : \A m \in Bad : n <= m
<1> DEFINE Less == {ss \in Nat \X Nat : ss[1] < ss[2]}
<1>1. IsWellFoundedOn(Less, Nat)
  BY NatLessThanWellFounded DEF OpToRel
<1>2. PICK n \in Bad : \A m \in Bad : <<m, n>> \notin Less
  <2> HIDE DEF Less
  <2> QED
    BY <1>1, WFMin
<1>3. \A i, j \in Nat : i < j => <<i, j>> \in Less
  OBVIOUS
<1>4. ASSUME NEW m \in Bad PROVE n <= m
  <2>1. m \in Nat /\ n \in Nat /\ <<m, n>> \notin Less
    BY <1>2
  <2>2. ~ (m < n)
    BY <1>3, <2>1
  <2>3. QED
    BY <2>1, <2>2
<1>5. QED
  BY <1>4

\* What holds at 0 and passes from k - 1 to k holds up to n.
LEMMA CountUp ==
  ASSUME NEW n \in Nat, NEW Good, 0 \in Good,
         \A k \in 1 .. n : k - 1 \in Good => k \in Good
  PROVE  \A k \in 0 .. n : k \in Good
<1> DEFINE Bad == {k \in Nat : k \in 0 .. n /\ k \notin Good}
<1> SUFFICES ASSUME Bad # {} PROVE FALSE
  OBVIOUS
<1>1. PICK k \in Bad : \A m \in Bad : k <= m
  BY LeastNumber
<1>2. k \in 1 .. n
  BY <1>1
<1>3. k - 1 \in Nat /\ k - 1 \in 0 .. n /\ ~ (k <= k - 1)
  BY <1>2
<1>4. k - 1 \in Good
  BY <1>1, <1>3
<1>5. QED
  BY <1>1, <1>2, <1>4

\* A bounded set of natural numbers has a greatest member.
LEMMA GreatestNumber ==
  ASSUME NEW n \in Nat, NEW T, T \subseteq 0 .. n, T # {}
  PROVE  \E m \in T : \A k \in T : k <= m
<1> DEFINE Rest == {n - m : m \in T}
<1>1. Rest \subseteq Nat /\ Rest # {}
  <2>1. \A m \in T : m \in 0 .. n /\ n - m \in Nat
    OBVIOUS
  <2>2. QED
    BY <2>1
<1>2. PICK l \in Rest : \A k \in Rest : l <= k
  <2> HIDE DEF Rest
  <2> QED
    BY <1>1, LeastNumber
<1>3. PICK m \in T : l = n - m
  BY <1>2
<1>4. ASSUME NEW k \in T PROVE k <= m
  <2>1. n - m <= n - k
    BY <1>2, <1>3
  <2>2. QED
    BY <2>1
<1>5. QED
  BY <1>4

\* Max finds it.
LEMMA MaxOfNumbers ==
  ASSUME NEW n \in Nat, NEW T, T \subseteq 1 .. n, T # {}
  PROVE  Max(T) \in T /\ (\A k \in T : k <= Max(T))
<1>1. PICK m \in T : \A k \in T : k <= m
  <2>1. T \subseteq 0 .. n
    OBVIOUS
  <2>2. QED
    BY <2>1, GreatestNumber
<1>2. \A k \in T : k \in Int
  OBVIOUS
<1>3. \E m2 \in T : \A k \in T : m2 >= k
  BY <1>1, <1>2
<1>4. Max(T) \in T /\ \A k \in T : Max(T) >= k
  BY <1>3 DEF Max
<1>5. QED
  BY <1>2, <1>4

-----------------------------------------------------------------------------
(* Folds                                                                    *)

\* A recursion over the subsets of S that takes out one element at a time: the
\* element pick[s] is taken out of s, and G combines it with the rest.
PicksFrom(pick, S) == \A s \in SUBSET S : s # {} => pick[s] \in s
Combines(G, A, S) == \A r \in A, x \in S : G[<<r, x>>] \in A
FoldsBy(h, base, G, pick, S) ==
  \A s \in SUBSET S :
    h[s] = IF s = {} THEN base ELSE G[<<h[s \ {pick[s]}], pick[s]>>]

\* It has a solution if S is finite: one for the subsets of at most n elements
\* can be extended to those of n + 1.
LEMMA FoldsExist ==
  ASSUME NEW S, IsFiniteSet(S), NEW A, NEW base \in A, NEW pick, PicksFrom(pick, S),
         NEW G, Combines(G, A, S)
  PROVE  \E h \in [SUBSET S -> A] : FoldsBy(h, base, G, pick, S)
<1> DEFINE Small(n) == {s \in SUBSET S : Cardinality(s) <= n}
           Solves(h, n) ==
             \A s \in Small(n) :
               h[s] = IF s = {} THEN base ELSE G[<<h[s \ {pick[s]}], pick[s]>>]
           Bad == {n \in Nat : ~ \E h \in [Small(n) -> A] : Solves(h, n)}
<1>1. \A s \in SUBSET S : IsFiniteSet(s) /\ Cardinality(s) \in Nat /\ Cardinality(s) <= Cardinality(S)
  BY FS_Subset, FS_CardinalityType
<1>2. ASSUME NEW s \in SUBSET S, s # {}
      PROVE  /\ pick[s] \in S /\ s \ {pick[s]} \in SUBSET S
             /\ Cardinality(s \ {pick[s]}) = Cardinality(s) - 1
  BY <1>1, <1>2, FS_RemoveElement DEF PicksFrom
<1>3. 0 \notin Bad
  <2> DEFINE h == [s \in Small(0) |-> base]
  <2>1. \A s \in Small(0) : s = {}
    BY <1>1, FS_EmptySet
  <2>2. h \in [Small(0) -> A] /\ Solves(h, 0)
    BY <2>1
  <2>3. QED
    BY <2>2
<1>4. ASSUME NEW n \in Nat, n \notin Bad PROVE n + 1 \notin Bad
  <2>1. PICK old \in [Small(n) -> A] : Solves(old, n)
    BY <1>4
  <2> DEFINE h == [s \in Small(n + 1) |->
                     IF s = {} THEN base ELSE G[<<old[s \ {pick[s]}], pick[s]>>]]
  <2>2. ASSUME NEW s \in Small(n + 1), s # {}
        PROVE  pick[s] \in S /\ s \ {pick[s]} \in Small(n)
    BY <1>1, <1>2, <2>2
  <2>3. \A s \in Small(n) : s \in Small(n + 1) /\ h[s] = old[s]
    BY <1>1, <2>1
  <2>4. h \in [Small(n + 1) -> A]
    BY <2>2 DEF Combines
  <2>5. ASSUME NEW s \in Small(n + 1)
        PROVE  h[s] = IF s = {} THEN base ELSE G[<<h[s \ {pick[s]}], pick[s]>>]
    <3>1. CASE s = {}
      BY <3>1
    <3>2. CASE s # {}
      <4>1. s \ {pick[s]} \in Small(n)
        BY <2>2, <3>2
      <4>2. h[s] = G[<<old[s \ {pick[s]}], pick[s]>>]
        BY <3>2
      <4>3. h[s \ {pick[s]}] = old[s \ {pick[s]}]
        BY <2>3, <4>1
      <4> HIDE DEF h
      <4>4. QED
        BY <3>2, <4>2, <4>3
    <3>3. QED
      BY <3>1, <3>2
  <2>6. Solves(h, n + 1)
    <3> HIDE DEF h
    <3> QED
      BY <2>5
  <2>7. QED
    <3> HIDE DEF h, Small, Solves
    <3> QED
      BY <2>4, <2>6
<1>5. Bad = {}
  <2> SUFFICES ASSUME Bad # {} PROVE FALSE
    OBVIOUS
  <2>1. PICK n \in Bad : \A m \in Bad : n <= m
    BY LeastNumber
  <2>2. n \in Nat /\ n # 0
    BY <1>3, <2>1
  <2>3. n - 1 \in Nat /\ n - 1 \notin Bad
    <3> HIDE DEF Bad
    <3> QED
      BY <2>1, <2>2
  <2>4. (n - 1) + 1 \notin Bad
    <3> HIDE DEF Bad
    <3> QED
      BY <1>4, <2>3
  <2>5. (n - 1) + 1 = n
    BY <2>2
  <2>6. QED
    BY <2>1, <2>4, <2>5
<1>6. Cardinality(S) \in Nat
  BY FS_CardinalityType
<1>7. PICK h \in [Small(Cardinality(S)) -> A] : Solves(h, Cardinality(S))
  BY <1>5, <1>6
<1>8. Small(Cardinality(S)) = SUBSET S
  BY <1>1
<1>9. h \in [SUBSET S -> A]
  BY <1>7, <1>8
<1>10. \A s \in SUBSET S :
         h[s] = IF s = {} THEN base ELSE G[<<h[s \ {pick[s]}], pick[s]>>]
  <2>1. \A s \in Small(Cardinality(S)) :
         h[s] = IF s = {} THEN base ELSE G[<<h[s \ {pick[s]}], pick[s]>>]
    BY <1>7
  <2> HIDE DEF Small
  <2>2. QED
    BY <2>1, <1>8
<1>11. FoldsBy(h, base, G, pick, S)
  BY <1>10 DEF FoldsBy
<1>12. QED
  BY <1>9, <1>11

\* Folding a sequence goes through its prefixes.
LEMMA PrefixMax ==
  ASSUME NEW n \in Nat, NEW k \in 1 .. n
  PROVE  /\ 1 .. k \in SUBSET (1 .. n) /\ 1 .. k # {}
         /\ Max(1 .. k) = k /\ (1 .. k) \ {k} = 1 .. k - 1
<1>1. 1 .. k \subseteq 1 .. n /\ 1 .. k # {} /\ k \in 1 .. k
  OBVIOUS
<1>2. Max(1 .. k) \in 1 .. k /\ k <= Max(1 .. k)
  BY <1>1, MaxOfNumbers
<1>3. Max(1 .. k) = k
  BY <1>2
<1>4. (1 .. k) \ {k} = 1 .. k - 1
  OBVIOUS
<1>5. QED
  BY <1>1, <1>3, <1>4

\* The library folds a sequence over its domain, the greatest index first.
\* The library folds a sequence over its domain, the greatest index first.
Greatest(n) == [s \in SUBSET (1 .. n) |-> Max(s)]
Unfolds(f, base, G, A, n) ==
  /\ f[{}] = base
  /\ \A k \in 1 .. n : f[1 .. k - 1] \in A => f[1 .. k] = G[<<f[1 .. k - 1], k>>]
Steps(r, base, G, n) ==
  /\ r[0] = base
  /\ \A k \in 1 .. n : r[k] = G[<<r[k - 1], k>>]

\* So the fold of a sequence of length n exists,
LEMMA FoldExists ==
  ASSUME NEW n \in Nat, NEW A, NEW base \in A, NEW G, Combines(G, A, 1 .. n)
  PROVE  \E h \in [SUBSET (1 .. n) -> A] : FoldsBy(h, base, G, Greatest(n), 1 .. n)
<1>1. IsFiniteSet(1 .. n)
  BY FS_Interval
<1>2. PicksFrom(Greatest(n), 1 .. n)
  BY MaxOfNumbers DEF PicksFrom, Greatest
<1>3. QED
  BY <1>1, <1>2, FoldsExist

\* and whatever unfolds like it takes in one element after the other.
LEMMA FoldSteps ==
  ASSUME NEW n \in Nat, NEW A, NEW base \in A, NEW G, Combines(G, A, 1 .. n),
         NEW f, Unfolds(f, base, G, A, n)
  PROVE  \E r \in [0 .. n -> A] : r[n] = f[1 .. n] /\ Steps(r, base, G, n)
<1> DEFINE Bad == {k \in Nat : k \in 0 .. n /\ f[1 .. k] \notin A}
<1>1. 1 .. 0 = {}
  OBVIOUS
<1>2. f[1 .. 0] = base
  BY <1>1 DEF Unfolds
<1>3. Bad = {}
  <2> SUFFICES ASSUME Bad # {} PROVE FALSE
    OBVIOUS
  <2>1. PICK k \in Bad : \A j \in Bad : k <= j
    BY LeastNumber
  <2>2. k \in 1 .. n
    BY <1>2, <2>1
  <2>3. k - 1 \in Nat /\ k - 1 \in 0 .. n /\ k - 1 < k
    BY <2>2
  <2>4. f[1 .. k - 1] \in A
    BY <2>1, <2>3
  <2>5. f[1 .. k] = G[<<f[1 .. k - 1], k>>]
    BY <2>2, <2>4 DEF Unfolds
  <2>6. G[<<f[1 .. k - 1], k>>] \in A
    BY <2>2, <2>4 DEF Combines
  <2>7. QED
    BY <2>1, <2>5, <2>6
<1>4. \A k \in 0 .. n : f[1 .. k] \in A
  BY <1>3
<1> DEFINE r == [k \in 0 .. n |-> f[1 .. k]]
<1>5. r \in [0 .. n -> A] /\ r[n] = f[1 .. n] /\ r[0] = base
  BY <1>2, <1>4
<1>6. ASSUME NEW k \in 1 .. n PROVE r[k] = G[<<r[k - 1], k>>]
  <2>1. k \in 0 .. n /\ k - 1 \in 0 .. n
    OBVIOUS
  <2>2. r[k - 1] = f[1 .. k - 1] /\ r[k] = f[1 .. k]
    BY <2>1
  <2>3. f[1 .. k - 1] \in A
    BY <1>4, <2>1
  <2>4. f[1 .. k] = G[<<f[1 .. k - 1], k>>]
    BY <2>3 DEF Unfolds
  <2> HIDE DEF r
  <2>5. QED
    BY <2>2, <2>4
<1> HIDE DEF r
<1>7. QED
  BY <1>5, <1>6 DEF Steps

-----------------------------------------------------------------------------
(* Sums over finite sets                                                    *)

\* `sum` gives each subset of S the sum of g over it, the way the folds of the
\* library compute it: one chosen element after the other.
Sums(sum, g, S) ==
  sum = [s \in SUBSET S |->
           IF s = {} THEN 0
           ELSE LET x == CHOOSE x \in s : TRUE IN g[x] + sum[s \ {x}]]

SumOver(g, S) == MapThenSumSet(LAMBDA x : g[x], S)

\* The sum is what some solution of that recursion says of S.
LEMMA SumOverIsChosen ==
  ASSUME NEW g, NEW S
  PROVE  SumOver(g, S) = (CHOOSE sum : Sums(sum, g, S))[S]
BY DEF SumOver, MapThenSumSet, MapThenFoldSet, Sums

\* The recursion has a solution.
LEMMA SumsExist ==
  ASSUME NEW S, IsFiniteSet(S), NEW g, \A i \in S : g[i] \in Int
  PROVE  \E sum \in [SUBSET S -> Int] : Sums(sum, g, S)
<1> DEFINE pick == [s \in SUBSET S |-> CHOOSE x \in s : TRUE]
           G == [p \in Int \X S |-> g[p[2]] + p[1]]
<1>1. PicksFrom(pick, S)
  BY DEF PicksFrom
<1>2. \A r \in Int, x \in S : G[<<r, x>>] = g[x] + r
  OBVIOUS
<1> HIDE DEF G
<1>3. Combines(G, Int, S)
  <2>1. ASSUME NEW r \in Int, NEW x \in S PROVE G[<<r, x>>] \in Int
    <3>1. g[x] + r \in Int
      OBVIOUS
    <3>2. QED
      BY <1>2, <3>1
  <2>2. QED
    BY <2>1 DEF Combines
<1>4. 0 \in Int
  OBVIOUS
<1> HIDE DEF pick
<1>5. PICK h \in [SUBSET S -> Int] : FoldsBy(h, 0, G, pick, S)
  BY <1>1, <1>3, <1>4, FoldsExist
<1>6. ASSUME NEW s \in SUBSET S, s # {}
      PROVE  LET x == CHOOSE x \in s : TRUE IN h[s] = g[x] + h[s \ {x}]
  <2> DEFINE x == CHOOSE x \in s : TRUE
  <2>1. x \in S /\ s \ {x} \in SUBSET S /\ pick[s] = x
    BY <1>6 DEF pick
  <2> HIDE DEF x
  <2>2. h[s] = G[<<h[s \ {x}], x>>]
    BY <1>5, <1>6, <2>1 DEF FoldsBy
  <2>3. h[s] = g[x] + h[s \ {x}]
    BY <1>2, <2>1, <2>2
  <2>4. QED
    BY <2>3 DEF x
<1>7. h[{}] = 0
  BY <1>5 DEF FoldsBy
<1>8. Sums(h, g, S)
  BY <1>6, <1>7 DEF Sums
<1>9. QED
  BY <1>8

\* and only one: sums over two sets agree where both are defined.
LEMMA SumsAgree ==
  ASSUME NEW S, IsFiniteSet(S), NEW R, IsFiniteSet(R), NEW f, NEW g, NEW h, NEW k,
         Sums(h, f, S), Sums(k, g, R), NEW T, T \subseteq S, T \subseteq R,
         \A x \in T : f[x] = g[x]
  PROVE  h[T] = k[T]
<1> DEFINE Bad == {U \in SUBSET T : h[U] # k[U]}
<1> SUFFICES ASSUME Bad # {} PROVE FALSE
  OBVIOUS
<1>1. IsFiniteSet(T)
  BY FS_Subset
<1>2. PICK U \in Bad : \A V \in Bad : V \subseteq U => V = U
  <2>1. Bad \subseteq SUBSET T
    OBVIOUS
  <2> HIDE DEF Bad
  <2>2. QED
    BY <1>1, <2>1, MinimalSubset
<1>3. U # {}
  BY <1>2 DEF Sums
<1> DEFINE x == CHOOSE x \in U : TRUE
<1>4. x \in U
  BY <1>3
<1>5. h[U] = f[x] + h[U \ {x}] /\ k[U] = g[x] + k[U \ {x}]
  BY <1>2, <1>3 DEF Sums
<1> HIDE DEF x
<1>6. U \ {x} \notin Bad
  BY <1>2, <1>4
<1>7. h[U \ {x}] = k[U \ {x}] /\ f[x] = g[x]
  BY <1>2, <1>4, <1>6
<1>8. QED
  BY <1>2, <1>5, <1>7

\* A sum of integers is what a solution in the integers says of S.
LEMMA SumSolves ==
  ASSUME NEW S, IsFiniteSet(S), NEW g, \A i \in S : g[i] \in Int
  PROVE  \E sum \in [SUBSET S -> Int] : Sums(sum, g, S) /\ SumOver(g, S) = sum[S]
<1>1. PICK sum \in [SUBSET S -> Int] : Sums(sum, g, S)
  BY SumsExist
<1>2. PICK sum2 : Sums(sum2, g, S) /\ SumOver(g, S) = sum2[S]
  BY <1>1, SumOverIsChosen
<1>3. sum2[S] = sum[S]
  BY <1>1, <1>2, SumsAgree
<1>4. QED
  BY <1>1, <1>2, <1>3

\* Nothing adds up to zero,
LEMMA SumEmpty == ASSUME NEW g PROVE SumOver(g, {}) = 0
<1>1. IsFiniteSet({}) /\ (\A i \in {} : g[i] \in Int)
  BY FS_EmptySet
<1>2. PICK sum \in [SUBSET {} -> Int] : Sums(sum, g, {}) /\ SumOver(g, {}) = sum[{}]
  BY <1>1, SumSolves
<1>3. QED
  BY <1>2 DEF Sums

\* and integers to an integer.
LEMMA SumType ==
  ASSUME NEW S, IsFiniteSet(S), NEW g, \A i \in S : g[i] \in Int
  PROVE  SumOver(g, S) \in Int
<1>1. PICK sum \in [SUBSET S -> Int] : SumOver(g, S) = sum[S]
  BY SumSolves
<1>2. QED
  BY <1>1

\* The sum depends on what g is on S only.
LEMMA SumSame ==
  ASSUME NEW S, IsFiniteSet(S), NEW g, NEW h, \A i \in S : g[i] \in Int /\ g[i] = h[i]
  PROVE  SumOver(g, S) = SumOver(h, S)
<1>1. \A i \in S : h[i] \in Int
  OBVIOUS
<1>2. PICK k : Sums(k, g, S) /\ SumOver(g, S) = k[S]
  BY SumSolves
<1>3. PICK l : Sums(l, h, S) /\ SumOver(h, S) = l[S]
  BY <1>1, SumSolves
<1>4. QED
  BY <1>2, <1>3, SumsAgree

\* Any element can be taken out, not only the one the recursion chose: in a minimal
\* set where x cannot, x and the chosen element can be taken out in either order.
LEMMA SumTakeOut ==
  ASSUME NEW S, IsFiniteSet(S), NEW g, \A i \in S : g[i] \in Int, NEW x \in S
  PROVE  SumOver(g, S) = g[x] + SumOver(g, S \ {x})
<1>1. PICK sum \in [SUBSET S -> Int] : Sums(sum, g, S) /\ SumOver(g, S) = sum[S]
  BY SumSolves
<1> DEFINE Bad == {U \in SUBSET S : \E y \in U : sum[U] # g[y] + sum[U \ {y}]}
<1>2. Bad = {}
  <2> SUFFICES ASSUME Bad # {} PROVE FALSE
    OBVIOUS
  <2>1. PICK U \in Bad : \A V \in Bad : V \subseteq U => V = U
    <3>1. Bad \subseteq SUBSET S
      OBVIOUS
    <3> HIDE DEF Bad
    <3>2. QED
      BY <3>1, MinimalSubset
  <2>2. PICK y \in U : sum[U] # g[y] + sum[U \ {y}]
    BY <2>1
  <2> DEFINE c == CHOOSE c \in U : TRUE
  <2>3. c \in U
    BY <2>2
  <2>4. sum[U] = g[c] + sum[U \ {c}]
    BY <1>1, <2>1, <2>2 DEF Sums
  <2> HIDE DEF c
  <2>5. c # y
    BY <2>2, <2>4
  <2>6. U \ {c} \notin Bad /\ U \ {y} \notin Bad
    BY <2>1, <2>2, <2>3
  <2>7. /\ sum[U \ {c}] = g[y] + sum[(U \ {c}) \ {y}]
        /\ sum[U \ {y}] = g[c] + sum[(U \ {y}) \ {c}]
    BY <2>1, <2>2, <2>3, <2>5, <2>6
  <2>8. (U \ {c}) \ {y} = (U \ {y}) \ {c} /\ (U \ {c}) \ {y} \in SUBSET S
    BY <2>1
  <2>9. PICK r \in Int : r = sum[(U \ {c}) \ {y}]
    BY <1>1, <2>8
  <2>10. sum[U] = g[c] + (g[y] + r) /\ sum[U \ {y}] = g[c] + r
    BY <2>4, <2>7, <2>8, <2>9
  <2>11. g[c] \in Int /\ g[y] \in Int
    BY <2>1, <2>2, <2>3
  <2>12. QED
    BY <2>2, <2>10, <2>11
<1>3. sum[S] = g[x] + sum[S \ {x}]
  BY <1>2
<1>4. IsFiniteSet(S \ {x}) /\ (\A i \in S \ {x} : g[i] \in Int)
  BY FS_RemoveElement
<1>5. PICK rest : Sums(rest, g, S \ {x}) /\ SumOver(g, S \ {x}) = rest[S \ {x}]
  BY <1>4, SumSolves
<1>6. rest[S \ {x}] = sum[S \ {x}]
  BY <1>1, <1>4, <1>5, SumsAgree
<1>7. QED
  BY <1>1, <1>3, <1>5, <1>6

\* The form in which a step adds one element.
LEMMA SumAdd ==
  ASSUME NEW S, IsFiniteSet(S), NEW x, x \notin S, NEW g, \A i \in S \cup {x} : g[i] \in Int
  PROVE  SumOver(g, S \cup {x}) = SumOver(g, S) + g[x]
<1>1. IsFiniteSet(S \cup {x}) /\ (S \cup {x}) \ {x} = S
  BY FS_AddElement
<1>2. SumOver(g, S \cup {x}) = g[x] + SumOver(g, S)
  BY <1>1, SumTakeOut
<1>3. g[x] \in Int /\ SumOver(g, S) \in Int
  BY SumType
<1>4. QED
  BY <1>2, <1>3

\* The library's sum of a function is the sum over its domain.
LEMMA SumFunctionIsSum == ASSUME NEW f PROVE SumFunction(f) = SumOver(f, DOMAIN f)
BY DEF SumFunction, SumFunctionOnSet, FoldFunctionOnSet, MapThenFoldSet, SumOver, MapThenSumSet

\* A sum over a set is the sum over a part of it and over the rest.
LEMMA SumSplit ==
  ASSUME NEW S, IsFiniteSet(S), NEW g, \A i \in S : g[i] \in Int, NEW T \in SUBSET S
  PROVE  SumOver(g, S) = SumOver(g, T) + SumOver(g, S \ T)
<1> DEFINE Bad == {U \in SUBSET S : SumOver(g, S) # SumOver(g, U) + SumOver(g, S \ U)}
<1> SUFFICES ASSUME Bad # {} PROVE FALSE
  OBVIOUS
<1>1. PICK U \in Bad : \A V \in Bad : V \subseteq U => V = U
  <2>1. Bad \subseteq SUBSET S
    OBVIOUS
  <2> HIDE DEF Bad
  <2>2. QED
    BY <2>1, MinimalSubset
<1>2. U \in SUBSET S /\ SumOver(g, S) # SumOver(g, U) + SumOver(g, S \ U)
  BY <1>1
<1>3. SumOver(g, S) \in Int
  BY SumType
<1>4. U # {}
  <2>1. SumOver(g, {}) = 0 /\ S \ {} = S
    BY SumEmpty
  <2>2. ASSUME U = {} PROVE SumOver(g, U) = 0 /\ SumOver(g, S \ U) = SumOver(g, S)
    BY <2>1, <2>2
  <2>3. QED
    BY <1>2, <1>3, <2>2
<1>5. PICK x \in U : TRUE
  BY <1>4
<1> DEFINE V == U \ {x}
           W == S \ U
<1>6. V \in SUBSET S /\ V \notin Bad /\ x \in S
  BY <1>1, <1>2, <1>5
<1>7. SumOver(g, S) = SumOver(g, V) + SumOver(g, S \ V)
  BY <1>6
<1>8. S \ V = W \cup {x} /\ x \notin W /\ U = V \cup {x} /\ x \notin V
  BY <1>2, <1>5
<1>9. IsFiniteSet(V) /\ IsFiniteSet(W)
  BY <1>6, FS_Subset
<1>10. (\A i \in V \cup {x} : g[i] \in Int) /\ (\A i \in W \cup {x} : g[i] \in Int)
  BY <1>6, <1>5
<1> HIDE DEF V, W, Bad
<1>11. SumOver(g, V \cup {x}) = SumOver(g, V) + g[x]
  BY <1>8, <1>9, <1>10, SumAdd
<1>12. SumOver(g, W \cup {x}) = SumOver(g, W) + g[x]
  BY <1>8, <1>9, <1>10, SumAdd
<1>13. SumOver(g, V) \in Int /\ SumOver(g, W) \in Int /\ g[x] \in Int
  BY <1>9, <1>10, SumType
<1>14. SumOver(g, S) = SumOver(g, U) + SumOver(g, W)
  <2>1. SumOver(g, S \ V) = SumOver(g, W) + g[x]
    BY <1>8, <1>12
  <2>2. SumOver(g, U) = SumOver(g, V) + g[x]
    BY <1>8, <1>11
  <2>3. QED
    BY <1>7, <1>13, <2>1, <2>2
<1>15. QED
  BY <1>2, <1>14 DEF W

=============================================================================
