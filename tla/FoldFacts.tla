-------------------------------- MODULE FoldFacts --------------------------------
(***************************************************************************)
(* Facts about the folds and the sums that the components are built from.  *)
(* A fold is a function defined by recursion on the subsets of a finite    *)
(* set: that it exists, what it computes, and that the order does not      *)
(* matter when it adds, is shown by induction, which here is over a set of *)
(* numbers or of subsets, as a fact about an operator cannot be            *)
(* instantiated.                                                           *)
(***************************************************************************)
EXTENDS Integers, FiniteSets, Filtering, FiniteSetTheorems, SequenceTheorems,
        WellFoundedInduction, TLAPS

LEMMA LeastNumber ==
  ASSUME NEW T \in SUBSET Nat, T # {}
  PROVE  \E n \in T : \A m \in T : n <= m
<1> DEFINE R == {ss \in Nat \X Nat : ss[1] < ss[2]}
<1>1. IsWellFoundedOn(R, Nat)
  BY NatLessThanWellFounded DEF OpToRel
<1>2. PICK n \in T : \A m \in T : ~ (<<m, n>> \in R)
  BY <1>1, WFMin
<1>3. ASSUME NEW m \in T
      PROVE  n <= m
  <2>1. m \in Nat /\ n \in Nat
    OBVIOUS
  <2>2. m < n => <<m, n>> \in R
    BY <2>1
  <2>3. QED
    BY <1>2, <2>1, <2>2
<1>4. QED
  BY <1>3

(* Induction, with the set of the numbers that have the property. *)
LEMMA InductionOver ==
  ASSUME NEW T, 0 \in T, \A n \in Nat : n \in T => n + 1 \in T
  PROVE  Nat \subseteq T
<1> DEFINE C == Nat \ T
<1>1. SUFFICES ASSUME C # {}
               PROVE  FALSE
  OBVIOUS
<1>2. PICK n \in C : \A m \in C : n <= m
  BY <1>1, LeastNumber
<1>3. n # 0 /\ n - 1 \in Nat /\ (n - 1) + 1 = n
  OBVIOUS
<1>4. n - 1 \in C
  BY <1>2, <1>3
<1>5. QED
  BY <1>2, <1>3, <1>4

(* ... up to a bound. *)
LEMMA InductionUpTo ==
  ASSUME NEW k \in Nat, NEW T, 0 \in T,
         \A n \in 0..k - 1 : n \in T => n + 1 \in T
  PROVE  0..k \subseteq T
<1> DEFINE U == {n \in Nat : n <= k => n \in T}
<1>1. 0 \in U
  OBVIOUS
<1>2. ASSUME NEW n \in Nat, n \in U
      PROVE  n + 1 \in U
  <2>1. n + 1 <= k => n \in 0..k - 1 /\ n \in T
    BY <1>2
  <2>2. QED
    BY <2>1
<1> HIDE DEF U
<1>3. Nat \subseteq U
  BY <1>1, <1>2, InductionOver
<1>4. QED
  BY <1>3 DEF U

(* Every finite set of numbers that is not empty has a greatest one. *)
LEMMA MaxIsGreatest ==
  ASSUME NEW k \in Nat, NEW S \in SUBSET (1..k), S # {}
  PROVE  Max(S) \in S /\ \A x \in S : Max(S) >= x
<1> DEFINE T == {k - x : x \in S}
<1>1. \A x \in S : x \in Int /\ k - x \in Nat
  OBVIOUS
<1>2. T \in SUBSET Nat /\ T # {}
  BY <1>1
<1> HIDE DEF T
<1>3. PICK n \in T : \A m \in T : n <= m
  BY <1>2, LeastNumber
<1>4. PICK x \in S : n = k - x
  BY DEF T
<1>5. \A y \in S : x >= y
  <2>1. ASSUME NEW y \in S
        PROVE  x >= y
    <3>1. k - x <= k - y
      BY <1>3, <1>4 DEF T
    <3>2. x \in Int /\ y \in Int
      OBVIOUS
    <3>3. QED
      BY <3>1, <3>2
  <2>2. QED
    BY <2>1
<1>6. QED
  BY <1>5 DEF Max

(* The greatest index of a prefix is its last. *)
LEMMA MaxOfPrefix ==
  ASSUME NEW k \in Nat, NEW i \in 1..k
  PROVE  /\ 1..i \in SUBSET (1..k) /\ 1..i # {}
         /\ Max(1..i) = i /\ (1..i) \ {i} = 1..i - 1
<1>1. 1..i \in SUBSET (1..k) /\ i \in 1..i
  OBVIOUS
<1>2. Max(1..i) \in 1..i /\ Max(1..i) >= i
  BY <1>1, MaxIsGreatest
<1>3. QED
  BY <1>1, <1>2

--------------------------------------------------------------------------------
(* The recursive function of a fold: base for the empty set, and for any   *)
(* other one step g from the set without the member that c takes.          *)
StepsIn(g, S, V) == \A x \in S : \A v \in V : g[x][v] \in V
Takes(c, S) == \A s \in SUBSET S : s # {} => c[s] \in s
IsFold(f, S, V, base, g, c) ==
  /\ f \in [SUBSET S -> V]
  /\ \A s \in SUBSET S : f[s] = IF s = {} THEN base ELSE g[c[s]][f[s \ {c[s]}]]

LEMMA FoldExists ==
  ASSUME NEW S, IsFiniteSet(S), NEW V, NEW base, base \in V,
         NEW g, StepsIn(g, S, V), NEW c, Takes(c, S)
  PROVE  \E f : IsFold(f, S, V, base, g, c)
<1> USE DEF StepsIn, Takes
<1> DEFINE Good(f, n) ==
             \A s \in SUBSET S : Cardinality(s) <= n =>
               f[s] = IF s = {} THEN base ELSE g[c[s]][f[s \ {c[s]}]]
           T == {n \in Nat : \E f \in [SUBSET S -> V] : Good(f, n)}
<1>1. \A s \in SUBSET S : /\ IsFiniteSet(s) /\ Cardinality(s) \in Nat
                          /\ Cardinality(s) <= Cardinality(S)
                          /\ Cardinality(s) = 0 <=> s = {}
                          /\ s # {} => Cardinality(s \ {c[s]}) = Cardinality(s) - 1
  BY FS_Subset, FS_CardinalityType, FS_EmptySet, FS_RemoveElement
<1>2. 0 \in T
  <2> DEFINE f == [s \in SUBSET S |-> base]
  <2>1. f \in [SUBSET S -> V]
    OBVIOUS
  <2>2. ASSUME NEW s \in SUBSET S, Cardinality(s) <= 0
        PROVE  s = {} /\ f[s] = base
    <3>1. Cardinality(s) \in Nat /\ (Cardinality(s) = 0 <=> s = {})
      BY <1>1
    <3>2. QED
      BY <2>2, <3>1
  <2>3. Good(f, 0)
    BY <2>2
  <2>4. QED
    BY <2>1, <2>3
<1>3. ASSUME NEW n \in Nat, n \in T
      PROVE  n + 1 \in T
  <2>1. PICK f \in [SUBSET S -> V] : Good(f, n)
    BY <1>3
  <2> DEFINE h == [s \in SUBSET S |-> IF s = {} THEN base ELSE g[c[s]][f[s \ {c[s]}]]]
  <2>2. h \in [SUBSET S -> V]
    OBVIOUS
  <2>3. ASSUME NEW s \in SUBSET S, Cardinality(s) <= n
        PROVE  h[s] = f[s]
    BY <2>1, <2>3
  <2>4. ASSUME NEW s \in SUBSET S, Cardinality(s) <= n + 1, s # {}
        PROVE  h[s \ {c[s]}] = f[s \ {c[s]}]
    <3>1. /\ Cardinality(s) \in Nat
          /\ Cardinality(s \ {c[s]}) = Cardinality(s) - 1
      BY <1>1, <2>4
    <3>2. Cardinality(s \ {c[s]}) <= n
      BY <2>4, <3>1
    <3>3. QED
      BY <2>3, <3>2
  <2>5. Good(h, n + 1)
    BY <2>4
  <2> HIDE DEF h, Good
  <2>6. QED
    BY <2>2, <2>5
<1> HIDE DEF Good, T
<1>4. Nat \subseteq T
  BY <1>2, <1>3, InductionOver
<1>5. Cardinality(S) \in T
  BY <1>1, <1>4
<1>6. PICK f \in [SUBSET S -> V] : Good(f, Cardinality(S))
  BY <1>5 DEF T
<1>7. QED
  BY <1>1, <1>6 DEF Good, IsFold

(* The fold of a sequence takes the greatest index first. *)
GreatestOf(k) == [s \in SUBSET (1..k) |-> Max(s)]
IsFoldLeft(f, k, V, base, g) == IsFold(f, 1..k, V, base, g, GreatestOf(k))

LEMMA FoldLeftExists ==
  ASSUME NEW k \in Nat, NEW V, NEW base, base \in V, NEW g, StepsIn(g, 1..k, V)
  PROVE  \E f : IsFoldLeft(f, k, V, base, g)
<1>1. Takes(GreatestOf(k), 1..k)
  BY MaxIsGreatest DEF Takes, GreatestOf
<1>2. IsFiniteSet(1..k)
  BY FS_Interval
<1>3. QED
  BY <1>1, <1>2, FoldExists DEF IsFoldLeft

(* ... step by step. *)
FoldsLeft(f, k, V, base, g) ==
  /\ f \in [SUBSET (1..k) -> V]
  /\ \A s \in SUBSET (1..k) :
       /\ s = {} => f[s] = base
       /\ s # {} => /\ Max(s) \in 1..k /\ f[s \ {Max(s)}] \in V
                    /\ f[s] = g[Max(s)][f[s \ {Max(s)}]]

LEMMA FoldLeftSteps ==
  ASSUME NEW k \in Nat, NEW V, NEW base, base \in V, NEW g, StepsIn(g, 1..k, V)
  PROVE  \E f : FoldsLeft(f, k, V, base, g)
<1>1. PICK f : IsFoldLeft(f, k, V, base, g)
  BY FoldLeftExists
<1>2. f \in [SUBSET (1..k) -> V]
  BY <1>1 DEF IsFoldLeft, IsFold
<1>3. ASSUME NEW s \in SUBSET (1..k)
      PROVE  /\ s = {} => f[s] = base
             /\ s # {} => /\ Max(s) \in 1..k /\ f[s \ {Max(s)}] \in V
                          /\ f[s] = g[Max(s)][f[s \ {Max(s)}]]
  <2>1. s = {} => f[s] = base
    BY <1>1 DEF IsFoldLeft, IsFold
  <2>2. ASSUME s # {}
        PROVE  Max(s) \in 1..k /\ GreatestOf(k)[s] = Max(s)
    BY <2>2, MaxIsGreatest DEF GreatestOf
  <2>3. s \ {Max(s)} \in SUBSET (1..k)
    OBVIOUS
  <2>4. QED
    BY <1>1, <1>2, <2>1, <2>2, <2>3 DEF IsFoldLeft, IsFold
<1>4. QED
  BY <1>2, <1>3 DEF FoldsLeft

--------------------------------------------------------------------------------
(* filter *)

(* The prefixes of the sequence, filtered one element after the other. *)
LEMMA FilterSteps ==
  ASSUME NEW E, NEW S, NEW q \in Seq(E)
  PROVE  \E h : /\ h[0] = <<>>
                /\ \A i \in 1..Len(q) :
                     h[i] = IF q[i] \in S THEN Append(h[i - 1], q[i]) ELSE h[i - 1]
                /\ h[Len(q)] = Filter(q, S)
<1> DEFINE k == Len(q)
           V == Seq(E)
           g == [i \in 1..k |-> [kept \in V |-> IF q[i] \in S THEN Append(kept, q[i]) ELSE kept]]
           Rec(iter) == [s \in SUBSET (1..k) |->
                   IF s = {} THEN <<>>
                   ELSE IF q[Max(s)] \in S THEN Append(iter[s \ {Max(s)}], q[Max(s)])
                        ELSE iter[s \ {Max(s)}]]
           f == CHOOSE iter : iter = Rec(iter)
<1>1. f[1..k] = Filter(q, S) /\ k \in Nat
  BY DOMAIN q = 1..k DEF Filter, FoldLeft, MapThenFoldSet
<1>2. StepsIn(g, 1..k, V) /\ <<>> \in V
  BY DEF StepsIn
<1>3. PICK F : FoldsLeft(F, k, V, <<>>, g)
  BY <1>1, <1>2, FoldLeftSteps
<1>4. F = Rec(F)
  <2>1. \A s \in SUBSET (1..k) : F[s] = Rec(F)[s]
    BY <1>3 DEF FoldsLeft
  <2>2. F = [s \in SUBSET (1..k) |-> F[s]]
    BY <1>3 DEF FoldsLeft
  <2> HIDE DEF k
  <2>3. QED
    BY <2>1, <2>2
<1>5. f = Rec(f)
  BY <1>4
<1> HIDE DEF f
<1>6. f[1..0] = <<>>
  BY <1>1, <1>5, 1..0 = {}, {} \in SUBSET (1..k)
<1>7. ASSUME NEW i \in 1..k
      PROVE  f[1..i] = IF q[i] \in S THEN Append(f[1..i - 1], q[i]) ELSE f[1..i - 1]
  <2>1. 1..i \in SUBSET (1..k) /\ 1..i # {}
        /\ Max(1..i) = i /\ (1..i) \ {i} = 1..i - 1
    BY <1>1, MaxOfPrefix
  <2>2. QED
    BY <1>5, <2>1
<1> DEFINE h == [i \in 0..k |-> f[1..i]]
<1>8. h[0] = <<>> /\ h[k] = Filter(q, S)
  BY <1>1, <1>6
<1>9. ASSUME NEW i \in 1..k
      PROVE  h[i] = f[1..i] /\ h[i - 1] = f[1..i - 1]
  BY <1>1
<1>10. QED
  BY <1>7, <1>8, <1>9

(* r holds of the first n elements of q those that are in S, in order. *)
Picked(r, E, q, S, n) ==
  /\ r \in Seq(E)
  /\ \A j \in 1..n : q[j] \in S => \E i \in 1..Len(r) : r[i] = q[j]
  /\ \E at \in [1..Len(r) -> 1..n] :
       /\ \A i \in 1..Len(r) : r[i] = q[at[i]] /\ q[at[i]] \in S
       /\ \A i, j \in 1..Len(r) : i < j => at[i] < at[j]

LEMMA PickedNext ==
  ASSUME NEW E, NEW S, NEW q \in Seq(E), NEW n \in 0..Len(q) - 1, NEW r, Picked(r, E, q, S, n)
  PROVE  Picked(IF q[n + 1] \in S THEN Append(r, q[n + 1]) ELSE r, E, q, S, n + 1)
<1>1. /\ r \in Seq(E) /\ Len(r) \in Nat /\ n \in Nat /\ n + 1 \in 1..Len(q) /\ q[n + 1] \in E
      /\ 1..n + 1 = 1..n \cup {n + 1}
  BY LenProperties DEF Picked
<1>2. PICK at \in [1..Len(r) -> 1..n] :
        /\ \A i \in 1..Len(r) : r[i] = q[at[i]] /\ q[at[i]] \in S
        /\ \A i, j \in 1..Len(r) : i < j => at[i] < at[j]
  BY DEF Picked
<1>3. CASE q[n + 1] \notin S
  <2>1. at \in [1..Len(r) -> 1..n + 1]
    BY <1>1
  <2>2. \A j \in 1..n + 1 : q[j] \in S => \E i \in 1..Len(r) : r[i] = q[j]
    BY <1>1, <1>3 DEF Picked
  <2>3. QED
    BY <1>1, <1>2, <1>3, <2>1, <2>2 DEF Picked
<1>4. CASE q[n + 1] \in S
  <2> DEFINE s == Append(r, q[n + 1])
             bt == [i \in 1..Len(r) + 1 |-> IF i = Len(r) + 1 THEN n + 1 ELSE at[i]]
  <2>1. /\ s \in Seq(E) /\ Len(s) = Len(r) + 1 /\ s[Len(r) + 1] = q[n + 1]
        /\ \A i \in 1..Len(r) : s[i] = r[i]
        /\ \A i \in 1..Len(s) : i \in 1..Len(r) \/ i = Len(r) + 1
    BY <1>1, AppendProperties
  <2>2. /\ bt[Len(r) + 1] = n + 1
        /\ \A i \in 1..Len(r) : bt[i] = at[i] /\ at[i] \in 1..n /\ i # Len(r) + 1
    BY <1>1
  <2>3. bt \in [1..Len(s) -> 1..n + 1]
    BY <1>1, <2>1, <2>2
  <2> HIDE DEF s, bt
  <2>4. \A i \in 1..Len(s) : s[i] = q[bt[i]] /\ q[bt[i]] \in S
    BY <1>2, <1>4, <2>1, <2>2
  <2>5. ASSUME NEW i \in 1..Len(s), NEW j \in 1..Len(s), i < j
        PROVE  bt[i] < bt[j]
    <3>1. i \in 1..Len(r)
      BY <1>1, <2>1, <2>5
    <3>2. CASE j = Len(r) + 1
      BY <1>1, <2>2, <3>1, <3>2
    <3>3. CASE j # Len(r) + 1
      BY <1>2, <2>1, <2>2, <2>5, <3>1, <3>3
    <3>4. QED
      BY <3>2, <3>3
  <2>6. ASSUME NEW j \in 1..n + 1, q[j] \in S
        PROVE  \E i \in 1..Len(s) : s[i] = q[j]
    <3>1. CASE j = n + 1
      BY <1>1, <2>1, <3>1
    <3>2. CASE j # n + 1
      <4>1. PICK i \in 1..Len(r) : r[i] = q[j]
        BY <1>1, <2>6, <3>2 DEF Picked
      <4>2. i \in 1..Len(s) /\ s[i] = q[j]
        BY <1>1, <2>1, <4>1
      <4>3. QED
        BY <4>2
    <3>3. QED
      BY <3>1, <3>2
  <2>7. Picked(s, E, q, S, n + 1)
    BY <2>1, <2>3, <2>4, <2>5, <2>6 DEF Picked
  <2>8. QED
    BY <1>4, <2>7 DEF s
<1>5. QED
  BY <1>3, <1>4

LEMMA FilterPicks ==
  ASSUME NEW E, NEW S, NEW q \in Seq(E)
  PROVE  Picked(Filter(q, S), E, q, S, Len(q))
<1>1. PICK h : /\ h[0] = <<>>
               /\ \A i \in 1..Len(q) :
                    h[i] = IF q[i] \in S THEN Append(h[i - 1], q[i]) ELSE h[i - 1]
               /\ h[Len(q)] = Filter(q, S)
  BY FilterSteps
<1> DEFINE T == {n \in 0..Len(q) : Picked(h[n], E, q, S, n)}
<1>2. Len(q) \in Nat
  BY LenProperties
<1>3. Picked(<<>>, E, q, S, 0)
  <2>1. <<>> \in Seq(E) /\ 1..Len(<<>>) = {} /\ 1..0 = {}
    OBVIOUS
  <2>2. [i \in {} |-> i] \in [1..Len(<<>>) -> 1..0]
    BY <2>1
  <2>3. QED
    BY <2>1, <2>2 DEF Picked
<1>4. 0 \in T
  BY <1>1, <1>2, <1>3
<1>5. ASSUME NEW n \in 0..Len(q) - 1, n \in T
      PROVE  n + 1 \in T
  <2>1. n + 1 \in 1..Len(q) /\ (n + 1) - 1 = n
    BY <1>2
  <2>2. h[n + 1] = IF q[n + 1] \in S THEN Append(h[n], q[n + 1]) ELSE h[n]
    BY <1>1, <2>1
  <2>3. Picked(h[n + 1], E, q, S, n + 1)
    BY <1>5, <2>2, PickedNext
  <2>4. QED
    BY <1>2, <2>1, <2>3
<1> HIDE DEF T
<1>6. Len(q) \in T
  <2>1. 0..Len(q) \subseteq T
    BY <1>2, <1>4, <1>5, InductionUpTo
  <2>2. QED
    BY <1>2, <2>1
<1>7. QED
  BY <1>1, <1>6 DEF T

--------------------------------------------------------------------------------
(* Sums over finite sets *)

(* Induction on a finite set, with the set of those of its subsets that    *)
(* have the property.                                                      *)
LEMMA SubsetInduction ==
  ASSUME NEW S, IsFiniteSet(S), NEW P,
         \A s \in SUBSET S : (\A x \in s : s \ {x} \in P) => s \in P
  PROVE  SUBSET S \subseteq P
<1> DEFINE T == {n \in Nat : \A s \in SUBSET S : Cardinality(s) = n => s \in P}
<1>1. \A s \in SUBSET S : /\ IsFiniteSet(s) /\ Cardinality(s) \in Nat
                          /\ Cardinality(s) = 0 <=> s = {}
                          /\ \A x \in s : Cardinality(s \ {x}) = Cardinality(s) - 1
  BY FS_Subset, FS_CardinalityType, FS_EmptySet, FS_RemoveElement
<1>2. 0 \in T
  BY <1>1
<1>3. ASSUME NEW n \in Nat, n \in T
      PROVE  n + 1 \in T
  <2>1. ASSUME NEW s \in SUBSET S, Cardinality(s) = n + 1
        PROVE  s \in P
    <3>1. \A x \in s : Cardinality(s \ {x}) = n /\ s \ {x} \in SUBSET S
      BY <1>1, <2>1
    <3>2. \A x \in s : s \ {x} \in P
      BY <1>3, <3>1
    <3>3. QED
      BY <3>2
  <2>2. QED
    BY <2>1
<1> HIDE DEF T
<1>4. Nat \subseteq T
  BY <1>2, <1>3, InductionOver
<1>5. QED
  BY <1>1, <1>4 DEF T

(* Two folds agree on the subsets that both are defined for. *)
LEMMA FoldUnique ==
  ASSUME NEW S, NEW T \in SUBSET S, IsFiniteSet(S), NEW V, NEW base, NEW g,
         NEW c, Takes(c, S), NEW d, \A s \in SUBSET T : d[s] = c[s],
         NEW f, IsFold(f, S, V, base, g, c), NEW h, IsFold(h, T, V, base, g, d)
  PROVE  \A s \in SUBSET T : h[s] = f[s]
<1> DEFINE P == {s \in SUBSET T : h[s] = f[s]}
<1>1. ASSUME NEW s \in SUBSET T, \A x \in s : s \ {x} \in P
      PROVE  s \in P
  <2>1. CASE s = {}
    BY <2>1 DEF IsFold
  <2>2. CASE s # {}
    <3>1. c[s] \in s /\ d[s] = c[s] /\ s \in SUBSET S
      BY <2>2 DEF Takes
    <3>2. h[s \ {c[s]}] = f[s \ {c[s]}]
      BY <1>1, <3>1
    <3>3. h[s] = g[d[s]][h[s \ {d[s]}]] /\ f[s] = g[c[s]][f[s \ {c[s]}]]
      BY <2>2, <3>1 DEF IsFold
    <3>4. QED
      BY <3>1, <3>2, <3>3
  <2>3. QED
    BY <2>1, <2>2
<1>2. IsFiniteSet(T)
  BY FS_Subset
<1> HIDE DEF P
<1>3. SUBSET T \subseteq P
  BY <1>1, <1>2, SubsetInduction
<1>4. QED
  BY <1>3 DEF P

(* The sum of what a function gives for the members of a set *)
SumOver(F, S) == MapThenSumSet(LAMBDA x : F[x], S)
Adding(F, S) == [x \in S |-> [v \in Int |-> F[x] + v]]
ArbitraryOf(S) == [s \in SUBSET S |-> CHOOSE x \in s : TRUE]

LEMMA SumIsFold ==
  ASSUME NEW S, IsFiniteSet(S), NEW F, \A x \in S : F[x] \in Int
  PROVE  \E f : IsFold(f, S, Int, 0, Adding(F, S), ArbitraryOf(S)) /\ SumOver(F, S) = f[S]
<1> DEFINE Rec(iter) == [s \in SUBSET S |->
                   IF s = {} THEN 0
                   ELSE F[CHOOSE x \in s : TRUE] + iter[s \ {CHOOSE x \in s : TRUE}]]
           f == CHOOSE iter : iter = Rec(iter)
<1>1. SumOver(F, S) = f[S]
  BY DEF SumOver, MapThenSumSet, MapThenFoldSet
<1>2. StepsIn(Adding(F, S), S, Int) /\ Takes(ArbitraryOf(S), S)
  BY DEF StepsIn, Adding, Takes, ArbitraryOf
<1>3. PICK h : IsFold(h, S, Int, 0, Adding(F, S), ArbitraryOf(S))
  BY <1>2, FoldExists
<1>4. ASSUME NEW r, IsFold(r, S, Int, 0, Adding(F, S), ArbitraryOf(S))
      PROVE  r = Rec(r)
  <2>1. ASSUME NEW s \in SUBSET S
        PROVE  r[s] = Rec(r)[s]
    <3>1. s # {} => /\ ArbitraryOf(S)[s] = (CHOOSE x \in s : TRUE) /\ ArbitraryOf(S)[s] \in s
                    /\ r[s \ {ArbitraryOf(S)[s]}] \in Int
      BY <1>4 DEF ArbitraryOf, IsFold
    <3>2. QED
      BY <1>4, <3>1 DEF IsFold, Adding
  <2>2. r = [s \in SUBSET S |-> r[s]]
    BY <1>4 DEF IsFold
  <2>3. QED
    BY <2>1, <2>2
<1>5. h = Rec(h)
  BY <1>3, <1>4
<1>6. f = Rec(f)
  BY <1>5
<1> HIDE DEF f
<1>7. f = h
  <2> DEFINE P == {s \in SUBSET S : f[s] = h[s]}
  <2>1. ASSUME NEW s \in SUBSET S, \A x \in s : s \ {x} \in P
        PROVE  s \in P
    <3>1. f[s] = Rec(f)[s] /\ h[s] = Rec(h)[s]
      BY <1>5, <1>6
    <3>2. s # {} => (CHOOSE x \in s : TRUE) \in s
      OBVIOUS
    <3>3. QED
      BY <2>1, <3>1, <3>2
  <2> HIDE DEF P
  <2>2. SUBSET S \subseteq P
    BY <2>1, SubsetInduction
  <2>3. f = [s \in SUBSET S |-> f[s]] /\ h = [s \in SUBSET S |-> h[s]]
    BY <1>5, <1>6
  <2>4. QED
    BY <2>2, <2>3 DEF P
<1>8. QED
  BY <1>1, <1>3, <1>7
LEMMA SumStep ==
  ASSUME NEW S, IsFiniteSet(S), NEW F, \A x \in S : F[x] \in Int
  PROVE  /\ SumOver(F, S) \in Int
         /\ S = {} => SumOver(F, S) = 0
         /\ S # {} => \E x \in S : SumOver(F, S) = F[x] + SumOver(F, S \ {x})
<1>1. PICK f : IsFold(f, S, Int, 0, Adding(F, S), ArbitraryOf(S)) /\ SumOver(F, S) = f[S]
  BY SumIsFold
<1>2. SumOver(F, S) \in Int /\ (S = {} => SumOver(F, S) = 0)
  BY <1>1 DEF IsFold
<1>3. CASE S # {}
  <2> DEFINE x == ArbitraryOf(S)[S]
             T == S \ {x}
  <2>1. x \in S /\ T \in SUBSET S /\ IsFiniteSet(T)
    BY <1>3, FS_Subset DEF ArbitraryOf
  <2>2. f[S] = F[x] + f[T]
    BY <1>1, <1>3, <2>1 DEF IsFold, Adding
  <2>3. PICK h : IsFold(h, T, Int, 0, Adding(F, T), ArbitraryOf(T)) /\ SumOver(F, T) = h[T]
    BY <2>1, SumIsFold
  <2>4. IsFold(h, T, Int, 0, Adding(F, S), ArbitraryOf(T))
    <3>1. ASSUME NEW s \in SUBSET T, s # {}
          PROVE  h[s] = Adding(F, S)[ArbitraryOf(T)[s]][h[s \ {ArbitraryOf(T)[s]}]]
      <4>1. ArbitraryOf(T)[s] \in s /\ h[s \ {ArbitraryOf(T)[s]}] \in Int
        BY <2>3, <3>1 DEF ArbitraryOf, IsFold
      <4>2. h[s] = Adding(F, T)[ArbitraryOf(T)[s]][h[s \ {ArbitraryOf(T)[s]}]]
        BY <2>3, <3>1 DEF IsFold
      <4>3. Adding(F, T)[ArbitraryOf(T)[s]] = Adding(F, S)[ArbitraryOf(T)[s]]
        BY <2>1, <4>1 DEF Adding
      <4>4. QED
        BY <4>2, <4>3
    <3>2. QED
      BY <2>3, <3>1 DEF IsFold
  <2>5. \A s \in SUBSET T : ArbitraryOf(T)[s] = ArbitraryOf(S)[s]
    BY <2>1 DEF ArbitraryOf
  <2>6. Takes(ArbitraryOf(S), S)
    BY DEF Takes, ArbitraryOf
  <2> HIDE DEF x, T
  <2>7. h[T] = f[T]
    BY <1>1, <2>1, <2>4, <2>5, <2>6, FoldUnique
  <2>8. QED
    BY <1>1, <1>2, <1>3, <2>1, <2>2, <2>3, <2>7 DEF T
<1>4. QED
  BY <1>2, <1>3

(* Whichever member is left out. *)
LEMMA SumWithout ==
  ASSUME NEW S, IsFiniteSet(S), NEW F, \A x \in S : F[x] \in Int, NEW y \in S
  PROVE  SumOver(F, S) = F[y] + SumOver(F, S \ {y})
<1> DEFINE P == {s \in SUBSET S : \A x \in s : SumOver(F, s) = F[x] + SumOver(F, s \ {x})}
<1>1. \A s \in SUBSET S : /\ IsFiniteSet(s) /\ SumOver(F, s) \in Int
                          /\ s # {} => \E x \in s : SumOver(F, s) = F[x] + SumOver(F, s \ {x})
  BY FS_Subset, SumStep
<1>2. ASSUME NEW s \in SUBSET S, \A x \in s : s \ {x} \in P
      PROVE  s \in P
  <2>1. ASSUME NEW x \in s
        PROVE  SumOver(F, s) = F[x] + SumOver(F, s \ {x})
    <3>1. PICK c \in s : SumOver(F, s) = F[c] + SumOver(F, s \ {c})
      BY <1>1
    <3>2. CASE c # x
      <4>1. x \in s \ {c} /\ c \in s \ {x} /\ (s \ {c}) \ {x} = (s \ {x}) \ {c}
        BY <3>2
      <4>2. SumOver(F, s \ {c}) = F[x] + SumOver(F, (s \ {c}) \ {x})
        BY <1>2, <4>1
      <4>3. SumOver(F, s \ {x}) = F[c] + SumOver(F, (s \ {x}) \ {c})
        BY <1>2, <4>1
      <4>4. SumOver(F, (s \ {c}) \ {x}) = SumOver(F, (s \ {x}) \ {c})
        BY <4>1
      <4>5. SumOver(F, (s \ {c}) \ {x}) \in Int /\ F[x] \in Int /\ F[c] \in Int
        BY <1>1
      <4> HIDE DEF P
      <4>6. QED
        BY <3>1, <4>2, <4>3, <4>4, <4>5
    <3>3. QED
      BY <3>1, <3>2
  <2>2. QED
    BY <2>1
<1> HIDE DEF P
<1>3. SUBSET S \subseteq P
  BY <1>2, SubsetInduction
<1>4. QED
  BY <1>3 DEF P

LEMMA SumOfDisjoint ==
  ASSUME NEW S, IsFiniteSet(S), NEW F, \A x \in S : F[x] \in Int,
         NEW A \in SUBSET S, NEW B \in SUBSET S, A \cap B = {}
  PROVE  SumOver(F, A \cup B) = SumOver(F, A) + SumOver(F, B)
<1> DEFINE P == {s \in SUBSET B : SumOver(F, A \cup s) = SumOver(F, A) + SumOver(F, s)}
<1>1. \A s \in SUBSET S : IsFiniteSet(s) /\ SumOver(F, s) \in Int
  BY FS_Subset, SumStep
<1>2. ASSUME NEW s \in SUBSET B, \A x \in s : s \ {x} \in P
      PROVE  s \in P
  <2>1. CASE s = {}
    <3>1. SumOver(F, s) = 0 /\ SumOver(F, A) \in Int
      BY <1>1, <2>1, SumStep
    <3>2. A \cup s = A
      BY <2>1
    <3>3. SumOver(F, A \cup s) = SumOver(F, A)
      BY <3>2
    <3>4. QED
      BY <3>1, <3>3
  <2>2. CASE s # {}
    <3>1. PICK x \in s : TRUE
      BY <2>2
    <3>2. /\ x \in A \cup s /\ A \cup s \in SUBSET S /\ s \in SUBSET S
          /\ (A \cup s) \ {x} = A \cup (s \ {x}) /\ F[x] \in Int
      BY <3>1
    <3>3. SumOver(F, A \cup s) = F[x] + SumOver(F, (A \cup s) \ {x})
      BY <1>1, <3>2, SumWithout
    <3>4. SumOver(F, s) = F[x] + SumOver(F, s \ {x})
      BY <1>1, <3>2, SumWithout
    <3>5. SumOver(F, A \cup (s \ {x})) = SumOver(F, A) + SumOver(F, s \ {x})
      BY <1>2
    <3>6. SumOver(F, (A \cup s) \ {x}) = SumOver(F, A \cup (s \ {x}))
      BY <3>2
    <3>7. SumOver(F, A) \in Int /\ SumOver(F, s \ {x}) \in Int
      BY <1>1, <3>2
    <3>8. SumOver(F, A \cup s) = SumOver(F, A) + SumOver(F, s)
      BY <3>2, <3>3, <3>4, <3>5, <3>6, <3>7
    <3>9. QED
      BY <3>8
  <2>3. QED
    BY <2>1, <2>2
<1>3. IsFiniteSet(B)
  BY FS_Subset
<1> HIDE DEF P
<1>4. SUBSET B \subseteq P
  BY <1>2, <1>3, SubsetInduction
<1>5. QED
  BY <1>4 DEF P

LEMMA SumNotNegative ==
  ASSUME NEW S, IsFiniteSet(S), NEW F, \A x \in S : F[x] \in Nat
  PROVE  SumOver(F, S) \in Nat
<1> DEFINE P == {s \in SUBSET S : SumOver(F, s) \in Nat}
<1>1. \A s \in SUBSET S : IsFiniteSet(s)
  BY FS_Subset
<1>2. ASSUME NEW s \in SUBSET S, \A x \in s : s \ {x} \in P
      PROVE  s \in P
  <2>1. /\ s = {} => SumOver(F, s) = 0
        /\ s # {} => \E x \in s : SumOver(F, s) = F[x] + SumOver(F, s \ {x})
    <3>1. IsFiniteSet(s) /\ \A x \in s : F[x] \in Int
      BY <1>1
    <3>2. QED
      BY <3>1, SumStep
  <2>2. CASE s = {}
    BY <2>1, <2>2
  <2>3. CASE s # {}
    <3>1. PICK x \in s : SumOver(F, s) = F[x] + SumOver(F, s \ {x})
      BY <2>1, <2>3
    <3>2. SumOver(F, s \ {x}) \in Nat /\ F[x] \in Nat
      BY <1>2
    <3>3. QED
      BY <3>1, <3>2
  <2>4. QED
    BY <2>2, <2>3
<1> HIDE DEF P
<1>3. SUBSET S \subseteq P
  BY <1>2, SubsetInduction
<1>4. QED
  BY <1>3 DEF P

(* A larger set has a larger sum. *)
LEMMA SumGrows ==
  ASSUME NEW S, IsFiniteSet(S), NEW F, \A x \in S : F[x] \in Nat, NEW A \in SUBSET S
  PROVE  SumOver(F, A) <= SumOver(F, S)
<1>1. IsFiniteSet(A) /\ IsFiniteSet(S \ A) /\ A \cup (S \ A) = S
  BY FS_Subset
<1>2. SumOver(F, A) \in Nat /\ SumOver(F, S \ A) \in Nat
  BY <1>1, SumNotNegative
<1>3. SumOver(F, A \cup (S \ A)) = SumOver(F, A) + SumOver(F, S \ A)
  BY SumOfDisjoint
<1>4. SumOver(F, A \cup (S \ A)) = SumOver(F, S)
  BY <1>1
<1>5. QED
  BY <1>2, <1>3, <1>4

(* A sum of sums: the members of S are summed class by class. *)
Class(S, g, d) == {x \in S : g[x] = d}
Classes(S, g, D) == {x \in S : g[x] \in D}

LEMMA SumOfClasses ==
  ASSUME NEW S, IsFiniteSet(S), NEW F, \A x \in S : F[x] \in Int,
         NEW D, IsFiniteSet(D), NEW g,
         NEW G, \A d \in D : G[d] = SumOver(F, Class(S, g, d))
  PROVE  SumOver(G, D) = SumOver(F, Classes(S, g, D))
<1> USE DEF Class, Classes
<1> DEFINE In(s) == {x \in S : g[x] \in s}
           P == {s \in SUBSET D : SumOver(G, s) = SumOver(F, In(s))}
<1>1. \A d \in D : G[d] \in Int
  <2>1. ASSUME NEW d \in D
        PROVE  G[d] \in Int
    <3>1. {x \in S : g[x] = d} \in SUBSET S
      OBVIOUS
    <3>2. IsFiniteSet({x \in S : g[x] = d})
      BY <3>1, FS_Subset
    <3>3. QED
      BY <3>2, SumStep
  <2>2. QED
    BY <2>1
<1>2. \A s \in SUBSET D : IsFiniteSet(s) /\ In(s) \in SUBSET S
  BY FS_Subset
<1>3. ASSUME NEW s \in SUBSET D, \A x \in s : s \ {x} \in P
      PROVE  s \in P
  <2>1. CASE s = {}
    <3>1. SumOver(G, s) = 0
      BY <1>2, <2>1, SumStep
    <3>2. In(s) = {}
      BY <2>1
    <3>3. SumOver(F, In(s)) = 0
      BY <3>2, FS_EmptySet, SumStep
    <3>4. QED
      BY <3>1, <3>3
  <2>2. CASE s # {}
    <3>1. PICK d \in s : SumOver(G, s) = G[d] + SumOver(G, s \ {d})
      <4>1. IsFiniteSet(s) /\ \A d \in s : G[d] \in Int
        BY <1>1, <1>2
      <4>2. QED
        BY <2>2, <4>1, SumStep
    <3>2. SumOver(G, s \ {d}) = SumOver(F, In(s \ {d}))
      BY <1>3
    <3>3. G[d] = SumOver(F, {x \in S : g[x] = d})
      OBVIOUS
    <3>4. SumOver(F, {x \in S : g[x] = d} \cup In(s \ {d})) =
            SumOver(F, {x \in S : g[x] = d}) + SumOver(F, In(s \ {d}))
      BY SumOfDisjoint
    <3>5. {x \in S : g[x] = d} \cup In(s \ {d}) = In(s)
      OBVIOUS
    <3>6. SumOver(F, {x \in S : g[x] = d} \cup In(s \ {d})) = SumOver(F, In(s))
      BY <3>5
    <3> HIDE DEF In
    <3>7. SumOver(G, s) = SumOver(F, In(s))
      BY <3>1, <3>2, <3>3, <3>4, <3>6
    <3>8. QED
      BY <3>7
  <2>3. QED
    BY <2>1, <2>2
<1> HIDE DEF P
<1>4. SUBSET D \subseteq P
  BY <1>3, SubsetInduction
<1>5. QED
  BY <1>4 DEF P

(* Counting is adding 1 for each. *)
LEMMA SumOfOnes ==
  ASSUME NEW S, IsFiniteSet(S), NEW F, \A x \in S : F[x] = 1
  PROVE  SumOver(F, S) = Cardinality(S)
<1> DEFINE P == {s \in SUBSET S : SumOver(F, s) = Cardinality(s)}
<1>1. \A s \in SUBSET S : IsFiniteSet(s) /\ Cardinality(s) \in Nat
  BY FS_Subset, FS_CardinalityType
<1>2. ASSUME NEW s \in SUBSET S, \A x \in s : s \ {x} \in P
      PROVE  s \in P
  <2>1. IsFiniteSet(s) /\ \A x \in s : F[x] \in Int
    BY <1>1
  <2>2. CASE s = {}
    BY <2>1, <2>2, SumStep, FS_EmptySet
  <2>3. CASE s # {}
    <3>1. PICK x \in s : SumOver(F, s) = F[x] + SumOver(F, s \ {x})
      BY <2>1, <2>3, SumStep
    <3>2. SumOver(F, s \ {x}) = Cardinality(s \ {x}) /\ F[x] = 1
      BY <1>2
    <3>3. Cardinality(s \ {x}) = Cardinality(s) - 1 /\ Cardinality(s) \in Nat
      BY <1>1, <2>1, FS_RemoveElement
    <3>4. QED
      BY <3>1, <3>2, <3>3
  <2>4. QED
    BY <2>2, <2>3
<1> HIDE DEF P
<1>3. SUBSET S \subseteq P
  BY <1>2, SubsetInduction
<1>4. QED
  BY <1>3 DEF P

LEMMA FiniteImage ==
  ASSUME NEW S, IsFiniteSet(S), NEW f
  PROVE  IsFiniteSet({f[x] : x \in S})
<1> DEFINE T == {f[x] : x \in S}
           h == [x \in S |-> f[x]]
<1>1. h \in Surjection(S, T)
  BY DEF Surjection
<1>2. QED
  BY <1>1, FS_Surjection

(* The greatest of any finite set of integers *)
LEMMA MaxOfFinite ==
  ASSUME NEW S, IsFiniteSet(S), S # {}, \A x \in S : x \in Int
  PROVE  Max(S) \in S /\ \A x \in S : Max(S) >= x
<1> DEFINE P == {s \in SUBSET S : s # {} => \E m \in s : \A x \in s : m >= x}
<1>1. ASSUME NEW s \in SUBSET S, \A x \in s : s \ {x} \in P
      PROVE  s \in P
  <2>1. ASSUME s # {}
        PROVE  \E m \in s : \A x \in s : m >= x
    <3>1. PICK y \in s : TRUE
      BY <2>1
    <3>2. CASE s \ {y} = {}
      BY <3>2
    <3>3. CASE s \ {y} # {}
      <4>1. PICK m \in s \ {y} : \A x \in s \ {y} : m >= x
        BY <1>1, <3>3
      <4>2. m \in Int /\ y \in Int /\ \A x \in s : x \in Int
        OBVIOUS
      <4>3. CASE m >= y
        BY <4>1, <4>3
      <4>4. CASE ~ (m >= y)
        <5>1. \A x \in s : y >= x
          BY <4>1, <4>2, <4>4
        <5>2. QED
          BY <5>1
      <4>5. QED
        BY <4>3, <4>4
    <3>4. QED
      BY <3>2, <3>3
  <2>2. QED
    BY <2>1
<1> HIDE DEF P
<1>2. SUBSET S \subseteq P
  BY <1>1, SubsetInduction
<1>3. \E m \in S : \A x \in S : m >= x
  BY <1>2 DEF P
<1>4. QED
  BY <1>3 DEF Max

(* ... and the least *)
LEMMA MinOfFinite ==
  ASSUME NEW S, IsFiniteSet(S), S # {}, \A x \in S : x \in Int
  PROVE  Min(S) \in S /\ \A x \in S : Min(S) <= x
<1> DEFINE f == [x \in S |-> 0 - x]
           T == {f[x] : x \in S}
<1>1. IsFiniteSet(T)
  <2> HIDE DEF f
  <2>1. QED
    BY FiniteImage
<1>2. \A x \in S : f[x] = 0 - x /\ f[x] \in Int
  OBVIOUS
<1> HIDE DEF f
<1>3. T # {} /\ \A y \in T : y \in Int
  BY <1>2
<1>4. Max(T) \in T /\ \A y \in T : Max(T) >= y
  <2> HIDE DEF T
  <2>1. QED
    BY <1>1, <1>3, MaxOfFinite
<1>5. PICK m \in S : Max(T) = f[m]
  BY <1>4
<1>6. ASSUME NEW x \in S
      PROVE  m <= x
  <2>1. f[m] >= f[x]
    BY <1>4, <1>5
  <2>2. QED
    BY <1>2, <2>1
<1>7. QED
  BY <1>6 DEF Min

(* How many the two first of k are. *)
LEMMA MinOfTwo ==
  ASSUME NEW k \in Nat
  PROVE  Min({2, k}) = IF k <= 2 THEN k ELSE 2
<1>1. CASE k <= 2
  BY <1>1 DEF Min
<1>2. CASE k > 2
  BY <1>2 DEF Min
<1>3. QED
  BY <1>1, <1>2

(* There is a set of the two first. *)
LEMMA TwoFirst ==
  ASSUME NEW S, IsFiniteSet(S), NEW r, \A m \in S : r[m] \in Int
  PROVE  \E T \in SUBSET S : /\ Cardinality(T) = Min({2, Cardinality(S)})
                             /\ \A x \in T, y \in S \ T : r[x] >= r[y]
<1>1. ASSUME NEW Q \in SUBSET S, Q # {}
      PROVE  \E m \in Q : \A y \in Q : r[m] >= r[y]
  <2> DEFINE R == {r[m] : m \in Q}
  <2>1. IsFiniteSet(R) /\ R # {} /\ \A x \in R : x \in Int
    BY <1>1, FS_Subset, FiniteImage
  <2>2. Max(R) \in R /\ \A x \in R : Max(R) >= x
    <3> HIDE DEF R
    <3>1. QED
      BY <2>1, MaxOfFinite
  <2>3. QED
    BY <2>2
<1> DEFINE k == Cardinality(S)
<1>2. k \in Nat
  BY FS_CardinalityType
<1>3. CASE k <= 2
  <2>1. Min({2, k}) = k
    BY <1>2, <1>3 DEF Min
  <2>2. S \in SUBSET S /\ S \ S = {}
    OBVIOUS
  <2>3. QED
    BY <2>1, <2>2
<1>4. CASE k > 2
  <2>1. Min({2, k}) = 2
    BY <1>2, <1>4 DEF Min
  <2>2. S # {}
    BY <1>4, FS_EmptySet
  <2>3. PICK x \in S : \A y \in S : r[x] >= r[y]
    BY <1>1, <2>2
  <2>4. S \ {x} # {}
    <3>1. IsFiniteSet(S \ {x}) /\ Cardinality(S \ {x}) = k - 1
      BY FS_RemoveElement
    <3>2. QED
      BY <1>2, <1>4, <3>1, FS_EmptySet
  <2>5. PICK z \in S \ {x} : \A y \in S \ {x} : r[z] >= r[y]
    BY <1>1, <2>4
  <2>6. Cardinality({x, z}) = 2
    <3>1. Cardinality({x}) = 1 /\ IsFiniteSet({x}) /\ z \notin {x}
      BY FS_Singleton
    <3>2. Cardinality({x} \cup {z}) = Cardinality({x}) + 1
      <4> DEFINE X == {x}
      <4>1. IsFiniteSet(X) /\ z \notin X
        BY <3>1
      <4> HIDE DEF X
      <4>2. Cardinality(X \cup {z}) = Cardinality(X) + 1
        BY <4>1, FS_AddElement
      <4>3. QED
        BY <4>2 DEF X
    <3>3. {x} \cup {z} = {x, z}
      OBVIOUS
    <3>4. QED
      BY <3>1, <3>2, <3>3
  <2>7. {x, z} \in SUBSET S /\ \A w \in {x, z}, y \in S \ {x, z} : r[w] >= r[y]
    BY <2>3, <2>5
  <2>8. QED
    BY <2>1, <2>6, <2>7
<1>5. QED
  BY <1>2, <1>3, <1>4

(* A sum over a set that a function maps to another one to one. *)
LEMMA SumRenamed ==
  ASSUME NEW T, IsFiniteSet(T), NEW F, \A m \in T : F[m] \in Int,
         NEW g, \A m, n \in T : g[m] = g[n] => m = n,
         NEW L, L = {g[m] : m \in T}, NEW G, \A m \in T : G[g[m]] = F[m]
  PROVE  SumOver(G, L) = SumOver(F, T)
<1>1. IsFiniteSet(L)
  BY FiniteImage
<1>2. ASSUME NEW l \in L
      PROVE  G[l] = SumOver(F, Class(T, g, l))
  <2>1. PICK m \in T : l = g[m]
    OBVIOUS
  <2>2. Class(T, g, l) = {m}
    BY <2>1 DEF Class
  <2>3. SumOver(F, {m}) = F[m]
    <3>1. IsFiniteSet({m}) /\ IsFiniteSet({}) /\ {m} \ {m} = {} /\ F[m] \in Int
      BY FS_Singleton, FS_EmptySet
    <3>2. SumOver(F, {m}) = F[m] + SumOver(F, {m} \ {m})
      BY <3>1, SumWithout
    <3>3. SumOver(F, {}) = 0
      BY <3>1, SumStep
    <3>4. QED
      BY <3>1, <3>2, <3>3
  <2>4. QED
    BY <2>1, <2>2, <2>3
<1>3. SumOver(G, L) = SumOver(F, Classes(T, g, L))
  BY <1>1, <1>2, SumOfClasses
<1>4. Classes(T, g, L) = T
  BY DEF Classes
<1>5. QED
  BY <1>3, <1>4

(* Distinct names for all of T. *)
LEMMA OneToOne ==
  ASSUME NEW T, IsFiniteSet(T), NEW g, Cardinality({g[m] : m \in T}) = Cardinality(T)
  PROVE  \A m, n \in T : g[m] = g[n] => m = n
<1> DEFINE L == {g[m] : m \in T}
           f == [m \in T |-> g[m]]
<1>1. f \in Surjection(T, L)
  BY DEF Surjection
<1>2. \A m \in T : f[m] = g[m]
  OBVIOUS
<1>3. Cardinality(L) = Cardinality(T)
  OBVIOUS
<1> HIDE DEF f, L
<1>4. f \in Injection(T, L)
  BY <1>1, <1>3, FS_Surjection
<1>5. QED
  BY <1>2, <1>4 DEF Injection, IsInjective

=================================================================================
