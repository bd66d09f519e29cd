------------------------------ MODULE DataLemmas ------------------------------
(***************************************************************************)
(* Facts about data of any size that the proofs about the exchange rest    *)
(* on: induction over the natural numbers and over the subsets of a finite *)
(* set, the first of a set of rows in an order, what SumFunctionOnSet of   *)
(* the community modules computes, and sequences that list a set, order    *)
(* it, or are put together from others.                                    *)
(*                                                                         *)
(* The induction theorems of the library take an operator as a parameter.  *)
(* Here induction goes over a set, of the numbers or of the subsets for    *)
(* which the claim holds, and rests on WFMin: a set of natural numbers     *)
(* that is not empty has a least element.                                  *)
(***************************************************************************)
EXTENDS SequencesExt, FiniteSetTheorems, SequenceTheorems, TLAPS

\* A set of natural numbers has a least element: what every induction rests on.
LEMMA LeastNatural ==
    ASSUME NEW T, T \subseteq Nat, T # {}
    PROVE  \E n \in T : \A k \in T : n <= k
<1>1. IsWellFoundedOn(OpToRel(<, Nat), Nat)
  BY NatLessThanWellFounded
<1>2. PICK n \in T : \A k \in T : ~(<<k, n>> \in OpToRel(<, Nat))
  BY <1>1, WFMin
<1>3. \A k \in T : ~(k < n)
  BY <1>2 DEF OpToRel
<1> QED
  BY <1>3

\* Induction over the natural numbers, for the numbers in a set.
LEMMA NatSetInduction ==
    ASSUME NEW T, 0 \in T, \A n \in Nat : n \in T => n + 1 \in T
    PROVE  Nat \subseteq T
<1>1. SUFFICES ASSUME Nat \ T # {} PROVE FALSE
  OBVIOUS
<1>2. PICK n \in Nat \ T : \A k \in Nat \ T : n <= k
  BY <1>1, LeastNatural
<1>3. n # 0 /\ n - 1 \in Nat /\ n - 1 \in T
  BY <1>2
<1> QED
  BY <1>2, <1>3

\* Induction over the subsets of a finite set, for the subsets in a set: a
\* subset belongs to it when all that lack one element of it do.
LEMMA SubsetInduction ==
    ASSUME NEW S, IsFiniteSet(S), NEW P,
           \A T \in SUBSET S : (\A x \in T : T \ {x} \in P) => T \in P
    PROVE  \A T \in SUBSET S : T \in P
<1> DEFINE N == {n \in Nat : \A T \in SUBSET S : Cardinality(T) = n => T \in P}
<1>1. 0 \in N
  <2> SUFFICES ASSUME NEW T \in SUBSET S, Cardinality(T) = 0 PROVE T \in P
    OBVIOUS
  <2>1. IsFiniteSet(T)
    BY FS_Subset
  <2>2. T = {}
    BY <2>1, FS_EmptySet
  <2> QED
    BY <2>2
<1>2. ASSUME NEW n \in Nat, n \in N PROVE n + 1 \in N
  <2> SUFFICES ASSUME NEW T \in SUBSET S, Cardinality(T) = n + 1 PROVE T \in P
    OBVIOUS
  <2> SUFFICES ASSUME NEW x \in T PROVE T \ {x} \in P
    OBVIOUS
  <2>1. IsFiniteSet(T)
    BY FS_Subset
  <2>2. Cardinality(T \ {x}) = IF x \in T THEN Cardinality(T) - 1 ELSE Cardinality(T)
    BY <2>1, FS_RemoveElement
  <2> QED
    BY <1>2, <2>2
<1> HIDE DEF N
<1>3. Nat \subseteq N
  BY <1>1, <1>2, NatSetInduction
<1>4. \A T \in SUBSET S : Cardinality(T) \in N
  BY <1>3, FS_Subset, FS_CardinalityType
<1> QED
  BY <1>4 DEF N

\* A finite set has a first element in a strict total order.
LEMMA FirstExists ==
    ASSUME NEW S, IsFiniteSet(S), NEW R,
           \A a, b \in S : a = b \/ <<a, b>> \in R \/ <<b, a>> \in R,
           \A a, b, c \in S : <<a, b>> \in R /\ <<b, c>> \in R => <<a, c>> \in R
    PROVE  \A T \in SUBSET S :
              T # {} => \E a \in T : \A b \in T \ {a} : <<a, b>> \in R
<1> DEFINE P == {T \in SUBSET S : T # {} => \E a \in T : \A b \in T \ {a} : <<a, b>> \in R}
<1>1. ASSUME NEW T \in SUBSET S, \A x \in T : T \ {x} \in P PROVE T \in P
  <2> SUFFICES ASSUME NEW x \in T PROVE \E a \in T : \A b \in T \ {a} : <<a, b>> \in R
    OBVIOUS
  <2>1. CASE T \ {x} = {}
    BY <2>1
  <2>2. CASE T \ {x} # {}
    <3>1. PICK a \in T \ {x} : \A b \in (T \ {x}) \ {a} : <<a, b>> \in R
      BY <1>1, <2>2
    <3>2. CASE <<a, x>> \in R
      BY <3>1, <3>2
    <3>3. CASE <<x, a>> \in R
      <4>1. \A b \in T \ {x} : <<x, b>> \in R
        BY <3>1, <3>3
      <4> QED
        BY <4>1
    <3> QED
      BY <3>2, <3>3
  <2> QED
    BY <2>1, <2>2
<1> HIDE DEF P
<1>2. \A T \in SUBSET S : T \in P
  BY <1>1, SubsetInduction
<1> QED
  BY <1>2 DEF P

-----------------------------------------------------------------------------
(* The recursion of a sum.                                                 *)

\* The element that a sum takes first.
Pick(s) == CHOOSE x \in s : TRUE

\* g maps every subset of S to the sum of f over it.
ArePartialSums(g, f, S) ==
    g = [s \in SUBSET S |-> IF s = {} THEN 0 ELSE f[Pick(s)] + g[s \ {Pick(s)}]]

PartialSums(f, S) == CHOOSE g : ArePartialSums(g, f, S)

\* SumFunctionOnSet is its partial sum over the whole set.
LEMMA SumIsPartialSum ==
    ASSUME NEW f, NEW S
    PROVE SumFunctionOnSet(f, S) = PartialSums(f, S)[S]
BY DEF SumFunctionOnSet, FoldFunctionOnSet, MapThenFoldSet, PartialSums, ArePartialSums, Pick

\* An element is picked from the set.
LEMMA PickIsElement ==
    ASSUME NEW s, s # {}
    PROVE  Pick(s) \in s
BY DEF Pick

\* What the partial sums are, one subset at a time.
LEMMA PartialSumsAt ==
    ASSUME NEW g, NEW f, NEW S, ArePartialSums(g, f, S)
    PROVE  /\ DOMAIN g = SUBSET S
           /\ \A s \in SUBSET S :
                 g[s] = IF s = {} THEN 0 ELSE f[Pick(s)] + g[s \ {Pick(s)}]
<1> DEFINE body == [s \in SUBSET S |-> IF s = {} THEN 0 ELSE f[Pick(s)] + g[s \ {Pick(s)}]]
<1>1. g = body
  BY DEF ArePartialSums
<1>2. \A s \in SUBSET S : body[s] = IF s = {} THEN 0 ELSE f[Pick(s)] + g[s \ {Pick(s)}]
  OBVIOUS
<1>3. DOMAIN body = SUBSET S
  OBVIOUS
<1> HIDE DEF body
<1> QED
  BY <1>1, <1>2, <1>3

\* Two functions with that recursion agree, also when one of them is for a
\* larger set.
LEMMA PartialSumsAgree ==
    ASSUME NEW f, NEW S, NEW T \in SUBSET S, IsFiniteSet(T),
           NEW g, ArePartialSums(g, f, S), NEW h, ArePartialSums(h, f, T)
    PROVE  \A s \in SUBSET T : g[s] = h[s]
<1> DEFINE P == {s \in SUBSET T : g[s] = h[s]}
<1>2. \A s \in SUBSET S : g[s] = IF s = {} THEN 0 ELSE f[Pick(s)] + g[s \ {Pick(s)}]
  BY PartialSumsAt
<1>3. \A s \in SUBSET T : h[s] = IF s = {} THEN 0 ELSE f[Pick(s)] + h[s \ {Pick(s)}]
  BY PartialSumsAt, ZenonT(60)
<1>1. ASSUME NEW s \in SUBSET T, \A x \in s : s \ {x} \in P PROVE s \in P
  <2>1. g[s] = IF s = {} THEN 0 ELSE f[Pick(s)] + g[s \ {Pick(s)}]
    BY <1>2
  <2>2. h[s] = IF s = {} THEN 0 ELSE f[Pick(s)] + h[s \ {Pick(s)}]
    BY <1>3
  <2>3. s # {} => g[s \ {Pick(s)}] = h[s \ {Pick(s)}]
    BY <1>1, PickIsElement
  <2> QED
    BY <2>1, <2>2, <2>3
<1> HIDE DEF P
<1>4. \A s \in SUBSET T : s \in P
  BY <1>1, SubsetInduction
<1> QED
  BY <1>4 DEF P

\* The recursion has a solution for every finite set.
LEMMA PartialSumsExist ==
    ASSUME NEW f, NEW S, IsFiniteSet(S)
    PROVE  ArePartialSums(PartialSums(f, S), f, S)
<1>1. ASSUME NEW R, NEW g, ArePartialSums(g, f, R)
      PROVE  \A v \in SUBSET R : g[v] = IF v = {} THEN 0 ELSE f[Pick(v)] + g[v \ {Pick(v)}]
  BY <1>1, PartialSumsAt, ZenonT(60)
<1> DEFINE P == {T \in SUBSET S : \E g : ArePartialSums(g, f, T)}
           Total(T) == PartialSums(f, T)[T]
<1>2. ASSUME NEW T \in SUBSET S, \A x \in T : T \ {x} \in P PROVE T \in P
  <2> DEFINE h == [s \in SUBSET T |-> IF s = {} THEN 0 ELSE f[Pick(s)] + Total(s \ {Pick(s)})]
  <2>1. ASSUME NEW s \in SUBSET T, s # {} PROVE h[s \ {Pick(s)}] = Total(s \ {Pick(s)})
    <3> DEFINE u == s \ {Pick(s)}
    <3>1. Pick(s) \in T
      BY <2>1, PickIsElement
    <3>2. PICK g : ArePartialSums(g, f, T \ {Pick(s)})
      BY <1>2, <3>1
    <3>3. \A v \in SUBSET (T \ {Pick(s)}) :
             g[v] = IF v = {} THEN 0 ELSE f[Pick(v)] + g[v \ {Pick(v)}]
      BY <3>2, <1>1
    <3>4. ASSUME NEW t \in SUBSET u
          PROVE  ArePartialSums(PartialSums(f, t), f, t) /\ Total(t) = g[t]
      <4> DEFINE k == [v \in SUBSET t |-> g[v]]
      <4>1. \A v \in SUBSET t : k[v] = IF v = {} THEN 0 ELSE f[Pick(v)] + k[v \ {Pick(v)}]
        <5>1. \A v \in SUBSET t : g[v] = IF v = {} THEN 0 ELSE f[Pick(v)] + g[v \ {Pick(v)}]
          BY <3>3
        <5> QED
          BY <5>1
      <4>2. ArePartialSums(k, f, t)
        BY <4>1 DEF ArePartialSums
      <4>3. ArePartialSums(PartialSums(f, t), f, t)
        BY <4>2 DEF PartialSums
      <4>4. IsFiniteSet(t) /\ t \in SUBSET (T \ {Pick(s)})
        BY FS_Subset
      <4>5. g[t] = PartialSums(f, t)[t]
        BY <3>2, <4>3, <4>4, PartialSumsAgree
      <4> QED
        BY <4>3, <4>5
    <3>5. g[u] = IF u = {} THEN 0 ELSE f[Pick(u)] + g[u \ {Pick(u)}]
      BY <3>3
    <3>6. g[u \ {Pick(u)}] = Total(u \ {Pick(u)})
      BY <3>4
    <3>7. Total(u) = g[u]
      BY <3>4
    <3>8. h[u] = IF u = {} THEN 0 ELSE f[Pick(u)] + Total(u \ {Pick(u)})
      OBVIOUS
    <3> HIDE DEF Total, h, u
    <3>9. h[u] = Total(u)
      BY <3>5, <3>6, <3>7, <3>8
    <3> QED
      BY <3>9 DEF u
  <2>2. h = [s \in SUBSET T |-> IF s = {} THEN 0 ELSE f[Pick(s)] + h[s \ {Pick(s)}]]
    BY <2>1
  <2>3. ArePartialSums(h, f, T)
    BY <2>2 DEF ArePartialSums
  <2> QED
    BY <2>3
<1> HIDE DEF P
<1>3. S \in P
  BY <1>2, SubsetInduction
<1> QED
  BY <1>3 DEF P, PartialSums

-----------------------------------------------------------------------------
(* What a sum is.                                                          *)

\* The sum over no elements is zero.
LEMMA SumEmpty ==
    ASSUME NEW f
    PROVE  SumFunctionOnSet(f, {}) = 0
<1>1. IsFiniteSet({})
  BY FS_EmptySet
<1>2. ArePartialSums(PartialSums(f, {}), f, {})
  BY <1>1, PartialSumsExist
<1>3. \A s \in SUBSET {} : PartialSums(f, {})[s] =
          IF s = {} THEN 0 ELSE f[Pick(s)] + PartialSums(f, {})[s \ {Pick(s)}]
  BY <1>2, PartialSumsAt
<1> QED
  BY <1>3, SumIsPartialSum

\* The sum over a set is the element picked and the sum over the others.
LEMMA SumPicks ==
    ASSUME NEW f, NEW S, IsFiniteSet(S), S # {}
    PROVE  SumFunctionOnSet(f, S) = f[Pick(S)] + SumFunctionOnSet(f, S \ {Pick(S)})
<1> DEFINE T == S \ {Pick(S)}
<1>1. IsFiniteSet(T)
  BY FS_Subset
<1>2. ArePartialSums(PartialSums(f, S), f, S)
  BY PartialSumsExist
<1>3. ArePartialSums(PartialSums(f, T), f, T)
  BY <1>1, PartialSumsExist
<1>4. PartialSums(f, S)[T] = PartialSums(f, T)[T]
  BY <1>1, <1>2, <1>3, PartialSumsAgree
<1>5. \A s \in SUBSET S : PartialSums(f, S)[s] =
          IF s = {} THEN 0 ELSE f[Pick(s)] + PartialSums(f, S)[s \ {Pick(s)}]
  <2>1. ASSUME NEW g, ArePartialSums(g, f, S)
        PROVE  \A s \in SUBSET S : g[s] = IF s = {} THEN 0 ELSE f[Pick(s)] + g[s \ {Pick(s)}]
    BY <2>1, PartialSumsAt
  <2> QED
    BY <1>2, <2>1
<1>6. PartialSums(f, S)[S] = f[Pick(S)] + PartialSums(f, S)[T]
  BY <1>5
<1>7. SumFunctionOnSet(f, S) = PartialSums(f, S)[S]
  BY SumIsPartialSum
<1>8. SumFunctionOnSet(f, T) = PartialSums(f, T)[T]
  BY SumIsPartialSum
<1> HIDE DEF T
<1>9. SumFunctionOnSet(f, S) = f[Pick(S)] + SumFunctionOnSet(f, T)
  BY <1>4, <1>6, <1>7, <1>8
<1> QED
  BY <1>9 DEF T

\* A sum of integers is an integer.
LEMMA SumInt ==
    ASSUME NEW f, NEW S, IsFiniteSet(S), \A x \in S : f[x] \in Int
    PROVE  SumFunctionOnSet(f, S) \in Int
<1> DEFINE P == {T \in SUBSET S : SumFunctionOnSet(f, T) \in Int}
<1>1. ASSUME NEW T \in SUBSET S, \A x \in T : T \ {x} \in P PROVE T \in P
  <2>1. CASE T = {}
    BY <2>1, SumEmpty
  <2>2. CASE T # {}
    <3>1. IsFiniteSet(T) /\ Pick(T) \in T
      BY <2>2, FS_Subset, PickIsElement
    <3>2. SumFunctionOnSet(f, T) = f[Pick(T)] + SumFunctionOnSet(f, T \ {Pick(T)})
      BY <2>2, <3>1, SumPicks
    <3>3. SumFunctionOnSet(f, T \ {Pick(T)}) \in Int
      BY <1>1, <3>1
    <3> QED
      BY <3>1, <3>2, <3>3
  <2> QED
    BY <2>1, <2>2
<1> HIDE DEF P
<1>2. \A T \in SUBSET S : T \in P
  BY <1>1, SubsetInduction
<1> QED
  BY <1>2 DEF P

\* It does not matter which element is taken first.
LEMMA SumSplits ==
    ASSUME NEW f, NEW S, IsFiniteSet(S), \A x \in S : f[x] \in Int, NEW a \in S
    PROVE  SumFunctionOnSet(f, S) = f[a] + SumFunctionOnSet(f, S \ {a})
<1> DEFINE Total(T) == SumFunctionOnSet(f, T)
           P == {T \in SUBSET S : \A x \in T : Total(T) = f[x] + Total(T \ {x})}
<1>1. ASSUME NEW T \in SUBSET S, \A x \in T : T \ {x} \in P PROVE T \in P
  <2> SUFFICES ASSUME NEW x \in T, x # Pick(T)
               PROVE  Total(T) = f[x] + Total(T \ {x})
    <3> IsFiniteSet(T)
      BY FS_Subset
    <3> QED
      BY SumPicks
  <2> DEFINE p == Pick(T)
             R == (T \ {p}) \ {x}
  <2>1. IsFiniteSet(T) /\ p \in T
    BY FS_Subset, PickIsElement
  <2>2. Total(T) = f[p] + Total(T \ {p})
    BY <2>1, SumPicks
  <2>3. Total(T \ {p}) = f[x] + Total(R)
    BY <1>1, <2>1
  <2>4. Total(T \ {x}) = f[p] + Total(R)
    <3>1. (T \ {x}) \ {p} = R
      OBVIOUS
    <3>2. Total(T \ {x}) = f[p] + Total((T \ {x}) \ {p})
      BY <1>1, <2>1
    <3> QED
      BY <3>1, <3>2
  <2>5. Total(R) \in Int
    <3>1. IsFiniteSet(R)
      BY FS_Subset
    <3> QED
      BY <3>1, SumInt
  <2> HIDE DEF Total, p, R
  <2> QED
    BY <2>1, <2>2, <2>3, <2>4, <2>5
<1> HIDE DEF P
<1>2. \A T \in SUBSET S : T \in P
  BY <1>1, SubsetInduction
<1> QED
  BY <1>2 DEF P

\* One more element adds its value.
LEMMA SumAddElement ==
    ASSUME NEW f, NEW S, IsFiniteSet(S), NEW a, a \notin S, \A x \in S \cup {a} : f[x] \in Int
    PROVE  SumFunctionOnSet(f, S \cup {a}) = SumFunctionOnSet(f, S) + f[a]
<1> DEFINE T == S \cup {a}
<1>1. IsFiniteSet(T) /\ a \in T
  BY FS_AddElement
<1>2. T \ {a} = S
  OBVIOUS
<1>3. \A x \in T : f[x] \in Int
  OBVIOUS
<1> HIDE DEF T
<1>4. SumFunctionOnSet(f, T) = f[a] + SumFunctionOnSet(f, T \ {a})
  BY <1>1, <1>3, SumSplits
<1>5. SumFunctionOnSet(f, T) = f[a] + SumFunctionOnSet(f, S)
  BY <1>2, <1>4, Zenon
<1>6. SumFunctionOnSet(f, S) \in Int /\ f[a] \in Int
  BY <1>1, <1>3, SumInt DEF T
<1>7. SumFunctionOnSet(f, T) = SumFunctionOnSet(f, S) + f[a]
  BY <1>5, <1>6
<1> QED
  BY <1>7 DEF T

\* A sum depends on the values at the elements alone.
LEMMA SumSame ==
    ASSUME NEW f, NEW g, NEW S, IsFiniteSet(S), \A x \in S : f[x] = g[x]
    PROVE  SumFunctionOnSet(f, S) = SumFunctionOnSet(g, S)
<1> DEFINE P == {T \in SUBSET S : SumFunctionOnSet(f, T) = SumFunctionOnSet(g, T)}
<1>1. ASSUME NEW T \in SUBSET S, \A x \in T : T \ {x} \in P PROVE T \in P
  <2>1. CASE T = {}
    BY <2>1, SumEmpty
  <2>2. CASE T # {}
    <3>1. IsFiniteSet(T) /\ Pick(T) \in T
      BY <2>2, FS_Subset, PickIsElement
    <3>2. SumFunctionOnSet(f, T) = f[Pick(T)] + SumFunctionOnSet(f, T \ {Pick(T)})
      BY <2>2, <3>1, SumPicks
    <3>3. SumFunctionOnSet(g, T) = g[Pick(T)] + SumFunctionOnSet(g, T \ {Pick(T)})
      BY <2>2, <3>1, SumPicks
    <3>4. SumFunctionOnSet(f, T \ {Pick(T)}) = SumFunctionOnSet(g, T \ {Pick(T)})
      BY <1>1, <3>1
    <3> QED
      BY <3>1, <3>2, <3>3, <3>4
  <2> QED
    BY <2>1, <2>2
<1> HIDE DEF P
<1>2. \A T \in SUBSET S : T \in P
  BY <1>1, SubsetInduction
<1> QED
  BY <1>2 DEF P

\* What is zero outside a part sums up to the sum over the part.
LEMMA SumOverPart ==
    ASSUME NEW f, NEW g, NEW S, IsFiniteSet(S), NEW T \in SUBSET S,
           \A x \in T : f[x] \in Int /\ g[x] = f[x],
           \A x \in S \ T : g[x] = 0
    PROVE  SumFunctionOnSet(g, S) = SumFunctionOnSet(f, T)
<1> DEFINE P == {U \in SUBSET (S \ T) : SumFunctionOnSet(g, T \cup U) = SumFunctionOnSet(g, T)}
<1>1. IsFiniteSet(S \ T) /\ IsFiniteSet(T)
  BY FS_Subset
<1>2. \A x \in S : g[x] \in Int
  OBVIOUS
<1>3. SumFunctionOnSet(g, T) \in Int
  BY <1>1, <1>2, SumInt
<1>4. ASSUME NEW U \in SUBSET (S \ T), \A x \in U : U \ {x} \in P PROVE U \in P
  <2>1. CASE U = {}
    <3>1. T \cup U = T
      BY <2>1
    <3> QED
      BY <3>1
  <2>2. CASE U # {}
    <3>1. PICK x \in U : TRUE
      BY <2>2
    <3> DEFINE W == T \cup U
    <3>2. IsFiniteSet(W) /\ x \in W /\ (\A y \in W : g[y] \in Int) /\ g[x] = 0
      <4>1. W \subseteq S
        OBVIOUS
      <4> QED
        BY <1>2, <3>1, <4>1, FS_Subset
    <3>3. W \ {x} = T \cup (U \ {x})
      BY <3>1
    <3> HIDE DEF W
    <3>4. SumFunctionOnSet(g, W) = g[x] + SumFunctionOnSet(g, W \ {x})
      BY <3>2, SumSplits
    <3>5. SumFunctionOnSet(g, T \cup (U \ {x})) = SumFunctionOnSet(g, T)
      BY <1>4, <3>1
    <3>6. SumFunctionOnSet(g, W) = 0 + SumFunctionOnSet(g, T)
      BY <3>2, <3>3, <3>4, <3>5, Zenon
    <3> QED
      BY <1>3, <3>6 DEF W
  <2> QED
    BY <2>1, <2>2
<1> HIDE DEF P
<1>5. \A U \in SUBSET (S \ T) : U \in P
  BY <1>1, <1>4, SubsetInduction
<1>6. SumFunctionOnSet(g, T \cup (S \ T)) = SumFunctionOnSet(g, T)
  BY <1>5 DEF P
<1>7. T \cup (S \ T) = S
  OBVIOUS
<1>8. SumFunctionOnSet(g, T) = SumFunctionOnSet(f, T)
  BY <1>1, SumSame
<1> QED
  BY <1>6, <1>7, <1>8, Zenon

\* When one value changes, the sum changes by as much.
LEMMA SumChanges ==
    ASSUME NEW f, NEW g, NEW S, IsFiniteSet(S), NEW a \in S,
           \A x \in S : f[x] \in Int, g[a] \in Int,
           \A x \in S \ {a} : g[x] = f[x]
    PROVE  SumFunctionOnSet(g, S) = SumFunctionOnSet(f, S) + g[a] - f[a]
<1>1. IsFiniteSet(S \ {a})
  BY FS_Subset
<1>2. SumFunctionOnSet(f, S \ {a}) = SumFunctionOnSet(g, S \ {a})
  BY <1>1, SumSame
<1>3. SumFunctionOnSet(f, S) = f[a] + SumFunctionOnSet(f, S \ {a})
  BY SumSplits
<1>4. \A x \in S : g[x] \in Int
  OBVIOUS
<1>5. SumFunctionOnSet(g, S) = g[a] + SumFunctionOnSet(g, S \ {a})
  BY <1>4, SumSplits
<1>6. SumFunctionOnSet(f, S \ {a}) \in Int
  BY <1>1, SumInt
<1> QED
  BY <1>2, <1>3, <1>5, <1>6

\* What moves from one element to another leaves the sum as it is.
LEMMA SumMoved ==
    ASSUME NEW f, NEW g, NEW S, IsFiniteSet(S), NEW a \in S, NEW b \in S, NEW k \in Int,
           \A x \in S : f[x] \in Int,
           \A x \in S : g[x] = f[x] - (IF x = a THEN k ELSE 0) + (IF x = b THEN k ELSE 0)
    PROVE  SumFunctionOnSet(g, S) = SumFunctionOnSet(f, S)
<1> DEFINE h == [x \in S |-> f[x] - (IF x = a THEN k ELSE 0)]
<1>1. /\ \A x \in S : h[x] \in Int
      /\ \A x \in S \ {a} : h[x] = f[x]
      /\ h[a] - f[a] = -k
  OBVIOUS
<1>2. /\ \A x \in S : g[x] \in Int
      /\ \A x \in S \ {b} : g[x] = h[x]
      /\ g[b] - h[b] = k
  OBVIOUS
<1> HIDE DEF h
<1>3. SumFunctionOnSet(h, S) = SumFunctionOnSet(f, S) + h[a] - f[a]
  BY <1>1, SumChanges
<1>4. SumFunctionOnSet(g, S) = SumFunctionOnSet(h, S) + g[b] - h[b]
  BY <1>1, <1>2, SumChanges
<1>5. SumFunctionOnSet(f, S) \in Int /\ SumFunctionOnSet(h, S) \in Int
  BY <1>1, SumInt
<1> QED
  BY <1>1, <1>2, <1>3, <1>4, <1>5

\* A sum of equal values is a product.
LEMMA SumConstant ==
    ASSUME NEW f, NEW S, IsFiniteSet(S), NEW k \in Int, \A x \in S : f[x] = k
    PROVE  SumFunctionOnSet(f, S) = k * Cardinality(S)
<1> DEFINE P == {T \in SUBSET S : SumFunctionOnSet(f, T) = k * Cardinality(T)}
<1>1. ASSUME NEW T \in SUBSET S, \A x \in T : T \ {x} \in P PROVE T \in P
  <2>1. CASE T = {}
    <3>1. Cardinality(T) = 0
      BY <2>1, FS_EmptySet
    <3> QED
      BY <2>1, <3>1, SumEmpty
  <2>2. CASE T # {}
    <3>1. IsFiniteSet(T) /\ Pick(T) \in T
      BY <2>2, FS_Subset, PickIsElement
    <3>2. SumFunctionOnSet(f, T) = f[Pick(T)] + SumFunctionOnSet(f, T \ {Pick(T)})
      BY <2>2, <3>1, SumPicks
    <3>3. SumFunctionOnSet(f, T \ {Pick(T)}) = k * Cardinality(T \ {Pick(T)})
      BY <1>1, <3>1
    <3>4. Cardinality(T) \in Nat
      BY <3>1, FS_CardinalityType
    <3>5. Cardinality(T \ {Pick(T)}) =
             IF Pick(T) \in T THEN Cardinality(T) - 1 ELSE Cardinality(T)
      BY <3>1, FS_RemoveElement
    <3>6. f[Pick(T)] = k
      BY <3>1
    <3>7. \A n \in Nat : k + k * (n - 1) = k * n
      OBVIOUS
    <3> QED
      BY <3>1, <3>2, <3>3, <3>4, <3>5, <3>6, <3>7
  <2> QED
    BY <2>1, <2>2
<1> HIDE DEF P
<1>2. \A T \in SUBSET S : T \in P
  BY <1>1, SubsetInduction
<1> QED
  BY <1>2 DEF P

\* Terms that differ have sums that differ by the sum of the differences.
LEMMA SumDiffers ==
    ASSUME NEW f, NEW g, NEW h, NEW S, IsFiniteSet(S),
           \A x \in S : f[x] \in Int /\ h[x] \in Int /\ g[x] = f[x] - h[x]
    PROVE  SumFunctionOnSet(g, S) = SumFunctionOnSet(f, S) - SumFunctionOnSet(h, S)
<1> DEFINE P == {T \in SUBSET S :
                    SumFunctionOnSet(g, T) = SumFunctionOnSet(f, T) - SumFunctionOnSet(h, T)}
<1>1. ASSUME NEW T \in SUBSET S, \A x \in T : T \ {x} \in P PROVE T \in P
  <2>1. CASE T = {}
    BY <2>1, SumEmpty
  <2>2. CASE T # {}
    <3> DEFINE a == Pick(T)
               U == T \ {a}
    <3>1. IsFiniteSet(T) /\ a \in T /\ IsFiniteSet(U) /\ U \in SUBSET S
      BY <2>2, FS_Subset, PickIsElement
    <3>2. /\ SumFunctionOnSet(f, T) = f[a] + SumFunctionOnSet(f, U)
          /\ SumFunctionOnSet(g, T) = g[a] + SumFunctionOnSet(g, U)
          /\ SumFunctionOnSet(h, T) = h[a] + SumFunctionOnSet(h, U)
      BY <2>2, <3>1, SumPicks
    <3>3. SumFunctionOnSet(g, U) = SumFunctionOnSet(f, U) - SumFunctionOnSet(h, U)
      BY <1>1, <3>1
    <3>4. f[a] \in Int /\ h[a] \in Int /\ g[a] = f[a] - h[a]
      BY <3>1
    <3>5. SumFunctionOnSet(f, U) \in Int /\ SumFunctionOnSet(h, U) \in Int
      BY <3>1, SumInt
    <3> HIDE DEF a, U
    <3>6. SumFunctionOnSet(g, T) = SumFunctionOnSet(f, T) - SumFunctionOnSet(h, T)
      BY <3>2, <3>3, <3>4, <3>5
    <3> QED
      BY <3>6
  <2> QED
    BY <2>1, <2>2
<1> HIDE DEF P
<1>2. \A T \in SUBSET S : T \in P
  BY <1>1, SubsetInduction
<1> QED
  BY <1>2 DEF P

\* A sum of natural numbers is one, and at least each of them.
LEMMA SumNat ==
    ASSUME NEW f, NEW S, IsFiniteSet(S), \A x \in S : f[x] \in Nat
    PROVE  /\ SumFunctionOnSet(f, S) \in Nat
           /\ \A x \in S : f[x] <= SumFunctionOnSet(f, S)
<1> DEFINE P == {T \in SUBSET S : SumFunctionOnSet(f, T) \in Nat}
<1>1. ASSUME NEW T \in SUBSET S, \A x \in T : T \ {x} \in P PROVE T \in P
  <2>1. CASE T = {}
    BY <2>1, SumEmpty
  <2>2. CASE T # {}
    <3>1. IsFiniteSet(T) /\ Pick(T) \in T
      BY <2>2, FS_Subset, PickIsElement
    <3>2. SumFunctionOnSet(f, T) = f[Pick(T)] + SumFunctionOnSet(f, T \ {Pick(T)})
      BY <2>2, <3>1, SumPicks
    <3>3. SumFunctionOnSet(f, T \ {Pick(T)}) \in Nat
      BY <1>1, <3>1
    <3> QED
      BY <3>1, <3>2, <3>3
  <2> QED
    BY <2>1, <2>2
<1> HIDE DEF P
<1>2. \A T \in SUBSET S : T \in P
  BY <1>1, SubsetInduction
<1>3. \A T \in SUBSET S : SumFunctionOnSet(f, T) \in Nat
  BY <1>2 DEF P
<1>4. ASSUME NEW x \in S PROVE f[x] <= SumFunctionOnSet(f, S)
  <2>1. SumFunctionOnSet(f, S) = f[x] + SumFunctionOnSet(f, S \ {x})
    BY SumSplits
  <2>2. SumFunctionOnSet(f, S \ {x}) \in Nat
    BY <1>3
  <2> QED
    BY <2>1, <2>2
<1> QED
  BY <1>3, <1>4

-----------------------------------------------------------------------------
(* Sequences.                                                              *)

\* SetToSeq lists every element of a finite set once.
LEMMA SetListed ==
    ASSUME NEW S, IsFiniteSet(S)
    PROVE  /\ Cardinality(S) \in Nat
           /\ SetToSeq(S) \in [1 .. Cardinality(S) -> S]
           /\ \A j, k \in 1 .. Cardinality(S) : SetToSeq(S)[j] = SetToSeq(S)[k] => j = k
           /\ \A i \in S : \E k \in 1 .. Cardinality(S) : SetToSeq(S)[k] = i
<1> DEFINE n == Cardinality(S)
           s == SetToSeq(S)
<1>1. n \in Nat /\ ExistsBijection(1 .. n, S)
  BY FS_CardinalityType
<1>2. \E f \in [1 .. n -> S] : IsInjective(f)
  BY <1>1 DEF ExistsBijection, Bijection, Injection
<1>3. s \in [1 .. n -> S] /\ IsInjective(s)
  BY <1>2 DEF SetToSeq
<1> HIDE DEF s
<1>4. s \in Injection(1 .. n, S)
  BY <1>3 DEF Injection
<1>5. IsFiniteSet(1 .. n) /\ Cardinality(1 .. n) = n
  BY <1>1, FS_Interval
<1>6. Cardinality(1 .. n) = Cardinality(S) <=> s \in Surjection(1 .. n, S)
  BY <1>1, <1>4, FS_Injection
<1>7. \A i \in S : \E k \in 1 .. n : s[k] = i
  BY <1>5, <1>6 DEF Surjection
<1>8. \A j, k \in 1 .. n : s[j] = s[k] => j = k
  BY <1>3 DEF IsInjective
<1> QED
  BY <1>1, <1>3, <1>7, <1>8 DEF s

\* Of n elements in a strict total order, every k < n have one with k before it,
\* and no other has as many.
LEMMA RanksTaken ==
    ASSUME NEW S, IsFiniteSet(S), NEW R,
           \A a, b \in S : a = b \/ <<a, b>> \in R \/ <<b, a>> \in R,
           \A a, b \in S : ~(<<a, b>> \in R /\ <<b, a>> \in R),
           \A a, b, c \in S : <<a, b>> \in R /\ <<b, c>> \in R => <<a, c>> \in R
    PROVE  /\ Cardinality(S) \in Nat
           /\ \A k \in 1 .. Cardinality(S) :
                 \E x \in S : Cardinality({y \in S : <<y, x>> \in R}) = k - 1
           /\ \A x \in S : Cardinality({y \in S : <<y, x>> \in R}) \in 0 .. Cardinality(S) - 1
           /\ \A x, z \in S : Cardinality({y \in S : <<y, x>> \in R})
                                  = Cardinality({y \in S : <<y, z>> \in R}) => x = z
<1> DEFINE Before(T, x) == {y \in T : <<y, x>> \in R}
           P == {T \in SUBSET S : \A k \in 1 .. Cardinality(T) :
                                     \E x \in T : Cardinality(Before(T, x)) = k - 1}
           Q == {p \in S \X S : <<p[2], p[1]>> \in R}
<1>1. \A a, b \in S : <<a, b>> \in Q <=> <<b, a>> \in R
  OBVIOUS
<1> HIDE DEF Q
<1>2. \A T \in SUBSET S : T # {} => \E a \in T : \A b \in T \ {a} : <<a, b>> \in Q
  <2>1. \A a, b \in S : a = b \/ <<a, b>> \in Q \/ <<b, a>> \in Q
    BY <1>1
  <2>2. \A a, b, c \in S : <<a, b>> \in Q /\ <<b, c>> \in Q => <<a, c>> \in Q
    BY <1>1
  <2> QED
    BY <2>1, <2>2, FirstExists
<1>3. \A T \in SUBSET S : T # {} => \E a \in T : \A b \in T \ {a} : <<b, a>> \in R
  BY <1>1, <1>2
<1>4. \A T \in SUBSET S, x \in S : IsFiniteSet(T) /\ IsFiniteSet(Before(T, x))
  <2> SUFFICES ASSUME NEW T \in SUBSET S, NEW x \in S
               PROVE  IsFiniteSet(T) /\ IsFiniteSet(Before(T, x))
    OBVIOUS
  <2>1. Before(T, x) \in SUBSET S
    OBVIOUS
  <2> QED
    BY <2>1, FS_Subset
<1>5. ASSUME NEW T \in SUBSET S, \A x \in T : T \ {x} \in P PROVE T \in P
  <2> SUFFICES ASSUME NEW k \in 1 .. Cardinality(T)
               PROVE  \E x \in T : Cardinality(Before(T, x)) = k - 1
    BY DEF P
  <2>1. IsFiniteSet(T) /\ Cardinality(T) \in Nat
    BY <1>4, FS_CardinalityType, FS_Subset
  <2>2. T # {}
    BY <2>1, FS_EmptySet
  <2>3. PICK a \in T : \A b \in T \ {a} : <<b, a>> \in R
    BY <1>3, <2>2
  <2>4. Cardinality(T \ {a}) = Cardinality(T) - 1
    BY <2>1, FS_RemoveElement
  <2>5. CASE k = Cardinality(T)
    <3>1. Before(T, a) = T \ {a}
      BY <2>3
    <3> QED
      BY <2>1, <2>4, <2>5, <3>1
  <2>6. CASE k # Cardinality(T)
    <3>1. k \in 1 .. Cardinality(T \ {a})
      BY <2>1, <2>4, <2>6
    <3>2. PICK x \in T \ {a} : Cardinality(Before(T \ {a}, x)) = k - 1
      BY <1>5, <3>1
    <3>3. <<a, x>> \notin R
      BY <2>3
    <3>4. Before(T \ {a}, x) = Before(T, x)
      BY <3>3
    <3> QED
      BY <3>2, <3>4
  <2> QED
    BY <2>5, <2>6
<1> HIDE DEF P
<1>6. \A T \in SUBSET S : T \in P
  BY <1>5, SubsetInduction
<1>7. Cardinality(S) \in Nat
  BY FS_CardinalityType
<1>8. ASSUME NEW x \in S PROVE Cardinality(Before(S, x)) \in 0 .. (Cardinality(S) - 1)
  <2>1. Before(S, x) \in SUBSET (S \ {x})
    OBVIOUS
  <2>2. IsFiniteSet(S \ {x}) /\ Cardinality(S \ {x}) = Cardinality(S) - 1
    BY FS_RemoveElement
  <2> HIDE DEF Before
  <2>3. Cardinality(Before(S, x)) <= Cardinality(S) - 1 /\ IsFiniteSet(Before(S, x))
    BY <2>1, <2>2, FS_Subset
  <2>4. Cardinality(Before(S, x)) \in Nat
    BY <2>3, FS_CardinalityType
  <2> QED
    BY <1>7, <2>3, <2>4
<1>9. ASSUME NEW x \in S, NEW z \in S, <<x, z>> \in R
      PROVE  Cardinality(Before(S, x)) < Cardinality(Before(S, z))
  <2>1. Before(S, x) \in SUBSET (Before(S, z) \ {x})
    BY <1>9
  <2>2. x \in Before(S, z) /\ IsFiniteSet(Before(S, z))
    BY <1>4, <1>9
  <2> HIDE DEF Before
  <2>3. /\ IsFiniteSet(Before(S, z) \ {x})
        /\ Cardinality(Before(S, z) \ {x}) = Cardinality(Before(S, z)) - 1
    BY <2>2, FS_RemoveElement
  <2>4. Cardinality(Before(S, x)) <= Cardinality(Before(S, z)) - 1
    BY <2>1, <2>3, FS_Subset
  <2>5. Cardinality(Before(S, x)) \in Int /\ Cardinality(Before(S, z)) \in Int
    BY <1>7, <1>8
  <2> QED
    BY <2>4, <2>5
<1>10. ASSUME NEW x \in S, NEW z \in S, Cardinality(Before(S, x)) = Cardinality(Before(S, z))
       PROVE  x = z
  <2>1. Cardinality(Before(S, x)) \in Int
    BY <1>7, <1>8
  <2>2. ~(<<x, z>> \in R) /\ ~(<<z, x>> \in R)
    <3> HIDE DEF Before
    <3> QED
      BY <1>9, <1>10, <2>1
  <2> QED
    BY <2>2
<1> QED
  BY <1>6, <1>7, <1>8, <1>10 DEF P

\* g is the first n sequences put together, for every n.
AreJoined(g, seqs, n) ==
    g = [i \in 1 .. n |-> IF i = 1 THEN seqs[i] ELSE g[i - 1] \o seqs[i]]

Joined(seqs) == CHOOSE g : AreJoined(g, seqs, Len(seqs))

\* Flattening puts the sequences together one by one.
LEMMA FlattenSteps ==
    ASSUME NEW seqs, Len(seqs) \in Nat \ {0}
    PROVE  /\ FlattenSeq(seqs) = Joined(seqs)[Len(seqs)]
           /\ Joined(seqs)[1] = seqs[1]
           /\ \A i \in 2 .. Len(seqs) : Joined(seqs)[i] = Joined(seqs)[i - 1] \o seqs[i]
<1> DEFINE T == {n \in Nat : \E g : AreJoined(g, seqs, n)}
<1>1. 0 \in T
  <2> DEFINE g == [i \in 1 .. 0 |-> IF i = 1 THEN seqs[i] ELSE {} \o seqs[i]]
  <2>1. g = [i \in 1 .. 0 |-> IF i = 1 THEN seqs[i] ELSE g[i - 1] \o seqs[i]]
    OBVIOUS
  <2>2. AreJoined(g, seqs, 0)
    BY <2>1 DEF AreJoined
  <2> QED
    BY <2>2
<1>2. ASSUME NEW n \in Nat, n \in T PROVE n + 1 \in T
  <2>1. PICK g : AreJoined(g, seqs, n)
    BY <1>2
  <2> DEFINE h == [i \in 1 .. n + 1 |-> IF i = 1 THEN seqs[i] ELSE g[i - 1] \o seqs[i]]
             body == [i \in 1 .. n |-> IF i = 1 THEN seqs[i] ELSE g[i - 1] \o seqs[i]]
  <2>2. g = body
    BY <2>1 DEF AreJoined
  <2>3. \A i \in 1 .. n : h[i] = body[i]
    OBVIOUS
  <2>4. \A i \in 1 .. n : h[i] = g[i]
    <3> HIDE DEF h, body
    <3> QED
      BY <2>2, <2>3
  <2>5. \A i \in 1 .. n + 1 : i # 1 => i - 1 \in 1 .. n
    OBVIOUS
  <2>6. h = [i \in 1 .. n + 1 |-> IF i = 1 THEN seqs[i] ELSE h[i - 1] \o seqs[i]]
    BY <2>4, <2>5
  <2>7. AreJoined(h, seqs, n + 1)
    BY <2>6 DEF AreJoined
  <2> QED
    BY <2>7
<1> HIDE DEF T
<1>3. Len(seqs) \in T
  BY <1>1, <1>2, NatSetInduction
<1> DEFINE g == Joined(seqs)
           n == Len(seqs)
<1>4. AreJoined(g, seqs, n)
  BY <1>3 DEF T, Joined
<1>5. FlattenSeq(seqs) = g[n]
  BY DEF FlattenSeq, Joined, AreJoined
<1> HIDE DEF g, n
<1> DEFINE body == [i \in 1 .. n |-> IF i = 1 THEN seqs[i] ELSE g[i - 1] \o seqs[i]]
<1>6. g = body
  BY <1>4 DEF AreJoined
<1>7. n \in Nat \ {0}
  BY DEF n
<1>8. body[1] = seqs[1] /\ \A i \in 2 .. n : body[i] = g[i - 1] \o seqs[i]
  <2>1. \A i \in 1 .. n : body[i] = IF i = 1 THEN seqs[i] ELSE g[i - 1] \o seqs[i]
    OBVIOUS
  <2>2. 1 \in 1 .. n /\ \A i \in 2 .. n : i \in 1 .. n /\ i # 1
    BY <1>7
  <2> HIDE DEF body
  <2>3. body[1] = seqs[1]
    BY <2>1, <2>2
  <2>4. \A i \in 2 .. n : body[i] = g[i - 1] \o seqs[i]
    BY <2>1, <2>2
  <2> QED
    BY <2>3, <2>4
<1> HIDE DEF body
<1>9. g[1] = seqs[1] /\ \A i \in 2 .. n : g[i] = g[i - 1] \o seqs[i]
  BY <1>6, <1>8
<1> QED
  BY <1>5, <1>9 DEF g, n

\* A row of a table is replaced.
LEMMA RowReplaced ==
    ASSUME NEW S, NEW s \in Seq(S), NEW k \in DOMAIN s, NEW r \in S
    PROVE  LET new == [s EXCEPT ![k] = r] IN
           /\ new \in Seq(S) /\ DOMAIN new = DOMAIN s /\ Len(new) = Len(s)
           /\ \A j \in DOMAIN s : new[j] = IF j = k THEN r ELSE s[j]
OBVIOUS

\* A row is added to a table.
LEMMA RowAdded ==
    ASSUME NEW S, NEW s \in Seq(S), NEW r \in S
    PROVE  LET new == Append(s, r) IN
           /\ new \in Seq(S) /\ Len(new) = Len(s) + 1
           /\ DOMAIN s = 1 .. Len(s) /\ DOMAIN new = (DOMAIN s) \cup {Len(s) + 1}
           /\ Len(s) + 1 \notin DOMAIN s
           /\ \A j \in DOMAIN s : new[j] = s[j]
           /\ new[Len(s) + 1] = r
<1>1. Len(s) \in Nat
  OBVIOUS
<1> QED
  BY <1>1

\* The rows of a table are of its type, and finite in number.
LEMMA RowsOfTable ==
    ASSUME NEW S, NEW s \in Seq(S)
    PROVE  /\ Len(s) \in Nat /\ DOMAIN s = 1 .. Len(s) /\ IsFiniteSet(DOMAIN s)
           /\ \A k \in DOMAIN s : s[k] \in S
<1>1. Len(s) \in Nat /\ DOMAIN s = 1 .. Len(s)
  OBVIOUS
<1>2. IsFiniteSet(1 .. Len(s))
  BY <1>1, FS_Interval
<1> QED
  BY <1>1, <1>2


-----------------------------------------------------------------------------
(* Lists: sequences that name each element of a set once.                  *)

Lists(p, S) ==
    /\ p \in Seq(S)
    /\ \A j, k \in DOMAIN p : p[j] = p[k] => j = k
    /\ \A x \in S : \E k \in DOMAIN p : p[k] = x

\* When the first entry has been taken off, the others are listed.
LEMMA ListAdvances ==
    ASSUME NEW S, NEW p, Lists(p, S), p # <<>>
    PROVE  Head(p) \in S /\ Lists(Tail(p), S \ {Head(p)})
<1>1. /\ p \in Seq(S) /\ Len(p) \in Nat /\ Len(p) > 0 /\ DOMAIN p = 1 .. Len(p)
      /\ \A j, k \in DOMAIN p : p[j] = p[k] => j = k
      /\ \A x \in S : \E k \in DOMAIN p : p[k] = x
  BY DEF Lists
<1>2. Head(p) = p[1] /\ Head(p) \in S
  BY <1>1
<1> DEFINE n == Len(p)
           q == Tail(p)
<1>3. /\ q \in Seq(S) /\ DOMAIN q = 1 .. n - 1 /\ \A k \in 1 .. n - 1 : q[k] = p[k + 1]
  BY <1>1
<1> HIDE DEF n, q
<1>4. \A k \in 1 .. n - 1 : k + 1 \in DOMAIN p /\ 1 \in DOMAIN p /\ k + 1 # 1
  BY <1>1 DEF n
<1>5. \A k \in DOMAIN q : q[k] \in S \ {p[1]}
  <2> SUFFICES ASSUME NEW k \in DOMAIN q PROVE q[k] \in S \ {p[1]}
    OBVIOUS
  <2>1. q[k] = p[k + 1] /\ k + 1 \in DOMAIN p /\ k + 1 # 1 /\ 1 \in DOMAIN p
    BY <1>3, <1>4
  <2>2. p[k + 1] \in S /\ p[k + 1] # p[1]
    BY <1>1, <2>1
  <2> QED
    BY <2>1, <2>2
<1>6. q \in Seq(S \ {p[1]})
  <2>1. n - 1 \in Nat
    BY <1>1 DEF n
  <2>2. q \in [1 .. n - 1 -> S \ {p[1]}]
    BY <1>3, <1>5
  <2> QED
    BY <2>1, <2>2
<1>7. \A j, k \in DOMAIN q : q[j] = q[k] => j = k
  <2> SUFFICES ASSUME NEW j \in DOMAIN q, NEW k \in DOMAIN q, q[j] = q[k] PROVE j = k
    OBVIOUS
  <2>1. p[j + 1] = p[k + 1] /\ j + 1 \in DOMAIN p /\ k + 1 \in DOMAIN p /\ j \in Int /\ k \in Int
    BY <1>3, <1>4
  <2>2. j + 1 = k + 1
    BY <1>1, <2>1
  <2> QED
    BY <2>1, <2>2
<1>8. \A x \in S \ {p[1]} : \E k \in DOMAIN q : q[k] = x
  <2> SUFFICES ASSUME NEW x \in S \ {p[1]} PROVE \E k \in DOMAIN q : q[k] = x
    OBVIOUS
  <2>1. PICK k \in DOMAIN p : p[k] = x
    BY <1>1
  <2>2. k \in 1 .. n /\ k # 1 /\ n \in Nat
    BY <1>1, <2>1 DEF n
  <2>3. k - 1 \in 1 .. n - 1 /\ (k - 1) + 1 = k
    BY <2>2
  <2> QED
    BY <1>3, <2>1, <2>3
<1> QED
  BY <1>2, <1>6, <1>7, <1>8 DEF Lists, q

\* An empty list is one of the empty set.
LEMMA EmptyListed ==
    ASSUME NEW S
    PROVE  Lists(<<>>, S) => S = {}
BY DEF Lists

\* SetToSeq is a list of its set.
LEMMA SetIsListed ==
    ASSUME NEW S, IsFiniteSet(S)
    PROVE  Lists(SetToSeq(S), S)
<1> DEFINE n == Cardinality(S)
           p == SetToSeq(S)
<1>1. /\ n \in Nat /\ p \in [1 .. n -> S]
      /\ \A j, k \in 1 .. n : p[j] = p[k] => j = k
      /\ \A i \in S : \E k \in 1 .. n : p[k] = i
  BY SetListed
<1> HIDE DEF n, p
<1>2. p \in Seq(S) /\ DOMAIN p = 1 .. n
  BY <1>1
<1> QED
  BY <1>1, <1>2 DEF Lists, p

\* Numbers, each at the place it takes by its time and then by itself.
ByTime(S, t) ==
    [k \in 1 .. Cardinality(S) |->
        CHOOSE x \in S : Cardinality({y \in S : \/ t[y] < t[x]
                                                \/ t[y] = t[x] /\ y < x}) = k - 1]

\* They are all listed.
LEMMA NumbersListed ==
    ASSUME NEW S \in SUBSET Nat, IsFiniteSet(S), NEW t, \A k \in S : t[k] \in Int
    PROVE  Lists(ByTime(S, t), S)
<1> DEFINE R == {d \in S \X S : t[d[1]] < t[d[2]] \/ (t[d[1]] = t[d[2]] /\ d[1] < d[2])}
           First(x) == {y \in S : t[y] < t[x] \/ (t[y] = t[x] /\ y < x)}
           n == Cardinality(S)
           p == [k \in 1 .. n |-> CHOOSE x \in S : Cardinality(First(x)) = k - 1]
<1>1. \A a, b \in S : <<a, b>> \in R <=> (t[a] < t[b] \/ (t[a] = t[b] /\ a < b))
  OBVIOUS
<1>2. /\ \A a, b \in S : a = b \/ <<a, b>> \in R \/ <<b, a>> \in R
      /\ \A a, b \in S : ~(<<a, b>> \in R /\ <<b, a>> \in R)
      /\ \A a, b, c \in S : <<a, b>> \in R /\ <<b, c>> \in R => <<a, c>> \in R
  <2> HIDE DEF R
  <2>1. ASSUME NEW a \in S, NEW b \in S
        PROVE  /\ a = b \/ <<a, b>> \in R \/ <<b, a>> \in R
               /\ ~(<<a, b>> \in R /\ <<b, a>> \in R)
    <3>1. a \in Nat /\ b \in Nat /\ t[a] \in Int /\ t[b] \in Int
      OBVIOUS
    <3>2. /\ <<a, b>> \in R <=> (t[a] < t[b] \/ (t[a] = t[b] /\ a < b))
          /\ <<b, a>> \in R <=> (t[b] < t[a] \/ (t[b] = t[a] /\ b < a))
      BY <1>1
    <3> QED
      BY <3>1, <3>2
  <2>2. ASSUME NEW a \in S, NEW b \in S, NEW c \in S, <<a, b>> \in R, <<b, c>> \in R
        PROVE  <<a, c>> \in R
    <3>1. /\ a \in Nat /\ b \in Nat /\ c \in Nat
          /\ t[a] \in Int /\ t[b] \in Int /\ t[c] \in Int
      OBVIOUS
    <3>2. /\ t[a] < t[b] \/ (t[a] = t[b] /\ a < b)
          /\ t[b] < t[c] \/ (t[b] = t[c] /\ b < c)
          /\ <<a, c>> \in R <=> (t[a] < t[c] \/ (t[a] = t[c] /\ a < c))
      BY <1>1, <2>2
    <3> QED
      BY <3>1, <3>2
  <2> QED
    BY <2>1, <2>2
<1>3. \A x \in S : {y \in S : <<y, x>> \in R} = First(x)
  BY <1>1
<1> HIDE DEF R
<1>4. /\ n \in Nat
      /\ \A k \in 1 .. n : \E x \in S : Cardinality({y \in S : <<y, x>> \in R}) = k - 1
      /\ \A x \in S : Cardinality({y \in S : <<y, x>> \in R}) \in 0 .. n - 1
      /\ \A x, z \in S : Cardinality({y \in S : <<y, x>> \in R})
                             = Cardinality({y \in S : <<y, z>> \in R}) => x = z
  BY <1>2, RanksTaken
<1> HIDE DEF n, First
<1>5. /\ \A k \in 1 .. n : \E x \in S : Cardinality(First(x)) = k - 1
      /\ \A x \in S : Cardinality(First(x)) \in 0 .. n - 1
      /\ \A x, z \in S : Cardinality(First(x)) = Cardinality(First(z)) => x = z
  BY <1>3, <1>4
<1>6. \A k \in 1 .. n : p[k] \in S /\ Cardinality(First(p[k])) = k - 1
  BY <1>5
<1>7. p \in [1 .. n -> S]
  BY <1>6
<1> HIDE DEF p
<1>8. DOMAIN p = 1 .. n /\ p \in Seq(S)
  BY <1>4, <1>7
<1>9. \A j, k \in DOMAIN p : p[j] = p[k] => j = k
  <2> SUFFICES ASSUME NEW j \in 1 .. n, NEW k \in 1 .. n, p[j] = p[k] PROVE j = k
    BY <1>8
  <2>1. j - 1 = k - 1 /\ j \in Int /\ k \in Int
    BY <1>4, <1>6
  <2> QED
    BY <2>1
<1>10. \A x \in S : \E k \in DOMAIN p : p[k] = x
  <2> SUFFICES ASSUME NEW x \in S PROVE \E k \in 1 .. n : p[k] = x
    BY <1>8
  <2>1. \E c \in 0 .. n - 1 : c = Cardinality(First(x))
    BY <1>5
  <2>2. PICK c \in 0 .. n - 1 : c = Cardinality(First(x))
    BY <2>1
  <2>3. c + 1 \in 1 .. n /\ (c + 1) - 1 = c
    BY <1>4
  <2>4. Cardinality(First(p[c + 1])) = c /\ p[c + 1] \in S
    BY <1>6, <2>3
  <2>5. p[c + 1] = x
    BY <1>5, <2>2, <2>4
  <2> QED
    BY <2>3, <2>5
<1> QED
  BY <1>8, <1>9, <1>10 DEF Lists, ByTime, p, First, n

\* A sum over what a list names is the sum over the places of the list.
LEMMA SumListed ==
    ASSUME NEW S, IsFiniteSet(S), NEW p, Lists(p, S), NEW f, \A x \in S : f[x] \in Int
    PROVE  SumFunction([k \in DOMAIN p |-> f[p[k]]]) = SumFunctionOnSet(f, S)
<1> DEFINE g == [k \in DOMAIN p |-> f[p[k]]]
           At(T) == {k \in DOMAIN p : p[k] \in T}
           P == {T \in SUBSET S : SumFunctionOnSet(g, At(T)) = SumFunctionOnSet(f, T)}
<1>1. /\ IsFiniteSet(DOMAIN p) /\ \A k \in DOMAIN p : p[k] \in S
      /\ \A j, k \in DOMAIN p : p[j] = p[k] => j = k
      /\ \A x \in S : \E k \in DOMAIN p : p[k] = x
  BY RowsOfTable DEF Lists
<1>2. ASSUME NEW T \in SUBSET S, \A x \in T : T \ {x} \in P PROVE T \in P
  <2>1. CASE T = {}
    <3>1. At(T) = {}
      BY <2>1
    <3> HIDE DEF g, At
    <3> QED
      BY <2>1, <3>1, SumEmpty DEF P
  <2>2. CASE T # {}
    <3>1. PICK x \in T : TRUE
      BY <2>2
    <3>2. PICK k \in DOMAIN p : p[k] = x
      BY <1>1, <3>1
    <3>3. k \in At(T) /\ At(T \ {x}) = At(T) \ {k} /\ g[k] = f[x]
      BY <1>1, <3>1, <3>2
    <3>4. IsFiniteSet(T) /\ IsFiniteSet(At(T)) /\ (\A y \in T : f[y] \in Int)
          /\ (\A j \in At(T) : g[j] \in Int)
      <4>1. At(T) \subseteq DOMAIN p
        OBVIOUS
      <4>2. \A j \in At(T) : g[j] \in Int
        BY <1>1
      <4> QED
        BY <1>1, <4>1, <4>2, FS_Subset
    <3>5. SumFunctionOnSet(g, At(T \ {x})) = SumFunctionOnSet(f, T \ {x})
      BY <1>2, <3>1
    <3> HIDE DEF g, At
    <3>6. SumFunctionOnSet(f, T) = f[x] + SumFunctionOnSet(f, T \ {x})
      BY <3>1, <3>4, SumSplits
    <3>7. SumFunctionOnSet(g, At(T)) = g[k] + SumFunctionOnSet(g, At(T) \ {k})
      BY <3>3, <3>4, SumSplits
    <3> QED
      BY <3>3, <3>5, <3>6, <3>7 DEF P
  <2> QED
    BY <2>1, <2>2
<1>3. At(S) = DOMAIN p /\ DOMAIN g = DOMAIN p
  BY <1>1
<1> HIDE DEF P, At
<1>4. \A T \in SUBSET S : T \in P
  BY <1>2, SubsetInduction
<1>5. SumFunctionOnSet(g, At(S)) = SumFunctionOnSet(f, S)
  BY <1>4 DEF P
<1> QED
  BY <1>3, <1>5 DEF SumFunction

\* A sum of products lies between what the least and the greatest factor give.
LEMMA SumBetween ==
    ASSUME NEW S, IsFiniteSet(S), NEW f, NEW g, NEW low \in Int, NEW high \in Int,
           \A x \in S : /\ f[x] \in Int /\ g[x] \in Int
                        /\ low * g[x] <= f[x] /\ f[x] <= high * g[x]
    PROVE  /\ low * SumFunctionOnSet(g, S) <= SumFunctionOnSet(f, S)
           /\ SumFunctionOnSet(f, S) <= high * SumFunctionOnSet(g, S)
<1> DEFINE P == {T \in SUBSET S : /\ low * SumFunctionOnSet(g, T) <= SumFunctionOnSet(f, T)
                                  /\ SumFunctionOnSet(f, T) <= high * SumFunctionOnSet(g, T)}
<1>1. ASSUME NEW T \in SUBSET S, \A x \in T : T \ {x} \in P PROVE T \in P
  <2>1. CASE T = {}
    <3>1. SumFunctionOnSet(f, T) = 0 /\ SumFunctionOnSet(g, T) = 0
      BY <2>1, SumEmpty
    <3>2. low * 0 = 0 /\ high * 0 = 0
      OBVIOUS
    <3> QED
      BY <3>1, <3>2
  <2>2. CASE T # {}
    <3>1. PICK x \in T : TRUE
      BY <2>2
    <3>2. /\ IsFiniteSet(T) /\ IsFiniteSet(T \ {x})
          /\ (\A y \in T : f[y] \in Int /\ g[y] \in Int)
          /\ (\A y \in T \ {x} : f[y] \in Int /\ g[y] \in Int)
      BY FS_Subset
    <3> DEFINE F == SumFunctionOnSet(f, T \ {x})
               G == SumFunctionOnSet(g, T \ {x})
    <3>3. SumFunctionOnSet(f, T) = f[x] + F /\ F \in Int
      BY <3>1, <3>2, SumSplits, SumInt
    <3>4. SumFunctionOnSet(g, T) = g[x] + G /\ G \in Int
      BY <3>1, <3>2, SumSplits, SumInt
    <3>5. low * G <= F /\ F <= high * G
      BY <1>1, <3>1
    <3>6. low * g[x] <= f[x] /\ f[x] <= high * g[x] /\ f[x] \in Int /\ g[x] \in Int
      BY <3>1
    <3> HIDE DEF F, G
    <3>7. \A a, b, c, d, e \in Int : a * b <= c /\ a * d <= e => a * (b + d) <= c + e
      OBVIOUS
    <3>8. \A a, b, c, d, e \in Int : c <= a * b /\ e <= a * d => c + e <= a * (b + d)
      OBVIOUS
    <3>9. low * (g[x] + G) <= f[x] + F
      BY <3>3, <3>4, <3>5, <3>6, <3>7
    <3>10. f[x] + F <= high * (g[x] + G)
      BY <3>3, <3>4, <3>5, <3>6, <3>8
    <3> QED
      BY <3>3, <3>4, <3>9, <3>10
  <2> QED
    BY <2>1, <2>2
<1> HIDE DEF P
<1>2. \A T \in SUBSET S : T \in P
  BY <1>1, SubsetInduction
<1> QED
  BY <1>2 DEF P

\* The values of a function with a finite domain are finitely many.
LEMMA ImageFinite ==
    ASSUME NEW f, IsFiniteSet(DOMAIN f)
    PROVE  IsFiniteSet({f[x] : x \in DOMAIN f})
<1> DEFINE S == DOMAIN f
           T == {f[x] : x \in S}
           g == [x \in S |-> f[x]]
<1>1. g \in Surjection(S, T)
  BY DEF Surjection
<1> QED
  BY <1>1, FS_Surjection

\* Sequences joined one after the other are a sequence of their elements.
LEMMA FlattenTyped ==
    ASSUME NEW S, NEW n \in Nat, NEW seqs \in [1 .. n -> Seq(S)]
    PROVE  FlattenSeq(seqs) \in Seq(S)
<1>1. Len(seqs) = n
  OBVIOUS
<1>2. CASE n = 0
  <2>1. FlattenSeq(seqs) = seqs
    BY <1>1, <1>2 DEF FlattenSeq
  <2>2. seqs \in [1 .. 0 -> S]
    BY <1>2
  <2> QED
    BY <2>1, <2>2
<1>3. CASE n # 0
  <2> DEFINE T == {k \in Nat : k + 1 <= n => Joined(seqs)[k + 1] \in Seq(S)}
  <2>1. /\ FlattenSeq(seqs) = Joined(seqs)[n]
        /\ Joined(seqs)[1] = seqs[1]
        /\ \A i \in 2 .. n : Joined(seqs)[i] = Joined(seqs)[i - 1] \o seqs[i]
    BY <1>1, <1>3, FlattenSteps
  <2>2. 0 \in T
    BY <2>1
  <2>3. ASSUME NEW k \in Nat, k \in T PROVE k + 1 \in T
    <3>1. SUFFICES ASSUME k + 2 <= n PROVE Joined(seqs)[k + 2] \in Seq(S)
      OBVIOUS
    <3>2. Joined(seqs)[k + 2] = Joined(seqs)[k + 1] \o seqs[k + 2]
      <4>1. k + 2 \in 2 .. n /\ (k + 2) - 1 = k + 1
        BY <3>1
      <4> QED
        BY <2>1, <4>1
    <3>3. Joined(seqs)[k + 1] \in Seq(S) /\ seqs[k + 2] \in Seq(S)
      BY <2>3, <3>1
    <3> QED
      BY <3>2, <3>3
  <2> HIDE DEF T
  <2>4. Nat \subseteq T
    BY <2>2, <2>3, NatSetInduction
  <2>5. n - 1 \in Nat
    BY <1>3
  <2>6. Joined(seqs)[(n - 1) + 1] \in Seq(S)
    <3>1. (n - 1) + 1 <= n
      OBVIOUS
    <3> QED
      BY <2>4, <2>5, <3>1 DEF T
  <2>7. (n - 1) + 1 = n
    OBVIOUS
  <2> QED
    BY <2>1, <2>6, <2>7
<1> QED
  BY <1>2, <1>3

-----------------------------------------------------------------------------
(* Payments out of an amount.                                              *)

\* The amount a lasts for the payments s, one after the other, and b is left.
Lasts(a, s, b) ==
    \E m \in [0 .. Len(s) -> Int] :
        /\ m[0] = a /\ m[Len(s)] = b
        /\ \A k \in 1 .. Len(s) : m[k] = m[k - 1] - s[k] /\ (s[k] > 0 => m[k] >= 0)

\* An amount lasts when there is nothing to pay.
LEMMA LastsUnused ==
    ASSUME NEW a \in Int, NEW s \in Seq(Nat), \A k \in DOMAIN s : s[k] = 0
    PROVE  Lasts(a, s, a)
<1> DEFINE n == Len(s)
           m == [k \in 0 .. n |-> a]
<1>1. n \in Nat /\ \A k \in 1 .. n : s[k] = 0
  OBVIOUS
<1> HIDE DEF n
<1>2. m \in [0 .. n -> Int] /\ m[0] = a /\ m[n] = a
  BY <1>1
<1>3. \A k \in 1 .. n : m[k] = m[k - 1] - s[k] /\ (s[k] > 0 => m[k] >= 0)
  BY <1>1
<1> HIDE DEF m
<1> QED
  BY <1>2, <1>3 DEF Lasts, n

\* It lasts for one payment more, when what is left is enough for it.
LEMMA LastsLonger ==
    ASSUME NEW a \in Int, NEW b \in Int, NEW s \in Seq(Nat), NEW x \in Nat, Lasts(a, s, b),
           x > 0 => x <= b
    PROVE  Lasts(a, Append(s, x), b - x)
<1> DEFINE n == Len(s)
           t == Append(s, x)
<1>1. n \in Nat /\ Len(t) = n + 1 /\ t[n + 1] = x /\ \A k \in 1 .. n : t[k] = s[k] /\ s[k] \in Nat
  OBVIOUS
<1>2. PICK m \in [0 .. n -> Int] :
        /\ m[0] = a /\ m[n] = b
        /\ \A k \in 1 .. n : m[k] = m[k - 1] - s[k] /\ (s[k] > 0 => m[k] >= 0)
  BY DEF Lasts
<1> DEFINE h == [k \in 0 .. n + 1 |-> IF k = n + 1 THEN b - x ELSE m[k]]
<1> HIDE DEF n, t
<1>3. \A k \in 0 .. n : k # n + 1 /\ k \in 0 .. n + 1
  BY <1>1
<1>4. \A k \in 0 .. n + 1 : k # n + 1 => k \in 0 .. n
  BY <1>1
<1>5. h[n + 1] = b - x /\ \A k \in 0 .. n : h[k] = m[k]
  BY <1>1, <1>3
<1>6. h \in [0 .. n + 1 -> Int]
  BY <1>1, <1>2, <1>4
<1> HIDE DEF h
<1>7. ASSUME NEW k \in 1 .. n + 1
      PROVE  h[k] = h[k - 1] - t[k] /\ (t[k] > 0 => h[k] >= 0)
  <2>1. CASE k = n + 1
    <3>1. k - 1 = n /\ n \in 0 .. n
      BY <1>1, <2>1
    <3>2. h[k] = b - x /\ h[k - 1] = b /\ t[k] = x
      BY <1>1, <1>2, <1>5, <2>1, <3>1
    <3> QED
      BY <3>2
  <2>2. CASE k # n + 1
    <3>1. k \in 1 .. n /\ k \in 0 .. n /\ k - 1 \in 0 .. n
      BY <1>1, <2>2
    <3>2. h[k] = m[k] /\ h[k - 1] = m[k - 1] /\ t[k] = s[k]
      BY <1>1, <1>5, <3>1
    <3> QED
      BY <1>2, <3>1, <3>2
  <2> QED
    BY <2>1, <2>2
<1>8. h[0] = a
  BY <1>1, <1>2, <1>5
<1> QED
  BY <1>1, <1>5, <1>6, <1>7, <1>8 DEF Lasts, t

\* What is left lasts for further payments.
LEMMA LastsJoined ==
    ASSUME NEW a \in Int, NEW b \in Int, NEW c \in Int, NEW s \in Seq(Nat), NEW t \in Seq(Nat),
           Lasts(a, s, b), Lasts(b, t, c)
    PROVE  Lasts(a, s \o t, c)
<1> DEFINE n == Len(s)
           o == Len(t)
           u == s \o t
<1>1. /\ n \in Nat /\ o \in Nat /\ Len(u) = n + o /\ \A k \in 1 .. n : u[k] = s[k]
      /\ \A k \in 1 .. n + o : k > n => u[k] = t[k - n]
  OBVIOUS
<1>2. PICK m \in [0 .. n -> Int] :
        /\ m[0] = a /\ m[n] = b
        /\ \A k \in 1 .. n : m[k] = m[k - 1] - s[k] /\ (s[k] > 0 => m[k] >= 0)
  BY DEF Lasts
<1>3. PICK l \in [0 .. o -> Int] :
        /\ l[0] = b /\ l[o] = c
        /\ \A k \in 1 .. o : l[k] = l[k - 1] - t[k] /\ (t[k] > 0 => l[k] >= 0)
  BY DEF Lasts
<1> DEFINE h == [k \in 0 .. n + o |-> IF k <= n THEN m[k] ELSE l[k - n]]
<1> HIDE DEF n, o, u
<1>4. \A k \in 0 .. n + o : k \in Int /\ (k <= n => k \in 0 .. n) /\ (~(k <= n) => k - n \in 0 .. o)
  BY <1>1
<1>5. h \in [0 .. n + o -> Int]
  BY <1>2, <1>3, <1>4
<1>6. \A k \in 0 .. n + o : h[k] = IF k <= n THEN m[k] ELSE l[k - n]
  OBVIOUS
<1> HIDE DEF h
<1>7. ASSUME NEW k \in 1 .. n + o
      PROVE  h[k] = h[k - 1] - u[k] /\ (u[k] > 0 => h[k] >= 0)
  <2>1. k \in 0 .. n + o /\ k - 1 \in 0 .. n + o
    BY <1>1
  <2>2. CASE k <= n
    <3>1. k \in 1 .. n /\ k - 1 <= n
      BY <1>1, <2>2
    <3>2. h[k] = m[k] /\ h[k - 1] = m[k - 1] /\ u[k] = s[k]
      BY <1>1, <1>6, <2>1, <2>2, <3>1
    <3> QED
      BY <1>2, <3>1, <3>2
  <2>3. CASE k = n + 1
    <3>1. k > n /\ ~(k <= n) /\ k - 1 = n /\ k - n = 1 /\ n <= n /\ 1 \in 1 .. o /\ 1 - 1 = 0
      BY <1>1, <2>3
    <3>2. h[k] = l[1] /\ h[k - 1] = b /\ u[k] = t[1]
      BY <1>1, <1>2, <1>6, <2>1, <3>1
    <3>3. l[1] = l[0] - t[1] /\ (t[1] > 0 => l[1] >= 0)
      BY <1>3, <3>1
    <3> QED
      BY <1>3, <3>2, <3>3
  <2>4. CASE k > n + 1
    <3>1. k > n /\ ~(k <= n) /\ ~(k - 1 <= n) /\ k - n \in 1 .. o /\ (k - 1) - n = (k - n) - 1
      BY <1>1, <2>4
    <3>2. h[k] = l[k - n] /\ h[k - 1] = l[(k - n) - 1] /\ u[k] = t[k - n]
      BY <1>1, <1>6, <2>1, <3>1
    <3> QED
      BY <1>3, <3>1, <3>2
  <2> QED
    BY <1>1, <2>2, <2>3, <2>4
<1>8. h[0] = a
  <2>1. 0 \in 0 .. n + o /\ 0 <= n
    BY <1>1
  <2> QED
    BY <1>2, <1>6, <2>1
<1>9. h[n + o] = c
  <2>1. n + o \in 0 .. n + o /\ (n + o) - n = o /\ (n + o <= n => n + o = n /\ o = 0)
    BY <1>1
  <2> QED
    BY <1>2, <1>3, <1>6, <2>1
<1> QED
  BY <1>1, <1>5, <1>7, <1>8, <1>9 DEF Lasts, u

\* The first payment can be made, and what is left then lasts for the others.
LEMMA LastsFirst ==
    ASSUME NEW a \in Int, NEW b, NEW s \in Seq(Nat), s # <<>>, Lasts(a, s, b)
    PROVE  /\ Head(s) \in Nat /\ (Head(s) > 0 => Head(s) <= a)
           /\ Lasts(a - Head(s), Tail(s), b)
<1> DEFINE n == Len(s)
           x == Head(s)
           t == Tail(s)
<1>1. /\ n \in Nat /\ n > 0 /\ x \in Nat /\ x = s[1] /\ Len(t) = n - 1
      /\ \A k \in 1 .. n - 1 : t[k] = s[k + 1]
  OBVIOUS
<1>2. PICK m \in [0 .. n -> Int] :
        /\ m[0] = a /\ m[n] = b
        /\ \A k \in 1 .. n : m[k] = m[k - 1] - s[k] /\ (s[k] > 0 => m[k] >= 0)
  BY DEF Lasts
<1> DEFINE h == [k \in 0 .. n - 1 |-> m[k + 1]]
<1> HIDE DEF n, x, t
<1>3. m[1] = m[0] - s[1] /\ (s[1] > 0 => m[1] >= 0)
  <2>1. 1 \in 1 .. n /\ 1 - 1 = 0
    BY <1>1
  <2> QED
    BY <1>2, <2>1
<1>4. x > 0 => x <= a
  BY <1>1, <1>2, <1>3
<1>5. \A k \in 0 .. n - 1 : k + 1 \in 0 .. n
  BY <1>1
<1>6. h \in [0 .. n - 1 -> Int]
  BY <1>2, <1>5
<1>7. \A k \in 0 .. n - 1 : h[k] = m[k + 1]
  OBVIOUS
<1> HIDE DEF h
<1>8. h[0] = a - x /\ h[n - 1] = b
  <2>1. 0 \in 0 .. n - 1 /\ 0 + 1 = 1 /\ n - 1 \in 0 .. n - 1 /\ (n - 1) + 1 = n
    BY <1>1
  <2> QED
    BY <1>1, <1>2, <1>3, <1>7, <2>1
<1>9. ASSUME NEW k \in 1 .. n - 1
      PROVE  h[k] = h[k - 1] - t[k] /\ (t[k] > 0 => h[k] >= 0)
  <2>1. /\ k \in 0 .. n - 1 /\ k - 1 \in 0 .. n - 1 /\ (k - 1) + 1 = k /\ k + 1 \in 1 .. n
        /\ (k + 1) - 1 = k
    BY <1>1
  <2>2. h[k] = m[k + 1] /\ h[k - 1] = m[k] /\ t[k] = s[k + 1]
    BY <1>1, <1>7, <2>1
  <2>3. m[k + 1] = m[(k + 1) - 1] - s[k + 1] /\ (s[k + 1] > 0 => m[k + 1] >= 0)
    BY <1>2, <2>1
  <2> QED
    BY <2>1, <2>2, <2>3
<1> QED
  BY <1>1, <1>4, <1>6, <1>8, <1>9 DEF Lasts, x, t

\* One table after another.
LEMMA RowsJoined ==
    ASSUME NEW S, NEW s \in Seq(S), NEW t \in Seq(S)
    PROVE  /\ s \o t \in Seq(S) /\ Len(s \o t) = Len(s) + Len(t)
           /\ \A k \in 1 .. Len(s) + Len(t) :
                 (s \o t)[k] = IF k <= Len(s) THEN s[k] ELSE t[k - Len(s)]
OBVIOUS

\* Sequences of the same length with the same entries are the same.
LEMMA SameSequence ==
    ASSUME NEW S, NEW s \in Seq(S), NEW t \in Seq(S), Len(s) = Len(t),
           \A k \in 1 .. Len(s) : s[k] = t[k]
    PROVE  s = t
OBVIOUS
=============================================================================
