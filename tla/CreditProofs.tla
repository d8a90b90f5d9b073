----------------------------- MODULE CreditProofs ----------------------------
(***************************************************************************)
(* Theorems about CreditCompiler and CreditConfusion: for every call that  *)
(* can be built, and for every probe, configuration and draw of a          *)
(* diagnostic.                                                             *)
(***************************************************************************)
EXTENDS CreditConfusion, FiniteSetTheorems, SequenceTheorems, TLAPS

-----------------------------------------------------------------------------
(***************************************************************************)
(* Sums over finite sets, by induction over the subsets of the set: a      *)
(* family of subsets without the set itself lacks a smallest one.          *)
(***************************************************************************)

(* A set of subsets of a finite set has a smallest element. *)
LEMMA SmallestSubset ==
    ASSUME NEW S, IsFiniteSet(S), NEW Family, Family \subseteq SUBSET S, Family # {}
    PROVE  \E T \in Family : \A U \in Family : U \subseteq T => U = T
  <1>1. IsWellFoundedOn(StrictSubsetOrdering(S), FiniteSubsetsOf(S))
    BY FS_StrictSubsetOrderingWellFounded
  <1>2. FiniteSubsetsOf(S) = SUBSET S
    BY FS_FiniteSubsetsOfFinite
  <1>3. Family \subseteq FiniteSubsetsOf(S)
    BY <1>2
  <1>4. PICK T \in Family : \A U \in Family : ~(<<U, T>> \in StrictSubsetOrdering(S))
    BY <1>1, <1>3, WFMin
  <1>5. ASSUME NEW U \in Family, U \subseteq T
        PROVE  U = T
    BY <1>4, <1>5 DEF StrictSubsetOrdering
  <1> QED
    BY <1>5

(* Induction over a finite set, for a family of sets in place of a predicate. *)
LEMMA SetInduction ==
    ASSUME NEW S, IsFiniteSet(S), NEW Family,
           {} \in Family,
           \A T \in SUBSET S : \A x \in T : T \ {x} \in Family => T \in Family
    PROVE  S \in Family
  <1> DEFINE Bad == {T \in SUBSET S : T \notin Family}
  <1> SUFFICES ASSUME S \notin Family PROVE FALSE
    OBVIOUS
  <1>1. Bad \subseteq SUBSET S /\ Bad # {}
    OBVIOUS
  <1>2. PICK T \in Bad : \A U \in Bad : U \subseteq T => U = T
    <2> HIDE DEF Bad
    <2> QED
      BY <1>1, SmallestSubset
  <1>3. PICK x \in T : TRUE
    <2>1. T # {}
      BY <1>2
    <2> QED
      BY <2>1
  <1>4. T \ {x} \in SUBSET S /\ T \ {x} \subseteq T /\ T \ {x} # T
    BY <1>2, <1>3
  <1>5. T \ {x} \in Family
    BY <1>2, <1>4
  <1> QED
    BY <1>2, <1>3, <1>5

(* SumFunctionOnSet is a fold, which takes the elements in some order. *)

First(s) == CHOOSE x \in s : TRUE

IsFold(g, f, S) ==
    g = [s \in SUBSET S |-> IF s = {} THEN 0 ELSE f[First(s)] + g[s \ {First(s)}]]

FoldOf(f, S) == CHOOSE g : IsFold(g, f, S)

LEMMA SumIsFold ==
    ASSUME NEW f, NEW S
    PROVE  SumFunctionOnSet(f, S) = FoldOf(f, S)[S]
  BY DEF SumFunctionOnSet, FoldFunctionOnSet, MapThenFoldSet, FoldOf, IsFold, First

LEMMA FirstOf ==
    ASSUME NEW s, s # {}
    PROVE  First(s) \in s
  BY DEF First

LEMMA FoldsAgree ==
    ASSUME NEW S, IsFiniteSet(S), NEW f, NEW T, NEW U, NEW g, NEW h,
           IsFold(g, f, T), IsFold(h, f, U), S \subseteq T, S \subseteq U
    PROVE  g[S] = h[S]
  <1> DEFINE Bad == {s \in SUBSET S : g[s] # h[s]}
  <1> SUFFICES ASSUME g[S] # h[S] PROVE FALSE
    OBVIOUS
  <1>1. Bad \subseteq SUBSET S /\ Bad # {}
    OBVIOUS
  <1>2. PICK s \in Bad : \A r \in Bad : r \subseteq s => r = s
    <2> HIDE DEF Bad
    <2> QED
      BY <1>1, SmallestSubset
  <1>3. s \in SUBSET S /\ s \in SUBSET T /\ s \in SUBSET U /\ s # {}
    BY <1>2 DEF IsFold
  <1>4. First(s) \in s
    BY <1>3, FirstOf
  <1>5. g[s \ {First(s)}] = h[s \ {First(s)}]
    BY <1>2, <1>3, <1>4
  <1>6. /\ g[s] = f[First(s)] + g[s \ {First(s)}]
        /\ h[s] = f[First(s)] + h[s \ {First(s)}]
    BY <1>3 DEF IsFold
  <1> QED
    BY <1>2, <1>5, <1>6

LEMMA FoldExists ==
    ASSUME NEW S, IsFiniteSet(S), NEW f
    PROVE  IsFold(FoldOf(f, S), f, S)
  <1> DEFINE Bad == {T \in SUBSET S : ~\E g : IsFold(g, f, T)}
  <1> SUFFICES ASSUME S \in Bad PROVE FALSE
    BY DEF FoldOf
  <1>1. Bad \subseteq SUBSET S /\ Bad # {}
    OBVIOUS
  <1>2. PICK T \in Bad : \A U \in Bad : U \subseteq T => U = T
    <2> HIDE DEF Bad
    <2> QED
      BY <1>1, SmallestSubset
  <1>3. T \in SUBSET S /\ IsFiniteSet(T) /\ ~\E g : IsFold(g, f, T)
    BY <1>2, FS_Subset
  <1>4. ASSUME NEW U \in SUBSET T, U # T
        PROVE  IsFold(FoldOf(f, U), f, U)
    BY <1>2, <1>4 DEF FoldOf
  <1> DEFINE value(s) == FoldOf(f, s)[s]
             h == [s \in SUBSET T |-> IF s = {} THEN 0 ELSE f[First(s)] + value(s \ {First(s)})]
  <1>5. ASSUME NEW s \in SUBSET T, s # T
        PROVE  h[s] = value(s)
    <2>1. IsFold(FoldOf(f, s), f, s)
      BY <1>4, <1>5
    <2>2. CASE s = {}
      BY <2>1, <2>2 DEF IsFold
    <2>3. CASE s # {}
      <3> DEFINE r == s \ {First(s)}
      <3>1. First(s) \in s
        BY <2>3, FirstOf
      <3>2. r \in SUBSET s /\ r \in SUBSET T /\ r # T
        BY <1>5, <3>1
      <3>3. IsFold(FoldOf(f, r), f, r) /\ IsFiniteSet(r)
        BY <1>3, <1>4, <3>2, FS_Subset
      <3>4. FoldOf(f, s)[r] = FoldOf(f, r)[r]
        <4> HIDE DEF r
        <4> QED
          BY <2>1, <3>2, <3>3, FoldsAgree
      <3>5. FoldOf(f, s)[s] = f[First(s)] + FoldOf(f, s)[r]
        BY <2>1, <2>3 DEF IsFold
      <3> QED
        BY <2>3, <3>4, <3>5
    <2> QED
      BY <2>2, <2>3
  <1>6. IsFold(h, f, T)
    <2>1. ASSUME NEW s \in SUBSET T, s # {}
          PROVE  h[s] = f[First(s)] + h[s \ {First(s)}]
      <3>1. First(s) \in s
        BY <2>1, FirstOf
      <3>2. h[s \ {First(s)}] = value(s \ {First(s)})
        BY <1>5, <3>1
      <3> QED
        BY <2>1, <3>2
    <2>2. h[{}] = 0 /\ h = [s \in SUBSET T |-> h[s]]
      OBVIOUS
    <2> HIDE DEF h
    <2> QED
      BY <2>1, <2>2 DEF IsFold
  <1> QED
    BY <1>3, <1>6

(* The sum of integers f[x] over a finite set. *)

IsSummable(f, S) == IsFiniteSet(S) /\ \A x \in S : f[x] \in Int

LEMMA SumOfNothing == \A f : SumFunctionOnSet(f, {}) = 0
  <1> TAKE f
  <1>1. IsFold(FoldOf(f, {}), f, {})
    BY FoldExists, FS_EmptySet
  <1>2. FoldOf(f, {})[{}] = 0
    BY <1>1 DEF IsFold
  <1> QED
    BY <1>2, SumIsFold

LEMMA SumByFirst ==
    ASSUME NEW S, IsFiniteSet(S), NEW f, S # {}
    PROVE  /\ First(S) \in S
           /\ SumFunctionOnSet(f, S) = f[First(S)] + SumFunctionOnSet(f, S \ {First(S)})
  <1> DEFINE r == S \ {First(S)}
  <1>1. IsFold(FoldOf(f, S), f, S)
    BY FoldExists
  <1>2. r \subseteq S /\ IsFiniteSet(r)
    BY FS_Subset
  <1>3. IsFold(FoldOf(f, r), f, r)
    BY <1>2, FoldExists
  <1>4. FoldOf(f, S)[r] = FoldOf(f, r)[r]
    <2> HIDE DEF r
    <2> QED
      BY <1>1, <1>2, <1>3, FoldsAgree
  <1>5. FoldOf(f, S)[S] = f[First(S)] + FoldOf(f, S)[r]
    BY <1>1 DEF IsFold
  <1>6. /\ SumFunctionOnSet(f, S) = FoldOf(f, S)[S]
        /\ SumFunctionOnSet(f, r) = FoldOf(f, r)[r]
    BY SumIsFold
  <1> QED
    BY <1>4, <1>5, <1>6, FirstOf

LEMMA SumType ==
    ASSUME NEW S, NEW f, IsSummable(f, S)
    PROVE  SumFunctionOnSet(f, S) \in Int
  <1> DEFINE Bad == {T \in SUBSET S : SumFunctionOnSet(f, T) \notin Int}
  <1> SUFFICES ASSUME S \in Bad PROVE FALSE
    OBVIOUS
  <1>1. Bad \subseteq SUBSET S /\ Bad # {} /\ IsFiniteSet(S)
    BY DEF IsSummable
  <1>2. PICK T \in Bad : \A U \in Bad : U \subseteq T => U = T
    <2> HIDE DEF Bad
    <2> QED
      BY <1>1, SmallestSubset
  <1>3. T # {} /\ IsFiniteSet(T) /\ T \in SUBSET S
    <2>1. T \in SUBSET S /\ SumFunctionOnSet(f, T) \notin Int
      BY <1>2
    <2>2. IsFiniteSet(T)
      BY <1>1, <2>1, FS_Subset
    <2> QED
      BY <2>1, <2>2, SumOfNothing
  <1>4. /\ First(T) \in T
        /\ SumFunctionOnSet(f, T) = f[First(T)] + SumFunctionOnSet(f, T \ {First(T)})
    BY <1>3, SumByFirst
  <1>5. SumFunctionOnSet(f, T \ {First(T)}) \in Int
    BY <1>2, <1>3, <1>4
  <1>6. f[First(T)] \in Int
    BY <1>3, <1>4 DEF IsSummable
  <1> QED
    BY <1>2, <1>4, <1>5, <1>6

LEMMA SumTakesOut ==
    ASSUME NEW S, NEW f, IsSummable(f, S), NEW x \in S
    PROVE  SumFunctionOnSet(f, S) = f[x] + SumFunctionOnSet(f, S \ {x})
  <1> DEFINE Takes(T, y) == SumFunctionOnSet(f, T) = f[y] + SumFunctionOnSet(f, T \ {y})
             Bad == {T \in SUBSET S : \E y \in T : ~Takes(T, y)}
  <1> SUFFICES ASSUME S \in Bad PROVE FALSE
    OBVIOUS
  <1>1. Bad \subseteq SUBSET S /\ Bad # {} /\ IsFiniteSet(S)
    BY DEF IsSummable
  <1>2. PICK T \in Bad : \A U \in Bad : U \subseteq T => U = T
    <2> HIDE DEF Bad
    <2> QED
      BY <1>1, SmallestSubset
  <1>3. T \in SUBSET S /\ IsFiniteSet(T) /\ \A z \in T : f[z] \in Int
    BY <1>1, <1>2, FS_Subset DEF IsSummable
  <1>4. PICK y \in T : ~Takes(T, y)
    BY <1>2
  <1> DEFINE c == First(T)
  <1>5. c \in T /\ Takes(T, c)
    BY <1>3, <1>4, SumByFirst
  <1> HIDE DEF c
  <1>6. y # c
    BY <1>4, <1>5
  <1>7. Takes(T \ {c}, y) /\ Takes(T \ {y}, c)
    <2>1. T \ {c} \in SUBSET S /\ T \ {c} # T /\ y \in T \ {c}
      BY <1>3, <1>5, <1>6
    <2>2. T \ {y} \in SUBSET S /\ T \ {y} # T /\ c \in T \ {y}
      BY <1>3, <1>4, <1>5, <1>6
    <2>3. T \ {c} \notin Bad
      BY <1>2, <2>1
    <2>4. T \ {y} \notin Bad
      BY <1>2, <2>2
    <2> QED
      BY <2>1, <2>2, <2>3, <2>4
  <1>8. (T \ {c}) \ {y} = (T \ {y}) \ {c}
    OBVIOUS
  <1>9. IsSummable(f, (T \ {y}) \ {c})
    BY <1>3, FS_Subset DEF IsSummable
  <1>10. SumFunctionOnSet(f, (T \ {y}) \ {c}) \in Int /\ f[c] \in Int /\ f[y] \in Int
    BY <1>3, <1>4, <1>5, <1>9, SumType
  <1>11. Takes(T, y)
    BY <1>5, <1>7, <1>8, <1>10
  <1> QED
    BY <1>4, <1>11

LEMMA SumSame ==
    ASSUME NEW S, NEW f, IsSummable(f, S), NEW g, \A x \in S : g[x] = f[x]
    PROVE  IsSummable(g, S) /\ SumFunctionOnSet(g, S) = SumFunctionOnSet(f, S)
  <1> DEFINE Family == {T \in SUBSET S : SumFunctionOnSet(g, T) = SumFunctionOnSet(f, T)}
  <1>1. {} \in Family
    BY SumOfNothing
  <1>2. ASSUME NEW T \in SUBSET S, NEW x \in T, T \ {x} \in Family
        PROVE  T \in Family
    <2>1. IsSummable(f, T) /\ IsSummable(g, T)
      BY FS_Subset DEF IsSummable
    <2>2. /\ SumFunctionOnSet(f, T) = f[x] + SumFunctionOnSet(f, T \ {x})
          /\ SumFunctionOnSet(g, T) = g[x] + SumFunctionOnSet(g, T \ {x})
      BY <1>2, <2>1, SumTakesOut
    <2> QED
      BY <1>2, <2>2
  <1>3. S \in Family
    <2> HIDE DEF Family
    <2> QED
      BY <1>1, <1>2, SetInduction DEF IsSummable
  <1> QED
    BY <1>3 DEF IsSummable

LEMMA SumUnion ==
    ASSUME NEW S, NEW T, NEW f, IsSummable(f, S), IsSummable(f, T), S \cap T = {}
    PROVE  /\ IsSummable(f, S \cup T)
           /\ SumFunctionOnSet(f, S \cup T) = SumFunctionOnSet(f, S) + SumFunctionOnSet(f, T)
  <1> DEFINE Family == {U \in SUBSET T : SumFunctionOnSet(f, S \cup U)
                                           = SumFunctionOnSet(f, S) + SumFunctionOnSet(f, U)}
  <1>1. {} \in Family
    <2>1. S \cup {} = S /\ SumFunctionOnSet(f, S) \in Int
      BY SumType
    <2> QED
      BY <2>1, SumOfNothing
  <1>2. ASSUME NEW U \in SUBSET T, NEW x \in U, U \ {x} \in Family
        PROVE  U \in Family
    <2>1. IsFiniteSet(U) /\ IsFiniteSet(U \ {x}) /\ IsFiniteSet(S \cup U)
      BY FS_Subset, FS_Union DEF IsSummable
    <2>2. IsSummable(f, U) /\ IsSummable(f, U \ {x}) /\ IsSummable(f, S \cup U)
      BY <2>1 DEF IsSummable
    <2>3. SumFunctionOnSet(f, U) = f[x] + SumFunctionOnSet(f, U \ {x})
      BY <2>2, SumTakesOut
    <2>4. x \in S \cup U /\ (S \cup U) \ {x} = S \cup (U \ {x})
      OBVIOUS
    <2>5. SumFunctionOnSet(f, S \cup U) = f[x] + SumFunctionOnSet(f, S \cup (U \ {x}))
      BY <2>2, <2>4, SumTakesOut
    <2>6. /\ SumFunctionOnSet(f, U \ {x}) \in Int /\ SumFunctionOnSet(f, S) \in Int
          /\ f[x] \in Int
      BY <2>2, SumType DEF IsSummable
    <2>7. SumFunctionOnSet(f, S \cup (U \ {x}))
             = SumFunctionOnSet(f, S) + SumFunctionOnSet(f, U \ {x})
      BY <1>2
    <2> QED
      BY <2>3, <2>5, <2>6, <2>7
  <1>3. T \in Family
    <2> HIDE DEF Family
    <2> QED
      BY <1>1, <1>2, SetInduction DEF IsSummable
  <1>4. IsSummable(f, S \cup T)
    BY FS_Union DEF IsSummable
  <1> QED
    BY <1>3, <1>4

(* A sum of terms a * f[x] + g[x]. *)
LEMMA SumLinear ==
    ASSUME NEW S, NEW f, NEW g, NEW h, NEW a \in Int, IsSummable(f, S), IsSummable(g, S),
           \A x \in S : h[x] = a * f[x] + g[x]
    PROVE  /\ IsSummable(h, S)
           /\ SumFunctionOnSet(h, S) = a * SumFunctionOnSet(f, S) + SumFunctionOnSet(g, S)
  <1> DEFINE Family == {T \in SUBSET S : SumFunctionOnSet(h, T)
                                           = a * SumFunctionOnSet(f, T) + SumFunctionOnSet(g, T)}
  <1>1. {} \in Family
    BY SumOfNothing
  <1>2. ASSUME NEW T \in SUBSET S, NEW x \in T, T \ {x} \in Family
        PROVE  T \in Family
    <2>1. IsFiniteSet(T) /\ IsFiniteSet(T \ {x})
      BY FS_Subset DEF IsSummable
    <2>2. /\ IsSummable(f, T) /\ IsSummable(g, T) /\ IsSummable(h, T)
          /\ IsSummable(f, T \ {x}) /\ IsSummable(g, T \ {x})
      BY <2>1 DEF IsSummable
    <2>3. /\ SumFunctionOnSet(f, T) = f[x] + SumFunctionOnSet(f, T \ {x})
          /\ SumFunctionOnSet(g, T) = g[x] + SumFunctionOnSet(g, T \ {x})
          /\ SumFunctionOnSet(h, T) = h[x] + SumFunctionOnSet(h, T \ {x})
      BY <2>2, SumTakesOut
    <2>4. SumFunctionOnSet(f, T \ {x}) \in Int /\ SumFunctionOnSet(g, T \ {x}) \in Int
      BY <2>2, SumType
    <2>5. f[x] \in Int /\ g[x] \in Int /\ h[x] = a * f[x] + g[x]
      BY DEF IsSummable
    <2>6. SumFunctionOnSet(h, T \ {x})
             = a * SumFunctionOnSet(f, T \ {x}) + SumFunctionOnSet(g, T \ {x})
      BY <1>2
    <2>7. \A u, v \in Int : a * (u + v) = a * u + a * v /\ a * u \in Int /\ a * v \in Int
      OBVIOUS
    <2> QED
      BY <2>3, <2>4, <2>5, <2>6, <2>7
  <1>3. S \in Family
    <2> HIDE DEF Family
    <2> QED
      BY <1>1, <1>2, SetInduction DEF IsSummable
  <1> QED
    BY <1>3 DEF IsSummable

LEMMA SumConstant ==
    ASSUME NEW S, IsFiniteSet(S), NEW c \in Int, NEW f, \A x \in S : f[x] = c
    PROVE  /\ IsSummable(f, S) /\ Cardinality(S) \in Nat
           /\ SumFunctionOnSet(f, S) = c * Cardinality(S)
  <1> DEFINE Family == {T \in SUBSET S : SumFunctionOnSet(f, T) = c * Cardinality(T)}
  <1>1. {} \in Family
    BY SumOfNothing, FS_EmptySet
  <1>2. ASSUME NEW T \in SUBSET S, NEW x \in T, T \ {x} \in Family
        PROVE  T \in Family
    <2>1. IsFiniteSet(T)
      BY FS_Subset
    <2>2. IsSummable(f, T)
      BY <2>1 DEF IsSummable
    <2>3. SumFunctionOnSet(f, T) = c + SumFunctionOnSet(f, T \ {x})
      BY <2>2, SumTakesOut
    <2>4. Cardinality(T) \in Nat /\ Cardinality(T \ {x}) = Cardinality(T) - 1
      BY <2>1, FS_RemoveElement, FS_CardinalityType
    <2>5. SumFunctionOnSet(f, T \ {x}) = c * Cardinality(T \ {x})
      BY <1>2
    <2>6. c + c * (Cardinality(T) - 1) = c * Cardinality(T)
      BY <2>4
    <2> QED
      BY <2>3, <2>4, <2>5, <2>6
  <1>3. S \in Family
    <2> HIDE DEF Family
    <2> QED
      BY <1>1, <1>2, SetInduction
  <1> QED
    BY <1>3, FS_CardinalityType DEF IsSummable

LEMMA SumNonNegative ==
    ASSUME NEW S, IsFiniteSet(S), NEW f, \A x \in S : f[x] \in Int /\ f[x] >= 0
    PROVE  SumFunctionOnSet(f, S) >= 0
  <1> DEFINE Family == {T \in SUBSET S : SumFunctionOnSet(f, T) >= 0}
  <1>1. {} \in Family
    BY SumOfNothing
  <1>2. ASSUME NEW T \in SUBSET S, NEW x \in T, T \ {x} \in Family
        PROVE  T \in Family
    <2>1. IsFiniteSet(T) /\ IsFiniteSet(T \ {x})
      BY FS_Subset
    <2>2. IsSummable(f, T) /\ IsSummable(f, T \ {x})
      BY <2>1 DEF IsSummable
    <2>3. SumFunctionOnSet(f, T) = f[x] + SumFunctionOnSet(f, T \ {x})
      BY <2>2, SumTakesOut
    <2> QED
      BY <1>2, <2>2, <2>3, SumType
  <1>3. S \in Family
    <2> HIDE DEF Family
    <2> QED
      BY <1>1, <1>2, SetInduction
  <1> QED
    BY <1>3

(* Sums of multiples, and of a single term. *)
LEMMA SumScaled ==
    ASSUME NEW S, NEW f, IsSummable(f, S), NEW a \in Int, NEW h, \A x \in S : h[x] = a * f[x]
    PROVE  /\ IsSummable(h, S)
           /\ SumFunctionOnSet(h, S) = a * SumFunctionOnSet(f, S)
  <1> DEFINE zero == [x \in S |-> 0]
  <1>1. IsSummable(zero, S) /\ Cardinality(S) \in Nat /\ SumFunctionOnSet(zero, S) = 0 * Cardinality(S)
    <2>1. \A x \in S : zero[x] = 0
      OBVIOUS
    <2> HIDE DEF zero
    <2> QED
      BY <2>1, SumConstant DEF IsSummable
  <1>2. ASSUME NEW x \in S PROVE h[x] = a * f[x] + zero[x]
    BY DEF IsSummable
  <1>3. SumFunctionOnSet(f, S) \in Int
    BY SumType
  <1> HIDE DEF zero
  <1>4. IsSummable(h, S) /\ SumFunctionOnSet(h, S) = a * SumFunctionOnSet(f, S) + SumFunctionOnSet(zero, S)
    BY <1>1, <1>2, SumLinear
  <1> QED
    BY <1>1, <1>3, <1>4

LEMMA SumOfOne ==
    ASSUME NEW x, NEW f, f[x] \in Int
    PROVE  IsSummable(f, {x}) /\ SumFunctionOnSet(f, {x}) = f[x]
  <1>1. IsSummable(f, {x})
    BY FS_Singleton DEF IsSummable
  <1>2. {x} \ {x} = {}
    OBVIOUS
  <1>3. SumFunctionOnSet(f, {x}) = f[x] + 0
    BY <1>1, <1>2, SumTakesOut, SumOfNothing
  <1> QED
    BY <1>1, <1>3


(* The sum over disjoint parts, part by part. *)

IsPartition(part, D, W) ==
    /\ IsFiniteSet(D)
    /\ \A x : x \in W <=> \E d \in D : x \in part[d]
    /\ \A c, d \in D : c # d => part[c] \cap part[d] = {}

SumsParts(F, f, part, D) ==
    \A d \in D : IsSummable(f, part[d]) /\ F[d] = SumFunctionOnSet(f, part[d])

LEMMA SumOfParts ==
    ASSUME NEW D, NEW part, NEW f, NEW F, NEW W, IsPartition(part, D, W), SumsParts(F, f, part, D)
    PROVE  /\ IsSummable(f, W) /\ IsSummable(F, D)
           /\ SumFunctionOnSet(f, W) = SumFunctionOnSet(F, D)
  <1> USE DEF IsPartition, SumsParts
  <1> DEFINE Parts(E) == UNION {part[d] : d \in E}
             Family == {E \in SUBSET D : /\ IsSummable(f, Parts(E))
                                         /\ SumFunctionOnSet(f, Parts(E)) = SumFunctionOnSet(F, E)}
  <1>1. {} \in Family
    <2>1. Parts({}) = {}
      OBVIOUS
    <2> QED
      BY <2>1, SumOfNothing, FS_EmptySet DEF IsSummable
  <1>2. IsSummable(F, D)
    BY SumType DEF IsSummable
  <1>3. ASSUME NEW E \in SUBSET D, NEW d \in E, E \ {d} \in Family
        PROVE  E \in Family
    <2> DEFINE rest == Parts(E \ {d})
               last == part[d]
    <2>1. Parts(E) = rest \cup last
      OBVIOUS
    <2>2. rest \cap last = {}
      <3> SUFFICES ASSUME NEW x \in rest, x \in last PROVE FALSE
        OBVIOUS
      <3>1. PICK e \in E \ {d} : x \in part[e]
        OBVIOUS
      <3> QED
        BY <3>1
    <2>3. /\ IsSummable(f, rest) /\ IsSummable(f, last)
          /\ F[d] = SumFunctionOnSet(f, last)
      BY <1>3
    <2> HIDE DEF rest, last
    <2>4. /\ IsSummable(f, rest \cup last)
          /\ SumFunctionOnSet(f, rest \cup last)
                = SumFunctionOnSet(f, rest) + SumFunctionOnSet(f, last)
      BY <2>2, <2>3, SumUnion
    <2>5. SumFunctionOnSet(f, rest) = SumFunctionOnSet(F, E \ {d})
      BY <1>3 DEF rest
    <2>6. IsFiniteSet(E) /\ IsFiniteSet(E \ {d})
      BY FS_Subset
    <2>7. IsSummable(F, E) /\ IsSummable(F, E \ {d})
      BY <1>2, <2>6 DEF IsSummable
    <2>8. SumFunctionOnSet(F, E) = F[d] + SumFunctionOnSet(F, E \ {d})
      BY <2>7, SumTakesOut
    <2>9. SumFunctionOnSet(F, E \ {d}) \in Int /\ F[d] \in Int
      BY <1>2, <2>7, SumType DEF IsSummable
    <2> HIDE DEF Parts
    <2>10. IsSummable(f, Parts(E)) /\ SumFunctionOnSet(f, Parts(E)) = SumFunctionOnSet(F, E)
      BY <2>1, <2>3, <2>4, <2>5, <2>8, <2>9
    <2> QED
      BY <2>10
  <1>4. D \in Family
    <2> HIDE DEF Family
    <2> QED
      BY <1>1, <1>3, SetInduction
  <1>5. Parts(D) = W
    OBVIOUS
  <1> QED
    BY <1>2, <1>4, <1>5

(* The sum of what an injection makes of its arguments.                    *)
Renames(b, S, T) ==
    /\ IsFiniteSet(S)
    /\ \A x \in S : b[x] \in T
    /\ \A y \in T : \E x \in S : b[x] = y
    /\ \A x, y \in S : b[x] = b[y] => x = y

LEMMA SumReindexed ==
    ASSUME NEW S, NEW T, NEW b, Renames(b, S, T), NEW f, NEW g, IsSummable(g, T),
           \A x \in S : f[x] = g[b[x]]
    PROVE  IsSummable(f, S) /\ SumFunctionOnSet(f, S) = SumFunctionOnSet(g, T)
  <1> DEFINE part == [x \in S |-> {b[x]}]
  <1>1. ASSUME NEW x \in S
        PROVE  IsSummable(g, part[x]) /\ f[x] = SumFunctionOnSet(g, part[x])
    <2>1. g[b[x]] \in Int
      BY DEF Renames, IsSummable
    <2>2. IsSummable(g, {b[x]}) /\ SumFunctionOnSet(g, {b[x]}) = g[b[x]]
      BY <2>1, SumOfOne
    <2> QED
      BY <2>2
  <1>2. SumsParts(f, g, part, S)
    <2> HIDE DEF part
    <2> QED
      BY <1>1 DEF SumsParts
  <1>3. IsPartition(part, S, T)
    <2>1. \A x \in S : part[x] = {b[x]}
      OBVIOUS
    <2> HIDE DEF part
    <2> QED
      BY <2>1 DEF IsPartition, Renames
  <1> HIDE DEF part
  <1> QED
    BY <1>2, <1>3, SumOfParts

(* Terms that depend on an outcome o[n] only, summed outcome by outcome.   *)
CountsTerms(F, X, c, o, S) ==
    /\ IsFiniteSet(S) /\ X = {o[n] : n \in S}
    /\ \A n \in S : c[o[n]] \in Int
    /\ \A x \in X : F[x] = Cardinality({n \in S : o[n] = x}) * c[x]

LEMMA SumByOutcome ==
    ASSUME NEW F, NEW X, NEW c, NEW o, NEW S, CountsTerms(F, X, c, o, S),
           NEW f, \A n \in S : f[n] = c[o[n]]
    PROVE  IsSummable(f, S) /\ IsSummable(F, X) /\ SumFunctionOnSet(F, X) = SumFunctionOnSet(f, S)
  <1> DEFINE part == [x \in X |-> {n \in S : o[n] = x}]
  <1>1. IsFiniteSet(S) /\ X = {o[n] : n \in S}
    BY DEF CountsTerms
  <1>2. IsFiniteSet(X)
    <2> DEFINE h == [n \in S |-> o[n]]
    <2>1. h \in Surjection(S, X)
      BY <1>1 DEF Surjection
    <2> HIDE DEF h
    <2> QED
      BY <1>1, <2>1, FS_Surjection
  <1>3. ASSUME NEW x \in X
        PROVE  IsSummable(f, part[x]) /\ F[x] = SumFunctionOnSet(f, part[x])
    <2> DEFINE T == {n \in S : o[n] = x}
    <2>1. IsFiniteSet(T)
      BY <1>1, FS_Subset
    <2>2. PICK n \in S : x = o[n]
      BY <1>1
    <2>3. c[x] \in Int
      BY <2>2 DEF CountsTerms
    <2>4. \A m \in T : f[m] = c[x]
      OBVIOUS
    <2>5. F[x] = Cardinality(T) * c[x]
      BY DEF CountsTerms
    <2> HIDE DEF T
    <2>6. /\ IsSummable(f, T) /\ Cardinality(T) \in Nat
          /\ SumFunctionOnSet(f, T) = c[x] * Cardinality(T)
      BY <2>1, <2>3, <2>4, SumConstant
    <2>7. part[x] = T
      BY DEF T
    <2>8. F[x] = SumFunctionOnSet(f, T)
      BY <2>3, <2>5, <2>6
    <2> QED
      BY <2>6, <2>7, <2>8
  <1>4. SumsParts(F, f, part, X)
    <2> HIDE DEF part
    <2> QED
      BY <1>3 DEF SumsParts
  <1>5. IsPartition(part, X, S)
    <2>1. ASSUME NEW x \in X, NEW y \in X, x # y PROVE part[x] \cap part[y] = {}
      BY <2>1
    <2>2. ASSUME NEW n \in S PROVE \E x \in X : n \in part[x]
      BY <1>1
    <2>3. \A n : (\E x \in X : n \in part[x]) => n \in S
      OBVIOUS
    <2> HIDE DEF part
    <2> QED
      BY <1>2, <2>1, <2>2, <2>3 DEF IsPartition
  <1> HIDE DEF part
  <1> QED
    BY <1>4, <1>5, SumOfParts

(* The distances of n terms from their mean, times n, sum to zero.         *)
LEMMA SumCentered ==
    ASSUME NEW S, NEW r, IsSummable(r, S), NEW a,
           \A k \in S : a[k] = Cardinality(S) * r[k] - SumFunctionOnSet(r, S)
    PROVE  IsSummable(a, S) /\ SumFunctionOnSet(a, S) = 0
  <1> DEFINE n == Cardinality(S)
             t == SumFunctionOnSet(r, S)
             less == [k \in S |-> -t]
  <1>1. n \in Nat /\ t \in Int /\ -t \in Int /\ IsFiniteSet(S)
    <2>1. t \in Int
      BY SumType
    <2> HIDE DEF t
    <2> QED
      BY <2>1, FS_CardinalityType DEF IsSummable
  <1>2. \A k \in S : less[k] = -t
    OBVIOUS
  <1> HIDE DEF n, t, less
  <1>3. IsSummable(less, S) /\ SumFunctionOnSet(less, S) = (-t) * n
    BY <1>1, <1>2, SumConstant DEF n
  <1>4. \A k \in S : a[k] = n * r[k] + less[k]
    <2> TAKE k \in S
    <2>1. PICK x \in Int : x = r[k]
      BY DEF IsSummable
    <2>2. a[k] = n * x - t /\ less[k] = -t
      BY <1>2, <2>1 DEF n, t
    <2>3. n * x - t = n * x + (-t)
      BY <1>1
    <2> QED
      BY <2>1, <2>2, <2>3
  <1>5. IsSummable(a, S) /\ SumFunctionOnSet(a, S) = n * SumFunctionOnSet(r, S) + SumFunctionOnSet(less, S)
    BY <1>1, <1>3, <1>4, SumLinear
  <1>6. n * t + (-t) * n = 0
    BY <1>1
  <1> QED
    BY <1>3, <1>5, <1>6 DEF t

-----------------------------------------------------------------------------
(***************************************************************************)
(* The inductive invariant of the compiler.                                *)
(***************************************************************************)

(* The loop has looked at the decisions before next: their spans are        *)
(* trainable and disjoint, and their tokens are those with an owner.       *)
ClaimsAreSound ==
    /\ \A m \in 1..(next - 1) : Span(Decisions[m]) \subseteq Trainable(input.mask)
    /\ \A m, n \in 1..(next - 1) : m # n => Span(Decisions[m]) \cap Span(Decisions[n]) = {}
    /\ \A i \in DOMAIN input.mask :
          owner[i] # None <=> \E m \in 1..(next - 1) : i \in Span(Decisions[m])
    /\ next > 1 => NodeIdsAreUnique

(* The calls that are not refused. *)
Compilable ==
    /\ SpansPartitionTheAction
    /\ IF input.target = None
       THEN Branches = <<>> /\ input.supplied = None
       ELSE BranchesAreSound /\ SuppliedFit

(* The decisions with the trajectory's credit, and the number of records    *)
(* it takes to give it to them.                                            *)
Credited == {d \in DecisionSet : input.target = None \/ d.node # input.target}
Leading  == IF Credited = {} THEN 0 ELSE 1

(* The records when c branches have been compiled. *)
Compiled(c) ==
    [n \in 1..(Leading + c) |->
        IF n <= Leading THEN IncumbentRecord(Credited) ELSE BranchRecord(n - Leading)]

CompilerInv ==
    /\ TypeOK
    /\ IsCall(input)
    /\ phase # "broken"
    /\ ClaimsAreSound
    /\ phase \in {"idle", "decisions"} => records = <<>>
    /\ phase = "idle" => next = 1
    /\ phase = "branches" =>
          /\ input.target # None
          /\ SpansPartitionTheAction /\ BranchesAreSound
          /\ \E c \in 0..(Len(Branches) - 1) : records = Compiled(c) /\ (c > 0 => SuppliedFit)
    /\ phase = "returned" => Compilable /\ records = Compiled(Len(Branches))
    /\ phase = "refused" => ~Compilable

-----------------------------------------------------------------------------
(* Sequences and sets.                                                     *)

LEMMA SequenceFacts ==
    ASSUME NEW m, m \in Nat, NEW s, s = [n \in 1..m |-> s[n]]
    PROVE  Len(s) = m /\ \A r : Append(s, r) = [n \in 1..(m + 1) |-> IF n = m + 1 THEN r ELSE s[n]]
  <1> DEFINE S == {s[n] : n \in 1..m}
  <1>1. s \in Seq(S)
    OBVIOUS
  <1>2. Len(s) = m
    BY <1>1
  <1>3. ASSUME NEW r
        PROVE  Append(s, r) = [n \in 1..(m + 1) |-> IF n = m + 1 THEN r ELSE s[n]]
    BY <1>1, <1>2
  <1> QED
    BY <1>2, <1>3

LEMMA CallFacts ==
    ASSUME IsCall(input)
    PROVE  /\ Len(Decisions) \in Nat /\ DOMAIN Decisions = 1..Len(Decisions)
           /\ Len(Branches) \in Nat /\ DOMAIN Branches = 1..Len(Branches)
           /\ Len(input.mask) \in Nat /\ DOMAIN input.mask = 1..Len(input.mask)
           /\ \A n \in DOMAIN Decisions :
                 LET d == Decisions[n]
                 IN  /\ d \in DecisionSet /\ d.node \in Nodes /\ d.node # None
                     /\ d.start \in Nat /\ d.stop \in Nat /\ d.start < d.stop
                     /\ d.stop \in Span(d)
                     /\ d.weight \in Nat \ {0}
           /\ K \in Nat /\ K > 0
           /\ Branches = <<>> <=> Len(Branches) = 0
  <1>1. /\ Len(Decisions) \in Nat /\ DOMAIN Decisions = 1..Len(Decisions)
        /\ Len(Branches) \in Nat /\ DOMAIN Branches = 1..Len(Branches)
        /\ Len(input.mask) \in Nat /\ DOMAIN input.mask = 1..Len(input.mask)
    BY DEF IsCall, IsSequence, Decisions, Branches
  <1>2. ASSUME NEW n \in DOMAIN Decisions
        PROVE  LET d == Decisions[n]
               IN  /\ d \in DecisionSet /\ d.node \in Nodes /\ d.node # None
                   /\ d.start \in Nat /\ d.stop \in Nat /\ d.start < d.stop
                   /\ d.stop \in Span(d)
                   /\ d.weight \in Nat \ {0}
    <2>1. LET d == Decisions[n]
          IN  /\ d.node # None
              /\ d.start \in Nat /\ d.stop \in Nat /\ d.start < d.stop
              /\ d.weight \in Nat \ {0}
      BY DEF IsCall, Decisions
    <2>2. Decisions[n] \in DecisionSet /\ Decisions[n].node \in Nodes
      BY DEF DecisionSet, Nodes
    <2> QED
      BY <2>1, <2>2 DEF Span
  <1>3. Branches = <<>> <=> Len(Branches) = 0
    BY <1>1
  <1> QED
    BY <1>1, <1>2, <1>3 DEF K

LEMMA FiniteDecisions ==
    ASSUME IsCall(input)
    PROVE  IsFiniteSet(DOMAIN Decisions) /\ Cardinality(DOMAIN Decisions) = Len(Decisions)
  <1>1. Len(Decisions) \in Nat /\ DOMAIN Decisions = 1..Len(Decisions)
    BY CallFacts
  <1> DEFINE L == Len(Decisions)
  <1> HIDE DEF L
  <1>2. L \in Nat
    BY <1>1 DEF L
  <1>3. IsFiniteSet(1..L) /\ Cardinality(1..L) = IF 1 > L THEN 0 ELSE L - 1 + 1
    BY <1>2, FS_Interval
  <1>4. Cardinality(1..L) = L
    BY <1>2, <1>3
  <1> QED
    BY <1>1, <1>3, <1>4 DEF L

(* Node ids that are unique name one decision each.                        *)
LEMMA UniqueNodes ==
    ASSUME IsCall(input), NodeIdsAreUnique
    PROVE  \A m, n \in DOMAIN Decisions : Decisions[m].node = Decisions[n].node => m = n
  <1> DEFINE f == [n \in DOMAIN Decisions |-> Decisions[n].node]
  <1>1. f \in Surjection(DOMAIN Decisions, Nodes)
    BY DEF Surjection, Nodes
  <1>2. IsFiniteSet(DOMAIN Decisions) /\ Cardinality(DOMAIN Decisions) = Len(Decisions)
    BY FiniteDecisions
  <1>3. f \in Injection(DOMAIN Decisions, Nodes)
    BY <1>1, <1>2, FS_SurjSameCardinalityImpliesInj DEF NodeIdsAreUnique
  <1>4. ASSUME NEW m \in DOMAIN Decisions, NEW n \in DOMAIN Decisions,
               Decisions[m].node = Decisions[n].node
        PROVE  m = n
    <2>1. f[m] = f[n]
      BY <1>4
    <2> HIDE DEF f
    <2> QED
      BY <1>3, <2>1 DEF Injection, IsInjective
  <1> QED
    BY <1>4

LEMMA CreditedIsFinite ==
    ASSUME IsCall(input)
    PROVE  /\ IsFiniteSet(Credited)
           /\ Cardinality(Credited) \in Nat
           /\ Credited # {} => Cardinality(Credited) > 0
  <1> DEFINE f == [n \in DOMAIN Decisions |-> Decisions[n]]
  <1>1. f \in Surjection(DOMAIN Decisions, DecisionSet)
    BY DEF Surjection, DecisionSet
  <1>2. IsFiniteSet(DOMAIN Decisions)
    BY FiniteDecisions
  <1>3. IsFiniteSet(DecisionSet)
    BY <1>1, <1>2, FS_Surjection
  <1>4. IsFiniteSet(Credited)
    BY <1>3, FS_Subset DEF Credited
  <1> QED
    BY <1>4, FS_CardinalityType, FS_EmptySet

LEMMA Products ==
    ASSUME NEW m, m \in Nat, NEW n, n \in Nat
    PROVE  m * n \in Nat /\ (m > 0 /\ n > 0 => m * n > 0)
  OBVIOUS

(* A decision's tokens are claimed by the decision.                        *)
LEMMA ClaimedByOne ==
    ASSUME NEW d, d \in DecisionSet
    PROVE  \E n \in DOMAIN Decisions : d = Decisions[n]
  BY DEF DecisionSet

LEMMA TargetIsADecision ==
    ASSUME input.target \in Nodes
    PROVE  Target \in DecisionSet /\ Target.node = input.target
  <1>1. \E d \in DecisionSet : d.node = input.target
    BY DEF Nodes, DecisionSet
  <1> QED
    BY <1>1 DEF Target

-----------------------------------------------------------------------------
(* No record is refused by its constructor: it trains trainable tokens     *)
(* only, and it counts for a positive number of decisions.                 *)

LEMMA IncumbentIsAccepted ==
    ASSUME IsCall(input), SpansPartitionTheAction, Credited # {}
    PROVE  IsAccepted(IncumbentRecord(Credited))
  <1> DEFINE claimed(i) == {d \in Credited : i \in Span(d)}
             chosen(i) == CHOOSE d \in claimed(i) : TRUE
             weights == [i \in DOMAIN input.mask |->
                            IF claimed(i) = {} THEN 0 ELSE K * chosen(i).weight]
  <1>1. K * Cardinality(Credited) > 0
    BY CallFacts, CreditedIsFinite, Products
  <1>2. ASSUME NEW i \in DOMAIN input.mask, claimed(i) # {}
        PROVE  input.mask[i] /\ K * chosen(i).weight >= 0
    <2>1. PICK d \in claimed(i) : d = chosen(i)
      BY <1>2
    <2>2. d \in DecisionSet /\ i \in Span(d)
      BY <2>1 DEF Credited
    <2>3. i \in Trainable(input.mask)
      BY <2>2 DEF SpansPartitionTheAction
    <2>4. PICK n \in DOMAIN Decisions : d = Decisions[n]
      BY <2>2, ClaimedByOne
    <2>5. d.weight \in Nat
      BY <2>4, CallFacts
    <2>6. K * d.weight \in Nat
      BY <2>5, CallFacts, Products
    <2> QED
      BY <2>1, <2>3, <2>6 DEF Trainable
  <1>3. /\ \A i \in DOMAIN input.mask : weights[i] # 0 => input.mask[i]
        /\ \A i \in DOMAIN input.mask : weights[i] >= 0
    <2> HIDE DEF claimed, chosen
    <2> QED
      BY <1>2
  <1>4. /\ IncumbentRecord(Credited).weights = weights
        /\ IncumbentRecord(Credited).mask = input.mask
        /\ IncumbentRecord(Credited).units = K * Cardinality(Credited)
        /\ DOMAIN IncumbentRecord(Credited).advantages = DOMAIN input.mask
    BY DEF IncumbentRecord
  <1>5. DOMAIN weights = DOMAIN input.mask
    OBVIOUS
  <1> HIDE DEF weights
  <1> QED
    BY <1>1, <1>3, <1>4, <1>5 DEF IsAccepted

LEMMA BranchIsAccepted ==
    ASSUME IsCall(input), BranchesAreSound, NEW k, k \in DOMAIN Branches
    PROVE  IsAccepted(BranchRecord(k))
  <1> DEFINE b == Branches[k]
  <1>1. Span(b) = Trainable(b.mask)
    BY DEF BranchesAreSound, TrainsItsSpan
  <1>2. Target.weight \in Nat
    <2>1. PICK n \in DOMAIN Decisions : Target = Decisions[n]
      BY TargetIsADecision, ClaimedByOne DEF BranchesAreSound
    <2> QED
      BY <2>1, CallFacts
  <1>3. \A i \in DOMAIN b.mask : i \in Span(b) => b.mask[i]
    BY <1>1 DEF Trainable
  <1>4. /\ BranchRecord(k).mask = b.mask /\ BranchRecord(k).units = 1
        /\ DOMAIN BranchRecord(k).advantages = DOMAIN b.mask
        /\ BranchRecord(k).weights
              = [i \in DOMAIN b.mask |-> IF i \in Span(b) THEN Target.weight ELSE 0]
    BY DEF BranchRecord, BranchUnits
  <1> HIDE DEF b
  <1> QED
    BY <1>2, <1>3, <1>4 DEF IsAccepted

-----------------------------------------------------------------------------
(* The loop over the decisions decides whether their spans partition the   *)
(* trainable tokens.                                                       *)

LEMMA ClaimedMeansPartition ==
    ASSUME TypeOK, IsCall(input), ClaimsAreSound, EveryTokenIsClaimed
    PROVE  SpansPartitionTheAction
  <1>1. DOMAIN Decisions = 1..(next - 1)
    BY CallFacts DEF TypeOK, EveryTokenIsClaimed
  <1>2. UNION {Span(d) : d \in DecisionSet} \subseteq Trainable(input.mask)
    BY <1>1 DEF ClaimsAreSound, DecisionSet
  <1>3. ASSUME NEW i \in Trainable(input.mask)
        PROVE  i \in UNION {Span(d) : d \in DecisionSet}
    <2>1. i \in DOMAIN input.mask /\ owner[i] # None
      BY DEF Trainable, EveryTokenIsClaimed, Uncovered
    <2>2. PICK m \in DOMAIN Decisions : i \in Span(Decisions[m])
      BY <1>1, <2>1 DEF ClaimsAreSound
    <2> QED
      BY <2>2 DEF DecisionSet
  <1>4. \A m, n \in DOMAIN Decisions : m # n => Span(Decisions[m]) \cap Span(Decisions[n]) = {}
    BY <1>1 DEF ClaimsAreSound
  <1> QED
    BY <1>2, <1>3, <1>4 DEF EveryTokenIsClaimed, SpansPartitionTheAction

LEMMA RefusedMeansNoPartition ==
    ASSUME TypeOK, IsCall(input), ClaimsAreSound, RefuseDecisions
    PROVE  ~SpansPartitionTheAction
  <1> SUFFICES ASSUME SpansPartitionTheAction PROVE FALSE
    OBVIOUS
  <1>1. next \in Nat /\ next >= 1
    BY CallFacts DEF TypeOK
  <1>2. Decisions # <<>> /\ NodeIdsAreUnique
    BY DEF SpansPartitionTheAction
  <1>3. CASE next <= Len(Decisions) /\ ~CanClaim(Decisions[next])
    <2> DEFINE d == Decisions[next]
    <2>1. next \in DOMAIN Decisions
      BY <1>1, <1>3, CallFacts
    <2>2. d \in DecisionSet /\ d.stop \in Span(d)
      BY <2>1, CallFacts
    <2>3. Span(d) \subseteq Trainable(input.mask)
      BY <2>2 DEF SpansPartitionTheAction
    <2>4. d.stop \in DOMAIN input.mask
      BY <2>2, <2>3 DEF Trainable
    <2>5. d.stop <= Len(input.mask)
      BY <2>4, CallFacts
    <2>6. PICK i \in Span(d) : owner[i] # None
      BY <1>3, <2>3, <2>5 DEF CanClaim
    <2>7. i \in DOMAIN input.mask
      BY <2>3 DEF Trainable
    <2>8. PICK m \in 1..(next - 1) : i \in Span(Decisions[m])
      BY <2>6, <2>7 DEF ClaimsAreSound
    <2>9. m \in DOMAIN Decisions /\ m # next
      BY <1>1, <2>1, <2>8, CallFacts
    <2> QED
      BY <2>1, <2>8, <2>9 DEF SpansPartitionTheAction
  <1>4. CASE next > Len(Decisions) /\ Uncovered # {}
    <2>1. PICK i \in Trainable(input.mask) : owner[i] = None
      BY <1>4 DEF Uncovered
    <2>2. PICK d \in DecisionSet : i \in Span(d)
      BY DEF SpansPartitionTheAction
    <2>3. PICK n \in DOMAIN Decisions : d = Decisions[n]
      BY ClaimedByOne
    <2>4. n \in 1..(next - 1)
      BY <1>1, <1>4, <2>3, CallFacts
    <2>5. i \in DOMAIN input.mask
      BY DEF Trainable
    <2> QED
      BY <2>1, <2>2, <2>3, <2>4, <2>5 DEF ClaimsAreSound
  <1> QED
    BY <1>2, <1>3, <1>4 DEF RefuseDecisions

-----------------------------------------------------------------------------
(* The records: the incumbent's, if there is one, and the branches'.       *)

LEMMA BranchesOfCompiled ==
    ASSUME NEW c, c \in Nat, records = Compiled(c)
    PROVE  BranchesDone = (Leading + 1)..(Leading + c) /\ Cardinality(BranchesDone) = c
  <1>1. Leading \in {0, 1}
    BY DEF Leading
  <1>2. ASSUME NEW n, n \in 1..(Leading + c)
        PROVE  records[n].kind = IF n <= Leading THEN "incumbent" ELSE "branch"
    <2>1. IncumbentRecord(Credited).kind = "incumbent"
      BY DEF IncumbentRecord
    <2>2. BranchRecord(n - Leading).kind = "branch"
      BY DEF BranchRecord
    <2>3. records[n] = IF n <= Leading THEN IncumbentRecord(Credited) ELSE BranchRecord(n - Leading)
      BY <1>2 DEF Compiled
    <2> QED
      BY <2>1, <2>2, <2>3
  <1>3. DOMAIN records = 1..(Leading + c)
    BY DEF Compiled
  <1>4. BranchesDone = (Leading + 1)..(Leading + c)
    <2>1. ASSUME NEW n
          PROVE  n \in BranchesDone <=> n \in (Leading + 1)..(Leading + c)
      <3>1. n \in BranchesDone <=> n \in 1..(Leading + c) /\ records[n].kind = "branch"
        BY <1>3 DEF BranchesDone
      <3>2. n \in 1..(Leading + c) => (records[n].kind = "branch" <=> ~(n <= Leading))
        BY <1>2
      <3> QED
        BY <1>1, <3>1, <3>2
    <2> QED
      BY <2>1
  <1>5. PICK a \in Int : a = Leading + 1
    BY <1>1
  <1>6. PICK z \in Int : z = Leading + c
    BY <1>1
  <1>7. Cardinality(a..z) = IF a > z THEN 0 ELSE z - a + 1
    BY FS_Interval
  <1>8. Cardinality(a..z) = c
    BY <1>1, <1>5, <1>6, <1>7
  <1>9. BranchesDone = a..z
    BY <1>4, <1>5, <1>6
  <1> QED
    BY <1>4, <1>8, <1>9

(* Appending the next branch's record to those of c branches.              *)
LEMMA NextBranch ==
    ASSUME NEW c, c \in Nat, records = Compiled(c)
    PROVE  /\ Append(records, BranchRecord(c + 1)) = Compiled(c + 1)
           /\ Len(records) = Leading + c
  <1>1. Leading \in {0, 1}
    BY DEF Leading
  <1> DEFINE m == Leading + c
             r == BranchRecord(c + 1)
  <1>2. m \in Nat /\ records = [n \in 1..m |-> records[n]]
    BY <1>1 DEF Compiled
  <1>3. /\ Len(records) = m
        /\ Append(records, r) = [n \in 1..(m + 1) |-> IF n = m + 1 THEN r ELSE records[n]]
    <2> HIDE DEF m, r
    <2> QED
      BY <1>2, SequenceFacts
  <1>4. ASSUME NEW n, n \in 1..(m + 1)
        PROVE  (IF n = m + 1 THEN r ELSE records[n])
                 = IF n <= Leading THEN IncumbentRecord(Credited) ELSE BranchRecord(n - Leading)
    <2>1. CASE n = m + 1
      <3>1. n - Leading = c + 1 /\ ~(n <= Leading)
        BY <1>1, <2>1
      <3> QED
        BY <2>1, <3>1
    <2>2. CASE n # m + 1
      <3>1. n \in 1..m
        BY <1>2, <1>4, <2>2
      <3> QED
        BY <2>2, <3>1 DEF Compiled
    <2> QED
      BY <2>1, <2>2
  <1>5. 1..(m + 1) = 1..(Leading + (c + 1))
    BY <1>1
  <1>6. Append(records, r)
          = [n \in 1..(Leading + (c + 1)) |->
               IF n <= Leading THEN IncumbentRecord(Credited) ELSE BranchRecord(n - Leading)]
    <2> HIDE DEF m, r
    <2> QED
      BY <1>3, <1>4, <1>5
  <1> QED
    BY <1>3, <1>6 DEF Compiled

(* The incumbent's record, alone. *)
LEMMA FirstRecord ==
    ASSUME records = <<>>
    PROVE  /\ Credited = {} => records = Compiled(0)
           /\ Credited # {} => Append(records, IncumbentRecord(Credited)) = Compiled(0)
  <1>1. CASE Credited = {}
    <2>1. Leading + 0 = 0
      BY <1>1 DEF Leading
    <2>2. Compiled(0) = <<>>
      BY <2>1 DEF Compiled
    <2> QED
      BY <1>1, <2>2
  <1>2. CASE Credited # {}
    <2>1. Leading = 1
      BY <1>2 DEF Leading
    <2>2. Compiled(0) = <<IncumbentRecord(Credited)>>
      <3>1. Compiled(0) = [n \in 1..1 |-> IncumbentRecord(Credited)]
        BY <2>1 DEF Compiled
      <3> QED
        BY <3>1
    <2> QED
      BY <1>2, <2>2
  <1> QED
    BY <1>1, <1>2

-----------------------------------------------------------------------------
(* What is said of the arguments stays true while they do.                 *)

LEMMA SameInput ==
    ASSUME input' = input
    PROVE  /\ (Compilable)' <=> Compilable
           /\ (SpansPartitionTheAction)' <=> SpansPartitionTheAction
           /\ (BranchesAreSound)' <=> BranchesAreSound
           /\ (SuppliedFit)' <=> SuppliedFit
           /\ (NodeIdsAreUnique)' <=> NodeIdsAreUnique
           /\ IsCall(input)' <=> IsCall(input)
           /\ Decisions' = Decisions /\ Branches' = Branches /\ Nodes' = Nodes
           /\ Leading' = Leading
           /\ \A c : Compiled(c)' = Compiled(c)
  <1>1. Decisions' = Decisions /\ Branches' = Branches /\ K' = K
    BY DEF Decisions, Branches, K
  <1>2. Nodes' = Nodes /\ DecisionSet' = DecisionSet /\ Target' = Target
    BY <1>1 DEF Nodes, DecisionSet, Target
  <1>3. Credited' = Credited
    BY <1>2 DEF Credited
  <1>4. Leading' = Leading
    BY <1>3 DEF Leading
  <1>5. (NodeIdsAreUnique)' <=> NodeIdsAreUnique
    BY <1>1, <1>2 DEF NodeIdsAreUnique
  <1>6. (SpansPartitionTheAction)' <=> SpansPartitionTheAction
    BY <1>1, <1>2, <1>5 DEF SpansPartitionTheAction
  <1>7. (BranchesAreSound)' <=> BranchesAreSound
    BY <1>1, <1>2 DEF BranchesAreSound
  <1>8. (SuppliedFit)' <=> SuppliedFit
    BY <1>1 DEF SuppliedFit
  <1>9. (Compilable)' <=> Compilable
    BY <1>1, <1>6, <1>7, <1>8 DEF Compilable
  <1>10. \A k : Advantage(k)' = Advantage(k)
    <2>1. Rewards' = Rewards
      BY <1>1 DEF Rewards
    <2> QED
      BY <2>1 DEF Advantage
  <1>11. \A k : BranchRecord(k)' = BranchRecord(k)
    BY <1>1, <1>2, <1>10 DEF BranchRecord, BranchUnits
  <1>12. IncumbentRecord(Credited)' = IncumbentRecord(Credited)
    BY <1>1, <1>3 DEF IncumbentRecord
  <1>13. \A c : Compiled(c)' = Compiled(c)
    BY <1>4, <1>11, <1>12 DEF Compiled
  <1> QED
    BY <1>1, <1>2, <1>4, <1>5, <1>6, <1>7, <1>8, <1>9, <1>13

LEMMA SameClaims ==
    ASSUME ClaimsAreSound, UNCHANGED <<input, next, owner>>
    PROVE  ClaimsAreSound'
  BY SameInput DEF ClaimsAreSound

LEMMA CompiledAreTyped ==
    ASSUME IsCall(input), NEW c, c \in 0..Len(Branches), NEW r, r = Compiled(c)
    PROVE  Len(r) <= Len(Branches) + 1 /\ \A n \in DOMAIN r : r[n].kind \in {"incumbent", "branch"}
  <1>1. Leading \in {0, 1} /\ Len(Branches) \in Nat
    BY CallFacts DEF Leading
  <1>2. Len(r) = Leading + c
    <2> DEFINE m == Leading + c
    <2>1. m \in Nat /\ r = [n \in 1..m |-> r[n]]
      BY <1>1 DEF Compiled
    <2> HIDE DEF m
    <2>2. Len(r) = m
      BY <2>1, SequenceFacts
    <2> QED
      BY <2>2 DEF m
  <1>3. ASSUME NEW n \in DOMAIN r
        PROVE  r[n].kind \in {"incumbent", "branch"}
    <2>1. r[n] = IF n <= Leading THEN IncumbentRecord(Credited) ELSE BranchRecord(n - Leading)
      BY <1>3 DEF Compiled
    <2>2. IncumbentRecord(Credited).kind = "incumbent"
      BY DEF IncumbentRecord
    <2>3. BranchRecord(n - Leading).kind = "branch"
      BY DEF BranchRecord
    <2> QED
      BY <2>1, <2>2, <2>3
  <1> QED
    BY <1>1, <1>2, <1>3

-----------------------------------------------------------------------------
(* One lemma for each action. *)

(* A step that leaves the loop's variables alone only has its records and   *)
(* its phase to answer for.                                                *)
LEMMA StepAfterLoop ==
    ASSUME CompilerInv, UNCHANGED <<input, next, owner>>,
           phase' \in {"branches", "returned", "refused"},
           Len(records') <= Len(Branches) + 1,
           \A n \in DOMAIN records' : records'[n].kind \in {"incumbent", "branch"},
           phase' = "branches" =>
              /\ input.target # None
              /\ SpansPartitionTheAction /\ BranchesAreSound
              /\ \E c \in 0..(Len(Branches) - 1) : records' = Compiled(c) /\ (c > 0 => SuppliedFit),
           phase' = "returned" => Compilable /\ records' = Compiled(Len(Branches)),
           phase' = "refused" => ~Compilable
    PROVE  CompilerInv'
  <1>1. TypeOK'
    BY SameInput DEF CompilerInv, TypeOK
  <1>2. ClaimsAreSound' /\ IsCall(input)'
    BY SameClaims, SameInput DEF CompilerInv
  <1>3. /\ phase' # "broken"
        /\ phase' \in {"idle", "decisions"} => records' = <<>>
        /\ phase' = "idle" => next' = 1
    OBVIOUS
  <1>4. (phase = "branches" =>
            /\ input.target # None
            /\ SpansPartitionTheAction /\ BranchesAreSound
            /\ \E c \in 0..(Len(Branches) - 1) : records = Compiled(c) /\ (c > 0 => SuppliedFit))'
    BY SameInput
  <1>5. (phase = "returned" => Compilable /\ records = Compiled(Len(Branches)))'
    BY SameInput
  <1>6. (phase = "refused" => ~Compilable)'
    BY SameInput
  <1> QED
    BY <1>1, <1>2, <1>3, <1>4, <1>5, <1>6 DEF CompilerInv

LEMMA ClaimSpanKeeps ==
    ASSUME CompilerInv, ClaimSpan
    PROVE  CompilerInv'
  <1> DEFINE d == Decisions[next]
  <1>1. /\ TypeOK /\ IsCall(input) /\ ClaimsAreSound /\ NodeIdsAreUnique
        /\ phase = "decisions" /\ next <= Len(Decisions) /\ CanClaim(d)
        /\ records = <<>>
    BY DEF CompilerInv, ClaimSpan
  <1>2. /\ UNCHANGED <<input, phase, records>> /\ next' = next + 1
        /\ owner' = [i \in DOMAIN owner |-> IF i \in Span(d) THEN d.node ELSE owner[i]]
    BY DEF ClaimSpan, ClaimantOf
  <1>3. next \in Nat /\ next >= 1 /\ next \in DOMAIN Decisions
    BY <1>1, CallFacts DEF TypeOK
  <1>4. d.node \in Nodes /\ d.node # None
    BY <1>1, <1>3, CallFacts
  <1>5. DOMAIN owner = DOMAIN input.mask
    BY <1>1 DEF TypeOK
  <1>6. TypeOK'
    <2>1. (next \in 1..(Len(Decisions) + 1))'
      BY <1>1, <1>2, <1>3, SameInput, CallFacts
    <2>2. (owner \in [DOMAIN input.mask -> Nodes \cup {None}])'
      BY <1>1, <1>2, <1>4, <1>5, SameInput DEF TypeOK
    <2>3. (Len(records) <= Len(Branches) + 1)'
      BY <1>1, <1>2, SameInput DEF TypeOK
    <2> QED
      BY <1>1, <1>2, <2>1, <2>2, <2>3 DEF TypeOK
  <1>7. ClaimsAreSound'
    <2>1. \A m \in 1..(next' - 1) : m \in 1..(next - 1) \/ m = next
      BY <1>2, <1>3
    <2>2. \A m \in 1..(next' - 1) : Span(Decisions[m]) \subseteq Trainable(input.mask)
      BY <1>1, <2>1 DEF ClaimsAreSound, CanClaim
    <2>3. ASSUME NEW m \in 1..(next - 1)
          PROVE  Span(Decisions[m]) \cap Span(d) = {}
      <3>1. SUFFICES ASSUME NEW i \in Span(Decisions[m]), i \in Span(d) PROVE FALSE
        OBVIOUS
      <3>2. i \in DOMAIN input.mask
        BY <1>1, <3>1 DEF CanClaim, Trainable
      <3>3. owner[i] # None
        BY <1>1, <2>3, <3>1, <3>2 DEF ClaimsAreSound
      <3> QED
        BY <1>1, <3>1, <3>3 DEF CanClaim
    <2>4. \A m, n \in 1..(next' - 1) : m # n => Span(Decisions[m]) \cap Span(Decisions[n]) = {}
      <3> TAKE m, n \in 1..(next' - 1)
      <3> HAVE m # n
      <3>1. CASE m \in 1..(next - 1) /\ n \in 1..(next - 1)
        BY <1>1, <3>1 DEF ClaimsAreSound
      <3>2. CASE m = next /\ n \in 1..(next - 1)
        BY <2>3, <3>2
      <3>3. CASE n = next /\ m \in 1..(next - 1)
        BY <2>3, <3>3
      <3> QED
        BY <2>1, <3>1, <3>2, <3>3
    <2>5. ASSUME NEW i \in DOMAIN input.mask
          PROVE  owner'[i] # None <=> \E m \in 1..(next' - 1) : i \in Span(Decisions[m])
      <3>1. CASE i \in Span(d)
        <4>1. next \in 1..(next' - 1)
          BY <1>2, <1>3
        <4> QED
          BY <1>2, <1>4, <1>5, <3>1, <4>1
      <3>2. CASE i \notin Span(d)
        <4>1. owner'[i] = owner[i]
          BY <1>2, <1>5, <3>2
        <4>2. owner[i] # None <=> \E m \in 1..(next - 1) : i \in Span(Decisions[m])
          BY <1>1 DEF ClaimsAreSound
        <4>3. \A m \in 1..(next - 1) : m \in 1..(next' - 1)
          BY <1>2, <1>3
        <4> QED
          BY <2>1, <3>2, <4>1, <4>2, <4>3
      <3> QED
        BY <3>1, <3>2
    <2> QED
      BY <1>1, <1>2, <2>2, <2>4, <2>5, SameInput DEF ClaimsAreSound
  <1>8. IsCall(input)'
    BY <1>1, <1>2, SameInput
  <1> QED
    BY <1>1, <1>2, <1>6, <1>7, <1>8 DEF CompilerInv

LEMMA RefuseDecisionsKeeps ==
    ASSUME CompilerInv, RefuseDecisions
    PROVE  CompilerInv'
  <1>1. /\ TypeOK /\ IsCall(input) /\ ClaimsAreSound
        /\ UNCHANGED <<input, next, owner, records>> /\ phase' = "refused"
    BY DEF CompilerInv, RefuseDecisions, Refuse
  <1>2. ~Compilable
    BY <1>1, RefusedMeansNoPartition DEF Compilable
  <1> QED
    BY <1>1, <1>2, StepAfterLoop DEF TypeOK

LEMMA WithoutTargetKeeps ==
    ASSUME CompilerInv, WithoutTarget
    PROVE  CompilerInv'
  <1>1. /\ TypeOK /\ IsCall(input) /\ ClaimsAreSound /\ records = <<>>
        /\ EveryTokenIsClaimed /\ input.target = None
    BY DEF CompilerInv, WithoutTarget, EveryTokenIsClaimed
  <1>2. SpansPartitionTheAction
    BY <1>1, ClaimedMeansPartition
  <1>3. CASE Branches = <<>> /\ input.supplied = None
    <2>1. Credited = DecisionSet
      BY <1>1 DEF Credited
    <2>2. Credited # {}
      <3>1. Len(Decisions) # 0
        BY <1>1, CallFacts DEF EveryTokenIsClaimed, IsCall, IsSequence, Decisions
      <3>2. 1 \in DOMAIN Decisions
        BY <1>1, <3>1, CallFacts
      <3> QED
        BY <2>1, <3>2 DEF DecisionSet
    <2>3. IsAccepted(IncumbentRecord(Credited))
      BY <1>1, <1>2, <2>2, IncumbentIsAccepted
    <2>4. /\ records' = Append(records, IncumbentRecord(Credited)) /\ phase' = "returned"
          /\ UNCHANGED <<input, next, owner>>
      BY <1>3, <2>1, <2>3 DEF WithoutTarget, Emit
    <2>5. Len(Branches) = 0
      BY <1>3
    <2>6. records' = Compiled(0)
      BY <1>1, <2>2, <2>4, FirstRecord
    <2>7. Compilable
      BY <1>1, <1>2, <1>3 DEF Compilable
    <2>8. /\ Len(records') <= Len(Branches) + 1
          /\ \A n \in DOMAIN records' : records'[n].kind \in {"incumbent", "branch"}
      <3>1. 0 \in 0..Len(Branches)
        BY <2>5
      <3> QED
        BY <1>1, <2>6, <3>1, CompiledAreTyped
    <2> QED
      BY <2>4, <2>5, <2>6, <2>7, <2>8, StepAfterLoop
  <1>4. CASE ~(Branches = <<>> /\ input.supplied = None)
    <2>1. UNCHANGED <<input, next, owner, records>> /\ phase' = "refused"
      BY <1>4 DEF WithoutTarget, Refuse
    <2>2. ~Compilable
      BY <1>1, <1>4 DEF Compilable
    <2> QED
      BY <1>1, <2>1, <2>2, StepAfterLoop DEF TypeOK
  <1> QED
    BY <1>3, <1>4

LEMMA WithTargetKeeps ==
    ASSUME CompilerInv, WithTarget
    PROVE  CompilerInv'
  <1>1. /\ TypeOK /\ IsCall(input) /\ ClaimsAreSound /\ records = <<>>
        /\ EveryTokenIsClaimed /\ input.target # None
    BY DEF CompilerInv, WithTarget, EveryTokenIsClaimed
  <1>2. SpansPartitionTheAction
    BY <1>1, ClaimedMeansPartition
  <1>3. CASE ~BranchesAreSound
    <2>1. UNCHANGED <<input, next, owner, records>> /\ phase' = "refused"
      BY <1>3 DEF WithTarget, Refuse
    <2>2. ~Compilable
      BY <1>1, <1>3 DEF Compilable
    <2> QED
      BY <1>1, <2>1, <2>2, StepAfterLoop DEF TypeOK
  <1>4. CASE BranchesAreSound
    <2>1. Credited = Untargeted
      BY <1>1 DEF Credited, Untargeted
    <2>2. /\ UNCHANGED <<input, next, owner>> /\ phase' = "branches"
          /\ records' = Compiled(0)
      <3>1. CASE Credited = {}
        BY <1>1, <1>4, <2>1, <3>1, FirstRecord DEF WithTarget
      <3>2. CASE Credited # {}
        <4>1. IsAccepted(IncumbentRecord(Credited))
          BY <1>1, <1>2, <3>2, IncumbentIsAccepted
        <4> QED
          BY <1>1, <1>4, <2>1, <3>2, <4>1, FirstRecord DEF WithTarget, Emit
      <3> QED
        BY <3>1, <3>2
    <2>3. Len(Branches) \in Nat /\ Len(Branches) >= 2
      BY <1>1, <1>4, CallFacts DEF BranchesAreSound
    <2>4. 0 \in 0..(Len(Branches) - 1) /\ 0 \in 0..Len(Branches)
      BY <2>3
    <2>5. /\ Len(records') <= Len(Branches) + 1
          /\ \A n \in DOMAIN records' : records'[n].kind \in {"incumbent", "branch"}
      BY <1>1, <2>2, <2>4, CompiledAreTyped
    <2>6. \E c \in 0..(Len(Branches) - 1) : records' = Compiled(c) /\ (c > 0 => SuppliedFit)
      BY <2>2, <2>4
    <2> QED
      BY <1>1, <1>2, <1>4, <2>2, <2>5, <2>6, StepAfterLoop
  <1> QED
    BY <1>3, <1>4

LEMMA EmitBranchKeeps ==
    ASSUME CompilerInv, EmitBranch
    PROVE  CompilerInv'
  <1>1. /\ TypeOK /\ IsCall(input) /\ SuppliedFit
        /\ input.target # None /\ SpansPartitionTheAction /\ BranchesAreSound
    BY DEF CompilerInv, EmitBranch
  <1>2. PICK c \in 0..(Len(Branches) - 1) : records = Compiled(c)
    BY DEF CompilerInv, EmitBranch
  <1>3. Len(Branches) \in Nat /\ DOMAIN Branches = 1..Len(Branches)
    BY <1>1, CallFacts
  <1>4. c \in Nat /\ c + 1 \in DOMAIN Branches /\ c + 1 \in 0..Len(Branches)
    BY <1>3
  <1>5. Cardinality(BranchesDone) + 1 = c + 1
    BY <1>2, <1>4, BranchesOfCompiled
  <1>6. IsAccepted(BranchRecord(c + 1))
    BY <1>1, <1>4, BranchIsAccepted
  <1>7. /\ UNCHANGED <<input, next, owner>>
        /\ records' = Append(records, BranchRecord(c + 1))
        /\ phase' = IF c + 1 = Len(Branches) THEN "returned" ELSE "branches"
    BY <1>5, <1>6 DEF EmitBranch, Emit
  <1>8. records' = Compiled(c + 1)
    BY <1>2, <1>4, <1>7, NextBranch
  <1>9. /\ Len(records') <= Len(Branches) + 1
        /\ \A n \in DOMAIN records' : records'[n].kind \in {"incumbent", "branch"}
    BY <1>1, <1>4, <1>8, CompiledAreTyped
  <1>10. Compilable
    BY <1>1 DEF Compilable
  <1>11. CASE c + 1 = Len(Branches)
    <2>1. records' = Compiled(Len(Branches)) /\ phase' = "returned"
      BY <1>7, <1>8, <1>11
    <2> QED
      BY <1>7, <1>9, <1>10, <2>1, StepAfterLoop
  <1>12. CASE c + 1 # Len(Branches)
    <2>1. c + 1 \in 0..(Len(Branches) - 1) /\ phase' = "branches"
      <3>1. PICK last \in Nat : last = Len(Branches)
        BY <1>3
      <3>2. c + 1 \in 0..(last - 1)
        BY <1>4, <1>12, <3>1
      <3> QED
        BY <1>7, <1>12, <3>1, <3>2
    <2>2. \E n \in 0..(Len(Branches) - 1) : records' = Compiled(n) /\ (n > 0 => SuppliedFit)
      BY <1>1, <1>8, <2>1
    <2> QED
      BY <1>1, <1>7, <1>9, <2>1, <2>2, StepAfterLoop
  <1> QED
    BY <1>11, <1>12

LEMMA RefuseSuppliedKeeps ==
    ASSUME CompilerInv, RefuseSupplied
    PROVE  CompilerInv'
  <1>1. UNCHANGED <<input, next, owner, records>> /\ phase' = "refused"
    BY DEF RefuseSupplied, Refuse
  <1>2. ~Compilable
    BY DEF CompilerInv, RefuseSupplied, Compilable
  <1> QED
    BY <1>1, <1>2, StepAfterLoop DEF CompilerInv, TypeOK

LEMMA SameCompiler ==
    ASSUME CompilerInv, UNCHANGED vars
    PROVE  CompilerInv'
  <1>1. UNCHANGED <<input, phase, next, owner, records>>
    BY DEF vars
  <1>2. TypeOK'
    BY <1>1, SameInput DEF CompilerInv, TypeOK
  <1>3. ClaimsAreSound' /\ IsCall(input)'
    BY <1>1, SameClaims, SameInput DEF CompilerInv
  <1>4. (phase = "branches" =>
            /\ input.target # None
            /\ SpansPartitionTheAction /\ BranchesAreSound
            /\ \E c \in 0..(Len(Branches) - 1) : records = Compiled(c) /\ (c > 0 => SuppliedFit))'
    BY <1>1, SameInput DEF CompilerInv
  <1>5. (phase = "returned" => Compilable /\ records = Compiled(Len(Branches)))'
    BY <1>1, SameInput DEF CompilerInv
  <1>6. (phase = "refused" => ~Compilable)'
    BY <1>1, SameInput DEF CompilerInv
  <1> QED
    BY <1>1, <1>2, <1>3, <1>4, <1>5, <1>6 DEF CompilerInv

LEMMA StepKeepsCompilerInv == CompilerInv /\ [Next]_vars => CompilerInv'
  BY ClaimSpanKeeps, RefuseDecisionsKeeps, WithoutTargetKeeps, WithTargetKeeps,
     EmitBranchKeeps, RefuseSuppliedKeeps, SameCompiler
     DEF Next

LEMMA InitIsCompilerInv == Init => CompilerInv
  <1> SUFFICES ASSUME Init PROVE CompilerInv
    OBVIOUS
  <1>1. IsCall(input)
    BY InputsAssumption DEF Init
  <1>2. Len(Branches) \in Nat /\ Len(Decisions) \in Nat
    BY <1>1, CallFacts
  <1>3. TypeOK
    BY <1>2 DEF Init, TypeOK
  <1>4. ClaimsAreSound
    BY DEF Init, ClaimsAreSound
  <1> QED
    BY <1>1, <1>3, <1>4 DEF Init, CompilerInv

-----------------------------------------------------------------------------
(* What the invariant says of an answer. *)

LEMMA AnswersAreExact == CompilerInv => TypeOK /\ RefusesExactly
  BY DEF CompilerInv, RefusesExactly, Compilable

(* The incumbent's record trains the tokens that assembly keeps.           *)
LEMMA IncumbentTrainsTheRest ==
    ASSUME IsCall(input), Compilable, NEW i \in DOMAIN input.mask
    PROVE  (\E d \in Credited : i \in Span(d)) <=> input.mask[i] /\ i \notin Replaced
  <1>1. input.mask[i] <=> \E d \in DecisionSet : i \in Span(d)
    BY DEF Compilable, SpansPartitionTheAction, Trainable
  <1>2. CASE input.target = None
    BY <1>1, <1>2 DEF Credited, Replaced
  <1>3. CASE input.target # None
    <2>1. input.target \in Nodes
      BY <1>3 DEF Compilable, BranchesAreSound
    <2>2. PICK t \in DOMAIN Decisions : Target = Decisions[t]
      BY <2>1, TargetIsADecision, ClaimedByOne
    <2>3. Target \in DecisionSet /\ Target.node = input.target /\ Replaced = Span(Target)
      BY <1>3, <2>1, TargetIsADecision DEF Replaced
    <2>4. ASSUME NEW d \in DecisionSet, d.node # input.target, i \in Span(d)
          PROVE  i \notin Replaced
      <3>1. PICK m \in DOMAIN Decisions : d = Decisions[m]
        BY ClaimedByOne
      <3>2. m # t
        BY <2>2, <2>3, <2>4, <3>1
      <3>3. Span(Decisions[m]) \cap Span(Decisions[t]) = {}
        BY <3>2 DEF Compilable, SpansPartitionTheAction
      <3> QED
        BY <2>2, <2>3, <2>4, <3>1, <3>3
    <2>5. ASSUME NEW d \in DecisionSet, d.node = input.target, i \in Span(d)
          PROVE  i \in Replaced
      <3>1. PICK m \in DOMAIN Decisions : d = Decisions[m]
        BY ClaimedByOne
      <3>2. m = t
        BY <2>2, <2>3, <2>5, <3>1, UniqueNodes DEF Compilable, SpansPartitionTheAction
      <3> QED
        BY <2>2, <2>3, <2>5, <3>1, <3>2
    <2>6. \A d : d \in Credited <=> d \in DecisionSet /\ d.node # input.target
      BY <1>3 DEF Credited
    <2> QED
      BY <1>1, <2>4, <2>5, <2>6
  <1> QED
    BY <1>2, <1>3

LEMMA AnswersAgree == CompilerInv => AssemblyAgrees
  <1> DEFINE L == Len(Branches)
  <1> SUFFICES ASSUME CompilerInv, phase = "returned", input.supplied = None
               PROVE  /\ \A n \in DOMAIN records \ BranchesDone :
                            records[n].advantages = Assembled.incumbent
                      /\ BranchesDone = DOMAIN records =>
                            Assembled.incumbent = [i \in DOMAIN input.mask |-> 0]
                      /\ \A k \in DOMAIN Branches :
                            LET r == records[Len(records) - L + k]
                                b == Assembled.branches[k]
                            IN  \A i \in Span(Branches[k]) :
                                  r.advantages[i] = b.advantage /\ r.weights[i] = b.weight
    BY DEF AssemblyAgrees
  <1>1. IsCall(input) /\ Compilable /\ records = Compiled(L)
    BY DEF CompilerInv
  <1>2. L \in Nat /\ DOMAIN Branches = 1..L
    BY <1>1, CallFacts
  <1>3. Leading \in {0, 1} /\ (Leading = 0 <=> Credited = {})
    BY DEF Leading
  <1>4. BranchesDone = (Leading + 1)..(Leading + L) /\ Len(records) = Leading + L
    <2> HIDE DEF L
    <2> QED
      BY <1>1, <1>2, BranchesOfCompiled, NextBranch
  <1>5. DOMAIN records = 1..(Leading + L)
    BY <1>1 DEF Compiled
  <1>6. Assembled.incumbent = [i \in DOMAIN input.mask |->
                                  IF \E d \in Credited : i \in Span(d) THEN input.trajectory ELSE 0]
    BY <1>1, IncumbentTrainsTheRest DEF Assembled
  <1>7. ASSUME NEW n \in DOMAIN records \ BranchesDone
        PROVE  records[n].advantages = Assembled.incumbent
    <2>1. n \in 1..(Leading + L) /\ n <= Leading
      BY <1>2, <1>3, <1>4, <1>5, <1>7
    <2>2. records[n] = IncumbentRecord(Credited)
      BY <1>1, <2>1 DEF Compiled
    <2>3. IncumbentRecord(Credited).advantages
             = [i \in DOMAIN input.mask |->
                   IF {d \in Credited : i \in Span(d)} = {} THEN 0 ELSE input.trajectory]
      BY DEF IncumbentRecord
    <2>4. \A i : {d \in Credited : i \in Span(d)} = {} <=> ~\E d \in Credited : i \in Span(d)
      OBVIOUS
    <2> QED
      BY <1>6, <2>2, <2>3, <2>4
  <1>8. ASSUME BranchesDone = DOMAIN records
        PROVE  Assembled.incumbent = [i \in DOMAIN input.mask |-> 0]
    <2>1. Leading = 0
      <3>1. SUFFICES ASSUME Leading = 1 PROVE FALSE
        BY <1>3
      <3>2. 1 \in DOMAIN records /\ 1 \notin BranchesDone
        BY <1>2, <1>4, <1>5, <3>1
      <3> QED
        BY <1>8, <3>2
    <2> QED
      BY <1>3, <1>6, <2>1
  <1>9. ASSUME NEW k \in DOMAIN Branches, NEW i \in Span(Branches[k])
        PROVE  LET r == records[Len(records) - L + k]
                   b == Assembled.branches[k]
               IN  r.advantages[i] = b.advantage /\ r.weights[i] = b.weight
    <2>1. Len(records) - L + k = Leading + k /\ Leading + k \in 1..(Leading + L)
          /\ ~(Leading + k <= Leading) /\ Leading + k - Leading = k
      BY <1>2, <1>3, <1>4
    <2>2. records[Leading + k] = BranchRecord(k)
      <3>1. PICK n \in Int : n = Leading + k
        BY <1>2, <1>3
      <3>2. n \in 1..(Leading + L) /\ ~(n <= Leading) /\ n - Leading = k
        <4>1. PICK last \in Nat : last = L
          BY <1>2
        <4>2. k \in 1..last
          BY <1>2, <4>1
        <4>3. n \in 1..(Leading + last)
          BY <1>3, <3>1, <4>1, <4>2
        <4>4. ~(n <= Leading) /\ n - Leading = k
          BY <1>3, <3>1, <4>2
        <4> QED
          BY <4>1, <4>3, <4>4
      <3>3. records[n] = IF n <= Leading THEN IncumbentRecord(Credited) ELSE BranchRecord(n - Leading)
        BY <1>1, <3>2 DEF Compiled
      <3> QED
        BY <3>1, <3>2, <3>3
    <2>3. Branches # <<>>
      BY <1>1, <1>2, CallFacts
    <2>4. BranchesAreSound
      BY <1>1, <2>3 DEF Compilable
    <2>5. i \in DOMAIN Branches[k].mask
      BY <2>4 DEF BranchesAreSound, TrainsItsSpan, Trainable
    <2>6. /\ BranchRecord(k).advantages[i] = LeaveOneOut(Rewards, k)
          /\ BranchRecord(k).weights[i] = Target.weight
      BY <2>5 DEF BranchRecord, Advantage
    <2>7. /\ Assembled.branches[k].advantage = LeaveOneOut(Rewards, k)
          /\ Assembled.branches[k].weight = Target.weight
      BY DEF Assembled
    <2> QED
      BY <2>1, <2>2, <2>6, <2>7
  <1> QED
    BY <1>7, <1>8, <1>9

-----------------------------------------------------------------------------
(* The credit of the branches. *)

LEMMA Scaled ==
    ASSUME NEW n \in Nat, n > 0, NEW x \in Int, NEW y \in Int
    PROVE  x < y <=> n * x < n * y
  <1>1. ASSUME NEW d \in Nat, d > 0 PROVE n * d \in Nat /\ n * d > 0
    BY <1>1, Products
  <1>2. ASSUME NEW u \in Int, NEW v \in Int, u < v
        PROVE  n * u < n * v
    <2>1. PICK d \in Nat : d > 0 /\ v = u + d
      <3>1. v - u \in Nat /\ v - u > 0 /\ v = u + (v - u)
        BY <1>2
      <3> QED
        BY <3>1
    <2>2. n * v = n * u + n * d
      BY <2>1
    <2> QED
      BY <1>1, <2>1, <2>2
  <1> QED
    BY <1>2

(* Leave-one-out advantages sum to zero, and are ordered as the rewards.   *)
LEMMA LeaveOneOutBalances ==
    ASSUME NEW r, IsSequence(r), \A k \in DOMAIN r : r[k] \in Int,
           NEW a, \A k \in DOMAIN r : a[k] = LeaveOneOut(r, k)
    PROVE  /\ \A k \in DOMAIN r : a[k] = Len(r) * r[k] - SumFunction(r) /\ a[k] \in Int
           /\ SumFunction(r) \in Int
           /\ IsSummable(a, DOMAIN r)
           /\ SumFunctionOnSet(a, DOMAIN r) = 0
           /\ \A j, k \in DOMAIN r : r[j] < r[k] <=> a[j] < a[k]
  <1> DEFINE n == Len(r)
             D == DOMAIN r
             t == SumFunctionOnSet(r, D)
  <1>1. n \in Nat /\ D = 1..n
    BY DEF IsSequence
  <1>2. IsFiniteSet(D) /\ Cardinality(D) = n
    <2> HIDE DEF n, D
    <2>1. IsFiniteSet(1..n) /\ Cardinality(1..n) = IF 1 > n THEN 0 ELSE n - 1 + 1
      BY <1>1, FS_Interval
    <2> QED
      BY <1>1, <2>1
  <1>3. IsSummable(r, D)
    BY <1>2 DEF IsSummable
  <1>4. t \in Int /\ SumFunction(r) = t
    <2>1. t \in Int
      <3> HIDE DEF D
      <3> QED
        BY <1>3, SumType
    <2> QED
      BY <2>1 DEF SumFunction
  <1>5. \A k \in D : a[k] = n * r[k] - t /\ a[k] \in Int
    <2> HIDE DEF t
    <2>1. ASSUME NEW m \in Int, NEW x \in Int, NEW s \in Int
          PROVE  (m - 1) * x - (s - x) = m * x - s /\ m * x - s \in Int
      OBVIOUS
    <2>2. ASSUME NEW k \in D
          PROVE  r[k] \in Int /\ a[k] = (n - 1) * r[k] - (t - r[k])
      BY <1>4 DEF LeaveOneOut
    <2>3. n \in Int
      BY <1>1
    <2>4. ASSUME NEW k \in D
          PROVE  a[k] = n * r[k] - t /\ a[k] \in Int
      <3> PICK x \in Int : x = r[k]
        BY <2>2
      <3> HIDE DEF n, D
      <3>1. (n - 1) * x - (t - x) = n * x - t /\ n * x - t \in Int
        BY <1>4, <2>1, <2>3
      <3> QED
        BY <2>2, <3>1
    <2> QED
      BY <2>4
  <1>6. IsSummable(a, D) /\ SumFunctionOnSet(a, D) = 0
    <2>1. \A k \in D : a[k] = Cardinality(D) * r[k] - SumFunctionOnSet(r, D)
      BY <1>2, <1>5
    <2> HIDE DEF D
    <2> QED
      BY <1>3, <2>1, SumCentered
  <1>7. ASSUME NEW j \in D, NEW k \in D
        PROVE  r[j] < r[k] <=> a[j] < a[k]
    <2> HIDE DEF t
    <2>1. n > 0 /\ r[j] \in Int /\ r[k] \in Int
      BY <1>1
    <2>2. r[j] < r[k] <=> n * r[j] < n * r[k]
      <3> HIDE DEF n
      <3> QED
        BY <1>1, <2>1, Scaled
    <2>3. a[j] = n * r[j] - t /\ a[k] = n * r[k] - t
      BY <1>5
    <2>4. n * r[j] \in Int /\ n * r[k] \in Int
      <3> HIDE DEF n
      <3> QED
        BY <1>1, <2>1
    <2> HIDE DEF n
    <2> QED
      BY <1>4, <2>2, <2>3, <2>4
  <1> QED
    BY <1>4, <1>5, <1>6, <1>7

LEMMA AdvantagesBalance == CompilerInv => BranchAdvantagesBalance
  <1> DEFINE a == [k \in DOMAIN Branches |-> Advantage(k)]
  <1> SUFFICES ASSUME CompilerInv, phase = "returned", input.supplied = None
               PROVE  /\ SumFunction(a) = 0
                      /\ \A j, k \in DOMAIN Branches : Rewards[j] < Rewards[k] <=> a[j] < a[k]
    BY DEF BranchAdvantagesBalance
  <1>1. /\ Len(Branches) \in Nat /\ DOMAIN Branches = 1..Len(Branches)
        /\ \A k \in DOMAIN Branches : Branches[k].reward \in Int
    BY CallFacts DEF CompilerInv, IsCall, Branches
  <1>2. /\ IsSequence(Rewards) /\ DOMAIN Rewards = DOMAIN Branches
        /\ \A k \in DOMAIN Rewards : Rewards[k] \in Int
    <2>1. \A k \in DOMAIN Branches : Rewards[k] = Branches[k].reward
      BY DEF Rewards
    <2>2. DOMAIN Rewards = DOMAIN Branches /\ Rewards = [k \in 1..Len(Branches) |-> Rewards[k]]
      BY <1>1 DEF Rewards
    <2>3. Len(Rewards) = Len(Branches)
      BY <1>1, <2>2, SequenceFacts
    <2> QED
      BY <1>1, <2>1, <2>2, <2>3 DEF IsSequence
  <1>3. \A k \in DOMAIN Rewards : a[k] = LeaveOneOut(Rewards, k)
    BY <1>2 DEF Advantage
  <1>4. SumFunction(a) = SumFunctionOnSet(a, DOMAIN Rewards)
    BY <1>2 DEF SumFunction
  <1> HIDE DEF a
  <1> QED
    BY <1>2, <1>3, <1>4, LeaveOneOutBalances

-----------------------------------------------------------------------------
(* The loss of the records that an answered call returns. *)

LEMMA CreditedFacts ==
    ASSUME IsCall(input), SpansPartitionTheAction, NEW d \in Credited
    PROVE  /\ d \in DecisionSet /\ d.weight \in Nat \ {0} /\ IsFiniteSet(Span(d))
           /\ Span(d) \subseteq DOMAIN input.mask
  <1>1. d \in DecisionSet
    BY DEF Credited
  <1>2. PICK m \in DOMAIN Decisions : d = Decisions[m]
    BY <1>1, ClaimedByOne
  <1>3. d.weight \in Nat \ {0} /\ d.start \in Nat /\ d.stop \in Nat
    BY <1>2, CallFacts
  <1>4. IsFiniteSet((d.start + 1)..d.stop)
    <2>1. d.start + 1 \in Int /\ d.stop \in Int
      BY <1>3
    <2> QED
      BY <2>1, FS_Interval
  <1>5. Span(d) \subseteq Trainable(input.mask)
    BY <1>1 DEF SpansPartitionTheAction
  <1> QED
    BY <1>1, <1>3, <1>4, <1>5 DEF Span, Trainable

(* What the incumbent's record adds up, a term e[i] for each token: the     *)
(* terms of each credited decision's action, weighted once.                *)
LEMMA IncumbentSum ==
    ASSUME IsCall(input), SpansPartitionTheAction,
           NEW e, \A d \in Credited : \A i \in Span(d) : e[i] \in Int,
           NEW f, \A i \in Selected(IncumbentRecord(Credited)) :
                     f[i] = e[i] * IncumbentRecord(Credited).weights[i],
           NEW s, \A d \in Credited : s[d] = d.weight * SumFunctionOnSet(e, Span(d))
    PROVE  /\ IsSummable(f, Selected(IncumbentRecord(Credited))) /\ IsSummable(s, Credited)
           /\ SumFunctionOnSet(f, Selected(IncumbentRecord(Credited)))
                = K * SumFunctionOnSet(s, Credited)
  <1> DEFINE r == IncumbentRecord(Credited)
             F == [d \in Credited |-> SumFunctionOnSet(f, Span(d))]
             part == [d \in Credited |-> Span(d)]
  <1>1. K \in Nat /\ K > 0
    BY CallFacts
  <1>2. ASSUME NEW d \in Credited
        PROVE  /\ d \in DecisionSet /\ d.weight \in Nat \ {0} /\ IsFiniteSet(Span(d))
               /\ Span(d) \subseteq DOMAIN input.mask
    BY CreditedFacts
  <1>3. ASSUME NEW c \in Credited, NEW d \in Credited, c # d
        PROVE  Span(c) \cap Span(d) = {}
    <2>1. PICK m \in DOMAIN Decisions : c = Decisions[m]
      BY <1>2, ClaimedByOne
    <2>2. PICK n \in DOMAIN Decisions : d = Decisions[n]
      BY <1>2, ClaimedByOne
    <2> QED
      BY <1>3, <2>1, <2>2 DEF SpansPartitionTheAction
  <1>4. ASSUME NEW d \in Credited, NEW i \in Span(d)
        PROVE  r.weights[i] = K * d.weight /\ r.weights[i] # 0 /\ i \in DOMAIN r.mask
    <2>1. {c \in Credited : i \in Span(c)} = {d}
      BY <1>3, <1>4
    <2>2. (CHOOSE c \in {d} : TRUE) = d
      OBVIOUS
    <2>3. i \in DOMAIN input.mask
      BY <1>2
    <2>4. r.weights[i] = K * d.weight /\ i \in DOMAIN r.mask
      BY <2>1, <2>2, <2>3 DEF IncumbentRecord
    <2>5. K * d.weight > 0
      <3>1. PICK w \in Nat \ {0} : w = d.weight
        BY <1>2
      <3> HIDE DEF r
      <3> QED
        BY <1>1, <3>1, Products
    <2> QED
      BY <2>4, <2>5
  <1>5. \A i : i \in Selected(r) <=> \E d \in Credited : i \in part[d]
    <2>1. ASSUME NEW i \in Selected(r)
          PROVE  \E d \in Credited : i \in Span(d)
      <3>1. i \in DOMAIN r.mask /\ r.weights[i] # 0
        BY DEF Selected
      <3>2. i \in DOMAIN input.mask
        BY <3>1 DEF IncumbentRecord
      <3>3. {d \in Credited : i \in Span(d)} # {}
        BY <3>1, <3>2 DEF IncumbentRecord
      <3> QED
        BY <3>3
    <2>2. ASSUME NEW d \in Credited, NEW i \in Span(d)
          PROVE  i \in Selected(r)
      BY <1>4 DEF Selected
    <2> HIDE DEF r
    <2> QED
      BY <2>1, <2>2
  <1>6. ASSUME NEW d \in Credited
        PROVE  /\ IsSummable(f, part[d]) /\ F[d] = SumFunctionOnSet(f, part[d])
               /\ s[d] \in Int /\ F[d] = K * s[d]
    <2> DEFINE w == d.weight
               E == SumFunctionOnSet(e, Span(d))
    <2>1. w \in Nat /\ K * w \in Int
      <3>1. PICK v \in Nat \ {0} : v = d.weight
        BY <1>2
      <3> QED
        BY <1>1, <3>1, Products
    <2>2. IsSummable(e, Span(d))
      BY <1>2 DEF IsSummable
    <2>3. E \in Int
      BY <2>2, SumType
    <2>4. \A i \in Span(d) : f[i] = (K * w) * e[i]
      <3> TAKE i \in Span(d)
      <3>1. i \in Selected(r) /\ r.weights[i] = K * w /\ e[i] \in Int
        BY <1>4 DEF Selected
      <3>2. f[i] = e[i] * r.weights[i]
        BY <3>1
      <3> HIDE DEF r, w
      <3> QED
        BY <2>1, <3>1, <3>2
    <2>5. IsSummable(f, Span(d)) /\ SumFunctionOnSet(f, Span(d)) = (K * w) * E
      <3> HIDE DEF w
      <3> QED
        BY <2>1, <2>2, <2>4, SumScaled
    <2>6. s[d] = w * E
      OBVIOUS
    <2>7. s[d] \in Int /\ (K * w) * E = K * s[d]
      <3> HIDE DEF E, w
      <3> QED
        BY <1>1, <2>1, <2>3, <2>6
    <2> QED
      BY <2>5, <2>7
  <1>7. IsFiniteSet(Credited)
    BY CreditedIsFinite
  <1>8. IsSummable(s, Credited)
    BY <1>6, <1>7 DEF IsSummable
  <1>9. IsPartition(part, Credited, Selected(r))
    <2>1. \A c, d \in Credited : c # d => part[c] \cap part[d] = {}
      BY <1>3
    <2> HIDE DEF part, r
    <2> QED
      BY <1>5, <1>7, <2>1 DEF IsPartition
  <1>10. SumsParts(F, f, part, Credited)
    BY <1>6 DEF SumsParts
  <1>11. SumFunctionOnSet(F, Credited) = K * SumFunctionOnSet(s, Credited)
    <2>1. \A d \in Credited : F[d] = K * s[d]
      BY <1>6
    <2> HIDE DEF F
    <2> QED
      BY <1>1, <1>8, <2>1, SumScaled
  <1> HIDE DEF F, part, r
  <1>12. /\ IsSummable(f, Selected(r))
         /\ SumFunctionOnSet(f, Selected(r)) = SumFunctionOnSet(F, Credited)
    BY <1>9, <1>10, SumOfParts
  <1> QED
    BY <1>8, <1>11, <1>12 DEF r

LEMMA BranchFacts ==
    ASSUME IsCall(input), BranchesAreSound, NEW k \in DOMAIN Branches
    PROVE  /\ Target.weight \in Nat \ {0} /\ Selected(BranchRecord(k)) = Span(Branches[k])
           /\ IsFiniteSet(Span(Branches[k])) /\ Span(Branches[k]) \subseteq DOMAIN Branches[k].mask
  <1> DEFINE r == BranchRecord(k)
             b == Branches[k]
             w == Target.weight
  <1>1. PICK t \in DOMAIN Decisions : Target = Decisions[t]
    BY TargetIsADecision, ClaimedByOne DEF BranchesAreSound
  <1>2. w \in Nat \ {0}
    BY <1>1, CallFacts
  <1>3. Span(b) = Trainable(b.mask)
    BY DEF BranchesAreSound, TrainsItsSpan
  <1>4. Span(b) \subseteq DOMAIN b.mask
    BY <1>3 DEF Trainable
  <1>5. \A i \in DOMAIN b.mask : r.weights[i] = IF i \in Span(b) THEN w ELSE 0
    BY DEF BranchRecord
  <1>6. r.mask = b.mask
    BY DEF BranchRecord
  <1>7. Selected(r) = Span(b)
    <2> HIDE DEF r, w, b
    <2> QED
      BY <1>2, <1>4, <1>5, <1>6 DEF Selected
  <1>8. IsFiniteSet(Span(b))
    <2>1. PICK m \in Nat : DOMAIN b.mask = 1..m
      <3>1. b.mask \in Seq(BOOLEAN)
        BY DEF IsCall, Branches
      <3>2. Len(b.mask) \in Nat /\ DOMAIN b.mask = 1..Len(b.mask)
        BY <3>1, LenProperties
      <3> QED
        BY <3>2
    <2>2. IsFiniteSet(1..m)
      BY <2>1, FS_Interval
    <2> QED
      BY <1>4, <2>1, <2>2, FS_Subset
  <1> QED
    BY <1>2, <1>4, <1>7, <1>8

(* What a branch's record adds up: the terms of the branch's action,       *)
(* weighted as the target.                                                 *)
LEMMA BranchSum ==
    ASSUME IsCall(input), BranchesAreSound, NEW k \in DOMAIN Branches,
           NEW e, \A i \in Span(Branches[k]) : e[i] \in Int,
           NEW f, \A i \in Selected(BranchRecord(k)) : f[i] = e[i] * BranchRecord(k).weights[i]
    PROVE  /\ IsSummable(f, Selected(BranchRecord(k)))
           /\ SumFunctionOnSet(f, Selected(BranchRecord(k)))
                = Target.weight * SumFunctionOnSet(e, Span(Branches[k]))
  <1> DEFINE r == BranchRecord(k)
             b == Branches[k]
             w == Target.weight
  <1>1. w \in Nat \ {0} /\ Selected(r) = Span(b) /\ IsFiniteSet(Span(b)) /\ Span(b) \subseteq DOMAIN b.mask
    BY BranchFacts
  <1>9. IsSummable(e, Span(b))
    BY <1>1 DEF IsSummable
  <1>10. \A i \in Span(b) : f[i] = w * e[i]
    <2> TAKE i \in Span(b)
    <2>1. f[i] = e[i] * r.weights[i] /\ r.weights[i] = w /\ e[i] \in Int
      BY <1>1 DEF BranchRecord
    <2> HIDE DEF r, w
    <2> QED
      BY <1>1, <2>1
  <1>11. IsSummable(f, Span(b)) /\ SumFunctionOnSet(f, Span(b)) = w * SumFunctionOnSet(e, Span(b))
    <2> HIDE DEF w, b
    <2> QED
      BY <1>1, <1>9, <1>10, SumScaled
  <1> QED
    BY <1>1, <1>11

(* The records of an answered call. *)
LEMMA ReturnedRecords ==
    ASSUME CompilerInv, phase = "returned"
    PROVE  /\ IsCall(input) /\ SpansPartitionTheAction
           /\ Branches # <<>> => input.target # None /\ BranchesAreSound
           /\ Credited = {d \in DecisionSet : d.node # input.target}
           /\ DOMAIN records = (DOMAIN records \ BranchesDone) \cup BranchesDone
           /\ DOMAIN records \ BranchesDone = IF Credited = {} THEN {} ELSE {1}
           /\ Credited # {} => 1 \in DOMAIN records /\ records[1] = IncumbentRecord(Credited)
           /\ IsFiniteSet(BranchesDone) /\ Cardinality(BranchesDone) = Len(Branches)
           /\ \A n \in BranchesDone :
                 /\ n \in DOMAIN records /\ BranchAt(n) \in DOMAIN Branches
                 /\ records[n] = BranchRecord(BranchAt(n))
  <1> DEFINE L == Len(Branches)
  <1>1. IsCall(input) /\ Compilable /\ records = Compiled(L)
    BY DEF CompilerInv
  <1>2. L \in Nat /\ DOMAIN Branches = 1..L /\ (Branches = <<>> <=> L = 0)
    BY <1>1, CallFacts
  <1>3. Leading \in {0, 1} /\ (Leading = 0 <=> Credited = {})
    BY DEF Leading
  <1>4. /\ BranchesDone = (Leading + 1)..(Leading + L) /\ Len(records) = Leading + L
        /\ Cardinality(BranchesDone) = L
    <2> HIDE DEF L
    <2> QED
      BY <1>1, <1>2, BranchesOfCompiled, NextBranch
  <1>5. /\ DOMAIN records = 1..(Leading + L)
        /\ \A n \in 1..(Leading + L) :
              records[n] = IF n <= Leading THEN IncumbentRecord(Credited) ELSE BranchRecord(n - Leading)
    BY <1>1 DEF Compiled
  <1>6. Branches # <<>> => input.target # None /\ BranchesAreSound
    BY <1>1 DEF Compilable
  <1>7. \A n \in DOMAIN Decisions : Decisions[n].node # None
    BY <1>1, CallFacts
  <1>8. Credited = {d \in DecisionSet : d.node # input.target}
    <2>1. ASSUME NEW d \in DecisionSet PROVE d.node # None
      BY <1>7, ClaimedByOne
    <2> QED
      BY <2>1 DEF Credited
  <1>9. DOMAIN records \ BranchesDone = IF Credited = {} THEN {} ELSE {1}
    <2> HIDE DEF L
    <2>1. CASE Leading = 0
      BY <1>2, <1>3, <1>4, <1>5, <2>1
    <2>2. CASE Leading = 1
      BY <1>2, <1>3, <1>4, <1>5, <2>2
    <2> QED
      BY <1>3, <2>1, <2>2
  <1>10. Credited # {} => 1 \in DOMAIN records /\ records[1] = IncumbentRecord(Credited)
    BY <1>2, <1>3, <1>5
  <1>11. ASSUME NEW n \in BranchesDone
         PROVE  /\ n \in DOMAIN records /\ BranchAt(n) \in DOMAIN Branches
                /\ records[n] = BranchRecord(BranchAt(n))
    <2> HIDE DEF L
    <2>1. n \in Int /\ n \in 1..(Leading + L) /\ ~(n <= Leading)
      BY <1>2, <1>3, <1>4
    <2>2. BranchAt(n) = n - Leading
      <3>1. n - (Leading + L) + L = n - Leading
        BY <1>2, <1>3, <2>1
      <3> QED
        BY <1>4, <3>1 DEF BranchAt, L
    <2>3. n - Leading \in 1..L
      BY <1>2, <1>3, <2>1
    <2> QED
      BY <1>2, <1>5, <2>1, <2>2, <2>3
  <1>12. IsFiniteSet(BranchesDone)
    <2>1. Leading + 1 \in Int /\ Leading + L \in Int
      BY <1>2, <1>3
    <2> QED
      BY <1>4, <2>1, FS_Interval
  <1>13. SpansPartitionTheAction
    BY <1>1 DEF Compilable
  <1>14. BranchesDone \subseteq DOMAIN records
    BY <1>11
  <1> HIDE DEF L
  <1> QED
    BY <1>1, <1>4, <1>6, <1>8, <1>9, <1>10, <1>11, <1>12, <1>13, <1>14 DEF L

(* Splitting a decision into branches does not change how many decisions    *)
(* the loss is divided by.                                                 *)
LEMMA DecisionsAreCounted ==
    ASSUME CompilerInv, phase = "returned"
    PROVE  Normalizer(records) = K * Len(Decisions)
  <1> DEFINE L == Len(Branches)
             m == Len(Decisions)
             c == Cardinality(Credited)
             kept == DOMAIN records \ BranchesDone
             units == [n \in DOMAIN records |-> records[n].units]
  <1>1. K \in Nat /\ K > 0 /\ m \in Nat /\ c \in Nat /\ L \in Nat /\ (L = 0 <=> Branches = <<>>)
    BY ReturnedRecords, CallFacts, CreditedIsFinite
  <1>2. IsSummable(units, kept) /\ SumFunctionOnSet(units, kept) = K * c
    <2>1. CASE Credited = {}
      <3>1. kept = {} /\ c = 0
        BY <2>1, ReturnedRecords, FS_EmptySet
      <3>2. IsSummable(units, {})
        BY FS_EmptySet DEF IsSummable
      <3> HIDE DEF units, kept, c
      <3> QED
        BY <1>1, <3>1, <3>2, SumOfNothing
    <2>2. CASE Credited # {}
      <3>1. kept = {1} /\ 1 \in DOMAIN records /\ records[1] = IncumbentRecord(Credited)
        BY <2>2, ReturnedRecords
      <3>2. units[1] = K * c
        BY <3>1 DEF IncumbentRecord
      <3>3. K * c \in Int
        BY <1>1, Products
      <3> HIDE DEF units, kept, c
      <3> QED
        BY <3>1, <3>2, <3>3, SumOfOne
    <2> QED
      BY <2>1, <2>2
  <1>3. IsSummable(units, BranchesDone) /\ SumFunctionOnSet(units, BranchesDone) = 1 * L
    <2>1. ASSUME NEW n \in BranchesDone PROVE units[n] = 1
      <3>1. n \in DOMAIN records /\ records[n] = BranchRecord(BranchAt(n))
        BY ReturnedRecords
      <3>2. BranchRecord(BranchAt(n)).units = 1
        BY DEF BranchRecord, BranchUnits
      <3> QED
        BY <3>1, <3>2
    <2>2. IsFiniteSet(BranchesDone) /\ Cardinality(BranchesDone) = L
      BY ReturnedRecords
    <2> HIDE DEF units, L
    <2> QED
      BY <2>1, <2>2, SumConstant
  <1>4. SumFunctionOnSet(units, DOMAIN records) = K * c + 1 * L
    <2>1. kept \cap BranchesDone = {} /\ DOMAIN records = kept \cup BranchesDone
      BY ReturnedRecords
    <2> HIDE DEF kept, units, c, L
    <2> QED
      BY <1>2, <1>3, <2>1, SumUnion
  <1>5. Cardinality(DecisionSet) = m /\ IsFiniteSet(DecisionSet)
    <2> DEFINE f == [n \in DOMAIN Decisions |-> Decisions[n]]
    <2>1. IsFiniteSet(DOMAIN Decisions) /\ Cardinality(DOMAIN Decisions) = m
      BY ReturnedRecords, FiniteDecisions
    <2>2. f \in Bijection(DOMAIN Decisions, DecisionSet)
      <3>1. \A i, j \in DOMAIN Decisions : Decisions[i] = Decisions[j] => i = j
        BY ReturnedRecords, UniqueNodes DEF SpansPartitionTheAction
      <3> QED
        BY <3>1 DEF Bijection, Injection, Surjection, IsInjective, DecisionSet
    <2> HIDE DEF f
    <2>3. Cardinality(DecisionSet) = Cardinality(DOMAIN Decisions) /\ IsFiniteSet(DecisionSet)
      BY <2>1, <2>2, FS_Bijection DEF ExistsBijection
    <2> QED
      BY <2>1, <2>3
  <1>6. K * c + 1 * L = K * m
    <2>1. CASE Branches = <<>>
      <3>1. input.target = None /\ K = 1 /\ L = 0
        <4>1. Compilable
          BY DEF CompilerInv
        <4>2. input.target = None
          <5> SUFFICES ASSUME input.target # None PROVE FALSE
            OBVIOUS
          <5>1. L >= 2
            BY <4>1 DEF Compilable, BranchesAreSound
          <5> QED
            BY <1>1, <2>1, <5>1
        <4> QED
          BY <1>1, <2>1, <4>2 DEF K
      <3>2. Credited = DecisionSet
        BY <3>1 DEF Credited
      <3> QED
        BY <1>1, <1>5, <3>1, <3>2
    <2>2. CASE Branches # <<>>
      <3>1. K = L /\ input.target \in Nodes
        BY <2>2, ReturnedRecords DEF K, BranchesAreSound
      <3>2. Credited = DecisionSet \ {Target} /\ Target \in DecisionSet
        <4>1. Target \in DecisionSet /\ Target.node = input.target
          BY <3>1, TargetIsADecision
        <4>2. ASSUME NEW d \in DecisionSet, d.node = input.target
              PROVE  d = Target
          <5>1. PICK i \in DOMAIN Decisions : d = Decisions[i]
            BY ClaimedByOne
          <5>2. PICK j \in DOMAIN Decisions : Target = Decisions[j]
            BY <4>1, ClaimedByOne
          <5>3. Decisions[i].node = Decisions[j].node
            BY <4>1, <4>2, <5>1, <5>2
          <5>4. i = j
            BY <5>3, ReturnedRecords, UniqueNodes DEF SpansPartitionTheAction
          <5> QED
            BY <5>1, <5>2, <5>4
        <4>3. Credited = {d \in DecisionSet : d.node # input.target}
          BY ReturnedRecords
        <4> QED
          BY <4>1, <4>2, <4>3
      <3>3. c = m - 1
        <4> PICK D : D = DecisionSet
          OBVIOUS
        <4> PICK t : t = Target
          OBVIOUS
        <4>1. Cardinality(D \ {t}) = Cardinality(D) - 1
          BY <1>5, <3>2, FS_RemoveElement
        <4> QED
          BY <1>5, <3>2, <4>1
      <3> HIDE DEF c, m, L
      <3>4. K * (m - 1) + 1 * K = K * m
        BY <1>1
      <3> QED
        BY <3>1, <3>3, <3>4
    <2> QED
      BY <2>1, <2>2
  <1>7. Normalizer(records) = SumFunctionOnSet(units, DOMAIN records)
    BY DEF Normalizer, SumFunction
  <1> QED
    BY <1>4, <1>6, <1>7

LEMMA AdvantageType ==
    ASSUME CompilerInv, phase = "returned", NEW k \in DOMAIN Branches
    PROVE  Advantage(k) \in Int
  <1>1. IsCall(input) /\ Compilable
    BY DEF CompilerInv
  <1>2. /\ Len(Branches) \in Nat /\ DOMAIN Branches = 1..Len(Branches)
        /\ \A j \in DOMAIN Branches : Branches[j].reward \in Int
    BY <1>1, CallFacts DEF IsCall, Branches
  <1>3. CASE input.supplied = None
    <2>1. Advantage(k) = LeaveOneOut(Rewards, k)
      BY <1>3 DEF Advantage
    <2>2. /\ IsSequence(Rewards) /\ k \in DOMAIN Rewards
          /\ \A j \in DOMAIN Rewards : Rewards[j] \in Int
      <3>1. Rewards = [j \in 1..Len(Branches) |-> Rewards[j]]
        BY <1>2 DEF Rewards
      <3>2. Len(Rewards) = Len(Branches)
        BY <1>2, <3>1, SequenceFacts
      <3> QED
        BY <1>2, <3>1, <3>2 DEF Rewards, IsSequence
    <2> DEFINE a == [j \in DOMAIN Rewards |-> LeaveOneOut(Rewards, j)]
    <2>3. \A j \in DOMAIN Rewards : a[j] = LeaveOneOut(Rewards, j)
      OBVIOUS
    <2>4. a[k] \in Int
      <3> HIDE DEF a
      <3> QED
        BY <2>2, <2>3, LeaveOneOutBalances
    <2> QED
      BY <2>1, <2>2, <2>3, <2>4
  <1>4. CASE input.supplied # None
    <2>1. input.supplied \in Seq(Int) /\ Len(input.supplied) = Len(Branches)
      <3>1. Branches # <<>>
        BY <1>2
      <3> QED
        BY <1>1, <1>4, <3>1 DEF IsCall, Compilable, SuppliedFit
    <2>2. input.supplied[k] \in Int
      <3>1. PICK x \in Seq(Int) : x = input.supplied
        BY <2>1
      <3>2. k \in 1..Len(x)
        BY <1>2, <2>1, <3>1
      <3>3. x[k] \in Int
        BY <3>2, ElementOfSeq
      <3> QED
        BY <3>1, <3>3
    <2> QED
      BY <1>4, <2>2 DEF Advantage
  <1> QED
    BY <1>3, <1>4

(* An integer for each token of each record.                               *)
IsTable(t) == \A n \in DOMAIN records : \A i \in DOMAIN records[n].mask : t[n][i] \in Int

LEMMA DriftType ==
    ASSUME NEW current, NEW behavior, IsTable(current), IsTable(behavior),
           NEW n \in DOMAIN records, NEW i \in DOMAIN records[n].mask
    PROVE  Drift(current, behavior, n, i) \in Int
  <1>1. PICK x \in Int : x = current[n][i]
    BY DEF IsTable
  <1>2. PICK y \in Int : y = behavior[n][i]
    BY DEF IsTable
  <1> QED
    BY <1>1, <1>2 DEF Drift

PolicySum(r, n, current) ==
    SumFunction([i \in Selected(r) |-> r.advantages[i] * current[n][i] * r.weights[i]])

DriftSum(r, n, current, behavior) ==
    SumFunction([i \in Selected(r) |-> Drift(current, behavior, n, i) * r.weights[i]])

ActionLogProb(n, a, current) == SumFunctionOnSet(current[n], Span(a))

ActionDrift(n, a, current, behavior) ==
    SumFunction([i \in Span(a) |-> Drift(current, behavior, n, i)])

LEMMA IncumbentTerms ==
    ASSUME CompilerInv, phase = "returned", Credited # {},
           NEW current, NEW behavior, IsTable(current), IsTable(behavior),
           NEW s, s = [d \in Credited |-> d.weight * input.trajectory * ActionLogProb(1, d, current)],
           NEW z, z = [d \in Credited |-> d.weight * ActionDrift(1, d, current, behavior)]
    PROVE  /\ IsSummable(s, Credited) /\ IsSummable(z, Credited)
           /\ PolicySum(records[1], 1, current) = K * SumFunctionOnSet(s, Credited)
           /\ DriftSum(records[1], 1, current, behavior) = K * SumFunctionOnSet(z, Credited)
  <1> DEFINE r == IncumbentRecord(Credited)
             D == DOMAIN input.mask
             a == input.trajectory
             e == [i \in D |-> a * current[1][i]]
             g == [i \in D |-> Drift(current, behavior, 1, i)]
             f == [i \in Selected(r) |-> r.advantages[i] * current[1][i] * r.weights[i]]
             h == [i \in Selected(r) |-> Drift(current, behavior, 1, i) * r.weights[i]]
  <1>1. /\ IsCall(input) /\ SpansPartitionTheAction /\ records[1] = r /\ 1 \in DOMAIN records
        /\ a \in Int /\ r.mask = input.mask
    BY ReturnedRecords DEF IsCall, IncumbentRecord
  <1>2. ASSUME NEW i \in D
        PROVE  /\ current[1][i] \in Int /\ Drift(current, behavior, 1, i) \in Int
               /\ e[i] \in Int /\ g[i] \in Int
    <2>1. i \in DOMAIN records[1].mask
      BY <1>1
    <2>2. PICK x \in Int : x = current[1][i]
      BY <1>1, <2>1 DEF IsTable
    <2>3. Drift(current, behavior, 1, i) \in Int
      BY <1>1, <2>1, DriftType
    <2>4. a * x \in Int
      BY <1>1
    <2> QED
      BY <2>2, <2>3, <2>4
  <1>3. ASSUME NEW d \in Credited
        PROVE  /\ IsFiniteSet(Span(d)) /\ Span(d) \subseteq D /\ d.weight \in Nat \ {0}
    BY <1>1, CreditedFacts
  <1>4. ASSUME NEW i \in Selected(r)
        PROVE  i \in D /\ r.advantages[i] = a /\ r.weights[i] \in Nat
    <2>1. i \in D /\ r.weights[i] # 0
      BY <1>1 DEF Selected
    <2>2. {d \in Credited : i \in Span(d)} # {}
      BY <2>1 DEF IncumbentRecord
    <2>3. r.advantages[i] = a
      BY <2>1, <2>2 DEF IncumbentRecord
    <2> DEFINE d == CHOOSE c \in {c \in Credited : i \in Span(c)} : TRUE
    <2>4. d \in Credited /\ r.weights[i] = K * d.weight
      BY <2>1, <2>2 DEF IncumbentRecord
    <2>5. PICK w \in Nat : w = d.weight
      BY <1>3, <2>4
    <2>6. K * w \in Nat
      BY <1>1, CallFacts, Products
    <2> QED
      BY <2>1, <2>3, <2>4, <2>5, <2>6
  <1>5. /\ \A d \in Credited : \A i \in Span(d) : e[i] \in Int
        /\ \A d \in Credited : \A i \in Span(d) : g[i] \in Int
    <2> HIDE DEF e, g
    <2> QED
      BY <1>2, <1>3
  <1>6. \A i \in Selected(r) : f[i] = e[i] * r.weights[i]
    <2> TAKE i \in Selected(r)
    <2>1. i \in D /\ f[i] = a * current[1][i] * r.weights[i] /\ e[i] = a * current[1][i]
      BY <1>4
    <2> QED
      BY <2>1
  <1>7. \A i \in Selected(r) : h[i] = g[i] * r.weights[i]
    BY <1>4
  <1>8. ASSUME NEW d \in Credited
        PROVE  /\ s[d] = d.weight * SumFunctionOnSet(e, Span(d))
               /\ z[d] = d.weight * SumFunctionOnSet(g, Span(d))
    <2> DEFINE X == SumFunctionOnSet(current[1], Span(d))
    <2>1. IsSummable(current[1], Span(d))
      BY <1>2, <1>3 DEF IsSummable
    <2>2. X \in Int
      BY <2>1, SumType
    <2>3. SumFunctionOnSet(e, Span(d)) = a * X
      <3>1. \A i \in Span(d) : e[i] = a * current[1][i]
        BY <1>3
      <3> HIDE DEF e, a
      <3> QED
        BY <1>1, <2>1, <3>1, SumScaled
    <2>4. s[d] = d.weight * a * X
      BY DEF ActionLogProb
    <2>5. d.weight * a * X = d.weight * (a * X)
      <3> PICK w \in Nat : w = d.weight
        BY <1>3
      <3> HIDE DEF a, X
      <3> QED
        BY <1>1, <2>2
    <2>6. SumFunctionOnSet(g, Span(d)) = ActionDrift(1, d, current, behavior)
      <3> DEFINE y == [i \in Span(d) |-> Drift(current, behavior, 1, i)]
      <3>1. \A i \in Span(d) : y[i] = g[i]
        BY <1>3
      <3>2. IsSummable(g, Span(d))
        BY <1>3, <1>5 DEF IsSummable
      <3>3. ActionDrift(1, d, current, behavior) = SumFunctionOnSet(y, Span(d))
        BY DEF ActionDrift, SumFunction
      <3> HIDE DEF y, g
      <3> QED
        BY <3>1, <3>2, <3>3, SumSame
    <2> QED
      BY <2>3, <2>4, <2>5, <2>6
  <1>9. PolicySum(r, 1, current) = SumFunctionOnSet(f, Selected(r))
    BY DEF PolicySum, SumFunction
  <1>10. DriftSum(r, 1, current, behavior) = SumFunctionOnSet(h, Selected(r))
    BY DEF DriftSum, SumFunction
  <1> HIDE DEF e, f, g, h
  <1>11. IsSummable(s, Credited) /\ SumFunctionOnSet(f, Selected(r)) = K * SumFunctionOnSet(s, Credited)
    <2>1. \A d \in Credited : s[d] = d.weight * SumFunctionOnSet(e, Span(d))
      BY <1>8
    <2>2. IsCall(input) /\ SpansPartitionTheAction
      BY <1>1
    <2>3. \A d \in Credited : \A i \in Span(d) : e[i] \in Int
      BY <1>5
    <2>4. \A i \in Selected(IncumbentRecord(Credited)) : f[i] = e[i] * IncumbentRecord(Credited).weights[i]
      BY <1>6
    <2> QED
      BY ONLY <2>1, <2>2, <2>3, <2>4, IncumbentSum
  <1>12. IsSummable(z, Credited) /\ SumFunctionOnSet(h, Selected(r)) = K * SumFunctionOnSet(z, Credited)
    BY <1>1, <1>5, <1>7, <1>8, IncumbentSum
  <1> QED
    BY <1>1, <1>9, <1>10, <1>11, <1>12

LEMMA BranchTerms ==
    ASSUME CompilerInv, phase = "returned", NEW n \in BranchesDone,
           NEW current, NEW behavior, IsTable(current), IsTable(behavior)
    PROVE  LET b == Branches[BranchAt(n)]
           IN  /\ PolicySum(records[n], n, current)
                     = Target.weight * Advantage(BranchAt(n)) * ActionLogProb(n, b, current)
               /\ DriftSum(records[n], n, current, behavior)
                     = Target.weight * ActionDrift(n, b, current, behavior)
               /\ DriftSum(records[n], n, current, behavior) \in Int
  <1> DEFINE k == BranchAt(n)
             b == Branches[k]
             r == BranchRecord(k)
             a == Advantage(k)
             w == Target.weight
             e == [i \in Span(b) |-> a * current[n][i]]
             g == [i \in Span(b) |-> Drift(current, behavior, n, i)]
             f == [i \in Selected(r) |-> r.advantages[i] * current[n][i] * r.weights[i]]
             h == [i \in Selected(r) |-> Drift(current, behavior, n, i) * r.weights[i]]
             X == SumFunctionOnSet(current[n], Span(b))
             Y == SumFunctionOnSet(g, Span(b))
  <1>1. /\ IsCall(input) /\ k \in DOMAIN Branches /\ records[n] = r /\ n \in DOMAIN records
    BY ReturnedRecords
  <1>2. BranchesAreSound
    <2>1. Branches # <<>>
      BY <1>1
    <2> QED
      BY <2>1, ReturnedRecords
  <1>3. a \in Int
    BY <1>1, AdvantageType
  <1>4. Selected(r) = Span(b) /\ w \in Nat /\ Span(b) \subseteq DOMAIN b.mask /\ r.mask = b.mask
        /\ IsFiniteSet(Span(b))
    BY <1>1, <1>2, BranchFacts DEF BranchRecord
  <1>5. ASSUME NEW i \in Span(b)
        PROVE  /\ current[n][i] \in Int /\ Drift(current, behavior, n, i) \in Int
               /\ e[i] = a * current[n][i] /\ e[i] \in Int /\ g[i] \in Int
               /\ r.advantages[i] = a
    <2>1. i \in DOMAIN records[n].mask
      BY <1>1, <1>4
    <2>2. PICK x \in Int : x = current[n][i]
      BY <1>1, <2>1 DEF IsTable
    <2>3. Drift(current, behavior, n, i) \in Int
      BY <1>1, <2>1, DriftType
    <2>4. a * x \in Int
      BY <1>3
    <2>5. r.advantages[i] = a
      BY <1>4 DEF BranchRecord
    <2> QED
      BY <2>2, <2>3, <2>4, <2>5
  <1>6. \A i \in Selected(r) : f[i] = e[i] * r.weights[i]
    <2> TAKE i \in Selected(r)
    <2>1. i \in Span(b)
      BY <1>4
    <2>2. f[i] = a * current[n][i] * r.weights[i] /\ e[i] = a * current[n][i]
      BY <1>5, <2>1
    <2> QED
      BY <2>2
  <1>7. \A i \in Selected(r) : h[i] = g[i] * r.weights[i]
    BY <1>4
  <1>8. PolicySum(r, n, current) = SumFunctionOnSet(f, Selected(r))
    BY DEF PolicySum, SumFunction
  <1>9. DriftSum(r, n, current, behavior) = SumFunctionOnSet(h, Selected(r))
    BY DEF DriftSum, SumFunction
  <1>10. ActionDrift(n, b, current, behavior) = Y /\ ActionLogProb(n, b, current) = X
    BY DEF ActionDrift, ActionLogProb, SumFunction
  <1>11. IsSummable(current[n], Span(b)) /\ IsSummable(g, Span(b))
    BY <1>4, <1>5 DEF IsSummable
  <1>12. X \in Int /\ Y \in Int
    <2> HIDE DEF g, b
    <2> QED
      BY <1>11, SumType
  <1>13. SumFunctionOnSet(e, Span(b)) = a * X
    <2>1. \A i \in Span(b) : e[i] = a * current[n][i]
      BY <1>5
    <2> HIDE DEF e, a, b
    <2> QED
      BY <1>3, <1>11, <2>1, SumScaled
  <1>14. \A i \in Span(b) : e[i] \in Int /\ g[i] \in Int
    BY <1>5
  <1>15. SumFunctionOnSet(f, Selected(r)) = w * SumFunctionOnSet(e, Span(b))
    <2> HIDE DEF e, f, k
    <2> QED
      BY <1>1, <1>2, <1>6, <1>14, BranchSum
  <1>16. SumFunctionOnSet(h, Selected(r)) = w * Y
    <2> HIDE DEF g, h, k
    <2> QED
      BY <1>1, <1>2, <1>7, <1>14, BranchSum
  <1>17. w * (a * X) = w * a * X /\ w * Y \in Int
    <2> HIDE DEF w, a, X, Y
    <2> QED
      BY <1>3, <1>4, <1>12
  <1> HIDE DEF a, b, e, f, g, h, r, w, X, Y
  <1>18. /\ PolicySum(records[n], n, current) = w * a * X
         /\ DriftSum(records[n], n, current, behavior) = w * Y
         /\ w * Y \in Int
    BY <1>1, <1>8, <1>9, <1>13, <1>15, <1>16, <1>17
  <1> QED
    BY <1>10, <1>18 DEF a, b, w

(* For any log-probabilities, the loss of the records is per decision.     *)
LEMMA LossOfRecords ==
    ASSUME CompilerInv, phase = "returned",
           NEW current, NEW behavior, IsTable(current), IsTable(behavior)
    PROVE  IsPerDecision(current, behavior)
  <1> DEFINE kept == DOMAIN records \ BranchesDone
             P == [n \in DOMAIN records |-> PolicySum(records[n], n, current)]
             Q == [n \in DOMAIN records |-> DriftSum(records[n], n, current, behavior)]
             policy == [d \in Credited |-> d.weight * input.trajectory * ActionLogProb(1, d, current)]
             drift == [d \in Credited |-> d.weight * ActionDrift(1, d, current, behavior)]
             branchPolicy == [n \in BranchesDone |->
                 Target.weight * Advantage(BranchAt(n))
                   * ActionLogProb(n, Branches[BranchAt(n)], current)]
             branchDrift == [n \in BranchesDone |->
                 Target.weight * ActionDrift(n, Branches[BranchAt(n)], current, behavior)]
  <1>1. /\ Credited = {d \in DecisionSet : d.node # input.target}
        /\ kept = (IF Credited = {} THEN {} ELSE {1})
        /\ DOMAIN records = kept \cup BranchesDone /\ kept \cap BranchesDone = {}
        /\ kept \subseteq DOMAIN records /\ BranchesDone \subseteq DOMAIN records
        /\ IsFiniteSet(BranchesDone)
    BY ReturnedRecords
  <1>2. K \in Int
    BY ReturnedRecords, CallFacts
  <1>3. /\ IsSummable(policy, Credited) /\ IsSummable(drift, Credited)
        /\ Credited # {} => /\ P[1] = K * SumFunctionOnSet(policy, Credited)
                            /\ Q[1] = K * SumFunctionOnSet(drift, Credited)
    <2>1. CASE Credited = {}
      BY <2>1, FS_EmptySet DEF IsSummable
    <2>2. CASE Credited # {}
      <3>1. 1 \in DOMAIN records
        BY <2>2, ReturnedRecords
      <3>2. P[1] = PolicySum(records[1], 1, current) /\ Q[1] = DriftSum(records[1], 1, current, behavior)
        BY <3>1
      <3> HIDE DEF P, Q
      <3>3. /\ IsSummable(policy, Credited) /\ IsSummable(drift, Credited)
            /\ PolicySum(records[1], 1, current) = K * SumFunctionOnSet(policy, Credited)
            /\ DriftSum(records[1], 1, current, behavior) = K * SumFunctionOnSet(drift, Credited)
        BY <2>2, IncumbentTerms
      <3> QED
        BY <3>2, <3>3
    <2> QED
      BY <2>1, <2>2
  <1>4. ASSUME NEW n \in BranchesDone
        PROVE  P[n] = branchPolicy[n] /\ Q[n] = branchDrift[n] /\ Q[n] \in Int
    BY <1>1, BranchTerms
  <1>5. SumFunctionOnSet(policy, Credited) \in Int /\ SumFunctionOnSet(drift, Credited) \in Int
    <2> HIDE DEF policy, drift
    <2> QED
      BY <1>3, SumType
  <1>6. /\ IsSummable(P, kept) /\ SumFunctionOnSet(P, kept) = K * SumFunctionOnSet(policy, Credited)
        /\ IsSummable(Q, kept) /\ SumFunctionOnSet(Q, kept) = K * SumFunctionOnSet(drift, Credited)
    <2> HIDE DEF P, Q, kept, policy, drift
    <2>1. CASE Credited = {}
      <3>1. kept = {}
        BY <1>1, <2>1
      <3>2. IsSummable(P, {}) /\ IsSummable(Q, {})
        BY FS_EmptySet DEF IsSummable
      <3> QED
        BY <1>2, <2>1, <3>1, <3>2, SumOfNothing
    <2>2. CASE Credited # {}
      <3>1. kept = {1}
        BY <1>1, <2>2
      <3>2. P[1] \in Int /\ Q[1] \in Int
        <4>1. K * SumFunctionOnSet(policy, Credited) \in Int /\ K * SumFunctionOnSet(drift, Credited) \in Int
          BY <1>2, <1>5
        <4> QED
          BY <1>3, <2>2, <4>1
      <3> QED
        BY <1>3, <2>2, <3>1, <3>2, SumOfOne
    <2> QED
      BY <2>1, <2>2
  <1>7. PolicyGradient([n \in kept |-> records[n]], current)
           = -(K * SumFunctionOnSet(policy, Credited))
    <2> DEFINE recs == [n \in kept |-> records[n]]
               sums == [n \in kept |-> PolicySum(records[n], n, current)]
    <2>1. sums = [n \in DOMAIN recs |->
                    SumFunction([i \in Selected(recs[n]) |->
                        recs[n].advantages[i] * current[n][i] * recs[n].weights[i]])]
      BY DEF PolicySum
    <2>2. PolicyGradient(recs, current) = -SumFunction(sums)
      <3> HIDE DEF sums, recs
      <3> QED
        BY <2>1 DEF PolicyGradient
    <2>3. SumFunction(sums) = SumFunctionOnSet(sums, kept)
      BY DEF SumFunction
    <2>4. \A n \in kept : sums[n] = P[n]
      BY <1>1
    <2> HIDE DEF sums, recs, P, kept
    <2>5. SumFunctionOnSet(sums, kept) = SumFunctionOnSet(P, kept)
      BY <1>6, <2>4, SumSame
    <2> QED
      BY <1>6, <2>2, <2>3, <2>5 DEF recs
  <1>8. PolicyGradient([n \in BranchesDone |-> records[n]], current) = -SumFunction(branchPolicy)
    <2> DEFINE recs == [n \in BranchesDone |-> records[n]]
               sums == [n \in BranchesDone |-> PolicySum(records[n], n, current)]
    <2>1. sums = [n \in DOMAIN recs |->
                    SumFunction([i \in Selected(recs[n]) |->
                        recs[n].advantages[i] * current[n][i] * recs[n].weights[i]])]
      BY DEF PolicySum
    <2>2. PolicyGradient(recs, current) = -SumFunction(sums)
      <3> HIDE DEF sums, recs
      <3> QED
        BY <2>1 DEF PolicyGradient
    <2>3. ASSUME NEW n \in BranchesDone PROVE sums[n] = branchPolicy[n]
      <3>1. P[n] = PolicySum(records[n], n, current)
        BY <1>1
      <3>2. sums[n] = PolicySum(records[n], n, current)
        OBVIOUS
      <3> QED
        BY <1>4, <3>1, <3>2
    <2>4. sums = branchPolicy
      BY <2>3
    <2> HIDE DEF sums, recs, branchPolicy
    <2> QED
      BY <2>2, <2>4 DEF recs
  <1>9. DriftPenalty(records, current, behavior)
           = K * SumFunctionOnSet(drift, Credited) + SumFunction(branchDrift)
    <2>1. DriftPenalty(records, current, behavior) = SumFunctionOnSet(Q, DOMAIN records)
      BY DEF DriftPenalty, DriftSum, SumFunction
    <2>2. IsSummable(Q, BranchesDone)
      BY <1>1, <1>4 DEF IsSummable
    <2>3. SumFunctionOnSet(branchDrift, BranchesDone) = SumFunctionOnSet(Q, BranchesDone)
      <3>1. \A n \in BranchesDone : branchDrift[n] = Q[n]
        BY <1>4
      <3> HIDE DEF branchDrift, Q
      <3> QED
        BY <2>2, <3>1, SumSame
    <2>4. SumFunction(branchDrift) = SumFunctionOnSet(branchDrift, BranchesDone)
      BY DEF SumFunction
    <2> HIDE DEF Q, branchDrift, kept, drift
    <2>5. SumFunctionOnSet(Q, kept \cup BranchesDone)
             = SumFunctionOnSet(Q, kept) + SumFunctionOnSet(Q, BranchesDone)
      <3>1. IsSummable(Q, kept) /\ IsSummable(Q, BranchesDone) /\ kept \cap BranchesDone = {}
        BY <1>1, <1>6, <2>2
      <3> QED
        BY ONLY <3>1, SumUnion
    <2> QED
      BY <1>1, <1>6, <2>1, <2>3, <2>4, <2>5
  <1>10. SumFunction(policy) = SumFunctionOnSet(policy, Credited) /\ SumFunction(drift) = SumFunctionOnSet(drift, Credited)
    BY DEF SumFunction
  <1>11. Normalizer(records) = K * Len(Decisions)
    BY DecisionsAreCounted
  <1> HIDE DEF P, Q
  <1>12. /\ PolicyGradient([n \in kept |-> records[n]], current) = -K * SumFunction(policy)
         /\ DriftPenalty(records, current, behavior) = K * SumFunction(drift) + SumFunction(branchDrift)
    BY <1>7, <1>9, <1>10
  <1> QED
    BY <1>1, <1>8, <1>11, <1>12 DEF IsPerDecision, ActionLogProb, ActionDrift

LEMMA LossesArePerDecision == CompilerInv => LossIsPerDecision
  <1> DEFINE current == [n \in DOMAIN records |->
                            [i \in DOMAIN records[n].mask |-> -(2 * n + i * i)]]
             behavior == [n \in DOMAIN records |->
                            [i \in DOMAIN records[n].mask |-> -(n * i + 1)]]
  <1> SUFFICES ASSUME CompilerInv, phase = "returned" PROVE IsPerDecision(current, behavior)
    BY DEF LossIsPerDecision
  <1>1. ASSUME NEW n \in DOMAIN records, NEW i \in DOMAIN records[n].mask
        PROVE  n \in Int /\ i \in Int
    <2>1. n \in Int
      BY <1>1 DEF CompilerInv, Compiled
    <2>2. records[n].mask = input.mask \/ \E k \in DOMAIN Branches : records[n].mask = Branches[k].mask
      <3>1. CASE n \in BranchesDone
        <4>1. BranchAt(n) \in DOMAIN Branches /\ records[n] = BranchRecord(BranchAt(n))
          BY <3>1, ReturnedRecords
        <4>2. BranchRecord(BranchAt(n)).mask = Branches[BranchAt(n)].mask
          BY DEF BranchRecord
        <4> QED
          BY <4>1, <4>2
      <3>2. CASE n \notin BranchesDone
        <4>1. n \in DOMAIN records \ BranchesDone
          BY <3>2
        <4>2. n = 1 /\ records[1] = IncumbentRecord(Credited)
          BY <4>1, ReturnedRecords
        <4> QED
          BY <4>2 DEF IncumbentRecord
      <3> QED
        BY <3>1, <3>2
    <2>3. IsCall(input)
      BY DEF CompilerInv
    <2>4. PICK m : m \in Seq(BOOLEAN) /\ records[n].mask = m
      BY <2>2, <2>3 DEF IsCall, Branches
    <2>5. i \in 1..Len(m) /\ Len(m) \in Nat
      BY <2>4, LenProperties
    <2> QED
      BY <2>1, <2>5
  <1>2. \A x, y \in Int : -(2 * x + y * y) \in Int /\ -(x * y + 1) \in Int
    OBVIOUS
  <1>3. IsTable(current) /\ IsTable(behavior)
    BY <1>1, <1>2 DEF IsTable
  <1> HIDE DEF current, behavior
  <1> QED
    BY <1>3, LossOfRecords

-----------------------------------------------------------------------------
(***************************************************************************)
(* The inductive invariant of a diagnostic.  A trial has paid for the      *)
(* updates it has made and for what it has drawn of the current one.       *)
(***************************************************************************)
IsListOf(s, m) == s = [n \in 1..m |-> s[n]]

IsEpisode ==
    \E context \in Bit, luck \in Bit, targets \in [1..config.branches -> Bit] :
        input = EpisodeCall(context, luck, targets)

PerEpisode == 1 + config.branches

Paid == (step - 1) * CallsPerUpdate

(* A step of the trajectory arm draws all that it needs at once, one of    *)
(* the branch arm an episode at a time, each paid before it is compiled.   *)
StepIsPaid ==
    IF arm = "trajectory_loo"
    THEN \/ phase = "idle" /\ IsListOf(batch, 0) /\ called = Paid
         \/ phase = "idle" /\ IsListOf(batch, config.group) /\ called = Paid + CallsPerUpdate
    ELSE \E e \in 0..config.episodes :
            /\ IsListOf(batch, e * config.branches)
            /\ \/ phase = "idle" /\ called = Paid + e * PerEpisode
               \/ /\ phase # "idle" /\ IsEpisode /\ e < config.episodes
                  /\ called = Paid + (e + 1) * PerEpisode

TrialInv ==
    /\ probe \in Probes
    /\ config \in Configs /\ IsSound(config) /\ arm \in Arms
    /\ stage \in {"exact", "trajectory", "redco", "learn", "done"}
    /\ step \in Nat \ {0}
    /\ stage # "done" => step <= MaximumSteps
    /\ stage \notin {"learn", "done"} => batch = <<>> /\ called = Paid
    /\ stage # "learn" => phase = "idle"
    /\ stage = "learn" => StepIsPaid
    /\ stage = "done" => step = MaximumSteps + 1 /\ called = Paid
    /\ threshold = None /\ step > 1 => ~(level >= Thresholds[arm])
    /\ threshold # None => threshold \in {n * CallsPerUpdate : n \in 1..(step - 1)}

DiagnosticInv ==
    /\ CompilerInv
    /\ IF stage = "caller" THEN step = 1 /\ threshold = None ELSE TrialInv

-----------------------------------------------------------------------------
(* Arithmetic and lists. *)

LEMMA OneMore ==
    ASSUME NEW m, m \in Int, NEW n, n \in Int
    PROVE  (m + 1) * n = m * n + n /\ m * n \in Int
  OBVIOUS

LEMMA Cancel ==
    ASSUME NEW m, m \in Nat, NEW n, n \in Nat, NEW b, b \in Nat \ {0}, m * b = n * b
    PROVE  m = n
  <1>1. ASSUME NEW i, i \in Nat, NEW j, j \in Nat, i < j
        PROVE  i * b # j * b
    <2>1. PICK r \in Nat : j = i + r /\ r > 0
      <3>1. j - i \in Nat /\ j - i > 0 /\ j = i + (j - i)
        BY <1>1
      <3> QED
        BY <3>1
    <2>2. j * b = i * b + r * b
      BY <1>1, <2>1
    <2>3. r * b > 0
      BY <2>1, Products
    <2>4. i * b \in Nat /\ r * b \in Nat
      BY <1>1, Products
    <2> QED
      BY <2>2, <2>3, <2>4
  <1>2. m < n \/ n < m \/ m = n
    OBVIOUS
  <1> QED
    BY <1>1, <1>2

LEMMA Quotient ==
    ASSUME NEW n, n \in Nat, NEW d, d \in Nat \ {0}
    PROVE  n \div d \in Nat /\ (n \div d) * d <= n /\ n < (n \div d) * d + d
  OBVIOUS

(* The k-th of the blocks of b numbers from 1. *)
Block(k, b) == ((k - 1) * b + 1)..(k * b)

LEMMA Upto ==
    ASSUME NEW b, b \in Nat \ {0}, NEW i, i \in Nat, NEW j, j \in Nat
    PROVE  /\ i <= j => i * b <= j * b
           /\ i * b \in Nat /\ j * b \in Nat
           /\ i < j => i * b + b <= j * b
  <1>1. i * b \in Nat /\ j * b \in Nat
    BY Products
  <1>2. i <= j => i * b <= j * b
    <2>1. SUFFICES ASSUME i <= j PROVE i * b <= j * b
      OBVIOUS
    <2>2. PICK r \in Nat : j = i + r
      <3>1. j - i \in Nat /\ j = i + (j - i)
        BY <2>1
      <3> QED
        BY <3>1
    <2>3. j * b = i * b + r * b /\ r * b \in Nat
      BY <2>2, Products
    <2> QED
      BY <1>1, <2>3
  <1>3. i < j => i * b + b <= j * b
    <2>1. SUFFICES ASSUME i < j PROVE i * b + b <= j * b
      OBVIOUS
    <2>2. PICK r \in Nat : j = (i + 1) + r
      <3>1. j - i - 1 \in Nat /\ j = (i + 1) + (j - i - 1)
        BY <2>1
      <3> QED
        BY <3>1
    <2>3. j * b = (i * b + b) + r * b /\ r * b \in Nat
      BY <2>2, Products
    <2> QED
      BY <1>1, <2>3
  <1> QED
    BY <1>1, <1>2, <1>3

LEMMA Blocks ==
    ASSUME NEW b, b \in Nat \ {0}
    PROVE  /\ \A j, k \in Nat \ {0} : j # k => Block(j, b) \cap Block(k, b) = {}
           /\ \A k \in Nat \ {0} : IsFiniteSet(Block(k, b)) /\ Cardinality(Block(k, b)) = b
           /\ \A e \in Nat, k \in Nat \ {0} : Block(k, b) \subseteq 1..(e * b) <=> k <= e
           /\ \A e \in Nat : \A n \in 1..(e * b) : \E k \in 1..e : n \in Block(k, b)
  <1>1. ASSUME NEW j \in Nat \ {0}, NEW k \in Nat \ {0}, j < k
        PROVE  Block(j, b) \cap Block(k, b) = {}
    <2>1. j <= k - 1 /\ j \in Nat /\ k - 1 \in Nat
      BY <1>1
    <2>2. j * b <= (k - 1) * b /\ j * b \in Nat /\ (k - 1) * b \in Nat
      BY <2>1, Upto
    <2> QED
      BY <2>2 DEF Block
  <1>2. ASSUME NEW k \in Nat \ {0}
        PROVE  /\ IsFiniteSet(Block(k, b)) /\ Cardinality(Block(k, b)) = b
               /\ k * b = (k - 1) * b + b /\ k * b \in Nat /\ (k - 1) * b \in Nat
    <2>1. PICK m \in Nat : k = m + 1
      <3>1. k - 1 \in Nat /\ k = (k - 1) + 1
        OBVIOUS
      <3> QED
        BY <3>1
    <2>2. (m + 1) * b = m * b + b
      OBVIOUS
    <2>3. m * b \in Nat
      BY Products
    <2>4. PICK x \in Nat : x = m * b
      BY <2>3
    <2>5. Block(k, b) = (x + 1)..(x + b)
      BY <2>1, <2>2, <2>4 DEF Block
    <2>6. IsFiniteSet((x + 1)..(x + b)) /\ Cardinality((x + 1)..(x + b)) = IF x + 1 > x + b THEN 0 ELSE (x + b) - (x + 1) + 1
      <3>1. x + 1 \in Int /\ x + b \in Int
        OBVIOUS
      <3> QED
        BY <3>1, FS_Interval
    <2>7. Cardinality((x + 1)..(x + b)) = b
      BY <2>6
    <2> QED
      BY <2>1, <2>2, <2>4, <2>5, <2>6, <2>7
  <1>3. ASSUME NEW e \in Nat, NEW k \in Nat \ {0}
        PROVE  Block(k, b) \subseteq 1..(e * b) <=> k <= e
    <2>1. e * b \in Nat
      BY Upto
    <2>2. PICK x \in Nat, y \in Nat : x = (k - 1) * b /\ y = k * b /\ y = x + b
      BY <1>2
    <2>3. Block(k, b) = (x + 1)..y /\ y \in Block(k, b)
      BY <2>2 DEF Block
    <2>4. CASE k <= e
      <3>1. y <= e * b
        BY <2>2, <2>4, Upto
      <3> QED
        BY <2>1, <2>3, <2>4, <3>1
    <2>5. CASE e < k
      <3>1. e * b + b <= y
        BY <2>2, <2>5, Upto
      <3>2. y \notin 1..(e * b)
        BY <2>1, <3>1
      <3> QED
        BY <2>3, <2>5, <3>2
    <2> QED
      BY <2>4, <2>5
  <1>4. ASSUME NEW e \in Nat, NEW n \in 1..(e * b)
        PROVE  \E k \in 1..e : n \in Block(k, b)
    <2>1. n - 1 \in Nat /\ e * b \in Nat /\ n \in Nat
      BY Upto
    <2>2. PICK m \in Nat : m * b <= n - 1 /\ n - 1 < m * b + b
      BY <2>1, Quotient
    <2>3. (m + 1) * b = m * b + b /\ m * b \in Nat
      BY Products
    <2>4. m < e
      <3>1. SUFFICES ASSUME e <= m PROVE FALSE
        OBVIOUS
      <3>2. e * b <= m * b
        BY <3>1, Upto
      <3> QED
        BY <2>1, <2>2, <2>3, <3>2
    <2>5. m + 1 \in 1..e
      BY <2>4
    <2>6. n \in Block(m + 1, b)
      <3>1. (m + 1) - 1 = m
        OBVIOUS
      <3>2. Block(m + 1, b) = (m * b + 1)..(m * b + b)
        BY <2>3, <3>1 DEF Block
      <3> QED
        BY <2>1, <2>2, <2>3, <3>2
    <2> QED
      BY <2>5, <2>6
  <1> QED
    <2>1. ASSUME NEW j \in Nat \ {0}, NEW k \in Nat \ {0}, j # k
          PROVE  Block(j, b) \cap Block(k, b) = {}
      <3>1. j < k \/ k < j
        BY <2>1
      <3> QED
        BY <1>1, <3>1
    <2> QED
      BY <1>2, <1>3, <1>4, <2>1

LEMMA Lists ==
    ASSUME NEW s, NEW m, m \in Nat, IsListOf(s, m)
    PROVE  /\ Len(s) = m
           /\ \A t, n : n \in Nat /\ IsListOf(t, n) => IsListOf(s \o t, m + n)
  <1>1. s \in Seq({s[i] : i \in 1..m}) /\ Len(s) = m
    <2>1. s = [i \in 1..m |-> s[i]]
      BY DEF IsListOf
    <2>2. Len(s) = m
      BY <2>1, SequenceFacts
    <2> QED
      BY <2>1, <2>2
  <1>2. ASSUME NEW t, NEW n, n \in Nat, IsListOf(t, n)
        PROVE  IsListOf(s \o t, m + n)
    <2>1. t = [i \in 1..n |-> t[i]]
      BY <1>2 DEF IsListOf
    <2>2. Len(t) = n
      BY <1>2, <2>1, SequenceFacts
    <2> DEFINE S == {s[i] : i \in 1..m} \cup {t[i] : i \in 1..n}
    <2>3. s \in Seq(S) /\ t \in Seq(S)
      <3>1. s = [i \in 1..m |-> s[i]]
        BY DEF IsListOf
      <3>2. \A i \in 1..m : s[i] \in S
        OBVIOUS
      <3>3. \A i \in 1..n : t[i] \in S
        OBVIOUS
      <3> HIDE DEF S
      <3>4. s \in Seq(S)
        BY <3>1, <3>2
      <3>5. t \in Seq(S)
        BY <1>2, <2>1, <3>3
      <3> QED
        BY <3>4, <3>5
    <2> HIDE DEF S
    <2>4. s \o t \in Seq(S) /\ Len(s \o t) = Len(s) + Len(t)
      BY <2>3, ConcatProperties
    <2>5. \A u : u \in Seq(S) => u = [i \in 1..Len(u) |-> u[i]]
      OBVIOUS
    <2> QED
      BY <1>1, <2>2, <2>4, <2>5 DEF IsListOf
  <1> QED
    BY <1>1, <1>2

Joins(u, s, m, t, n) ==
    /\ \A i \in 1..m : u[i] = s[i]
    /\ \A i \in 1..n : u[m + i] = t[i]

LEMMA ListElements ==
    ASSUME NEW s, NEW m, m \in Nat, IsListOf(s, m), NEW t, NEW n, n \in Nat, IsListOf(t, n)
    PROVE  Joins(s \o t, s, m, t, n)
  <1>1. Len(s) = m /\ Len(t) = n
    BY Lists
  <1> DEFINE S == {s[i] : i \in 1..m} \cup {t[i] : i \in 1..n}
  <1>2. s \in Seq(S) /\ t \in Seq(S)
    <2>1. s = [i \in 1..m |-> s[i]] /\ t = [i \in 1..n |-> t[i]]
      BY DEF IsListOf
    <2>2. \A i \in 1..m : s[i] \in S
      OBVIOUS
    <2>3. \A i \in 1..n : t[i] \in S
      OBVIOUS
    <2> HIDE DEF S
    <2>4. s \in Seq(S)
      BY <2>1, <2>2
    <2>5. t \in Seq(S)
      BY <2>1, <2>3
    <2> QED
      BY <2>4, <2>5
  <1> HIDE DEF S
  <1>3. \A i \in 1..(m + n) : (s \o t)[i] = IF i <= m THEN s[i] ELSE t[i - m]
    BY <1>1, <1>2, ConcatProperties
  <1>4. ASSUME NEW i \in 1..n PROVE (s \o t)[m + i] = t[i]
    <2>1. m + i \in 1..(m + n) /\ ~(m + i <= m) /\ (m + i) - m = i
      OBVIOUS
    <2> QED
      BY <1>3, <2>1
  <1>5. ASSUME NEW i \in 1..m PROVE (s \o t)[i] = s[i]
    <2>1. i \in 1..(m + n) /\ i <= m
      OBVIOUS
    <2> QED
      BY <1>3, <2>1
  <1> QED
    BY <1>4, <1>5 DEF Joins

LEMMA EmptyList == IsListOf(<<>>, 0) /\ \A s : IsListOf(s, 0) => s = <<>>
  <1>1. \A s : IsListOf(s, 0) <=> s = [n \in 1..0 |-> s[n]]
    BY DEF IsListOf
  <1>2. \A s : IsListOf(s, 0) => s = <<>>
    BY <1>1
  <1>3. <<>> = [n \in 1..0 |-> <<>>[n]]
    OBVIOUS
  <1> QED
    BY <1>1, <1>2, <1>3

LEMMA ConfigFacts ==
    ASSUME config \in Configs, IsSound(config)
    PROVE  /\ config.group \in Nat /\ config.group >= 2
           /\ config.branches \in Nat /\ config.branches >= 2
           /\ config.episodes \in Nat /\ config.episodes >= 1
           /\ PerEpisode \in Nat
           /\ CallsPerUpdate \in Nat \ {0}
           /\ CallsPerUpdate = config.episodes * PerEpisode
           /\ MaximumSteps \in Nat /\ MaximumSteps >= 1
           /\ MaximumSteps * CallsPerUpdate <= config.budget
           /\ config.budget < MaximumSteps * CallsPerUpdate + CallsPerUpdate
  <1>1. /\ config.group \in Nat /\ config.group >= 2
        /\ config.branches \in Nat /\ config.branches >= 2
        /\ config.episodes \in Nat /\ config.episodes >= 1
        /\ config.budget \in Nat
    BY ConfusionAssumption DEF IsSound
  <1>2. PerEpisode \in Nat /\ CallsPerUpdate \in Nat \ {0}
    BY <1>1 DEF PerEpisode, CallsPerUpdate
  <1>3. CallsPerUpdate = config.episodes * PerEpisode /\ config.budget >= CallsPerUpdate
    BY DEF IsSound, PerEpisode, CallsPerUpdate
  <1>4. /\ MaximumSteps \in Nat
        /\ MaximumSteps * CallsPerUpdate <= config.budget
        /\ config.budget < MaximumSteps * CallsPerUpdate + CallsPerUpdate
    BY <1>1, <1>2, Quotient DEF MaximumSteps
  <1>5. MaximumSteps >= 1
    <2>1. SUFFICES ASSUME MaximumSteps = 0 PROVE FALSE
      BY <1>4
    <2> QED
      BY <1>1, <1>2, <1>3, <1>4, <2>1
  <1> QED
    BY <1>1, <1>2, <1>3, <1>4, <1>5

-----------------------------------------------------------------------------
(* Calls of the compiler from a trial. *)

HasOneDecision(c, b) ==
    /\ IsCall(c) /\ DOMAIN c.branches = 1..b /\ Len(c.branches) = b
    /\ c.target # None /\ c.mask = <<TRUE>> /\ Len(c.decisions) = 1
    /\ \A n \in DOMAIN c.decisions : c.decisions[n].node = c.target

LEMMA RewardType ==
    ASSUME probe \in Probes, NEW context \in Bit, NEW target \in Bit, NEW luck \in Bit
    PROVE  Reward(context, target, luck) \in Int
  <1>1. probe.name \in {"irrelevant_target", "redundant_target", "lucky_target"}
    BY ConfusionAssumption
  <1>2. context \in Int /\ target \in Int
    BY DEF Bit
  <1> QED
    BY <1>1, <1>2 DEF Reward

LEMMA EpisodeIsACall ==
    ASSUME probe \in Probes, NEW b, b \in Nat, b >= 2, NEW context \in Bit, NEW luck \in Bit,
           NEW targets, targets \in [1..b -> Bit]
    PROVE  HasOneDecision(EpisodeCall(context, luck, targets), b)
  <1> DEFINE c == EpisodeCall(context, luck, targets)
  <1>1. c.branches = [k \in 1..b |-> c.branches[k]]
    BY DEF EpisodeCall
  <1>2. IsSequence(c.branches) /\ DOMAIN c.branches = 1..b /\ Len(c.branches) = b
    <2>1. Len(c.branches) = b
      <3> HIDE DEF c
      <3> QED
        BY <1>1, SequenceFacts
    <2>2. DOMAIN c.branches = 1..b
      BY DEF EpisodeCall
    <2> QED
      BY <2>1, <2>2 DEF IsSequence
  <1>3. \A k \in DOMAIN c.branches :
            c.branches[k].mask \in Seq(BOOLEAN) /\ c.branches[k].reward \in Int
    <2>1. \A k \in DOMAIN c.branches :
             /\ c.branches[k].mask = <<TRUE>> /\ targets[k] \in Bit
             /\ c.branches[k].reward = Reward(context, targets[k], luck)
      BY DEF EpisodeCall, BranchReward
    <2>2. <<TRUE>> \in Seq(BOOLEAN)
      OBVIOUS
    <2> HIDE DEF c
    <2> QED
      BY <2>1, <2>2, RewardType
  <1>4. c.decisions = <<[node |-> "target", start |-> 0, stop |-> 1, weight |-> 1]>>
    BY DEF EpisodeCall
  <1>5. /\ c.mask = <<TRUE>> /\ c.target = "target" /\ "target" # None
        /\ c.trajectory = 0 /\ c.supplied = None
    BY ConfusionAssumption DEF EpisodeCall
  <1>6. /\ IsSequence(c.decisions) /\ Len(c.decisions) = 1
        /\ \A n \in DOMAIN c.decisions :
              LET d == c.decisions[n]
              IN  /\ d.node = "target"
                  /\ d.start \in Nat /\ d.stop \in Nat /\ d.start < d.stop
                  /\ d.weight \in Nat \ {0}
    BY <1>4 DEF IsSequence
  <1>7. IsCall(c)
    <2> HIDE DEF c
    <2> QED
      BY <1>2, <1>3, <1>5, <1>6 DEF IsCall
  <1> HIDE DEF c
  <1>8. HasOneDecision(c, b)
    BY <1>2, <1>5, <1>6, <1>7 DEF HasOneDecision
  <1> QED
    BY <1>8 DEF c

(* An episode's only decision is its target: its records are its branches'. *)
LEMMA EpisodeRecords ==
    ASSUME CompilerInv, phase = "returned", probe \in Probes, config \in Configs, IsSound(config),
           IsEpisode
    PROVE  IsListOf(records, config.branches)
  <1> DEFINE b == config.branches
  <1>1. b \in Nat /\ b >= 2
    BY ConfigFacts
  <1>2. PICK context \in Bit, luck \in Bit, targets \in [1..b -> Bit] :
            input = EpisodeCall(context, luck, targets)
    BY DEF IsEpisode
  <1> HIDE DEF b
  <1>3. /\ Len(Branches) = b /\ input.target # None
        /\ \A n \in DOMAIN Decisions : Decisions[n].node = input.target
    <2>1. targets \in [1..b -> Bit]
      BY <1>2
    <2>2. HasOneDecision(EpisodeCall(context, luck, targets), b)
      BY <1>1, <2>1, EpisodeIsACall
    <2>3. HasOneDecision(input, b)
      BY <1>2, <2>2
    <2> QED
      BY <2>3 DEF HasOneDecision, Branches, Decisions
  <1>4. Credited = {}
    BY <1>3 DEF Credited, DecisionSet
  <1>5. Leading = 0
    BY <1>4 DEF Leading
  <1>6. records = Compiled(b)
    BY <1>3 DEF CompilerInv
  <1>7. 1..(Leading + b) = 1..b
    BY <1>1, <1>5
  <1>8. IsListOf(records, b)
    BY <1>6, <1>7 DEF Compiled, IsListOf
  <1> QED
    BY <1>8 DEF b

LEMMA RunningCall ==
    ASSUME Next
    PROVE  phase # "idle" /\ phase' # "idle" /\ input' = input
  BY DEF Next, ClaimSpan, RefuseDecisions, WithoutTarget, WithTarget, EmitBranch, RefuseSupplied,
         EveryTokenIsClaimed, Emit, Refuse

LEMMA SameConfig ==
    ASSUME UNCHANGED config
    PROVE  /\ CallsPerUpdate' = CallsPerUpdate /\ MaximumSteps' = MaximumSteps
           /\ PerEpisode' = PerEpisode
           /\ UNCHANGED step => Paid' = Paid
  <1>1. CallsPerUpdate' = CallsPerUpdate
    BY DEF CallsPerUpdate
  <1> QED
    BY <1>1 DEF MaximumSteps, PerEpisode, Paid

LEMMA SameEpisode ==
    ASSUME UNCHANGED <<input, probe, config>>
    PROVE  IsEpisode' <=> IsEpisode
  BY DEF IsEpisode, EpisodeCall, BranchReward, Reward

LEMMA SameReport ==
    ASSUME TrialInv, UNCHANGED <<config, arm, level, step, threshold>>
    PROVE  /\ (threshold = None /\ step > 1 => ~(level >= Thresholds[arm]))'
           /\ (threshold # None => threshold \in {n * CallsPerUpdate : n \in 1..(step - 1)})'
  BY SameConfig DEF TrialInv

LEMMA RestingCompiler == CompilerInv /\ CompilerRests => CompilerInv' /\ phase = "idle" /\ UNCHANGED vars
  BY SameCompiler DEF CompilerRests

-----------------------------------------------------------------------------
(* One lemma for each action of a diagnostic. *)

LEMMA EnumerateKeeps ==
    ASSUME DiagnosticInv, EnumerateMoments
    PROVE  DiagnosticInv'
  <1>1. /\ stage \in {"exact", "trajectory", "redco"} /\ stage' \in {"trajectory", "redco", "learn"}
        /\ CompilerRests /\ UNCHANGED <<probe, config, trial>>
    BY DEF EnumerateMoments, Enumerate
  <1>2. CompilerInv' /\ phase = "idle" /\ phase' = "idle" /\ UNCHANGED <<arm, level, step, batch, called, threshold>>
    BY <1>1, RestingCompiler DEF DiagnosticInv, vars, trial
  <1>3. TrialInv /\ batch = <<>> /\ called = Paid
    BY <1>1 DEF DiagnosticInv, TrialInv
  <1>4. /\ CallsPerUpdate' = CallsPerUpdate /\ MaximumSteps' = MaximumSteps
        /\ PerEpisode' = PerEpisode /\ Paid' = Paid
    BY <1>1, <1>2, SameConfig
  <1>5. StepIsPaid'
    <2>1. CASE arm = "trajectory_loo"
      BY <1>2, <1>3, <1>4, <2>1, EmptyList DEF StepIsPaid
    <2>2. CASE arm # "trajectory_loo"
      <3>1. config.episodes \in Nat /\ config.branches \in Nat /\ PerEpisode \in Nat /\ CallsPerUpdate \in Nat
        BY <1>3, ConfigFacts DEF TrialInv
      <3>2. 0 * config.branches = 0 /\ 0 * PerEpisode = 0 /\ 0 \in 0..config.episodes
        BY <3>1
      <3>3. Paid + 0 = Paid
        BY <1>3, <3>1 DEF TrialInv, Paid
      <3>4. IsListOf(batch', 0 * config.branches) /\ called' = Paid + 0 * PerEpisode
        BY <1>2, <1>3, <3>2, <3>3, EmptyList
      <3> QED
        BY <1>1, <1>2, <1>4, <2>2, <3>2, <3>4 DEF StepIsPaid
    <2> QED
      BY <2>1, <2>2
  <1>6. /\ (threshold = None /\ step > 1 => ~(level >= Thresholds[arm]))'
        /\ (threshold # None => threshold \in {n * CallsPerUpdate : n \in 1..(step - 1)})'
    BY <1>1, <1>2, <1>3, SameReport
  <1>7. TrialInv'
    BY <1>1, <1>2, <1>3, <1>4, <1>5, <1>6 DEF TrialInv, IsSound
  <1> QED
    BY <1>1, <1>2, <1>7 DEF DiagnosticInv

LEMMA FreshCall ==
    ASSUME IsCall(input'), phase' \in {"idle", "decisions"}, next' = 1, records' = <<>>,
           DOMAIN owner' = DOMAIN input'.mask, owner' = [i \in DOMAIN owner' |-> None]
    PROVE  CompilerInv'
  <1>1. Len(Decisions') \in Nat /\ Len(Branches') \in Nat
    BY DEF IsCall, IsSequence, Decisions, Branches
  <1>2. 1 \in 1..(Len(Decisions') + 1) /\ 0 <= Len(Branches') + 1
    BY <1>1
  <1>3. owner' \in [DOMAIN input'.mask -> Nodes' \cup {None}]
    OBVIOUS
  <1>4. TypeOK'
    BY <1>2, <1>3 DEF TypeOK
  <1>5. 1..(next' - 1) = {} /\ ~(next' > 1)
    OBVIOUS
  <1>6. \A i \in DOMAIN input'.mask : owner'[i] = None
    OBVIOUS
  <1>7. ClaimsAreSound'
    BY <1>5, <1>6 DEF ClaimsAreSound
  <1> QED
    BY <1>4, <1>7 DEF CompilerInv

LEMMA DrawTrajectoriesKeeps ==
    ASSUME DiagnosticInv, DrawTrajectories
    PROVE  DiagnosticInv'
  <1>1. /\ stage = "learn" /\ arm = "trajectory_loo" /\ batch = <<>>
        /\ CompilerRests /\ UNCHANGED <<diagnosis, arm, level, step, threshold>>
        /\ called' = called + 2 * config.group
    BY DEF DrawTrajectories
  <1>2. CompilerInv' /\ phase = "idle" /\ phase' = "idle" /\ UNCHANGED <<probe, config, stage>>
    BY <1>1, RestingCompiler DEF DiagnosticInv, vars, diagnosis
  <1>3. TrialInv
    BY <1>1 DEF DiagnosticInv
  <1>4. /\ CallsPerUpdate' = CallsPerUpdate /\ MaximumSteps' = MaximumSteps
        /\ PerEpisode' = PerEpisode /\ Paid' = Paid
    BY <1>1, <1>2, SameConfig
  <1>5. config.group \in Nat /\ config.group >= 2
    BY <1>3, ConfigFacts DEF TrialInv
  <1>6. called = Paid
    <2>1. ~IsListOf(batch, config.group)
      <3>1. ASSUME IsListOf(batch, config.group) PROVE Len(batch) = config.group
        BY <1>5, <3>1, Lists
      <3> QED
        BY <1>1, <1>5, <3>1
    <2> QED
      BY <1>1, <1>3, <2>1 DEF TrialInv, StepIsPaid
  <1>7. IsListOf(batch', config.group)
    <2>1. PICK draws \in [1..config.group ->
                             [context : Drawable(probe.context), target : Bit, luck : Drawable(probe.luck)]] :
              batch' = TrajectoryBatch(draws)
      BY DEF DrawTrajectories
    <2>2. DOMAIN draws = 1..config.group
      BY <2>1
    <2>3. IsListOf(TrajectoryBatch(draws), config.group)
      BY <2>2 DEF IsListOf, TrajectoryBatch
    <2> QED
      BY <2>1, <2>3
  <1>8. StepIsPaid'
    BY <1>1, <1>2, <1>4, <1>6, <1>7 DEF StepIsPaid, CallsPerUpdate
  <1>9. /\ (threshold = None /\ step > 1 => ~(level >= Thresholds[arm]))'
        /\ (threshold # None => threshold \in {n * CallsPerUpdate : n \in 1..(step - 1)})'
    BY <1>1, <1>2, <1>3, SameReport
  <1>10. TrialInv'
    BY <1>1, <1>2, <1>3, <1>4, <1>8, <1>9 DEF TrialInv, IsSound
  <1> QED
    BY <1>1, <1>2, <1>10 DEF DiagnosticInv

LEMMA DrawEpisodeKeeps ==
    ASSUME DiagnosticInv, DrawEpisode
    PROVE  DiagnosticInv'
  <1>1. /\ stage = "learn" /\ arm = "redco" /\ phase = "idle" /\ ~IsCollected
        /\ phase' = "decisions" /\ owner' = <<None>>
        /\ called' = called + 1 + config.branches
        /\ UNCHANGED <<next, records, probe, config, stage, arm, level, step, batch, threshold>>
    BY DEF DrawEpisode, diagnosis
  <1>2. CompilerInv /\ TrialInv
    BY <1>1 DEF DiagnosticInv
  <1>3. /\ config.episodes \in Nat /\ config.branches \in Nat /\ config.branches >= 2
        /\ PerEpisode \in Nat /\ CallsPerUpdate \in Nat
    BY <1>2, ConfigFacts DEF TrialInv
  <1>4. /\ CallsPerUpdate' = CallsPerUpdate /\ MaximumSteps' = MaximumSteps
        /\ PerEpisode' = PerEpisode /\ Paid' = Paid
    BY <1>1, SameConfig
  <1>5. PICK context \in Drawable(probe.context), luck \in Drawable(probe.luck),
             targets \in [1..config.branches -> Bit] :
            input' = EpisodeCall(context, luck, targets)
    BY DEF DrawEpisode
  <1>6. context \in Bit /\ luck \in Bit /\ targets \in [1..config.branches -> Bit]
    BY <1>5 DEF Drawable
  <1>7. HasOneDecision(input', config.branches)
    <2>1. HasOneDecision(EpisodeCall(context, luck, targets), config.branches)
      BY <1>2, <1>3, <1>6, EpisodeIsACall DEF TrialInv
    <2> QED
      BY <1>5, <2>1
  <1>8. CompilerInv'
    <2>1. IsCall(input') /\ input'.mask = <<TRUE>>
      BY <1>7 DEF HasOneDecision
    <2>2. DOMAIN owner' = DOMAIN input'.mask /\ owner' = [i \in DOMAIN owner' |-> None]
      BY <1>1, <2>1
    <2>3. next' = 1 /\ records' = <<>>
      BY <1>1, <1>2 DEF CompilerInv
    <2> QED
      BY <1>1, <2>1, <2>2, <2>3, FreshCall
  <1>9. StepIsPaid'
    <2>1. PICK e \in 0..config.episodes :
              IsListOf(batch, e * config.branches) /\ called = Paid + e * PerEpisode
      BY <1>1, <1>2 DEF TrialInv, StepIsPaid
    <2>2. e \in Nat /\ e * config.branches \in Nat
      BY <1>3, <2>1, Products
    <2>3. Len(batch) = e * config.branches
      BY <2>1, <2>2, Lists
    <2>4. e # config.episodes
      BY <1>1, <2>3 DEF IsCollected, SamplesPerStep
    <2>5. e < config.episodes
      BY <1>3, <2>1, <2>2, <2>4
    <2>6. (e + 1) * PerEpisode = e * PerEpisode + PerEpisode /\ e * PerEpisode \in Int
      BY <1>3, <2>2, OneMore
    <2>7. Paid \in Int
      BY <1>2, <1>3, Products DEF Paid, TrialInv
    <2>8. called' = Paid + (e + 1) * PerEpisode
      <3>1. PICK x \in Int : x = e * PerEpisode
        BY <2>6
      <3>2. (e + 1) * PerEpisode = x + (1 + config.branches) /\ called = Paid + x
        BY <2>1, <2>6, <3>1 DEF PerEpisode
      <3>3. called' = Paid + x + 1 + config.branches
        BY <1>1, <3>2
      <3> QED
        BY <1>3, <2>7, <3>2, <3>3
    <2>9. IsEpisode'
      <3>1. EpisodeCall(context, luck, targets)' = EpisodeCall(context, luck, targets)
        BY <1>1 DEF EpisodeCall, BranchReward, Reward
      <3> QED
        BY <1>1, <1>5, <1>6, <3>1 DEF IsEpisode
    <2>10. IsListOf(batch', e * config'.branches) /\ e \in 0..config'.episodes /\ e < config'.episodes
      BY <1>1, <2>1, <2>5
    <2> QED
      BY <1>1, <1>4, <2>8, <2>9, <2>10 DEF StepIsPaid
  <1>10. /\ (threshold = None /\ step > 1 => ~(level >= Thresholds[arm]))'
         /\ (threshold # None => threshold \in {n * CallsPerUpdate : n \in 1..(step - 1)})'
    BY <1>1, <1>2, SameReport
  <1>11. TrialInv'
    BY <1>1, <1>2, <1>4, <1>9, <1>10 DEF TrialInv, IsSound
  <1> QED
    BY <1>1, <1>8, <1>11 DEF DiagnosticInv

LEMMA CompileKeeps ==
    ASSUME DiagnosticInv, Compile
    PROVE  DiagnosticInv'
  <1>1. /\ stage \in {"learn", "caller"} /\ Next
        /\ UNCHANGED <<probe, config, stage, arm, level, step, batch, called, threshold>>
    BY DEF Compile, diagnosis, trial
  <1>2. CompilerInv'
    BY <1>1, StepKeepsCompilerInv DEF DiagnosticInv
  <1>3. CASE stage = "caller"
    BY <1>1, <1>2, <1>3 DEF DiagnosticInv
  <1>4. CASE stage # "caller"
    <2>1. TrialInv
      BY <1>4 DEF DiagnosticInv
    <2>2. /\ CallsPerUpdate' = CallsPerUpdate /\ MaximumSteps' = MaximumSteps
          /\ PerEpisode' = PerEpisode /\ Paid' = Paid
      BY <1>1, SameConfig
    <2>3. phase # "idle" /\ phase' # "idle" /\ UNCHANGED input
      BY <1>1, RunningCall
    <2>4. stage = "learn" /\ arm # "trajectory_loo" /\ StepIsPaid
      BY <1>1, <1>4, <2>1, <2>3 DEF TrialInv, StepIsPaid
    <2>5. IsEpisode' <=> IsEpisode
      BY <1>1, <2>3, SameEpisode
    <2>6. StepIsPaid'
      BY <1>1, <2>2, <2>3, <2>4, <2>5 DEF StepIsPaid
    <2>7. /\ (threshold = None /\ step > 1 => ~(level >= Thresholds[arm]))'
          /\ (threshold # None => threshold \in {n * CallsPerUpdate : n \in 1..(step - 1)})'
      BY <1>1, <2>1, SameReport
    <2>8. TrialInv'
      BY <1>1, <2>1, <2>2, <2>4, <2>6, <2>7 DEF TrialInv, IsSound
    <2> QED
      BY <1>1, <1>2, <1>4, <2>8 DEF DiagnosticInv
  <1> QED
    BY <1>3, <1>4

LEMMA CollectEpisodeKeeps ==
    ASSUME DiagnosticInv, CollectEpisode
    PROVE  DiagnosticInv'
  <1>1. /\ stage = "learn" /\ phase = "returned"
        /\ input' = NoCall /\ phase' = "idle" /\ next' = 1 /\ owner' = <<>> /\ records' = <<>>
        /\ UNCHANGED <<probe, config, stage, arm, level, step, called, threshold>>
    BY DEF CollectEpisode, diagnosis
  <1>2. CompilerInv /\ TrialInv
    BY <1>1 DEF DiagnosticInv
  <1>3. config.episodes \in Nat /\ config.branches \in Nat
    BY <1>2, ConfigFacts DEF TrialInv
  <1>4. /\ CallsPerUpdate' = CallsPerUpdate /\ MaximumSteps' = MaximumSteps
        /\ PerEpisode' = PerEpisode /\ Paid' = Paid
    BY <1>1, SameConfig
  <1>5. CompilerInv'
    <2>1. IsCall(NoCall) /\ NoCall.mask = <<>>
      BY DEF NoCall, IsCall, IsSequence
    <2>2. owner' = [i \in DOMAIN owner' |-> None]
      BY <1>1
    <2> QED
      BY <1>1, <2>1, <2>2, FreshCall
  <1>6. PICK e \in 0..config.episodes :
            /\ IsListOf(batch, e * config.branches)
            /\ IsEpisode /\ e < config.episodes
            /\ called = Paid + (e + 1) * PerEpisode
    BY <1>1, <1>2 DEF TrialInv, StepIsPaid
  <1>7. e \in Nat /\ e * config.branches \in Nat /\ e + 1 \in 0..config.episodes
    BY <1>3, <1>6, Products
  <1>8. IsListOf(batch', (e + 1) * config.branches)
    <2> DEFINE collected == [n \in DOMAIN records |->
                                Sampled(records[n], Branches[n].tokens[1], Branches[n].reward)]
               b == config.branches
    <2>1. IsListOf(records, b)
      BY <1>1, <1>2, <1>6, EpisodeRecords DEF TrialInv
    <2>2. DOMAIN records = 1..b
      BY <2>1 DEF IsListOf
    <2>3. IsListOf(collected, b)
      BY <2>2 DEF IsListOf
    <2>4. batch' = batch \o collected
      BY DEF CollectEpisode
    <2>5. b \in Nat /\ e * b \in Nat /\ IsListOf(batch, e * b)
      BY <1>3, <1>6, <1>7
    <2> HIDE DEF collected, b
    <2>6. IsListOf(batch \o collected, e * b + b)
      BY <2>3, <2>5, Lists
    <2>7. (e + 1) * b = e * b + b
      BY <1>7, <2>5, OneMore
    <2> QED
      BY <2>4, <2>6, <2>7 DEF b
  <1>9. StepIsPaid'
    <2>1. /\ IsListOf(batch', (e + 1) * config'.branches) /\ e + 1 \in 0..config'.episodes
          /\ phase' = "idle" /\ called' = Paid' + (e + 1) * PerEpisode'
      BY <1>1, <1>4, <1>6, <1>7, <1>8
    <2>2. arm' # "trajectory_loo"
      BY <1>1, <1>2 DEF TrialInv, StepIsPaid
    <2> QED
      BY <2>1, <2>2 DEF StepIsPaid
  <1>10. /\ (threshold = None /\ step > 1 => ~(level >= Thresholds[arm]))'
         /\ (threshold # None => threshold \in {n * CallsPerUpdate : n \in 1..(step - 1)})'
    BY <1>1, <1>2, SameReport
  <1>11. TrialInv'
    BY <1>1, <1>2, <1>4, <1>9, <1>10 DEF TrialInv, IsSound
  <1> QED
    BY <1>1, <1>5, <1>11 DEF DiagnosticInv

LEMMA LearnKeeps ==
    ASSUME DiagnosticInv, Learn
    PROVE  DiagnosticInv'
  <1>1. /\ IsCollected /\ stage = "learn"
        /\ threshold' = IF threshold = None /\ level' >= Thresholds[arm]
                        THEN step * CallsPerUpdate ELSE threshold
        /\ step' = step + 1
        /\ stage' = IF step = MaximumSteps THEN "done" ELSE "learn"
        /\ batch' = <<>>
        /\ CompilerRests /\ UNCHANGED <<probe, config, arm, called>>
    BY DEF Learn, IsCollected
  <1>2. CompilerInv' /\ phase = "idle" /\ phase' = "idle"
    BY <1>1, RestingCompiler DEF DiagnosticInv, vars
  <1>3. TrialInv
    BY <1>1 DEF DiagnosticInv
  <1>4. /\ config.group \in Nat /\ config.group >= 2
        /\ config.episodes \in Nat /\ config.branches \in Nat \ {0}
        /\ PerEpisode \in Nat /\ CallsPerUpdate \in Nat
        /\ CallsPerUpdate = config.episodes * PerEpisode
        /\ MaximumSteps \in Nat
    BY <1>3, ConfigFacts DEF TrialInv
  <1>5. CallsPerUpdate' = CallsPerUpdate /\ MaximumSteps' = MaximumSteps /\ PerEpisode' = PerEpisode
    BY <1>1, SameConfig
  <1>6. step \in Nat \ {0} /\ step <= MaximumSteps
    BY <1>1, <1>3 DEF TrialInv
  <1>7. called = Paid + CallsPerUpdate
    <2>1. CASE arm = "trajectory_loo"
      <3>1. Len(batch) = config.group
        BY <1>1, <2>1 DEF IsCollected, SamplesPerStep
      <3>2. ~IsListOf(batch, 0)
        <4>1. ASSUME IsListOf(batch, 0) PROVE Len(batch) = 0
          BY <4>1, Lists
        <4> QED
          BY <1>4, <3>1, <4>1
      <3> QED
        BY <1>1, <1>3, <2>1, <3>2 DEF TrialInv, StepIsPaid
    <2>2. CASE arm # "trajectory_loo"
      <3>1. PICK e \in 0..config.episodes :
                IsListOf(batch, e * config.branches) /\ called = Paid + e * PerEpisode
        BY <1>1, <1>2, <1>3, <2>2 DEF TrialInv, StepIsPaid
      <3>2. e \in Nat /\ e * config.branches \in Nat
        BY <1>4, <3>1, Products
      <3>3. Len(batch) = e * config.branches
        BY <3>1, <3>2, Lists
      <3>4. Len(batch) = config.episodes * config.branches
        BY <1>1, <1>3, <2>2 DEF IsCollected, SamplesPerStep, TrialInv, Arms
      <3>5. e = config.episodes
        BY <1>4, <3>2, <3>3, <3>4, Cancel
      <3> QED
        BY <1>4, <3>1, <3>5
    <2> QED
      BY <2>1, <2>2
  <1>8. called' = Paid'
    <2>1. PICK m \in Nat : m = step - 1
      BY <1>6
    <2>2. Paid = m * CallsPerUpdate /\ Paid' = (m + 1) * CallsPerUpdate
      BY <1>1, <1>5, <1>6, <2>1 DEF Paid
    <2>3. (m + 1) * CallsPerUpdate = m * CallsPerUpdate + CallsPerUpdate
      BY <1>4, <2>1, OneMore
    <2> QED
      BY <1>1, <1>7, <2>2, <2>3
  <1>9. stage' = "learn" => StepIsPaid'
    <2>1. CASE arm = "trajectory_loo"
      BY <1>1, <1>2, <1>8, <2>1, EmptyList DEF StepIsPaid
    <2>2. CASE arm # "trajectory_loo"
      <3>1. 0 * config.branches = 0 /\ 0 * PerEpisode = 0 /\ 0 \in 0..config.episodes
        BY <1>4
      <3>2. Paid' \in Int
        BY <1>1, <1>4, <1>5, <1>6, Products DEF Paid
      <3>3. IsListOf(batch', 0 * config.branches) /\ called' = Paid' + 0 * PerEpisode
        BY <1>1, <1>8, <3>1, <3>2, EmptyList
      <3> QED
        BY <1>1, <1>2, <1>5, <2>2, <3>1, <3>3 DEF StepIsPaid
    <2> QED
      BY <2>1, <2>2
  <1>10. threshold' = None => ~(level' >= Thresholds[arm'])
    <2>1. step * CallsPerUpdate # None
      BY <1>4, <1>6, Products, ConfusionAssumption
    <2> QED
      BY <1>1, <2>1
  <1>11. threshold' # None => threshold' \in {n * CallsPerUpdate : n \in 1..(step' - 1)}
    <2>1. step \in 1..(step' - 1) /\ 1..(step - 1) \subseteq 1..(step' - 1)
      BY <1>1, <1>6
    <2> QED
      BY <1>1, <1>3, <2>1 DEF TrialInv
  <1>12. stage' = "done" => step' = MaximumSteps + 1
    BY <1>1
  <1>13. stage' # "done" => step' <= MaximumSteps
    BY <1>1, <1>4, <1>6
  <1>14. TrialInv'
    BY <1>1, <1>2, <1>3, <1>5, <1>6, <1>8, <1>9, <1>10, <1>11, <1>12, <1>13 DEF TrialInv, IsSound
  <1> QED
    BY <1>1, <1>2, <1>14 DEF DiagnosticInv

LEMMA SameDiagnostic ==
    ASSUME DiagnosticInv, UNCHANGED allVars
    PROVE  DiagnosticInv'
  <1>1. /\ UNCHANGED vars
        /\ UNCHANGED <<probe, config, stage, arm, level, step, batch, called, threshold>>
    BY DEF allVars, diagnosis, trial
  <1>2. CompilerInv' /\ UNCHANGED <<phase, input>>
    BY <1>1, SameCompiler DEF DiagnosticInv, vars
  <1>3. CASE stage = "caller"
    BY <1>1, <1>2, <1>3 DEF DiagnosticInv
  <1>4. CASE stage # "caller"
    <2>1. TrialInv
      BY <1>4 DEF DiagnosticInv
    <2>2. /\ CallsPerUpdate' = CallsPerUpdate /\ MaximumSteps' = MaximumSteps
          /\ PerEpisode' = PerEpisode /\ Paid' = Paid
      BY <1>1, SameConfig
    <2>3. StepIsPaid' <=> StepIsPaid
      <3>1. IsEpisode' <=> IsEpisode
        BY <1>1, <1>2, SameEpisode
      <3> QED
        BY <1>1, <1>2, <2>2, <3>1 DEF StepIsPaid
    <2>4. /\ (threshold = None /\ step > 1 => ~(level >= Thresholds[arm]))'
          /\ (threshold # None => threshold \in {n * CallsPerUpdate : n \in 1..(step - 1)})'
      BY <1>1, <2>1, SameReport
    <2>5. TrialInv'
      BY <1>1, <1>2, <2>1, <2>2, <2>3, <2>4 DEF TrialInv, IsSound
    <2> QED
      BY <1>1, <1>2, <1>4, <2>5 DEF DiagnosticInv
  <1> QED
    BY <1>3, <1>4

LEMMA StepKeepsDiagnosticInv == DiagnosticInv /\ [DiagnosticNext]_allVars => DiagnosticInv'
  BY EnumerateKeeps, DrawTrajectoriesKeeps, DrawEpisodeKeeps, CompileKeeps, CollectEpisodeKeeps,
     LearnKeeps, SameDiagnostic
     DEF DiagnosticNext

LEMMA InitIsDiagnosticInv == CallerInit \/ DiagnosticInit => DiagnosticInv
  <1>1. ASSUME CallerInit PROVE DiagnosticInv
    BY <1>1, InitIsCompilerInv DEF CallerInit, NoTrial, DiagnosticInv
  <1>2. ASSUME DiagnosticInit PROVE DiagnosticInv
    <2>1. /\ input = NoCall /\ phase = "idle" /\ next = 1 /\ owner = <<>> /\ records = <<>>
          /\ probe \in Probes /\ config \in Configs /\ IsSound(config) /\ arm \in Arms /\ stage = "exact"
          /\ step = 1 /\ batch = <<>> /\ called = 0 /\ threshold = None
      BY <1>2 DEF DiagnosticInit, NoTrial
    <2>2. IsCall(input) /\ Len(Decisions) = 0 /\ Len(Branches) = 0 /\ DOMAIN input.mask = {}
      BY <2>1 DEF NoCall, IsCall, IsSequence, Decisions, Branches
    <2>3. TypeOK /\ ClaimsAreSound
      BY <2>1, <2>2 DEF TypeOK, ClaimsAreSound
    <2>4. CompilerInv
      BY <2>1, <2>2, <2>3 DEF CompilerInv
    <2>5. /\ CallsPerUpdate \in Nat /\ MaximumSteps >= 1
      BY <2>1, ConfigFacts
    <2>6. Paid = 0
      BY <2>1, <2>5 DEF Paid
    <2>7. TrialInv
      BY <2>1, <2>5, <2>6 DEF TrialInv
    <2> QED
      BY <2>1, <2>4, <2>7 DEF DiagnosticInv
  <1> QED
    BY <1>1, <1>2

LEMMA TrialsPayTheirBudget == DiagnosticInv => BudgetIsShared
  <1> SUFFICES ASSUME DiagnosticInv PROVE BudgetIsShared
    OBVIOUS
  <1>1. CASE stage = "caller"
    BY <1>1 DEF DiagnosticInv, BudgetIsShared
  <1>2. CASE stage # "caller"
    <2>1. TrialInv
      BY <1>2 DEF DiagnosticInv
    <2>2. stage = "done" => called = MaximumSteps * CallsPerUpdate
      <3>1. SUFFICES ASSUME stage = "done" PROVE called = MaximumSteps * CallsPerUpdate
        OBVIOUS
      <3>2. MaximumSteps \in Nat /\ step - 1 = MaximumSteps
        BY <2>1, <3>1, ConfigFacts DEF TrialInv
      <3> QED
        BY <2>1, <3>1, <3>2 DEF TrialInv, Paid
    <2>3. /\ MaximumSteps * CallsPerUpdate <= config.budget
          /\ config.budget < MaximumSteps * CallsPerUpdate + CallsPerUpdate
      BY <2>1, ConfigFacts DEF TrialInv
    <2> QED
      BY <2>1, <2>2, <2>3 DEF TrialInv, BudgetIsShared
  <1> QED
    BY <1>1, <1>2

-----------------------------------------------------------------------------
(***************************************************************************)
(* What a trial has sampled: every record is one decision's, credited      *)
(* against the others of its group, which is the whole batch of the        *)
(* trajectory arm and an episode of the branch arm.                        *)
(***************************************************************************)

GroupSize == IF arm = "redco" THEN config.branches ELSE config.group
GroupAt(e) == Block(e, GroupSize)

(* A record of one decision, with its outcome. *)
IsSample(x) ==
    /\ x.record.mask = <<TRUE>> /\ x.record.weights = <<1>> /\ x.record.units = 1
    /\ x.record.advantages[1] \in Int /\ x.target \in Bit /\ x.reward \in Int

(* Leave-one-out advantages within the group, and one world for the         *)
(* branches of an episode.                                                 *)
IsCreditedGroup(samples, g) ==
    /\ \A n \in g : samples[n].record.advantages[1] =
                       Cardinality(g) * samples[n].reward - SumFunction([m \in g |-> samples[m].reward])
    /\ arm = "redco" =>
          \E context \in Bit, luck \in Bit :
              \A n \in g : samples[n].reward = Reward(context, samples[n].target, luck)

SamplesAreCredited ==
    /\ \A n \in DOMAIN batch : IsSample(batch[n])
    /\ \A e \in Nat \ {0} : GroupAt(e) \subseteq DOMAIN batch => IsCreditedGroup(batch, GroupAt(e))

SampleInv == stage # "caller" => level \in Int /\ SamplesAreCredited

Credit  == [n \in DOMAIN batch |-> batch[n].record.advantages[1]]
Payoff  == [n \in DOMAIN batch |-> batch[n].reward]
Choices == [n \in DOMAIN batch |-> batch[n].target]
Scored  == [n \in DOMAIN batch |-> Credit[n] * Score(Choices[n])]
Slope   == [n \in DOMAIN batch |-> Credit[n] * (Whole * Choices[n] - Sigmoid(level))]

LEMMA ScoreFacts ==
    ASSUME probe \in Probes
    PROVE  /\ Whole \in Nat /\ probe.target \in Int
           /\ \A t \in Bit : Score(t) = Whole * t - probe.target /\ Score(t) \in Int
           /\ level \in Int => Sigmoid(level) \in Int
  <1>1. Whole \in Nat /\ probe.target \in Int
    BY ConfusionAssumption
  <1>2. ASSUME NEW t \in Bit PROVE Score(t) = Whole * t - probe.target /\ Score(t) \in Int
    <2>1. t \in Int
      BY DEF Bit
    <2>2. Whole * t \in Int
      BY <1>1, <2>1
    <2> QED
      BY <1>1, <2>2 DEF Score
  <1>3. level \in Int => Sigmoid(level) \in Int
    BY <1>1 DEF Sigmoid
  <1> QED
    BY <1>1, <1>2, <1>3

LEMMA SampleFacts ==
    ASSUME probe \in Probes, SamplesAreCredited, NEW n \in DOMAIN batch
    PROVE  /\ Credit[n] \in Int /\ Payoff[n] \in Int /\ Choices[n] \in Bit /\ Choices[n] \in Int
           /\ Scored[n] \in Int /\ Scored[n] = Credit[n] * Score(Choices[n])
           /\ level \in Int => /\ Slope[n] \in Int
                               /\ Slope[n] = Credit[n] * (Whole * Choices[n] - Sigmoid(level))
                               /\ Slope[n] = (probe.target - Sigmoid(level)) * Credit[n] + Scored[n]
  <1>1. IsSample(batch[n])
    BY DEF SamplesAreCredited
  <1>2. Credit[n] \in Int /\ Payoff[n] \in Int /\ Choices[n] \in Bit
    BY <1>1 DEF IsSample, Credit, Payoff, Choices
  <1>3. PICK a \in Int : a = Credit[n]
    BY <1>2
  <1>4. PICK t \in Int : t = Choices[n]
    BY <1>2 DEF Bit
  <1>5. PICK s \in Int : s = Score(Choices[n]) /\ s = Whole * t - probe.target
    BY <1>2, <1>4, ScoreFacts
  <1>6. Scored[n] = a * s /\ a * s \in Int
    <2>1. Scored[n] = Credit[n] * Score(Choices[n])
      BY DEF Scored
    <2>2. a * s \in Int
      OBVIOUS
    <2> QED
      BY <1>3, <1>5, <2>1, <2>2
  <1>7. ASSUME level \in Int
        PROVE  /\ Slope[n] \in Int
               /\ Slope[n] = Credit[n] * (Whole * Choices[n] - Sigmoid(level))
               /\ Slope[n] = (probe.target - Sigmoid(level)) * Credit[n] + Scored[n]
    <2>1. PICK p \in Int : p = Sigmoid(level)
      BY <1>7, ScoreFacts
    <2>2. PICK w \in Int : w = Whole * t
      BY <1>4, ScoreFacts
    <2>3. PICK q \in Int : q = probe.target
      BY ScoreFacts
    <2>4. Slope[n] = Credit[n] * (Whole * Choices[n] - Sigmoid(level))
      BY DEF Slope
    <2>5. Slope[n] = a * (w - p)
      BY <1>3, <1>4, <2>1, <2>2, <2>4
    <2>6. a * (w - p) = (q - p) * a + a * s /\ a * (w - p) \in Int
      BY <1>5, <2>2, <2>3
    <2> QED
      BY <1>3, <1>6, <2>1, <2>3, <2>4, <2>5, <2>6
  <1> QED
    BY <1>2, <1>3, <1>4, <1>5, <1>6, <1>7

(* Within a group credit is in balance, so that the step does not depend   *)
(* on the logit; and the enumerated formula is the sum over the group.     *)
LEMMA GroupFacts ==
    ASSUME probe \in Probes, SamplesAreCredited, NEW g, g \subseteq DOMAIN batch, IsFiniteSet(g),
           IsCreditedGroup(batch, g)
    PROVE  /\ IsSummable(Credit, g) /\ IsSummable(Payoff, g) /\ IsSummable(Scored, g)
           /\ IsSummable(Choices, g)
           /\ Cardinality(g) \in Nat
           /\ \A n \in g : Credit[n] = Cardinality(g) * Payoff[n] - SumFunctionOnSet(Payoff, g)
           /\ SumFunctionOnSet(Credit, g) = 0
           /\ level \in Int => /\ IsSummable(Slope, g)
                               /\ SumFunctionOnSet(Slope, g) = SumFunctionOnSet(Scored, g)
  <1>1. \A n \in g : /\ Credit[n] \in Int /\ Payoff[n] \in Int /\ Scored[n] \in Int /\ Choices[n] \in Int
                     /\ level \in Int => Slope[n] \in Int
    BY SampleFacts
  <1>2. /\ IsSummable(Credit, g) /\ IsSummable(Payoff, g) /\ IsSummable(Scored, g)
        /\ IsSummable(Choices, g)
        /\ level \in Int => IsSummable(Slope, g)
    BY <1>1 DEF IsSummable
  <1>3. SumFunction([m \in g |-> batch[m].reward]) = SumFunctionOnSet(Payoff, g)
    <2> DEFINE r == [m \in g |-> batch[m].reward]
    <2>1. SumFunction(r) = SumFunctionOnSet(r, g)
      BY DEF SumFunction
    <2>2. \A m \in g : r[m] = Payoff[m]
      BY DEF Payoff
    <2> HIDE DEF r
    <2>3. SumFunctionOnSet(r, g) = SumFunctionOnSet(Payoff, g)
      BY <1>2, <2>2, SumSame
    <2> QED
      BY <2>1, <2>3 DEF r
  <1>4. \A n \in g : Credit[n] = Cardinality(g) * Payoff[n] - SumFunctionOnSet(Payoff, g)
    BY <1>3 DEF IsCreditedGroup, Credit, Payoff
  <1>5. SumFunctionOnSet(Credit, g) = 0
    BY <1>2, <1>4, SumCentered
  <1>6. ASSUME level \in Int
        PROVE  SumFunctionOnSet(Slope, g) = SumFunctionOnSet(Scored, g)
    <2> PICK p \in Int : p = Sigmoid(level)
      BY <1>6, ScoreFacts
    <2> PICK t \in Int : t = probe.target
      BY ScoreFacts
    <2> PICK a \in Int : a = probe.target - Sigmoid(level)
      OBVIOUS
    <2>1. \A n \in g : Slope[n] = a * Credit[n] + Scored[n]
      BY <1>6, SampleFacts
    <2>2. SumFunctionOnSet(Slope, g) = a * SumFunctionOnSet(Credit, g) + SumFunctionOnSet(Scored, g)
      BY <1>2, <2>1, SumLinear
    <2>3. SumFunctionOnSet(Scored, g) \in Int
      BY <1>2, SumType
    <2> QED
      BY <1>5, <2>2, <2>3
  <1> QED
    BY <1>2, <1>4, <1>5, <1>6, FS_CardinalityType

LEMMA Regrouped ==
    ASSUME NEW n \in Int, NEW x \in Int, NEW t \in Int
    PROVE  (n - 1) * x - (t - x) = n * x - t
  OBVIOUS

LEMMA EnumeratedGroup ==
    ASSUME probe \in Probes, SamplesAreCredited, NEW g, g \subseteq DOMAIN batch, IsFiniteSet(g),
           IsCreditedGroup(batch, g)
    PROVE  GroupGradient(CountsOf(g)) = SumFunctionOnSet(Scored, g)
  <1> DEFINE X == {Outcome(n) : n \in g}
             o == [n \in g |-> Outcome(n)]
             counts == CountsOf(g)
             N == Cardinality(g)
             T == SumFunctionOnSet(Payoff, g)
             one == [x \in X |-> 1]
             pay == [x \in X |-> x.reward]
             term == [x \in X |-> ((N - 1) * x.reward - (T - x.reward)) * Score(x.target)]
             paid == [x \in X |-> counts[x] * x.reward]
             total == [x \in X |-> counts[x] * ((N - 1) * x.reward - (T - x.reward)) * Score(x.target)]
             ones == [n \in g |-> 1]
  <1>1. /\ N \in Nat /\ T \in Int
        /\ \A n \in g : Credit[n] = N * Payoff[n] - T
    <2>1. IsSummable(Payoff, g)
      BY GroupFacts
    <2> QED
      BY <2>1, GroupFacts, SumType
  <1>2. X = {o[n] : n \in g}
    OBVIOUS
  <1>3. ASSUME NEW n \in g
        PROVE  /\ o[n] \in X /\ o[n].reward = Payoff[n] /\ o[n].target = Choices[n]
               /\ Payoff[n] \in Int /\ Choices[n] \in Bit /\ Score(Choices[n]) \in Int
    BY SampleFacts, ScoreFacts DEF Outcome, Payoff, Choices
  <1>4. ASSUME NEW n \in g
        PROVE  one[o[n]] = 1 /\ pay[o[n]] = Payoff[n] /\ term[o[n]] = Scored[n]
               /\ Scored[n] \in Int
    <2>1. one[o[n]] = 1 /\ pay[o[n]] = Payoff[n]
      BY <1>3
    <2>2. term[o[n]] = ((N - 1) * Payoff[n] - (T - Payoff[n])) * Score(Choices[n])
      BY <1>3
    <2>3. (N - 1) * Payoff[n] - (T - Payoff[n]) = Credit[n]
      <3> PICK x \in Int : x = Payoff[n]
        BY <1>3
      <3>1. N \in Int /\ T \in Int
        BY <1>1
      <3> HIDE DEF N, T
      <3>2. (N - 1) * x - (T - x) = N * x - T
        BY <3>1, Regrouped
      <3> QED
        BY <1>1, <3>2
    <2>4. n \in DOMAIN batch
      OBVIOUS
    <2> QED
      BY <2>1, <2>2, <2>3, <2>4, SampleFacts
  <1>5. ASSUME NEW x \in X
        PROVE  /\ counts[x] = Cardinality({n \in g : o[n] = x}) /\ counts[x] \in Nat
               /\ x.reward \in Int /\ Score(x.target) \in Int
    <2>1. counts[x] = Cardinality({n \in g : Outcome(n) = x})
      BY DEF CountsOf
    <2>2. {n \in g : o[n] = x} = {n \in g : Outcome(n) = x}
      OBVIOUS
    <2>3. IsFiniteSet({n \in g : Outcome(n) = x})
      BY FS_Subset
    <2>4. PICK n \in g : x = o[n]
      OBVIOUS
    <2> QED
      BY <1>3, <2>1, <2>2, <2>3, <2>4, FS_CardinalityType
  <1>6. DOMAIN counts = X
    BY DEF CountsOf
  <1>7. SumFunction(counts) = N
    <2>1. CountsTerms(counts, X, one, o, g)
      <3>1. \A x \in X : counts[x] = Cardinality({n \in g : o[n] = x}) * one[x]
        <4> TAKE x \in X
        <4>1. one[x] = 1
          OBVIOUS
        <4> HIDE DEF one, o, counts, X
        <4> PICK c \in Nat : c = counts[x] /\ c = Cardinality({n \in g : o[n] = x})
          BY <1>5
        <4>2. c = c * 1
          OBVIOUS
        <4> QED
          BY <4>1, <4>2
      <3>2. \A n \in g : one[o[n]] \in Int
        BY <1>4
      <3> HIDE DEF one, o, counts, X
      <3> QED
        BY <1>2, <3>1, <3>2 DEF CountsTerms
    <2>2. \A n \in g : ones[n] = one[o[n]] /\ ones[n] = 1
      BY <1>4
    <2> HIDE DEF ones, one, o, counts, X
    <2>3. SumFunctionOnSet(counts, X) = SumFunctionOnSet(ones, g)
      BY <2>1, <2>2, SumByOutcome
    <2>4. SumFunctionOnSet(ones, g) = 1 * Cardinality(g)
      BY <2>2, SumConstant
    <2> QED
      BY <1>1, <1>6, <2>3, <2>4 DEF SumFunction, N
  <1>8. SumFunction(paid) = T
    <2>1. CountsTerms(paid, X, pay, o, g)
      <3>1. \A x \in X : paid[x] = Cardinality({n \in g : o[n] = x}) * pay[x]
        <4> TAKE x \in X
        <4>1. paid[x] = counts[x] * x.reward /\ pay[x] = x.reward
          OBVIOUS
        <4> HIDE DEF pay, paid, o, counts, X
        <4> QED
          BY <1>5, <4>1
      <3> HIDE DEF pay, paid, o, counts, X
      <3> QED
        BY <1>2, <1>3, <1>4, <3>1 DEF CountsTerms
    <2>2. \A n \in g : Payoff[n] = pay[o[n]]
      BY <1>4
    <2>3. SumFunction(paid) = SumFunctionOnSet(paid, X)
      BY DEF SumFunction
    <2> HIDE DEF paid, pay, o, counts, X
    <2>4. SumFunctionOnSet(paid, X) = SumFunctionOnSet(Payoff, g)
      BY <2>1, <2>2, SumByOutcome
    <2> QED
      BY <2>3, <2>4 DEF T
  <1>9. SumFunction(total) = SumFunctionOnSet(Scored, g)
    <2>1. CountsTerms(total, X, term, o, g)
      <3>1. \A x \in X : total[x] = Cardinality({n \in g : o[n] = x}) * term[x]
        <4> TAKE x \in X
        <4>1. /\ total[x] = counts[x] * ((N - 1) * x.reward - (T - x.reward)) * Score(x.target)
              /\ term[x] = ((N - 1) * x.reward - (T - x.reward)) * Score(x.target)
          OBVIOUS
        <4> HIDE DEF term, total, o, counts, X, N, T
        <4>2. PICK c \in Nat : c = counts[x]
          BY <1>5
        <4>3. PICK u \in Int : u = (N - 1) * x.reward - (T - x.reward)
          <5> PICK y \in Int : y = x.reward
            BY <1>5
          <5> QED
            BY <1>1
        <4>4. PICK s \in Int : s = Score(x.target)
          BY <1>5
        <4>5. c * u * s = c * (u * s)
          OBVIOUS
        <4>6. total[x] = c * (u * s) /\ term[x] = u * s
          BY <4>1, <4>2, <4>3, <4>4, <4>5
        <4> QED
          BY <1>5, <4>2, <4>6
      <3> HIDE DEF term, total, o, counts, X
      <3> QED
        BY <1>2, <1>4, <3>1 DEF CountsTerms
    <2>2. \A n \in g : Scored[n] = term[o[n]]
      BY <1>4
    <2>3. SumFunction(total) = SumFunctionOnSet(total, X)
      BY DEF SumFunction
    <2> HIDE DEF total, term, o, counts, X
    <2>4. SumFunctionOnSet(total, X) = SumFunctionOnSet(Scored, g)
      BY <2>1, <2>2, SumByOutcome
    <2> QED
      BY <2>3, <2>4
  <1>10. GroupGradient(counts) = SumFunction(total)
    <2> DEFINE size == SumFunction(counts)
               all == SumFunction([x \in DOMAIN counts |-> counts[x] * x.reward])
    <2>1. GroupGradient(counts) = SumFunction([x \in DOMAIN counts |->
              counts[x] * ((size - 1) * x.reward - (all - x.reward)) * Score(x.target)])
      BY DEF GroupGradient
    <2>2. size = N /\ all = T
      <3> HIDE DEF counts, X
      <3> QED
        BY <1>6, <1>7, <1>8
    <2> HIDE DEF counts, X, size, all, N, T
    <2> QED
      BY <1>6, <2>1, <2>2
  <1> QED
    BY <1>9, <1>10

-----------------------------------------------------------------------------
(* The loss of a batch, and its difference. *)

(* The loss of a batch at a distance of at from the trial's logit. *)
Loss(at) ==
    PolicyGradient([n \in DOMAIN batch |-> batch[n].record],
                   [n \in DOMAIN batch |-> <<LogProb(batch[n].target, at)>>])

Scaling(at) == [n \in DOMAIN batch |-> Credit[n] * LogProb(Choices[n], at)]

LEMMA LogProbFacts ==
    ASSUME probe \in Probes, level \in Int, NEW at \in Int, NEW t \in Bit
    PROVE  /\ LogProb(t, at) \in Int
           /\ LogProb(t, 1) = 2 * (Whole * t - Sigmoid(level)) + LogProb(t, -1)
  <1>1. PICK p \in Int : p = Sigmoid(level)
    BY ScoreFacts
  <1>2. PICK u \in Int : u = t
    BY DEF Bit
  <1>3. PICK w \in Int : w = Whole
    BY ScoreFacts
  <1>4. /\ LogProb(t, at) = w * u * at - (p * at + at * at)
        /\ LogProb(t, 1) = w * u * 1 - (p * 1 + 1 * 1)
        /\ LogProb(t, -1) = w * u * (-1) - (p * (-1) + (-1) * (-1))
    BY <1>1, <1>2, <1>3 DEF LogProb
  <1>5. w * u \in Int /\ w * u * at \in Int /\ p * at \in Int /\ at * at \in Int
    OBVIOUS
  <1>6. PICK v \in Int : v = w * u
    BY <1>5
  <1>7. LogProb(t, 1) = v - (p + 1) /\ LogProb(t, -1) = (-v) - ((-p) + 1)
    BY <1>4, <1>6
  <1>8. Whole * t = v
    BY <1>2, <1>3, <1>6
  <1> QED
    BY <1>1, <1>4, <1>5, <1>7, <1>8

LEMMA LossAt ==
    ASSUME probe \in Probes, level \in Int, SamplesAreCredited, IsFiniteSet(DOMAIN batch),
           NEW at \in Int
    PROVE  /\ IsSummable(Scaling(at), DOMAIN batch)
           /\ Loss(at) = -SumFunctionOnSet(Scaling(at), DOMAIN batch)
  <1> DEFINE recs == [n \in DOMAIN batch |-> batch[n].record]
             current == [n \in DOMAIN batch |-> <<LogProb(batch[n].target, at)>>]
             inner(n) == [i \in Selected(recs[n]) |->
                             recs[n].advantages[i] * current[n][i] * recs[n].weights[i]]
  <1>1. ASSUME NEW n \in DOMAIN batch
        PROVE  /\ Scaling(at)[n] = Credit[n] * LogProb(Choices[n], at) /\ Scaling(at)[n] \in Int
               /\ SumFunction(inner(n)) = Scaling(at)[n]
    <2>1. IsSample(batch[n])
      BY DEF SamplesAreCredited
    <2>2. Selected(recs[n]) = {1}
      <3>1. recs[n].mask = <<TRUE>> /\ recs[n].weights = <<1>>
        BY <2>1 DEF IsSample
      <3>2. Selected(recs[n]) = {i \in DOMAIN <<TRUE>> : <<1>>[i] # 0}
        BY <3>1 DEF Selected
      <3>3. DOMAIN <<TRUE>> = {1} /\ <<1>>[1] = 1
        OBVIOUS
      <3> HIDE DEF recs
      <3> QED
        BY <3>2, <3>3
    <2>3. PICK a \in Int : a = Credit[n] /\ a = recs[n].advantages[1]
      BY <2>1 DEF IsSample, Credit
    <2>4. PICK l \in Int : l = LogProb(Choices[n], at) /\ l = LogProb(batch[n].target, at)
      <3>1. Choices[n] = batch[n].target /\ batch[n].target \in Bit
        BY <2>1 DEF IsSample, Choices
      <3> QED
        BY <3>1, LogProbFacts
    <2>5. Scaling(at)[n] = a * l /\ a * l \in Int
      <3>1. a * l \in Int
        OBVIOUS
      <3> QED
        BY <2>3, <2>4, <3>1 DEF Scaling
    <2>6. inner(n)[1] = a * l /\ DOMAIN inner(n) = {1}
      <3>1. current[n][1] = l /\ recs[n].weights[1] = 1
        BY <2>1, <2>4 DEF IsSample
      <3>2. inner(n)[1] = recs[n].advantages[1] * current[n][1] * recs[n].weights[1] /\ DOMAIN inner(n) = {1}
        BY <2>2
      <3>3. inner(n)[1] = a * l * 1
        BY <2>3, <3>1, <3>2
      <3> HIDE DEF inner, recs, current
      <3> QED
        BY <2>5, <3>2, <3>3
    <2> HIDE DEF inner, recs, current
    <2>7. SumFunction(inner(n)) = SumFunctionOnSet(inner(n), {1})
      BY <2>6 DEF SumFunction
    <2>8. SumFunctionOnSet(inner(n), {1}) = a * l
      BY <2>5, <2>6, SumOfOne
    <2> QED
      BY <2>3, <2>4, <2>5, <2>7, <2>8
  <1>2. IsSummable(Scaling(at), DOMAIN batch)
    BY <1>1 DEF IsSummable
  <1>3. Loss(at) = -SumFunction([n \in DOMAIN recs |-> SumFunction(inner(n))])
    BY DEF Loss, PolicyGradient
  <1>4. [n \in DOMAIN recs |-> SumFunction(inner(n))] = Scaling(at)
    <2>1. DOMAIN recs = DOMAIN batch /\ Scaling(at) = [n \in DOMAIN batch |-> Scaling(at)[n]]
      BY DEF Scaling
    <2> HIDE DEF inner, recs
    <2> QED
      BY <1>1, <2>1
  <1>5. SumFunction(Scaling(at)) = SumFunctionOnSet(Scaling(at), DOMAIN batch)
    BY DEF SumFunction, Scaling
  <1> HIDE DEF inner, recs
  <1> QED
    BY <1>2, <1>3, <1>4, <1>5

(* The difference of the loss is the sum of the samples' slopes. *)
LEMMA LossGradientIsSum ==
    ASSUME probe \in Probes, level \in Int, SamplesAreCredited, IsFiniteSet(DOMAIN batch)
    PROVE  /\ IsSummable(Slope, DOMAIN batch)
           /\ SumFunctionOnSet(Slope, DOMAIN batch) \in Int
           /\ LossGradient(batch) = -SumFunctionOnSet(Slope, DOMAIN batch)
  <1> DEFINE B == DOMAIN batch
  <1>1. /\ IsSummable(Scaling(1), B) /\ Loss(1) = -SumFunctionOnSet(Scaling(1), B)
        /\ IsSummable(Scaling(-1), B) /\ Loss(-1) = -SumFunctionOnSet(Scaling(-1), B)
    <2>1. 1 \in Int /\ -1 \in Int
      OBVIOUS
    <2> QED
      BY <2>1, LossAt
  <1>2. IsSummable(Slope, B)
    BY SampleFacts DEF IsSummable
  <1>3. ASSUME NEW n \in B
        PROVE  Scaling(1)[n] = 2 * Slope[n] + Scaling(-1)[n]
    <2>1. PICK a \in Int : a = Credit[n]
      BY SampleFacts
    <2>2. Choices[n] \in Bit
      BY SampleFacts
    <2>3. PICK x \in Int : x = LogProb(Choices[n], -1)
      BY <2>2, LogProbFacts
    <2>4. PICK s \in Int : s = Whole * Choices[n] - Sigmoid(level)
      <3>1. Choices[n] \in Int /\ Whole \in Int /\ Sigmoid(level) \in Int
        BY SampleFacts, ScoreFacts
      <3>2. Whole * Choices[n] \in Int
        BY <3>1
      <3> QED
        BY <3>1, <3>2
    <2>5. LogProb(Choices[n], 1) = 2 * s + x
      BY <2>2, <2>3, <2>4, LogProbFacts
    <2>6. Slope[n] = a * s
      BY <2>1, <2>4, SampleFacts
    <2>7. Scaling(1)[n] = a * (2 * s + x) /\ Scaling(-1)[n] = a * x
      BY <2>1, <2>3, <2>5 DEF Scaling
    <2>8. a * (2 * s + x) = 2 * (a * s) + a * x
      OBVIOUS
    <2> QED
      BY <2>6, <2>7, <2>8
  <1> PICK d \in Int : d = SumFunctionOnSet(Slope, B)
    BY <1>2, SumType
  <1> PICK m \in Int : m = SumFunctionOnSet(Scaling(-1), B)
    BY <1>1, SumType
  <1>4. SumFunctionOnSet(Scaling(1), B) = 2 * d + m
    <2>1. 2 \in Int
      OBVIOUS
    <2> HIDE DEF B
    <2> QED
      BY <1>1, <1>2, <1>3, <2>1, SumLinear
  <1>5. Loss(1) - Loss(-1) = 2 * (-d)
    <2>1. (-(2 * d + m)) - (-m) = 2 * (-d)
      OBVIOUS
    <2> QED
      BY <1>1, <1>4, <2>1
  <1>6. LossGradient(batch) = (Loss(1) - Loss(-1)) \div 2
    BY DEF LossGradient, Loss
  <1>7. (2 * (-d)) \div 2 = -d
    OBVIOUS
  <1> QED
    BY <1>2, <1>5, <1>6, <1>7

(* In an episode's group the step goes up by the share of the branches that *)
(* took the target, times that of the others, times what it is worth.      *)
LEMMA BranchesPointUp ==
    ASSUME probe \in Probes, SamplesAreCredited, arm = "redco",
           NEW g, g \subseteq DOMAIN batch, IsFiniteSet(g), IsCreditedGroup(batch, g)
    PROVE  /\ SumFunctionOnSet(Scored, g) \in Int
           /\ SumFunctionOnSet(Scored, g) >= 0
           /\ probe.name = "irrelevant_target" => SumFunctionOnSet(Scored, g) = 0
  <1> DEFINE N == Cardinality(g)
             T == SumFunctionOnSet(Payoff, g)
             chosen == SumFunctionOnSet(Choices, g)
             others == [n \in g |-> 1 - Choices[n]]
  <1>1. /\ IsSummable(Credit, g) /\ IsSummable(Payoff, g) /\ IsSummable(Scored, g)
        /\ IsSummable(Choices, g) /\ N \in Nat
        /\ \A n \in g : Credit[n] = N * Payoff[n] - T
        /\ SumFunctionOnSet(Credit, g) = 0
    BY GroupFacts
  <1>2. ASSUME NEW n \in g
        PROVE  /\ Choices[n] \in {0, 1} /\ Credit[n] \in Int /\ Payoff[n] \in Int
               /\ Scored[n] = Credit[n] * (Whole * Choices[n] - probe.target)
    <2>1. Choices[n] \in Bit /\ Credit[n] \in Int /\ Payoff[n] \in Int
          /\ Scored[n] = Credit[n] * Score(Choices[n])
      BY SampleFacts
    <2> QED
      BY <2>1, ScoreFacts DEF Bit
  <1>3. PICK base \in Int, worth \in Int :
            /\ worth >= 0 /\ (probe.name = "irrelevant_target" => worth = 0)
            /\ \A n \in g : Payoff[n] = base + worth * Choices[n]
    <2>1. PICK context \in Bit, luck \in Bit :
              \A n \in g : batch[n].reward = Reward(context, batch[n].target, luck)
      BY DEF IsCreditedGroup
    <2> DEFINE b == Reward(context, 0, luck)
               w == Reward(context, 1, luck) - b
    <2>2. /\ b \in Int /\ w \in Int /\ w >= 0 /\ (probe.name = "irrelevant_target" => w = 0)
      <3>1. probe.name \in {"irrelevant_target", "redundant_target", "lucky_target"}
        BY ConfusionAssumption
      <3>2. context \in {0, 1} /\ luck \in {0, 1}
        BY DEF Bit
      <3> QED
        BY <3>1, <3>2 DEF Reward
    <2>3. ASSUME NEW n \in g PROVE Payoff[n] = b + w * Choices[n]
      <3>1. Payoff[n] = Reward(context, Choices[n], luck)
        BY <2>1 DEF Payoff, Choices
      <3> PICK r0 \in Int : r0 = b
        BY <2>2
      <3> PICK d \in Int : d = w
        BY <2>2
      <3>2. Reward(context, 0, luck) = r0
        OBVIOUS
      <3>3. Reward(context, 1, luck) = r0 + d
        <4>1. 1 \in Bit
          BY DEF Bit
        <4>2. Reward(context, 1, luck) \in Int
          BY <4>1, RewardType
        <4> QED
          BY <4>2
      <3>4. r0 + d * 0 = r0 /\ r0 + d * 1 = r0 + d
        OBVIOUS
      <3> HIDE DEF b, w
      <3>5. CASE Choices[n] = 0
        BY <3>1, <3>2, <3>4, <3>5
      <3>6. CASE Choices[n] = 1
        BY <3>1, <3>3, <3>4, <3>6
      <3> QED
        BY <1>2, <3>5, <3>6
    <2> HIDE DEF b, w
    <2> QED
      BY <2>2, <2>3
  <1>4. T \in Int /\ chosen \in Int
    BY <1>1, SumType
  <1> DEFINE c == N * base - T
  <1>5. c \in Int
    BY <1>1, <1>4
  <1>6. \A n \in g : Credit[n] = (N * worth) * Choices[n] + c
    <2> TAKE n \in g
    <2> PICK t \in Int : t = Choices[n]
      BY <1>2
    <2>1. Credit[n] = N * (base + worth * t) - T
      BY <1>1, <1>3
    <2> HIDE DEF N, T, c
    <2>2. N * (base + worth * t) - T = (N * worth) * t + (N * base - T)
      BY <1>1, <1>4
    <2> QED
      BY <2>1, <2>2 DEF c
  <1> DEFINE const == [n \in g |-> c]
  <1>7. IsSummable(const, g) /\ SumFunctionOnSet(const, g) = c * N
    <2>1. \A n \in g : const[n] = c
      OBVIOUS
    <2> HIDE DEF const, c
    <2> QED
      BY <1>5, <2>1, SumConstant
  <1>8. 0 = (N * worth) * chosen + c * N
    <2>1. N * worth \in Int
      BY <1>1
    <2>2. \A n \in g : Credit[n] = (N * worth) * Choices[n] + const[n]
      BY <1>6
    <2> HIDE DEF N, const, c, chosen
    <2> PICK a \in Int : a = N * worth
      BY <2>1
    <2>3. SumFunctionOnSet(Credit, g) = a * SumFunctionOnSet(Choices, g) + SumFunctionOnSet(const, g)
      BY <1>1, <1>7, <2>2, SumLinear
    <2> QED
      BY <1>1, <1>7, <2>3 DEF chosen
  <1>9. /\ chosen >= 0 /\ N - chosen >= 0
    <2>1. chosen >= 0
      <3>1. \A n \in g : Choices[n] \in Int /\ Choices[n] >= 0
        BY <1>2
      <3> QED
        BY <3>1, SumNonNegative
    <2>2. \A n \in g : others[n] \in Int /\ others[n] >= 0
      BY <1>2
    <2> DEFINE ones == [n \in g |-> 1]
    <2>3. \A n \in g : ones[n] = 1 /\ ones[n] = 1 * Choices[n] + others[n]
      BY <1>2
    <2> HIDE DEF others, ones
    <2>4. IsSummable(others, g)
      BY <2>2 DEF IsSummable
    <2>5. SumFunctionOnSet(others, g) >= 0 /\ SumFunctionOnSet(others, g) \in Int
      BY <2>2, <2>4, SumNonNegative, SumType
    <2>6. SumFunctionOnSet(ones, g) = 1 * N
      BY <2>3, SumConstant
    <2> PICK a \in Int : a = 1
      OBVIOUS
    <2>7. SumFunctionOnSet(ones, g) = a * chosen + SumFunctionOnSet(others, g)
      <3>1. \A n \in g : ones[n] = a * Choices[n] + others[n]
        BY <2>3
      <3>2. IsSummable(Choices, g)
        BY <1>1
      <3> HIDE DEF N, T, chosen
      <3>3. SumFunctionOnSet(ones, g) = a * SumFunctionOnSet(Choices, g) + SumFunctionOnSet(others, g)
        BY <2>4, <3>1, <3>2, SumLinear
      <3> QED
        BY <3>3 DEF chosen
    <2> HIDE DEF chosen, N
    <2> QED
      BY <1>1, <1>4, <2>1, <2>5, <2>6, <2>7
  <1> DEFINE up == worth * (N - chosen)
  <1>10. c = -(worth * chosen) \/ N = 0
    <2> HIDE DEF N, c, chosen
    <2>1. N * (worth * chosen + c) = 0
      BY <1>1, <1>4, <1>5, <1>8
    <2>2. worth * chosen + c \in Int
      BY <1>4, <1>5
    <2> PICK y \in Int : y = worth * chosen + c
      BY <2>2
    <2>3. y = 0 \/ N = 0
      BY <1>1, <2>1
    <2> QED
      BY <1>4, <1>5, <2>3
  <1>11. CASE N = 0
    <2>1. g = {}
      BY <1>11, FS_EmptySet
    <2>2. SumFunctionOnSet(Scored, {}) = 0
      BY SumOfNothing
    <2> QED
      BY <2>1, <2>2
  <1>12. CASE c = -(worth * chosen)
    <2>1. up \in Int /\ up >= 0 /\ (worth = 0 => up = 0)
      <3>1. PICK v \in Nat : v = N - chosen
        BY <1>1, <1>4, <1>9
      <3>2. worth \in Nat
        BY <1>3
      <3>3. worth * v \in Nat /\ (worth = 0 => worth * v = 0)
        BY <3>2
      <3> QED
        BY <3>1, <3>3
    <2>2. ASSUME NEW n \in g
          PROVE  Credit[n] * Choices[n] = up * Choices[n]
      <3>1. CASE Choices[n] = 0
        <4>1. Credit[n] \in Int
          BY <1>2
        <4>2. Credit[n] * 0 = 0 /\ up * 0 = 0
          <5> HIDE DEF up
          <5> QED
            BY <2>1, <4>1
        <4> QED
          BY <3>1, <4>2
      <3>2. CASE Choices[n] = 1
        <4>1. Credit[n] = (N * worth) * 1 + c
          BY <1>6, <3>2
        <4>2. (N * worth) * 1 + (-(worth * chosen)) = worth * (N - chosen)
          <5> HIDE DEF N, chosen
          <5> QED
            BY <1>1, <1>4
        <4>3. Credit[n] = up
          BY <1>12, <4>1, <4>2
        <4> QED
          BY <3>2, <4>3
      <3> QED
        BY <1>2, <3>1, <3>2
    <2> DEFINE raised == [n \in g |-> up * Choices[n]]
               fallen == [n \in g |-> (-probe.target) * Credit[n]]
    <2> PICK W \in Nat : W = Whole
      BY ScoreFacts
    <2> PICK q \in Int : q = -probe.target /\ probe.target \in Int
      BY ScoreFacts
    <2>3. \A n \in g : Scored[n] = W * raised[n] + fallen[n]
      <3> TAKE n \in g
      <3> PICK a \in Int : a = Credit[n]
        BY <1>2
      <3> PICK t \in Int : t = Choices[n]
        BY <1>2
      <3>1. Scored[n] = a * (W * t - probe.target)
        BY <1>2
      <3>2. a * t = raised[n] /\ q * a = fallen[n]
        BY <2>2
      <3>3. a * (W * t - probe.target) = W * (a * t) + q * a
        OBVIOUS
      <3> HIDE DEF raised, fallen
      <3> QED
        BY <3>1, <3>2, <3>3
    <2>4. IsSummable(raised, g) /\ SumFunctionOnSet(raised, g) = up * chosen
      <3>1. \A n \in g : raised[n] = up * Choices[n]
        OBVIOUS
      <3> HIDE DEF raised, up
      <3> QED
        BY <1>1, <2>1, <3>1, SumScaled
    <2>5. IsSummable(fallen, g) /\ SumFunctionOnSet(fallen, g) = q * 0
      <3>1. \A n \in g : fallen[n] = q * Credit[n]
        OBVIOUS
      <3> HIDE DEF fallen
      <3> QED
        BY <1>1, <3>1, SumScaled
    <2> HIDE DEF raised, fallen, up, chosen
    <2>6. SumFunctionOnSet(Scored, g) = W * (up * chosen) + q * 0
      <3>1. W \in Int
        OBVIOUS
      <3>2. SumFunctionOnSet(Scored, g)
               = W * SumFunctionOnSet(raised, g) + SumFunctionOnSet(fallen, g)
        <4>1. IsSummable(raised, g) /\ IsSummable(fallen, g)
          BY <2>4, <2>5
        <4> DEFINE s == Scored
        <4>2. \A n \in g : s[n] = W * raised[n] + fallen[n]
          BY <2>3
        <4> HIDE DEF s
        <4>3. SumFunctionOnSet(s, g)
                 = W * SumFunctionOnSet(raised, g) + SumFunctionOnSet(fallen, g)
          BY ONLY <3>1, <4>1, <4>2, SumLinear
        <4> QED
          BY <4>3 DEF s
      <3> QED
        BY <2>4, <2>5, <3>2
    <2>7. up * chosen \in Nat /\ (up = 0 => up * chosen = 0)
      BY <1>4, <1>9, <2>1
    <2> PICK z \in Nat : z = up * chosen
      BY <2>7
    <2>8. W * z \in Nat /\ (z = 0 => W * z = 0) /\ q * 0 = 0
      OBVIOUS
    <2>9. SumFunctionOnSet(Scored, g) = W * z
      BY <2>6, <2>8
    <2> QED
      BY <1>3, <2>1, <2>7, <2>8, <2>9
  <1> QED
    BY <1>10, <1>11, <1>12

-----------------------------------------------------------------------------
(* The groups of a batch, and the sum of their estimates. *)

LEMMA BatchShape ==
    ASSUME TrialInv, stage = "learn"
    PROVE  /\ GroupSize \in Nat \ {0} /\ config.episodes \in Nat
           /\ \A e : GroupAt(e) = Block(e, GroupSize)
           /\ \E e \in 0..config.episodes :
                  /\ DOMAIN batch = 1..(e * GroupSize) /\ Len(batch) = e * GroupSize
                  /\ arm # "redco" => e \in {0, 1}
  <1>1. /\ config.group \in Nat \ {0} /\ config.branches \in Nat \ {0}
        /\ config.episodes \in Nat /\ config.episodes >= 1
    BY ConfigFacts DEF TrialInv
  <1>2. \A e : GroupAt(e) = Block(e, GroupSize)
    BY DEF GroupAt
  <1>3. \A m \in Nat : IsListOf(batch, m) => DOMAIN batch = 1..m /\ Len(batch) = m
    BY Lists DEF IsListOf
  <1>4. arm = "trajectory_loo" \/ arm = "redco"
    BY DEF TrialInv, Arms
  <1>5. CASE arm = "trajectory_loo"
    <2>1. GroupSize = config.group
      BY <1>5 DEF GroupSize
    <2>2. 0 \in Nat /\ 0 * GroupSize = 0 /\ 1 * GroupSize = GroupSize
      BY <1>1, <2>1
    <2>3. \E e \in {0, 1} : DOMAIN batch = 1..(e * GroupSize) /\ Len(batch) = e * GroupSize
      BY <1>1, <1>3, <1>5, <2>1, <2>2 DEF TrialInv, StepIsPaid
    <2>4. {0, 1} \subseteq 0..config.episodes
      BY <1>1
    <2> QED
      BY <1>1, <1>2, <2>1, <2>3, <2>4
  <1>6. CASE arm = "redco"
    <2>1. GroupSize = config.branches
      BY <1>6 DEF GroupSize
    <2>2. PICK e \in 0..config.episodes : IsListOf(batch, e * config.branches)
      BY <1>6 DEF TrialInv, StepIsPaid
    <2>3. e * config.branches \in Nat
      BY <1>1, <2>2, Products
    <2> QED
      BY <1>1, <1>2, <1>3, <1>6, <2>1, <2>2, <2>3
  <1> QED
    BY <1>4, <1>5, <1>6

LEMMA GroupsPartition ==
    ASSUME TrialInv, SamplesAreCredited, IsCollected
    PROVE  /\ IsFiniteSet(DOMAIN batch)
           /\ IsPartition([g \in Groups |-> g], Groups, DOMAIN batch)
           /\ \A g \in Groups : g \subseteq DOMAIN batch /\ IsFiniteSet(g) /\ IsCreditedGroup(batch, g)
  <1>1. /\ stage = "learn" /\ Len(batch) = SamplesPerStep
        /\ GroupSize \in Nat \ {0} /\ config.episodes \in Nat
        /\ \A e : GroupAt(e) = Block(e, GroupSize)
    BY BatchShape DEF IsCollected
  <1>2. PICK m \in 0..config.episodes :
            /\ DOMAIN batch = 1..(m * GroupSize) /\ Len(batch) = m * GroupSize
            /\ arm # "redco" => m \in {0, 1}
    BY <1>1, BatchShape
  <1>3. m \in Nat
    BY <1>1
  <1>4. Groups = {Block(e, GroupSize) : e \in 1..m}
    <2>1. CASE arm = "trajectory_loo"
      <3>1. GroupSize = config.group /\ SamplesPerStep = config.group
        BY <2>1 DEF GroupSize, SamplesPerStep
      <3>2. m = 1
        <4>1. 0 * GroupSize = 0
          BY <1>1
        <4> QED
          BY <1>1, <1>2, <2>1, <3>1, <4>1
      <3>3. Block(1, GroupSize) = 1..(m * GroupSize)
        <4>1. (1 - 1) * GroupSize + 1 = 1
          BY <1>1
        <4> QED
          BY <3>2, <4>1 DEF Block
      <3>4. Groups = {DOMAIN batch}
        BY <2>1 DEF Groups
      <3>5. 1..m = {1}
        BY <3>2
      <3> QED
        BY <1>2, <3>3, <3>4, <3>5
    <2>2. CASE arm # "trajectory_loo"
      <3>1. arm = "redco"
        BY <2>2 DEF TrialInv, Arms
      <3>2. GroupSize = config.branches /\ SamplesPerStep = config.episodes * config.branches
        BY <3>1 DEF GroupSize, SamplesPerStep
      <3>3. m = config.episodes
        BY <1>1, <1>2, <1>3, <3>2, Cancel
      <3> QED
        BY <2>2, <3>2, <3>3 DEF Groups, Block
    <2> QED
      BY <2>1, <2>2
  <1>5. IsFiniteSet(Groups)
    <2> DEFINE nth == [e \in 1..m |-> Block(e, GroupSize)]
    <2>1. nth \in Surjection(1..m, Groups)
      BY <1>4 DEF Surjection
    <2>2. IsFiniteSet(1..m)
      BY <1>3, FS_Interval
    <2> HIDE DEF nth
    <2> QED
      BY <2>1, <2>2, FS_Surjection
  <1>6. ASSUME NEW g \in Groups
        PROVE  g \subseteq DOMAIN batch /\ IsFiniteSet(g) /\ IsCreditedGroup(batch, g)
    <2>1. PICK e \in 1..m : g = Block(e, GroupSize)
      BY <1>4
    <2>2. e \in Nat \ {0} /\ e <= m
      BY <1>3
    <2>3. g \subseteq DOMAIN batch /\ IsFiniteSet(g)
      BY <1>1, <1>2, <1>3, <2>1, <2>2, Blocks
    <2>4. g = GroupAt(e)
      BY <1>1, <2>1
    <2> QED
      BY <2>2, <2>3, <2>4 DEF SamplesAreCredited
  <1>7. \A g, h \in Groups : g # h => g \cap h = {}
    <2> SUFFICES ASSUME NEW g \in Groups, NEW h \in Groups, g # h
                 PROVE  g \cap h = {}
      OBVIOUS
    <2>1. PICK j \in 1..m, k \in 1..m : g = Block(j, GroupSize) /\ h = Block(k, GroupSize)
      BY <1>4
    <2>2. j \in Nat \ {0} /\ k \in Nat \ {0} /\ j # k
      BY <1>3, <2>1
    <2> QED
      BY <1>1, <2>1, <2>2, Blocks
  <1>8. \A n : n \in DOMAIN batch <=> \E g \in Groups : n \in g
    <2>1. ASSUME NEW n \in DOMAIN batch PROVE \E g \in Groups : n \in g
      <3>1. PICK k \in 1..m : n \in Block(k, GroupSize)
        BY <1>1, <1>2, <1>3, Blocks
      <3> QED
        BY <1>4, <3>1
    <2> QED
      BY <1>6, <2>1
  <1>9. IsFiniteSet(DOMAIN batch)
    <2>1. m * GroupSize \in Nat
      BY <1>1, <1>3, Products
    <2> QED
      BY <1>2, <2>1, FS_Interval
  <1>10. IsPartition([g \in Groups |-> g], Groups, DOMAIN batch)
    <2> DEFINE part == [g \in Groups |-> g]
    <2>1. \A g \in Groups : part[g] = g
      OBVIOUS
    <2> HIDE DEF part
    <2> QED
      BY <1>5, <1>7, <1>8, <2>1 DEF IsPartition
  <1> QED
    BY <1>6, <1>9, <1>10

Estimate == [g \in Groups |-> GroupGradient(CountsOf(g))]

LEMMA SlopesAreEstimate ==
    ASSUME TrialInv, level \in Int, SamplesAreCredited, IsCollected
    PROVE  /\ IsFiniteSet(DOMAIN batch)
           /\ IsSummable(Estimate, Groups)
           /\ \A g \in Groups : Estimate[g] = SumFunctionOnSet(Scored, g)
           /\ LossGradient(batch) = -SumFunctionOnSet(Estimate, Groups)
  <1> DEFINE part == [g \in Groups |-> g]
  <1>1. probe \in Probes
    BY DEF TrialInv
  <1>2. /\ IsFiniteSet(DOMAIN batch)
        /\ IsPartition(part, Groups, DOMAIN batch)
        /\ \A g \in Groups : g \subseteq DOMAIN batch /\ IsFiniteSet(g) /\ IsCreditedGroup(batch, g)
    BY GroupsPartition
  <1>3. ASSUME NEW g \in Groups
        PROVE  /\ Estimate[g] = SumFunctionOnSet(Scored, g)
               /\ IsSummable(Slope, g) /\ Estimate[g] = SumFunctionOnSet(Slope, g)
    <2>1. g \subseteq DOMAIN batch /\ IsFiniteSet(g) /\ IsCreditedGroup(batch, g)
      BY <1>2
    <2>2. Estimate[g] = GroupGradient(CountsOf(g))
      BY DEF Estimate
    <2>3. Estimate[g] = SumFunctionOnSet(Scored, g)
      BY <1>1, <2>1, <2>2, EnumeratedGroup
    <2>4. IsSummable(Slope, g) /\ SumFunctionOnSet(Slope, g) = SumFunctionOnSet(Scored, g)
      BY <1>1, <2>1, GroupFacts
    <2> QED
      BY <2>3, <2>4
  <1>4. SumsParts(Estimate, Slope, part, Groups)
    <2>1. \A g \in Groups : part[g] = g
      OBVIOUS
    <2> HIDE DEF part
    <2> QED
      BY <1>3, <2>1 DEF SumsParts
  <1>5. /\ IsSummable(Estimate, Groups)
        /\ SumFunctionOnSet(Slope, DOMAIN batch) = SumFunctionOnSet(Estimate, Groups)
    <2> HIDE DEF part
    <2> QED
      BY <1>2, <1>4, SumOfParts
  <1> QED
    BY <1>1, <1>2, <1>3, <1>5, LossGradientIsSum

LEMMA StepsAreEnumerated ==
    ASSUME TrialInv, level \in Int, SamplesAreCredited
    PROVE  TrialsStepAsEnumerated
  <1> SUFFICES ASSUME IsCollected
               PROVE  /\ LossGradient(batch) = -SumFunction(Estimate)
                      /\ Normalizer([n \in DOMAIN batch |-> batch[n].record]) =
                            IF arm = "redco" THEN config.branches * config.episodes ELSE config.group
    BY DEF TrialsStepAsEnumerated, Estimate
  <1>1. SumFunction(Estimate) = SumFunctionOnSet(Estimate, Groups)
    BY DEF SumFunction, Estimate
  <1>2. LossGradient(batch) = -SumFunction(Estimate) /\ IsFiniteSet(DOMAIN batch)
    BY <1>1, SlopesAreEstimate
  <1> DEFINE recs == [n \in DOMAIN batch |-> batch[n].record]
             units == [n \in DOMAIN recs |-> recs[n].units]
  <1>3. Normalizer(recs) = SumFunctionOnSet(units, DOMAIN batch)
    BY DEF Normalizer, SumFunction
  <1>4. \A n \in DOMAIN batch : units[n] = 1
    BY DEF SamplesAreCredited, IsSample
  <1>5. SumFunctionOnSet(units, DOMAIN batch) = 1 * Cardinality(DOMAIN batch)
    <2>1. 1 \in Int
      OBVIOUS
    <2> HIDE DEF units
    <2> QED
      BY <1>2, <1>4, <2>1, SumConstant
  <1>6. PICK m \in 0..config.episodes :
            DOMAIN batch = 1..(m * GroupSize) /\ Len(batch) = m * GroupSize
    BY BatchShape DEF IsCollected
  <1>7. Cardinality(DOMAIN batch) = Len(batch) /\ Len(batch) \in Nat
    <2>1. GroupSize \in Nat \ {0} /\ config.episodes \in Nat
      BY BatchShape DEF IsCollected
    <2> PICK n \in Nat : n = m * GroupSize
      BY <2>1, Products
    <2>2. 1 \in Int /\ n \in Int
      OBVIOUS
    <2>3. Cardinality(1..n) = IF 1 > n THEN 0 ELSE n - 1 + 1
      BY <2>2, FS_Interval
    <2> QED
      BY <1>6, <2>3
  <1>8. Len(batch) = IF arm = "redco" THEN config.branches * config.episodes ELSE config.group
    <2>1. config.branches \in Nat /\ config.episodes \in Nat
      BY ConfigFacts DEF TrialInv
    <2>2. config.branches * config.episodes = config.episodes * config.branches
      BY <2>1
    <2> QED
      BY <2>2 DEF IsCollected, SamplesPerStep
  <1> HIDE DEF units, recs
  <1>9. Normalizer(recs) = IF arm = "redco" THEN config.branches * config.episodes ELSE config.group
    BY <1>3, <1>5, <1>7, <1>8
  <1> QED
    BY <1>2, <1>9 DEF recs

-----------------------------------------------------------------------------
(* Every sample is credited within its group. *)

LEMMA NextSamples ==
    ASSUME UNCHANGED <<arm, config, probe>>, \A n \in DOMAIN batch' : IsSample(batch'[n]),
           \A e \in Nat \ {0} : GroupAt(e) \subseteq DOMAIN batch' => IsCreditedGroup(batch', GroupAt(e))
    PROVE  SamplesAreCredited'
  <1>1. \A e : GroupAt(e)' = GroupAt(e)
    BY DEF GroupAt, GroupSize
  <1>2. \A context, target, luck : Reward(context, target, luck)' = Reward(context, target, luck)
    BY DEF Reward
  <1>3. \A g : IsCreditedGroup(batch', g) => IsCreditedGroup(batch, g)'
    BY <1>2 DEF IsCreditedGroup
  <1>4. ASSUME NEW e \in Nat \ {0}, GroupAt(e) \subseteq DOMAIN batch'
        PROVE  IsCreditedGroup(batch, GroupAt(e))'
    <2>1. IsCreditedGroup(batch', GroupAt(e))
      BY <1>4
    <2> DEFINE g == GroupAt(e)
    <2> QED
      BY <1>1, <1>2, <2>1 DEF IsCreditedGroup
  <1>5. \A n \in DOMAIN batch' : IsSample(batch[n])'
    BY DEF IsSample
  <1> QED
    BY <1>1, <1>4, <1>5 DEF SamplesAreCredited

LEMMA SameSamples ==
    ASSUME SamplesAreCredited, UNCHANGED <<batch, arm, config, probe>>
    PROVE  SamplesAreCredited'
  <1>1. batch' = batch
    OBVIOUS
  <1>2. /\ \A n \in DOMAIN batch' : IsSample(batch'[n])
        /\ \A e \in Nat \ {0} : GroupAt(e) \subseteq DOMAIN batch' => IsCreditedGroup(batch', GroupAt(e))
    BY <1>1 DEF SamplesAreCredited
  <1> QED
    BY <1>2, NextSamples

(* An empty batch has no group. *)
LEMMA NoGroup ==
    ASSUME GroupSize \in Nat \ {0}, NEW e \in Nat \ {0}, NEW s, s = <<>>
    PROVE  ~(GroupAt(e) \subseteq DOMAIN s)
  <1>1. GroupAt(e) = Block(e, GroupSize)
    BY DEF GroupAt
  <1>2. ~(e <= 0) /\ 0 \in Nat
    OBVIOUS
  <1>3. ~(Block(e, GroupSize) \subseteq 1..(0 * GroupSize))
    BY <1>2, Blocks
  <1>4. 1..(0 * GroupSize) = {} /\ DOMAIN <<>> = {}
    OBVIOUS
  <1> QED
    BY <1>1, <1>3, <1>4

LEMMA NoSamples ==
    ASSUME UNCHANGED <<arm, config, probe>>, config \in Configs, IsSound(config), batch' = <<>>
    PROVE  SamplesAreCredited'
  <1>1. GroupSize \in Nat \ {0}
    BY ConfigFacts DEF GroupSize
  <1>2. \A e \in Nat \ {0} : ~(GroupAt(e) \subseteq DOMAIN batch')
    BY <1>1, NoGroup
  <1>3. DOMAIN batch' = {}
    OBVIOUS
  <1> QED
    BY <1>2, <1>3, NextSamples

LEMMA TrajectoriesAreCredited ==
    ASSUME DiagnosticInv, DrawTrajectories
    PROVE  SamplesAreCredited'
  <1>1. /\ TrialInv /\ probe \in Probes /\ arm = "trajectory_loo" /\ UNCHANGED <<probe, config, arm>>
    BY DEF DrawTrajectories, DiagnosticInv, TrialInv, diagnosis
  <1> DEFINE b == config.group
  <1>2. b \in Nat \ {0} /\ GroupSize = b
    BY <1>1, ConfigFacts DEF TrialInv, GroupSize
  <1>3. PICK draws \in [1..b -> [context : Drawable(probe.context), target : Bit, luck : Drawable(probe.luck)]] :
            batch' = TrajectoryBatch(draws)
    BY DEF DrawTrajectories
  <1> DEFINE rewards == [k \in DOMAIN draws |-> Reward(draws[k].context, draws[k].target, draws[k].luck)]
             credit == [k \in 1..b |-> LeaveOneOut(rewards, k)]
  <1>4. DOMAIN draws = 1..b
    BY <1>3
  <1>5. \A k \in 1..b : /\ draws[k].context \in Bit /\ draws[k].target \in Bit /\ draws[k].luck \in Bit
                        /\ rewards[k] = Reward(draws[k].context, draws[k].target, draws[k].luck)
                        /\ rewards[k] \in Int
    <2>1. \A k \in 1..b : draws[k] \in [context : Drawable(probe.context), target : Bit, luck : Drawable(probe.luck)]
      BY <1>3
    <2>2. \A k \in 1..b : draws[k].context \in Bit /\ draws[k].target \in Bit /\ draws[k].luck \in Bit
      BY <2>1 DEF Drawable
    <2> QED
      BY <1>1, <1>4, <2>2, RewardType
  <1>6. rewards = [k \in 1..b |-> rewards[k]] /\ Len(rewards) = b /\ DOMAIN rewards = 1..b
    <2>1. rewards = [k \in 1..b |-> rewards[k]] /\ DOMAIN rewards = 1..b
      BY <1>4
    <2> HIDE DEF rewards, b
    <2> QED
      BY <1>2, <2>1, SequenceFacts
  <1>7. /\ DOMAIN batch' = 1..b
        /\ \A k \in 1..b :
              batch'[k] = Sampled([kind |-> "incumbent", mask |-> <<TRUE>>,
                                   advantages |-> <<LeaveOneOut(rewards, k)>>, weights |-> <<1>>, units |-> 1],
                                  draws[k].target, rewards[k])
    BY <1>3, <1>4 DEF TrajectoryBatch
  <1> HIDE DEF rewards, b
  <1>8. \A k \in 1..b : /\ LeaveOneOut(rewards, k) = b * rewards[k] - SumFunction(rewards)
                        /\ LeaveOneOut(rewards, k) \in Int
    <2>1. IsSequence(rewards) /\ \A k \in DOMAIN rewards : rewards[k] \in Int
      BY <1>2, <1>5, <1>6 DEF IsSequence
    <2>2. \A k \in DOMAIN rewards : credit[k] = LeaveOneOut(rewards, k)
      BY <1>6
    <2> HIDE DEF credit
    <2>3. \A k \in DOMAIN rewards : credit[k] = Len(rewards) * rewards[k] - SumFunction(rewards) /\ credit[k] \in Int
      BY <2>1, <2>2, LeaveOneOutBalances
    <2> QED
      BY <1>6, <2>2, <2>3
  <1>9. \A k \in 1..b : /\ IsSample(batch'[k]) /\ batch'[k].reward = rewards[k]
                        /\ batch'[k].record.advantages[1] = LeaveOneOut(rewards, k)
    <2> TAKE k \in 1..b
    <2> PICK a \in Int : a = LeaveOneOut(rewards, k)
      BY <1>8
    <2> DEFINE r == [kind |-> "incumbent", mask |-> <<TRUE>>,
                     advantages |-> <<a>>, weights |-> <<1>>, units |-> 1]
    <2>1. batch'[k] = Sampled(r, draws[k].target, rewards[k])
      BY <1>7
    <2>2. r.mask = <<TRUE>> /\ r.weights = <<1>> /\ r.units = 1 /\ r.advantages[1] = a
      OBVIOUS
    <2> HIDE DEF r
    <2>3. batch'[k].record = r /\ batch'[k].target = draws[k].target /\ batch'[k].reward = rewards[k]
      BY <2>1 DEF Sampled
    <2> QED
      BY <1>5, <2>2, <2>3 DEF IsSample
  <1>10. ASSUME NEW e \in Nat \ {0}, GroupAt(e) \subseteq DOMAIN batch'
         PROVE  IsCreditedGroup(batch', GroupAt(e))
    <2>1. GroupAt(e) = Block(e, b)
      BY <1>2 DEF GroupAt
    <2>2. 1 * b = b /\ 1 \in Nat
      BY <1>2
    <2>3. e = 1
      <3>1. Block(e, b) \subseteq 1..(1 * b)
        BY <1>7, <1>10, <2>1, <2>2
      <3>2. e <= 1
        BY <1>2, <2>2, <3>1, Blocks
      <3> QED
        BY <3>2
    <2>4. Block(1, b) = 1..b
      <3>1. (1 - 1) * b + 1 = 1
        BY <1>2
      <3> QED
        BY <2>2, <3>1 DEF Block
    <2>5. Cardinality(1..b) = b
      <3>1. 1 \in Nat \ {0}
        OBVIOUS
      <3>2. Cardinality(Block(1, b)) = b
        BY <1>2, <3>1, Blocks
      <3> QED
        BY <2>4, <3>2
    <2>6. [m \in 1..b |-> batch'[m].reward] = rewards
      BY <1>6, <1>9
    <2>7. IsCreditedGroup(batch', 1..b)
      BY <1>1, <1>8, <1>9, <2>5, <2>6 DEF IsCreditedGroup
    <2> QED
      BY <2>1, <2>3, <2>4, <2>7
  <1> QED
    BY <1>1, <1>7, <1>9, <1>10, NextSamples

Returned == [n \in DOMAIN records |-> Sampled(records[n], Branches[n].tokens[1], Branches[n].reward)]

LEMMA EpisodeSamples ==
    ASSUME CompilerInv, phase = "returned", probe \in Probes, config \in Configs, IsSound(config), IsEpisode
    PROVE  /\ IsListOf(Returned, config.branches)
           /\ \A n \in 1..config.branches :
                 /\ IsSample(Returned[n])
                 /\ Returned[n].record.advantages[1]
                       = config.branches * Returned[n].reward
                         - SumFunction([k \in 1..config.branches |-> Returned[k].reward])
           /\ \E context \in Bit, luck \in Bit : \A n \in 1..config.branches :
                 Returned[n].reward = Reward(context, Returned[n].target, luck)
  <1> DEFINE b == config.branches
             rewards == [k \in 1..b |-> Branches[k].reward]
             credit == [k \in 1..b |-> LeaveOneOut(rewards, k)]
  <1>1. b \in Nat /\ b >= 2
    BY ConfigFacts
  <1>2. PICK context \in Bit, luck \in Bit, targets \in [1..b -> Bit] :
            input = EpisodeCall(context, luck, targets)
    BY DEF IsEpisode
  <1>3. /\ input.target = "target" /\ input.supplied = None
        /\ Decisions = <<[node |-> "target", start |-> 0, stop |-> 1, weight |-> 1]>>
        /\ DOMAIN Branches = 1..b
        /\ \A k \in 1..b :
              /\ Branches[k].tokens = <<targets[k]>> /\ Branches[k].mask = <<TRUE>>
              /\ Branches[k].start = 0 /\ Branches[k].stop = 1
              /\ Branches[k].reward = Reward(context, targets[k], luck)
    BY <1>2 DEF EpisodeCall, Decisions, Branches, BranchReward
  <1> HIDE DEF b
  <1>4. \A k \in 1..b : /\ targets[k] \in Bit /\ Branches[k].tokens[1] = targets[k]
                        /\ Branches[k].mask = <<TRUE>> /\ Span(Branches[k]) = {1}
                        /\ Branches[k].reward = Reward(context, targets[k], luck)
                        /\ Branches[k].reward \in Int
    <2> TAKE k \in 1..b
    <2>1. targets[k] \in Bit
      BY <1>2 DEF b
    <2>2. Reward(context, targets[k], luck) \in Int
      BY <2>1, RewardType
    <2>3. Span(Branches[k]) = {1}
      <3>1. Branches[k].start = 0 /\ Branches[k].stop = 1
        BY <1>3
      <3>2. (0 + 1)..1 = {1}
        OBVIOUS
      <3> QED
        BY <3>1, <3>2 DEF Span
    <2>4. Branches[k].tokens = <<targets[k]>> /\ Branches[k].mask = <<TRUE>>
          /\ Branches[k].reward = Reward(context, targets[k], luck)
      BY <1>3
    <2>5. Branches[k].tokens[1] = targets[k]
      BY <2>4
    <2> QED
      BY <2>1, <2>2, <2>3, <2>4, <2>5
  <1>5. /\ Len(Branches) = b /\ input.target # None
        /\ \A n \in DOMAIN Decisions : Decisions[n].node = input.target
    <2>1. HasOneDecision(EpisodeCall(context, luck, targets), b)
      BY <1>1, <1>2, EpisodeIsACall DEF b
    <2>2. HasOneDecision(input, b)
      BY <1>2, <2>1
    <2> QED
      BY <2>2 DEF HasOneDecision, Branches, Decisions
  <1>6. Leading = 0
    BY <1>5 DEF Credited, DecisionSet, Leading
  <1>7. \A n \in 1..b : records[n] = BranchRecord(n)
    <2>1. records = Compiled(b)
      BY <1>5 DEF CompilerInv
    <2>2. \A n \in 1..b : n \in 1..(0 + b) /\ ~(n <= 0) /\ n - 0 = n
      BY <1>1
    <2> QED
      BY <1>6, <2>1, <2>2 DEF Compiled
  <1>8. DOMAIN records = 1..b
    BY EpisodeRecords DEF IsListOf, b
  <1>9. DOMAIN Returned = 1..b /\ IsListOf(Returned, b)
    BY <1>8 DEF Returned, IsListOf
  <1>10. Target.weight = 1
    <2>1. DecisionSet = {[node |-> "target", start |-> 0, stop |-> 1, weight |-> 1]}
      BY <1>3 DEF DecisionSet
    <2>2. input.target \in Nodes
      BY <1>3 DEF Nodes
    <2>3. Target \in DecisionSet
      BY <2>2, TargetIsADecision
    <2> QED
      BY <2>1, <2>3
  <1>11. Rewards = rewards
    BY <1>3 DEF Rewards
  <1>12. \A k \in 1..b : /\ LeaveOneOut(rewards, k) = b * rewards[k] - SumFunction(rewards)
                         /\ LeaveOneOut(rewards, k) \in Int
    <2>1. rewards = [k \in 1..b |-> rewards[k]]
      OBVIOUS
    <2>2. \A k \in 1..b : rewards[k] \in Int
      BY <1>4
    <2> HIDE DEF rewards, credit
    <2>3. Len(rewards) = b /\ DOMAIN rewards = 1..b
      BY <1>1, <2>1, SequenceFacts
    <2>4. IsSequence(rewards) /\ \A k \in DOMAIN rewards : rewards[k] \in Int
      BY <1>1, <2>2, <2>3 DEF IsSequence
    <2>5. \A k \in DOMAIN rewards : credit[k] = LeaveOneOut(rewards, k)
      BY <2>3 DEF credit
    <2>6. \A k \in DOMAIN rewards : credit[k] = Len(rewards) * rewards[k] - SumFunction(rewards) /\ credit[k] \in Int
      BY <2>4, <2>5, LeaveOneOutBalances
    <2> QED
      BY <2>3, <2>5, <2>6
  <1>13. ASSUME NEW n \in 1..b
         PROVE  /\ IsSample(Returned[n]) /\ Returned[n].target = targets[n]
                /\ Returned[n].reward = rewards[n] /\ rewards[n] = Reward(context, targets[n], luck)
                /\ Returned[n].record.advantages[1] = LeaveOneOut(rewards, n)
    <2>1. Returned[n] = Sampled(BranchRecord(n), targets[n], rewards[n])
      BY <1>4, <1>7, <1>8 DEF Returned
    <2>2. Returned[n].record = BranchRecord(n) /\ Returned[n].target = targets[n] /\ Returned[n].reward = rewards[n]
      BY <2>1 DEF Sampled
    <2>3. DOMAIN Branches[n].mask = {1} /\ DOMAIN Branches[n].mask = 1..1
      <3>1. DOMAIN <<TRUE>> = {1} /\ DOMAIN <<TRUE>> = 1..1
        OBVIOUS
      <3> QED
        BY <1>4, <3>1
    <2> PICK a \in Int : a = LeaveOneOut(rewards, n)
      BY <1>12
    <2>4. Advantage(n) = a
      BY <1>3, <1>11 DEF Advantage
    <2>5. \A f : DOMAIN f = 1..1 /\ f = [i \in 1..1 |-> 1] => f = <<1>>
      OBVIOUS
    <2>6. /\ BranchRecord(n).mask = <<TRUE>> /\ BranchRecord(n).units = 1
          /\ BranchRecord(n).advantages[1] = a
      <3>1. Branches[n].mask = <<TRUE>> /\ 1 \in Span(Branches[n]) /\ 1 \in DOMAIN Branches[n].mask
        BY <1>4, <2>3
      <3>2. /\ BranchRecord(n).mask = Branches[n].mask /\ BranchRecord(n).units = 1
            /\ BranchRecord(n).advantages
                  = [i \in DOMAIN Branches[n].mask |-> IF i \in Span(Branches[n]) THEN Advantage(n) ELSE 0]
        BY DEF BranchRecord, BranchUnits
      <3> QED
        BY <2>4, <3>1, <3>2
    <2>7. BranchRecord(n).weights = [i \in 1..1 |-> 1]
      <3>1. BranchRecord(n).weights = [i \in 1..1 |-> IF i \in {1} THEN 1 ELSE 0]
        BY <1>4, <1>10, <2>3 DEF BranchRecord
      <3> QED
        BY <3>1
    <2>8. BranchRecord(n).weights = <<1>>
      BY <2>7, <2>5
    <2> QED
      BY <1>4, <2>2, <2>6, <2>8 DEF IsSample
  <1>14. [k \in 1..b |-> Returned[k].reward] = rewards
    BY <1>13
  <1>15. ASSUME NEW n \in 1..b
         PROVE  Returned[n].record.advantages[1]
                   = b * Returned[n].reward - SumFunction([k \in 1..b |-> Returned[k].reward])
    <2> HIDE DEF rewards
    <2> QED
      BY <1>12, <1>13, <1>14
  <1>16. \A n \in 1..b : Returned[n].reward = Reward(context, Returned[n].target, luck)
    BY <1>13
  <1> HIDE DEF rewards
  <1>17. \A n \in 1..b : IsSample(Returned[n])
    BY <1>13
  <1> QED
    BY <1>9, <1>15, <1>16, <1>17 DEF b

LEMMA EpisodesAreCredited ==
    ASSUME DiagnosticInv, SamplesAreCredited, CollectEpisode
    PROVE  SamplesAreCredited'
  <1>1. /\ stage = "learn" /\ phase = "returned" /\ UNCHANGED <<probe, config, arm>>
        /\ batch' = batch \o Returned
    BY DEF CollectEpisode, diagnosis, Returned
  <1>2. CompilerInv /\ TrialInv /\ probe \in Probes /\ config \in Configs /\ IsSound(config)
    BY <1>1 DEF DiagnosticInv, TrialInv
  <1> DEFINE b == config.branches
  <1>3. arm = "redco" /\ GroupSize = b /\ b \in Nat \ {0} /\ config.episodes \in Nat
    <2>1. arm # "trajectory_loo"
      BY <1>1, <1>2 DEF TrialInv, StepIsPaid
    <2> QED
      BY <1>2, <2>1, ConfigFacts DEF TrialInv, Arms, GroupSize
  <1>4. PICK e \in 0..config.episodes : IsListOf(batch, e * b) /\ IsEpisode
    BY <1>1, <1>2 DEF TrialInv, StepIsPaid
  <1>5. e \in Nat /\ e * b \in Nat /\ e + 1 \in Nat \ {0} /\ (e + 1) * b = e * b + b
    BY <1>3, <1>4, Products, OneMore
  <1>6. /\ IsListOf(Returned, b)
        /\ \A n \in 1..b :
              /\ IsSample(Returned[n])
              /\ Returned[n].record.advantages[1]
                    = b * Returned[n].reward - SumFunction([k \in 1..b |-> Returned[k].reward])
        /\ \E context \in Bit, luck \in Bit : \A n \in 1..b :
              Returned[n].reward = Reward(context, Returned[n].target, luck)
    BY <1>1, <1>2, <1>4, EpisodeSamples
  <1> HIDE DEF b
  <1> PICK m \in Nat : m = e * b
    BY <1>5
  <1>7. /\ DOMAIN batch' = 1..(m + b) /\ DOMAIN batch = 1..m
        /\ \A n \in 1..m : batch'[n] = batch[n]
        /\ \A n \in 1..b : batch'[m + n] = Returned[n]
    <2>1. IsListOf(batch, m) /\ IsListOf(Returned, b) /\ b \in Nat
      BY <1>3, <1>4, <1>6
    <2>2. IsListOf(batch \o Returned, m + b)
      BY <2>1, Lists
    <2>3. /\ \A n \in 1..m : (batch \o Returned)[n] = batch[n]
          /\ \A n \in 1..b : (batch \o Returned)[m + n] = Returned[n]
      <3>1. Joins(batch \o Returned, batch, m, Returned, b)
        BY <2>1, ListElements
      <3> QED
        BY <3>1 DEF Joins
    <2>4. DOMAIN (batch \o Returned) = 1..(m + b) /\ DOMAIN batch = 1..m
      BY <2>1, <2>2 DEF IsListOf
    <2> QED
      BY <1>1, <2>3, <2>4
  <1>8. ASSUME NEW n \in DOMAIN batch' PROVE IsSample(batch'[n])
    <2>1. CASE n <= m
      <3>1. n \in 1..m
        BY <1>3, <1>7, <2>1
      <3> QED
        BY <1>7, <3>1 DEF SamplesAreCredited
    <2>2. CASE n > m
      <3>1. n - m \in 1..b /\ n = m + (n - m)
        BY <1>3, <1>7, <2>2
      <3>2. batch'[n] = Returned[n - m]
        BY <1>7, <3>1
      <3> QED
        BY <1>6, <3>1, <3>2
    <2> QED
      BY <1>3, <1>7, <2>1, <2>2
  <1>9. \A k : GroupAt(k) = Block(k, b)
    BY <1>3 DEF GroupAt
  <1>10. ASSUME NEW k \in Nat \ {0}, k <= e
         PROVE  IsCreditedGroup(batch', Block(k, b))
    <2> DEFINE g == Block(k, b)
    <2>1. g \subseteq 1..m
      BY <1>3, <1>5, <1>10, Blocks
    <2>2. IsCreditedGroup(batch, g)
      BY <1>7, <1>9, <2>1 DEF SamplesAreCredited
    <2>3. \A n \in g : batch'[n] = batch[n]
      BY <1>7, <2>1
    <2> HIDE DEF g
    <2>4. [n \in g |-> batch'[n].reward] = [n \in g |-> batch[n].reward]
      BY <2>3
    <2>5. IsCreditedGroup(batch', g)
      BY <2>2, <2>3, <2>4 DEF IsCreditedGroup
    <2> QED
      BY <2>5 DEF g
  <1>11. IsCreditedGroup(batch', Block(e + 1, b))
    <2> DEFINE g == Block(e + 1, b)
               paid == [n \in g |-> batch'[n].reward]
               rewards == [k \in 1..b |-> Returned[k].reward]
               shift == [k \in 1..b |-> m + k]
    <2>1. g = (m + 1)..(m + b) /\ Cardinality(g) = b
      <3>1. (e + 1) - 1 = e
        BY <1>5
      <3>2. Block(e + 1, b) = (m + 1)..(m + b)
        BY <1>5, <3>1 DEF Block
      <3> QED
        BY <1>3, <1>5, <3>2, Blocks
    <2>2. ASSUME NEW n \in g
          PROVE  n - m \in 1..b /\ n = m + (n - m) /\ batch'[n] = Returned[n - m]
      <3>1. n - m \in 1..b /\ n = m + (n - m)
        BY <1>3, <2>1
      <3> QED
        BY <1>7, <3>1
    <2>3. IsFiniteSet(1..b)
      BY <1>3, FS_Interval
    <2>4. Renames(shift, 1..b, g)
      <3>1. \A k \in 1..b : shift[k] = m + k /\ shift[k] \in g
        BY <1>3, <2>1
      <3>2. \A n \in g : n - m \in 1..b /\ shift[n - m] = n
        BY <2>2
      <3>3. \A j, k \in 1..b : m + j = m + k => j = k
        OBVIOUS
      <3> HIDE DEF shift, g
      <3> QED
        BY <2>3, <3>1, <3>2, <3>3 DEF Renames
    <2>5. \A k \in 1..b : rewards[k] = paid[shift[k]]
      <3> TAKE k \in 1..b
      <3>1. shift[k] = m + k /\ m + k \in g
        BY <1>3, <2>1
      <3> QED
        BY <1>7, <3>1
    <2>6. IsSummable(paid, g)
      <3>1. IsFiniteSet(g)
        BY <1>3, <1>5, Blocks
      <3>2. \A n \in g : paid[n] \in Int
        BY <1>6, <2>2 DEF IsSample
      <3> QED
        BY <3>1, <3>2 DEF IsSummable
    <2>7. SumFunction(rewards) = SumFunction(paid)
      <3> DEFINE S == 1..b
      <3>1. SumFunction(rewards) = SumFunctionOnSet(rewards, S) /\ SumFunction(paid) = SumFunctionOnSet(paid, g)
        BY DEF SumFunction
      <3>2. Renames(shift, S, g) /\ IsSummable(paid, g) /\ \A k \in S : rewards[k] = paid[shift[k]]
        BY <2>4, <2>5, <2>6
      <3> HIDE DEF rewards, paid, shift, g, S
      <3>3. SumFunctionOnSet(rewards, S) = SumFunctionOnSet(paid, g)
        BY ONLY <3>2, SumReindexed
      <3> QED
        BY <3>1, <3>3
    <2>8. \A n \in g : batch'[n].record.advantages[1] = Cardinality(g) * batch'[n].reward - SumFunction(paid)
      <3> TAKE n \in g
      <3>1. n - m \in 1..b /\ batch'[n] = Returned[n - m]
        BY <2>2
      <3> HIDE DEF g, paid
      <3> QED
        BY <1>6, <2>1, <2>7, <3>1
    <2>9. PICK context \in Bit, luck \in Bit : \A n \in 1..b :
              Returned[n].reward = Reward(context, Returned[n].target, luck)
      BY <1>6
    <2>10. \A n \in g : batch'[n].reward = Reward(context, batch'[n].target, luck)
      BY <2>2, <2>9
    <2> HIDE DEF g
    <2>11. IsCreditedGroup(batch', g)
      BY <2>8, <2>10 DEF IsCreditedGroup
    <2> QED
      BY <2>11 DEF g
  <1>12. ASSUME NEW k \in Nat \ {0}, GroupAt(k) \subseteq DOMAIN batch'
         PROVE  IsCreditedGroup(batch', GroupAt(k))
    <2>1. Block(k, b) \subseteq 1..((e + 1) * b)
      BY <1>5, <1>7, <1>9, <1>12
    <2>2. k <= e + 1
      BY <1>3, <1>5, <2>1, Blocks
    <2>3. k <= e \/ k = e + 1
      BY <1>5, <2>2
    <2> QED
      BY <1>9, <1>10, <1>11, <2>3
  <1> QED
    BY <1>1, <1>8, <1>12, NextSamples

LEMMA LearnMoves ==
    ASSUME DiagnosticInv, SampleInv, Learn
    PROVE  /\ level' \in Int
           /\ arm = "redco" => /\ level' >= level
                               /\ probe.name = "irrelevant_target" => level' = level
  <1>1. /\ IsCollected /\ stage = "learn" /\ level' = level - LossGradient(batch)
    BY DEF Learn, IsCollected
  <1>2. TrialInv /\ probe \in Probes /\ level \in Int /\ SamplesAreCredited
    BY <1>1 DEF DiagnosticInv, TrialInv, SampleInv
  <1>3. /\ IsSummable(Estimate, Groups)
        /\ \A g \in Groups : Estimate[g] = SumFunctionOnSet(Scored, g)
        /\ LossGradient(batch) = -SumFunctionOnSet(Estimate, Groups)
    BY <1>1, <1>2, SlopesAreEstimate
  <1>4. PICK d \in Int : d = SumFunctionOnSet(Estimate, Groups)
    BY <1>3, SumType
  <1>5. level' = level + d
    <2>1. level - (-d) = level + d
      BY <1>2
    <2> QED
      BY <1>1, <1>3, <1>4, <2>1
  <1>6. ASSUME arm = "redco"
        PROVE  d >= 0 /\ (probe.name = "irrelevant_target" => d = 0)
    <2>1. ASSUME NEW g \in Groups
          PROVE  /\ Estimate[g] \in Int /\ Estimate[g] >= 0
                 /\ probe.name = "irrelevant_target" => Estimate[g] = 0
      <3>1. g \subseteq DOMAIN batch /\ IsFiniteSet(g) /\ IsCreditedGroup(batch, g)
        BY <1>1, <1>2, GroupsPartition
      <3> QED
        BY <1>2, <1>3, <1>6, <3>1, BranchesPointUp
    <2>2. IsFiniteSet(Groups)
      BY <1>3 DEF IsSummable
    <2>3. d >= 0
      BY <1>4, <2>1, <2>2, SumNonNegative
    <2>4. ASSUME probe.name = "irrelevant_target" PROVE d = 0
      <3>1. \A g \in Groups : Estimate[g] = 0
        BY <2>1, <2>4
      <3>2. SumFunctionOnSet(Estimate, Groups) = 0 * Cardinality(Groups) /\ Cardinality(Groups) \in Nat
        <4>1. 0 \in Int
          OBVIOUS
        <4> QED
          BY <2>2, <3>1, <4>1, SumConstant
      <3> QED
        BY <1>4, <3>2
    <2> QED
      BY <2>3, <2>4
  <1> QED
    BY <1>2, <1>5, <1>6

LEMMA StepKeepsSampleInv == DiagnosticInv /\ SampleInv /\ [DiagnosticNext]_allVars => SampleInv'
  <1> SUFFICES ASSUME DiagnosticInv, SampleInv, [DiagnosticNext]_allVars, stage' # "caller"
               PROVE  level' \in Int /\ SamplesAreCredited'
    BY DEF SampleInv
  <1>1. ASSUME stage # "caller", UNCHANGED <<level, batch, arm, config, probe>>
        PROVE  level' \in Int /\ SamplesAreCredited'
    BY <1>1, SameSamples DEF SampleInv
  <1>2. CASE EnumerateMoments
    <2>1. stage # "caller" /\ UNCHANGED <<level, batch, arm, config, probe>>
      BY <1>2 DEF EnumerateMoments, Enumerate, trial
    <2> QED
      BY <1>1, <2>1
  <1>3. CASE DrawTrajectories
    <2>1. stage = "learn" /\ level' = level
      BY <1>3 DEF DrawTrajectories
    <2> QED
      BY <1>3, <2>1, TrajectoriesAreCredited DEF SampleInv
  <1>4. CASE DrawEpisode
    <2>1. stage = "learn" /\ UNCHANGED <<level, batch, arm, config, probe>>
      BY <1>4 DEF DrawEpisode, diagnosis
    <2> QED
      BY <1>1, <2>1
  <1>5. CASE Compile
    <2>1. UNCHANGED <<stage, level, batch, arm, config, probe>>
      BY <1>5 DEF Compile, diagnosis, trial
    <2> QED
      BY <1>1, <2>1
  <1>6. CASE CollectEpisode
    <2>1. stage = "learn" /\ level' = level
      BY <1>6 DEF CollectEpisode
    <2> QED
      BY <1>6, <2>1, EpisodesAreCredited DEF SampleInv
  <1>7. CASE Learn
    <2>1. stage = "learn" /\ batch' = <<>> /\ UNCHANGED <<arm, config, probe>>
      BY <1>7 DEF Learn, IsCollected
    <2>2. config \in Configs /\ IsSound(config)
      BY <2>1 DEF DiagnosticInv, TrialInv
    <2> QED
      BY <1>7, <2>1, <2>2, LearnMoves, NoSamples
  <1>8. CASE UNCHANGED allVars
    <2>1. UNCHANGED <<stage, level, batch, arm, config, probe>>
      BY <1>8 DEF allVars, diagnosis, trial
    <2> QED
      BY <1>1, <2>1
  <1> QED
    BY <1>2, <1>3, <1>4, <1>5, <1>6, <1>7, <1>8 DEF DiagnosticNext

LEMMA InitIsSampleInv == CallerInit \/ DiagnosticInit => SampleInv
  <1>1. ASSUME CallerInit PROVE SampleInv
    BY <1>1 DEF CallerInit, SampleInv
  <1>2. ASSUME DiagnosticInit PROVE SampleInv
    <2>1. level = 0 /\ batch = <<>> /\ config \in Configs /\ IsSound(config)
      BY <1>2 DEF DiagnosticInit, NoTrial
    <2>2. GroupSize \in Nat \ {0}
      BY <2>1, ConfigFacts DEF GroupSize
    <2>3. ASSUME NEW e \in Nat \ {0} PROVE ~(GroupAt(e) \subseteq DOMAIN batch)
      BY <2>1, <2>2, NoGroup
    <2> QED
      BY <2>1, <2>3 DEF SampleInv, SamplesAreCredited
  <1> QED
    BY <1>1, <1>2

LEMMA DiagnosticKeepsSamples == DiagnosticSpec => [](DiagnosticInv /\ SampleInv)
  <1>1. CallerInit \/ DiagnosticInit => DiagnosticInv /\ SampleInv
    BY InitIsDiagnosticInv, InitIsSampleInv
  <1>2. DiagnosticInv /\ SampleInv /\ [DiagnosticNext]_allVars => (DiagnosticInv /\ SampleInv)'
    BY StepKeepsDiagnosticInv, StepKeepsSampleInv
  <1> QED
    BY <1>1, <1>2, PTL DEF DiagnosticSpec

-----------------------------------------------------------------------------
(* Theorems. *)

(***************************************************************************)
(* compile_redco_records on its own: a call that SequenceExample and       *)
(* PolicyDecision can build is refused exactly if its decisions do not     *)
(* partition the trainable tokens or its branches do not fit, no record    *)
(* of it fails in its constructor, and assemble_redco_credit gives the     *)
(* same credit.                                                            *)
(***************************************************************************)
THEOREM CompilerIsExact ==
    Spec => [](/\ TypeOK /\ RefusesExactly /\ AssemblyAgrees
               /\ LossIsPerDecision /\ BranchAdvantagesBalance)
  <1>1. Spec => []CompilerInv
    BY InitIsCompilerInv, StepKeepsCompilerInv, PTL DEF Spec
  <1>2. CompilerInv => TypeOK /\ RefusesExactly /\ AssemblyAgrees
    BY AnswersAreExact, AnswersAgree
  <1>3. CompilerInv => LossIsPerDecision /\ BranchAdvantagesBalance
    BY LossesArePerDecision, AdvantagesBalance
  <1> QED
    BY <1>1, <1>2, <1>3, PTL

LEMMA DiagnosticKeepsInv == DiagnosticSpec => []DiagnosticInv
  BY InitIsDiagnosticInv, StepKeepsDiagnosticInv, PTL DEF DiagnosticSpec

(* The same compiler with the diagnostic as one of its callers: its loop   *)
(* variables keep their types from one call to the next.                   *)
THEOREM TypeCorrect == DiagnosticSpec => []TypeOK
  <1>1. DiagnosticInv => TypeOK
    BY AnswersAreExact DEF DiagnosticInv
  <1> QED
    BY <1>1, DiagnosticKeepsInv, PTL

(* _validate_decisions and _validate_branch_action refuse what cannot be   *)
(* compiled and nothing else, whoever calls.                               *)
THEOREM RefusalsAreExact == DiagnosticSpec => []RefusesExactly
  <1>1. DiagnosticInv => RefusesExactly
    BY AnswersAreExact DEF DiagnosticInv
  <1> QED
    BY <1>1, DiagnosticKeepsInv, PTL

(* assemble_redco_credit and compile_redco_records give the same credit.   *)
THEOREM BothAssembliesAgree == DiagnosticSpec => []AssemblyAgrees
  <1>1. DiagnosticInv => AssemblyAgrees
    BY AnswersAgree DEF DiagnosticInv
  <1> QED
    BY <1>1, DiagnosticKeepsInv, PTL

(***************************************************************************)
(* decision_normalized_loss of what compile_redco_records returns is the   *)
(* objective over decisions, whatever the log-probabilities: each action's *)
(* sum counts once, with the trajectory's or with its branches' credit,    *)
(* and the drift penalty likewise; splitting a decision into branches does *)
(* not change the number of decisions that divides it.                     *)
(***************************************************************************)
LossAtAnyLogProbs ==
    phase = "returned" =>
        \A current, behavior :
            IsTable(current) /\ IsTable(behavior) => IsPerDecision(current, behavior)

THEOREM AnyLossIsPerDecision == DiagnosticSpec => []LossAtAnyLogProbs
  <1>1. DiagnosticInv => LossAtAnyLogProbs
    BY LossOfRecords DEF DiagnosticInv, LossAtAnyLogProbs
  <1> QED
    BY <1>1, DiagnosticKeepsInv, PTL

(* The same at the log-probabilities of the runs.                          *)
THEOREM LossesCountDecisions == DiagnosticSpec => []LossIsPerDecision
  <1>1. DiagnosticInv => LossIsPerDecision
    BY LossesArePerDecision DEF DiagnosticInv
  <1> QED
    BY <1>1, DiagnosticKeepsInv, PTL

(* leave_one_out_advantages of a compiled call sum to zero and rank the     *)
(* branches as their rewards do, for any number of branches and rewards.   *)
THEOREM BranchesBalance == DiagnosticSpec => []BranchAdvantagesBalance
  <1>1. DiagnosticInv => BranchAdvantagesBalance
    BY AdvantagesBalance DEF DiagnosticInv
  <1> QED
    BY <1>1, DiagnosticKeepsInv, PTL

(***************************************************************************)
(* A learning trial of either arm has paid MaximumSteps updates when it    *)
(* ends, which is all of its budget but less than one update, and has      *)
(* reported one of its updates if its logit is at the threshold: for every *)
(* group size, number of branches and episodes, and budget that            *)
(* DiagnosticConfig accepts.                                               *)
(***************************************************************************)
THEOREM TrialsShareABudget == DiagnosticSpec => []BudgetIsShared
  <1>1. DiagnosticInv => BudgetIsShared
    BY TrialsPayTheirBudget
  <1> QED
    BY <1>1, DiagnosticKeepsInv, PTL

(***************************************************************************)
(* The step of a learning trial, half a central difference of the loss of  *)
(* its records, is minus the sum over its groups of                        *)
(* _loo_gradient_from_counts at the outcomes drawn, and the normalizer of  *)
(* the loss counts one decision for each trajectory or branch of the step: *)
(* for every probe, group size, number of branches and episodes, and       *)
(* budget that DiagnosticConfig accepts.                                   *)
(***************************************************************************)
THEOREM TrialsFollowTheEstimator == DiagnosticSpec => []TrialsStepAsEnumerated
  <1>1. DiagnosticInv /\ SampleInv => TrialsStepAsEnumerated
    <2> SUFFICES ASSUME DiagnosticInv, SampleInv, IsCollected PROVE TrialsStepAsEnumerated
      BY DEF TrialsStepAsEnumerated
    <2>1. TrialInv /\ level \in Int /\ SamplesAreCredited
      BY DEF IsCollected, DiagnosticInv, SampleInv
    <2> QED
      BY <2>1, StepsAreEnumerated
  <1> QED
    BY <1>1, DiagnosticKeepsSamples, PTL

(***************************************************************************)
(* The branch arm's logit never goes down, as no probe punishes the        *)
(* target in a world that its branches share, and stays where it is if the *)
(* target does not matter.                                                 *)
(***************************************************************************)
THEOREM BranchesNeverMislead == DiagnosticSpec => RedcoIsNeverMisled
  <1> DEFINE Moves == arm = "redco" => /\ level' >= level
                                       /\ probe.name = "irrelevant_target" => level' = level
  <1>1. DiagnosticInv /\ SampleInv /\ [DiagnosticNext]_allVars => [Moves]_level
    <2> SUFFICES ASSUME DiagnosticInv, SampleInv, [DiagnosticNext]_allVars, level' # level
                 PROVE  Moves
      OBVIOUS
    <2>1. Learn
      BY DEF DiagnosticNext, EnumerateMoments, Enumerate, DrawTrajectories, DrawEpisode, Compile,
             CollectEpisode, trial, allVars
    <2> QED
      BY <2>1, LearnMoves
  <1>2. DiagnosticSpec => [][DiagnosticNext]_allVars
    BY PTL DEF DiagnosticSpec
  <1>3. DiagnosticSpec => [][Moves]_level
    BY <1>1, <1>2, DiagnosticKeepsSamples, PTL
  <1> QED
    BY <1>3 DEF RedcoIsNeverMisled
=============================================================================
