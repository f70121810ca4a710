------------------------------- MODULE SumTheorems -------------------------------
(* What a sum over a finite set is worth, whatever order its elements are   *)
(* taken in.  Induction is written as the search for a least counterexample.*)
EXTENDS Functions, FiniteSetTheorems, TLAPS

(* A set of numbers has a least one. *)
LEMMA LeastNumber ==
  ASSUME NEW ns \in SUBSET Nat, ns # {}
  PROVE  \E n \in ns : \A m \in ns : n <= m
<1> DEFINE Less == OpToRel(<, Nat)
<1>1. \A a, b \in Nat : a < b => <<a, b>> \in Less
  BY DEF OpToRel
<1>2. IsWellFoundedOn(Less, Nat)
  BY NatLessThanWellFounded
<1> HIDE DEF Less
<1>3. PICK n \in ns : \A m \in ns : ~(<<m, n>> \in Less)
  BY <1>2, WFMin, Zenon
<1>4. ASSUME NEW m \in ns PROVE n <= m
  <2>1. ~(m < n)
    BY <1>1, <1>3
  <2> QED
    BY <2>1
<1> QED
  BY <1>4

(* A collection of subsets of a finite set has a smallest one. *)
LEMMA SmallestSet ==
  ASSUME NEW S, IsFiniteSet(S), NEW sets \in SUBSET SUBSET S, sets # {}
  PROVE  \E T \in sets : \A U \in sets : U \subseteq T => U = T
<1> DEFINE sizes == {Cardinality(T) : T \in sets}
<1>1. \A T \in sets : IsFiniteSet(T) /\ Cardinality(T) \in Nat
  BY FS_Subset, FS_CardinalityType
<1>2. PICK n \in sizes : \A m \in sizes : n <= m
  <2>1. sizes \in SUBSET Nat /\ sizes # {}
    BY <1>1
  <2> HIDE DEF sizes
  <2> QED
    BY <2>1, LeastNumber
<1>3. PICK T \in sets : Cardinality(T) = n
  BY <1>2
<1>4. ASSUME NEW U \in sets, U \subseteq T PROVE U = T
  <2>1. Cardinality(T) <= Cardinality(U)
    BY <1>2, <1>3
  <2>2. Cardinality(U) <= Cardinality(T) /\ (Cardinality(T) = Cardinality(U) => T = U)
    BY <1>1, <1>4, FS_Subset
  <2> QED
    BY <1>1, <2>1, <2>2
<1> QED
  BY <1>3, <1>4

-----------------------------------------------------------------------------
(* The fold behind a sum is well-defined. *)

Chosen(s) == CHOOSE x \in s : TRUE

(* The sum of one subset, when g gives the sums of the smaller ones. *)
SumBy(f, g, s) == IF s = {} THEN 0 ELSE f[Chosen(s)] + g[s \ {Chosen(s)}]

(* What is chosen is an element. *)
LEMMA ChosenIn == ASSUME NEW s, s # {} PROVE Chosen(s) \in s
BY DEF Chosen

(* A table of the sums of every subset of S. *)
IsSumTable(g, f, S) == g = [s \in SUBSET S |-> SumBy(f, g, s)]

(* Such a table exists for every finite set: else there were a least size   *)
(* of subsets without one.                                                  *)
LEMMA SumsExist ==
  ASSUME NEW S, IsFiniteSet(S), NEW f
  PROVE  \E g : IsSumTable(g, f, S)
<1> DEFINE Upto(n) == {s \in SUBSET S : Cardinality(s) <= n}
           Good(n) == \E g : g = [s \in Upto(n) |-> SumBy(f, g, s)]
           bad     == {n \in Nat : ~Good(n)}
<1>0. \A s \in SUBSET S : IsFiniteSet(s) /\ Cardinality(s) \in Nat
  BY FS_Subset, FS_CardinalityType
<1>1. bad = {}
  <2> SUFFICES ASSUME bad # {} PROVE FALSE
    OBVIOUS
  <2>1. PICK n \in bad : \A m \in bad : n <= m
    <3>1. bad \in SUBSET Nat
      OBVIOUS
    <3> HIDE DEF bad
    <3> QED
      BY <3>1, LeastNumber
  <2>2. n # 0
    <3>1. \A s \in Upto(0) : s = {}
      BY <1>0, FS_EmptySet
    <3> DEFINE g == [s \in Upto(0) |-> 0]
    <3>2. g = [s \in Upto(0) |-> SumBy(f, g, s)]
      BY <3>1 DEF SumBy
    <3>3. Good(0)
      BY <3>2
    <3> QED
      BY <3>3
  <2>3. n - 1 \in Nat /\ Good(n - 1)
    <3>1. n \in Nat /\ n - 1 \in Nat /\ ~(n <= n - 1)
      BY <2>1, <2>2
    <3> HIDE DEF Good
    <3> QED
      BY <2>1, <3>1
  <2>4. PICK g : g = [s \in Upto(n - 1) |-> SumBy(f, g, s)]
    BY <2>3
  <2> DEFINE h == [s \in Upto(n) |-> SumBy(f, g, s)]
  <2>5. ASSUME NEW s \in Upto(n) PROVE SumBy(f, g, s) = SumBy(f, h, s)
    <3>1. CASE s = {}
      BY <3>1 DEF SumBy
    <3>2. CASE s # {}
      <4> DEFINE less == s \ {Chosen(s)}
      <4>1. Chosen(s) \in s
        BY <3>2, ChosenIn
      <4>2. less \in SUBSET S /\ Cardinality(less) = Cardinality(s) - 1
        BY <1>0, <4>1, FS_RemoveElement
      <4>3. less \in Upto(n) /\ less \in Upto(n - 1)
        BY <1>0, <2>3, <4>2
      <4>4. h[less] = g[less]
        <5> HIDE DEF less
        <5>1. h[less] = SumBy(f, g, less)
          BY <4>3
        <5>2. g[less] = SumBy(f, g, less)
          BY <4>3, <2>4
        <5> QED
          BY <5>1, <5>2
      <4> QED
        BY <3>2, <4>4 DEF SumBy
    <3> QED
      BY <3>1, <3>2
  <2>6. h = [s \in Upto(n) |-> SumBy(f, h, s)]
    BY <2>5
  <2>7. Good(n)
    <3> HIDE DEF h
    <3> QED
      BY <2>6
  <2> QED
    BY <2>1, <2>7
<1> DEFINE N == Cardinality(S)
<1>2. N \in Nat /\ Upto(N) = SUBSET S
  BY <1>0, FS_Subset
<1>3. PICK g : g = [s \in Upto(N) |-> SumBy(f, g, s)]
  BY <1>1, <1>2
<1> HIDE DEF Upto
<1> QED
  BY <1>2, <1>3 DEF IsSumTable

(* The table of the sums of every subset of S. *)
Sums(f, S) == CHOOSE g : IsSumTable(g, f, S)

(* So the table of sums is made of its own smaller sums. *)
LEMMA SumsDef ==
  ASSUME NEW S, IsFiniteSet(S), NEW f
  PROVE  \A s \in SUBSET S : Sums(f, S)[s] = SumBy(f, Sums(f, S), s)
<1>1. \E g : IsSumTable(g, f, S)
  BY SumsExist
<1>2. IsSumTable(Sums(f, S), f, S)
  BY <1>1, Zenon DEF Sums
<1> QED
  BY <1>2 DEF IsSumTable

(* The sum the community module defines is read off that table. *)
LEMMA SumFromTable ==
  ASSUME NEW S, NEW f PROVE SumFunctionOnSet(f, S) = Sums(f, S)[S]
BY DEF SumFunctionOnSet, FoldFunctionOnSet, MapThenFoldSet, Sums, IsSumTable, SumBy, Chosen

(* The tables of a set and of a subset of it agree on what both have. *)
LEMMA SumsAgree ==
  ASSUME NEW S, IsFiniteSet(S), NEW f, NEW T \in SUBSET S
  PROVE  Sums(f, T)[T] = Sums(f, S)[T]
<1> DEFINE differ == {s \in SUBSET T : Sums(f, T)[s] # Sums(f, S)[s]}
<1>1. IsFiniteSet(T)
  BY FS_Subset
<1>2. differ = {}
  <2> SUFFICES ASSUME differ # {} PROVE FALSE
    OBVIOUS
  <2>1. PICK s \in differ : \A u \in differ : u \subseteq s => u = s
    <3>1. differ \in SUBSET SUBSET T
      OBVIOUS
    <3> HIDE DEF differ
    <3> QED
      BY <1>1, <3>1, SmallestSet
  <2>2. /\ Sums(f, T)[s] = SumBy(f, Sums(f, T), s)
        /\ Sums(f, S)[s] = SumBy(f, Sums(f, S), s)
    <3>1. s \in SUBSET T /\ s \in SUBSET S
      OBVIOUS
    <3>2. /\ \A u \in SUBSET T : Sums(f, T)[u] = SumBy(f, Sums(f, T), u)
          /\ \A u \in SUBSET S : Sums(f, S)[u] = SumBy(f, Sums(f, S), u)
      BY <1>1, SumsDef
    <3> QED
      BY <3>1, <3>2
  <2>3. CASE s = {}
    BY <2>2, <2>3 DEF SumBy
  <2>4. CASE s # {}
    <3>1. Chosen(s) \in s
      BY <2>4, ChosenIn
    <3>2. Sums(f, T)[s \ {Chosen(s)}] = Sums(f, S)[s \ {Chosen(s)}]
      BY <2>1, <3>1
    <3> QED
      BY <2>2, <2>4, <3>2 DEF SumBy
  <2> QED
    BY <2>3, <2>4
<1> QED
  BY <1>2

-----------------------------------------------------------------------------
(* Sums. *)

(* Nothing sums to nothing. *)
LEMMA SumEmpty == ASSUME NEW f PROVE SumFunctionOnSet(f, {}) = 0
<1>1. Sums(f, {})[{}] = SumBy(f, Sums(f, {}), {})
  <2>1. IsFiniteSet({})
    BY FS_EmptySet
  <2>2. \A s \in SUBSET {} : Sums(f, {})[s] = SumBy(f, Sums(f, {}), s)
    BY <2>1, SumsDef
  <2> QED
    BY <2>2
<1> QED
  BY <1>1, SumFromTable DEF SumBy

(* The chosen element is taken out first. *)
LEMMA SumChosen ==
  ASSUME NEW S, IsFiniteSet(S), S # {}, NEW f
  PROVE  SumFunctionOnSet(f, S)
           = f[Chosen(S)] + SumFunctionOnSet(f, S \ {Chosen(S)})
<1>1. Sums(f, S)[S] = f[Chosen(S)] + Sums(f, S)[S \ {Chosen(S)}]
  <2>1. Sums(f, S)[S] = SumBy(f, Sums(f, S), S)
    BY SumsDef
  <2> QED
    BY <2>1 DEF SumBy
<1>2. Sums(f, S)[S \ {Chosen(S)}] = Sums(f, S \ {Chosen(S)})[S \ {Chosen(S)}]
  BY SumsAgree
<1> QED
  BY <1>1, <1>2, SumFromTable

(* A sum of integers is one. *)
LEMMA SumInt ==
  ASSUME NEW S, IsFiniteSet(S), NEW f, \A x \in S : f[x] \in Int
  PROVE  SumFunctionOnSet(f, S) \in Int
<1> DEFINE bad == {T \in SUBSET S : SumFunctionOnSet(f, T) \notin Int}
<1> SUFFICES ASSUME bad # {} PROVE FALSE
  OBVIOUS
<1>1. PICK T \in bad : \A U \in bad : U \subseteq T => U = T
  <2>1. bad \in SUBSET SUBSET S
    OBVIOUS
  <2> HIDE DEF bad
  <2> QED
    BY <2>1, SmallestSet
<1>2. CASE T = {}
  BY <1>1, <1>2, SumEmpty
<1>3. CASE T # {}
  <2>1. Chosen(T) \in T /\ IsFiniteSet(T)
    BY <1>3, ChosenIn, FS_Subset
  <2>2. SumFunctionOnSet(f, T \ {Chosen(T)}) \in Int
    BY <1>1, <2>1
  <2>3. SumFunctionOnSet(f, T)
          = f[Chosen(T)] + SumFunctionOnSet(f, T \ {Chosen(T)})
    BY <1>3, <2>1, SumChosen
  <2>4. f[Chosen(T)] \in Int
    BY <2>1
  <2> QED
    BY <1>1, <2>2, <2>3, <2>4
<1> QED
  BY <1>2, <1>3

(* A sum of amounts that are not negative is one as well. *)
LEMMA SumNat ==
  ASSUME NEW S, IsFiniteSet(S), NEW f, \A x \in S : f[x] \in Nat
  PROVE  SumFunctionOnSet(f, S) \in Nat
<1> DEFINE bad == {T \in SUBSET S : SumFunctionOnSet(f, T) \notin Nat}
<1> SUFFICES ASSUME bad # {} PROVE FALSE
  OBVIOUS
<1>1. PICK T \in bad : \A U \in bad : U \subseteq T => U = T
  <2>1. bad \in SUBSET SUBSET S
    OBVIOUS
  <2> HIDE DEF bad
  <2> QED
    BY <2>1, SmallestSet
<1>2. CASE T = {}
  BY <1>1, <1>2, SumEmpty
<1>3. CASE T # {}
  <2>1. Chosen(T) \in T /\ IsFiniteSet(T)
    BY <1>3, ChosenIn, FS_Subset
  <2>2. SumFunctionOnSet(f, T \ {Chosen(T)}) \in Nat
    BY <1>1, <2>1
  <2>3. SumFunctionOnSet(f, T)
          = f[Chosen(T)] + SumFunctionOnSet(f, T \ {Chosen(T)})
    BY <1>3, <2>1, SumChosen
  <2>4. f[Chosen(T)] \in Nat
    BY <2>1
  <2> QED
    BY <1>1, <2>2, <2>3, <2>4
<1> QED
  BY <1>2, <1>3

(* Any element may be taken out first, not only the chosen one. *)
LEMMA SumWithout ==
  ASSUME NEW S, IsFiniteSet(S), NEW f, \A x \in S : f[x] \in Int, NEW e \in S
  PROVE  SumFunctionOnSet(f, S) = f[e] + SumFunctionOnSet(f, S \ {e})
<1> DEFINE Splits(T, x) ==
             SumFunctionOnSet(f, T) = f[x] + SumFunctionOnSet(f, T \ {x})
           bad == {T \in SUBSET S : \E x \in T : ~Splits(T, x)}
<1> SUFFICES ASSUME bad # {} PROVE FALSE
  OBVIOUS
<1>1. PICK T \in bad : \A U \in bad : U \subseteq T => U = T
  <2>1. bad \in SUBSET SUBSET S
    OBVIOUS
  <2> HIDE DEF bad
  <2> QED
    BY <2>1, SmallestSet
<1>2. PICK x \in T : ~Splits(T, x)
  BY <1>1
<1> DEFINE c == Chosen(T)
<1>3. c \in T /\ T \in SUBSET S /\ IsFiniteSet(T)
  BY <1>1, <1>2, ChosenIn, FS_Subset
<1>4. Splits(T, c)
  BY <1>3, SumChosen
<1>5. c # x
  BY <1>2, <1>4
<1> HIDE DEF c
<1>6. Splits(T \ {c}, x) /\ Splits(T \ {x}, c)
  <2>1. T \ {c} \notin bad /\ T \ {x} \notin bad
    BY <1>1, <1>2, <1>3
  <2> QED
    BY <1>2, <1>3, <1>5, <2>1
<1>7. (T \ {c}) \ {x} = (T \ {x}) \ {c}
  OBVIOUS
<1> DEFINE rest == SumFunctionOnSet(f, (T \ {x}) \ {c})
<1>8. rest \in Int /\ f[c] \in Int /\ f[x] \in Int
  <2>1. IsFiniteSet((T \ {x}) \ {c})
    BY <1>3, FS_Subset
  <2> QED
    BY <1>2, <1>3, <2>1, SumInt
<1>9. /\ SumFunctionOnSet(f, T) = f[c] + (f[x] + rest)
      /\ SumFunctionOnSet(f, T \ {x}) = f[c] + rest
  BY <1>4, <1>6, <1>7
<1> HIDE DEF rest
<1>10. SumFunctionOnSet(f, T) = f[x] + SumFunctionOnSet(f, T \ {x})
  BY <1>8, <1>9
<1> QED
  BY <1>2, <1>10

(* Only the summed elements count. *)
LEMMA SumSame ==
  ASSUME NEW S, IsFiniteSet(S), NEW f, NEW g, \A x \in S : f[x] = g[x]
  PROVE  SumFunctionOnSet(f, S) = SumFunctionOnSet(g, S)
<1> DEFINE bad == {T \in SUBSET S : SumFunctionOnSet(f, T) # SumFunctionOnSet(g, T)}
<1> SUFFICES ASSUME bad # {} PROVE FALSE
  OBVIOUS
<1>1. PICK T \in bad : \A U \in bad : U \subseteq T => U = T
  <2>1. bad \in SUBSET SUBSET S
    OBVIOUS
  <2> HIDE DEF bad
  <2> QED
    BY <2>1, SmallestSet
<1>2. CASE T = {}
  BY <1>1, <1>2, SumEmpty
<1>3. CASE T # {}
  <2>1. Chosen(T) \in T /\ IsFiniteSet(T)
    BY <1>3, ChosenIn, FS_Subset
  <2>2. SumFunctionOnSet(f, T \ {Chosen(T)}) = SumFunctionOnSet(g, T \ {Chosen(T)})
    BY <1>1, <2>1
  <2>3. /\ SumFunctionOnSet(f, T)
             = f[Chosen(T)] + SumFunctionOnSet(f, T \ {Chosen(T)})
        /\ SumFunctionOnSet(g, T)
             = g[Chosen(T)] + SumFunctionOnSet(g, T \ {Chosen(T)})
    BY <1>3, <2>1, SumChosen
  <2>4. f[Chosen(T)] = g[Chosen(T)]
    BY <2>1
  <2> QED
    BY <1>1, <2>2, <2>3, <2>4
<1> QED
  BY <1>2, <1>3

(* Changing one summand changes the sum by as much. *)
LEMMA SumChanged ==
  ASSUME NEW S, IsFiniteSet(S), NEW f, NEW g, NEW e \in S,
         \A x \in S : f[x] \in Int /\ g[x] \in Int,
         \A x \in S : x # e => g[x] = f[x]
  PROVE  SumFunctionOnSet(g, S) = (SumFunctionOnSet(f, S) - f[e]) + g[e]
<1>2. IsFiniteSet(S \ {e})
  BY FS_RemoveElement
<1>3. SumFunctionOnSet(g, S \ {e}) = SumFunctionOnSet(f, S \ {e})
  BY <1>2, SumSame
<1>4. SumFunctionOnSet(f, S \ {e}) \in Int
  BY <1>2, SumInt
<1>5. SumFunctionOnSet(f, S) = f[e] + SumFunctionOnSet(f, S \ {e})
  BY SumWithout
<1>6. SumFunctionOnSet(g, S) = g[e] + SumFunctionOnSet(g, S \ {e})
  BY SumWithout
<1>7. f[e] \in Int /\ g[e] \in Int
  OBVIOUS
<1> QED
  BY <1>3, <1>4, <1>5, <1>6, <1>7

(* A sum of zeros. *)
LEMMA SumZero ==
  ASSUME NEW S, IsFiniteSet(S), NEW f, \A x \in S : f[x] = 0
  PROVE  SumFunctionOnSet(f, S) = 0
<1> DEFINE bad == {T \in SUBSET S : SumFunctionOnSet(f, T) # 0}
<1> SUFFICES ASSUME bad # {} PROVE FALSE
  OBVIOUS
<1>1. PICK T \in bad : \A U \in bad : U \subseteq T => U = T
  <2>1. bad \in SUBSET SUBSET S
    OBVIOUS
  <2> HIDE DEF bad
  <2> QED
    BY <2>1, SmallestSet
<1>2. CASE T = {}
  BY <1>1, <1>2, SumEmpty
<1>3. CASE T # {}
  <2>1. Chosen(T) \in T /\ IsFiniteSet(T)
    BY <1>3, ChosenIn, FS_Subset
  <2>2. SumFunctionOnSet(f, T \ {Chosen(T)}) = 0
    BY <1>1, <2>1
  <2>3. SumFunctionOnSet(f, T)
          = f[Chosen(T)] + SumFunctionOnSet(f, T \ {Chosen(T)})
    BY <1>3, <2>1, SumChosen
  <2>4. f[Chosen(T)] = 0
    BY <2>1
  <2> QED
    BY <1>1, <2>2, <2>3, <2>4
<1> QED
  BY <1>2, <1>3
=============================================================================
