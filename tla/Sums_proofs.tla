----------------------------- MODULE Sums_proofs -----------------------------
(***************************************************************************)
(* Sums, maxima and arrays of finite sets: what the proofs about the       *)
(* statistics of the collections and about the readers of the cluster use. *)
(* A sum is determined by the equation of its recursive definition (SumIs) *)
(* and counts units (SumCountsUnits); the rest follows from the facts of   *)
(* the library about cardinalities.                                        *)
(***************************************************************************)
EXTENDS Sums, FiniteSetTheorems, WellFoundedInduction, TLAPS

Pick(s) == CHOOSE x \in s : TRUE

\* The equation that defines the sum of a part of f.
Adds(f, g) == g = [s \in SUBSET DOMAIN f |->
                     IF s = {} THEN 0 ELSE f[Pick(s)] + g[s \ {Pick(s)}]]

\* A set of natural numbers that is not empty has a least element.
LEMMA LeastOf == ASSUME NEW T, T \subseteq Nat, T # {} PROVE \E x \in T : \A y \in T : x <= y
<1>1. IsWellFoundedOn(OpToRel(<,Nat), Nat)
  BY NatLessThanWellFounded
<1>2. \E x \in T : \A y \in T : ~(<<y, x>> \in OpToRel(<,Nat))
  BY <1>1, WFMin
<1>3. OpToRel(<,Nat) = {ss \in Nat \X Nat : ss[1] < ss[2]}
  BY DEF OpToRel
<1>4. PICK x \in T : \A y \in T : ~(<<y, x>> \in OpToRel(<,Nat))
  BY <1>2
<1>5. ASSUME NEW y \in T PROVE x <= y
  <2>1. x \in Nat /\ y \in Nat
    OBVIOUS
  <2>2. ~(<<y, x>> \in {ss \in Nat \X Nat : ss[1] < ss[2]})
    BY <1>3, <1>4, Zenon
  <2>3. <<y, x>> \in Nat \X Nat /\ <<y, x>>[1] = y /\ <<y, x>>[2] = x
    BY <2>1
  <2>4. ~(y < x)
    BY <2>2, <2>3
  <2> QED BY <2>1, <2>4
<1> QED BY <1>5

\* A sum is the fold of the community modules, written as a function on subsets.
LEMMA SumUnfolds == ASSUME NEW f PROVE SumOf(f) = (CHOOSE g : Adds(f, g))[DOMAIN f]
BY DEF SumOf, MapThenSumSet, MapThenFoldSet, Adds, Pick

\* Sums are determined by their equation.
LEMMA SumIs ==
    ASSUME NEW f, IsFiniteSet(DOMAIN f), NEW h, h = [s \in SUBSET DOMAIN f |-> h[s]],
           h[{}] = 0,
           \A s \in SUBSET DOMAIN f : \A x \in s : h[s] = f[x] + h[s \ {x}]
    PROVE  SumOf(f) = h[DOMAIN f]
<1> DEFINE D == DOMAIN f
           g == CHOOSE e : Adds(f, e)
<1>1. Adds(f, h)
  <2>1. \A s \in SUBSET D : s # {} => Pick(s) \in s
    BY DEF Pick
  <2>2. \A s \in SUBSET D : h[s] = IF s = {} THEN 0 ELSE f[Pick(s)] + h[s \ {Pick(s)}]
    BY <2>1
  <2>3. [s \in SUBSET D |-> h[s]] =
          [s \in SUBSET D |-> IF s = {} THEN 0 ELSE f[Pick(s)] + h[s \ {Pick(s)}]]
    BY <2>2
  <2> QED BY <2>3 DEF Adds
<1>2. Adds(f, g)
  BY <1>1
<1> HIDE DEF g
<1>3. \A s \in SUBSET D : g[s] = h[s]
  <2> SUFFICES ASSUME NEW odd \in SUBSET D, g[odd] # h[odd] PROVE FALSE
    OBVIOUS
  <2> DEFINE Sizes == {Cardinality(s) : s \in {e \in SUBSET D : g[e] # h[e]}}
  <2>1. Sizes # {} /\ Sizes \subseteq Nat
    <3>1. odd \in {e \in SUBSET D : g[e] # h[e]} /\ Cardinality(odd) \in Sizes
      OBVIOUS
    <3>2. \A s \in SUBSET D : Cardinality(s) \in Nat
      <4> TAKE s \in SUBSET D
      <4>1. IsFiniteSet(s)
        BY FS_Subset
      <4> QED BY <4>1, FS_CardinalityType
    <3> QED BY <3>1, <3>2
  <2>2. PICK n \in Sizes : \A m \in Sizes : n <= m
    BY <2>1, LeastOf
  <2>3. PICK s \in SUBSET D : g[s] # h[s] /\ n = Cardinality(s)
    BY <2>2
  <2>4. IsFiniteSet(s)
    BY FS_Subset
  <2>5. CASE s = {}
    BY <2>3, <2>5, <1>2 DEF Adds
  <2>6. CASE s # {}
    <3>1. Pick(s) \in s
      BY <2>6 DEF Pick
    <3>2. Cardinality(s \ {Pick(s)}) = n - 1 /\ n \in Nat /\ n - 1 \in Int
      BY <3>1, <2>3, <2>4, FS_RemoveElement, FS_CardinalityType
    <3>3. g[s \ {Pick(s)}] = h[s \ {Pick(s)}]
      <4> SUFFICES ASSUME g[s \ {Pick(s)}] # h[s \ {Pick(s)}] PROVE FALSE
        OBVIOUS
      <4>1. Cardinality(s \ {Pick(s)}) \in Sizes
        OBVIOUS
      <4> HIDE DEF Sizes
      <4> QED BY <4>1, <3>2, <2>2
    <3>4. g[s] = f[Pick(s)] + g[s \ {Pick(s)}]
      BY <2>6, <1>2 DEF Adds
    <3>5. h[s] = f[Pick(s)] + h[s \ {Pick(s)}]
      BY <3>1
    <3> QED BY <3>3, <3>4, <3>5, <2>3
  <2> QED BY <2>5, <2>6
<1>4. SumOf(f) = g[D]
  BY SumUnfolds DEF g
<1> QED BY <1>3, <1>4

-----------------------------------------------------------------------------
\* A sum of natural numbers counts units: f[k] of them for each k.
Units(f, s) == UNION {{k} \X (1..f[k]) : k \in s}

\* The units of one key are as many as its value.
LEMMA UnitsOfOne ==
    ASSUME NEW k, NEW n \in Nat
    PROVE  IsFiniteSet({k} \X (1..n)) /\ Cardinality({k} \X (1..n)) = n
<1>1. IsFiniteSet(1..n) /\ Cardinality(1..n) = n
  BY FS_Interval
<1>2. IsFiniteSet({k}) /\ Cardinality({k}) = 1
  BY FS_Singleton
<1> QED BY <1>1, <1>2, FS_Product

\* Finitely many keys have finitely many units.
LEMMA UnitsFinite ==
    ASSUME NEW f, IsFiniteSet(DOMAIN f), \A k \in DOMAIN f : f[k] \in Nat,
           NEW s \in SUBSET DOMAIN f
    PROVE  IsFiniteSet(Units(f, s))
<1>1. IsFiniteSet(s)
  BY FS_Subset
<1>2. \A T \in {{k} \X (1..f[k]) : k \in s} : IsFiniteSet(T)
  BY UnitsOfOne
<1> DEFINE part == [k \in s |-> {k} \X (1..f[k])]
           parts == {{k} \X (1..f[k]) : k \in s}
<1>3. part \in Surjection(s, parts)
  BY DEF Surjection
<1>4. IsFiniteSet(parts)
  BY <1>1, <1>3, FS_Surjection
<1> QED BY <1>2, <1>4, FS_UNION DEF Units

\* The sum of natural numbers is the number of their units.
LEMMA SumCountsUnits ==
    ASSUME NEW f, IsFiniteSet(DOMAIN f), \A k \in DOMAIN f : f[k] \in Nat
    PROVE  SumOf(f) = Cardinality(Units(f, DOMAIN f)) /\ SumOf(f) \in Nat
<1> DEFINE D == DOMAIN f
           h == [s \in SUBSET D |-> Cardinality(Units(f, s))]
<1>1. h[{}] = 0
  <2>1. Units(f, {}) = {}
    BY DEF Units
  <2> QED BY <2>1, FS_EmptySet
<1>2. \A s \in SUBSET D : \A x \in s : h[s] = f[x] + h[s \ {x}]
  <2> SUFFICES ASSUME NEW s \in SUBSET D, NEW x \in s
               PROVE  Cardinality(Units(f, s)) = f[x] + Cardinality(Units(f, s \ {x}))
    OBVIOUS
  <2> DEFINE A == {x} \X (1..f[x])
             B == Units(f, s \ {x})
  <2>1. IsFiniteSet(A) /\ Cardinality(A) = f[x] /\ f[x] \in Nat
    BY UnitsOfOne
  <2>2. IsFiniteSet(B) /\ Cardinality(B) \in Nat
    BY UnitsFinite, FS_CardinalityType
  <2>3. Units(f, s) = A \cup B /\ A \cap B = {}
    BY DEF Units
  <2>4. Cardinality(A \cup B) = Cardinality(A) + Cardinality(B) - Cardinality(A \cap B)
    BY <2>1, <2>2, FS_Union
  <2>5. Cardinality(A \cap B) = 0 /\ Cardinality(Units(f, s)) = Cardinality(A \cup B)
    BY <2>3, FS_EmptySet
  <2>6. Cardinality(A) + Cardinality(B) - 0 = f[x] + Cardinality(B)
    BY <2>1, <2>2
  <2> QED BY <2>4, <2>5, <2>6
<1>3. SumOf(f) = h[D]
  <2> HIDE DEF h
  <2>1. h = [s \in SUBSET D |-> h[s]]
    BY DEF h
  <2> QED BY <1>1, <1>2, <2>1, SumIs
<1>4. IsFiniteSet(Units(f, D)) /\ h[D] = Cardinality(Units(f, D))
  BY UnitsFinite
<1> QED BY <1>3, <1>4, FS_CardinalityType

\* No unit, no sum.
LEMMA SumIsZero ==
    ASSUME NEW f, IsFiniteSet(DOMAIN f), \A k \in DOMAIN f : f[k] \in Nat
    PROVE  SumOf(f) = 0 <=> \A k \in DOMAIN f : f[k] = 0
<1>1. IsFiniteSet(Units(f, DOMAIN f)) /\ SumOf(f) = Cardinality(Units(f, DOMAIN f))
  BY UnitsFinite, SumCountsUnits
<1>2. SumOf(f) = 0 <=> Units(f, DOMAIN f) = {}
  BY <1>1, FS_EmptySet
<1>3. \A k \in DOMAIN f : f[k] # 0 => <<k, 1>> \in Units(f, DOMAIN f)
  BY DEF Units
<1>4. \A u \in Units(f, DOMAIN f) : \E k \in DOMAIN f : u \in {k} \X (1..f[k])
  BY DEF Units
<1>5. (\A k \in DOMAIN f : f[k] = 0) => Units(f, DOMAIN f) = {}
  BY <1>4
<1> QED BY <1>2, <1>3, <1>5

\* More units, or more keys, make no smaller sum.
LEMMA SumIsMonotone ==
    ASSUME NEW f, IsFiniteSet(DOMAIN f), \A k \in DOMAIN f : f[k] \in Nat,
           NEW g, IsFiniteSet(DOMAIN g), \A k \in DOMAIN g : g[k] \in Nat,
           \A k \in DOMAIN f : f[k] # 0 => k \in DOMAIN g /\ f[k] <= g[k]
    PROVE  SumOf(f) <= SumOf(g)
<1>1. Units(f, DOMAIN f) \subseteq Units(g, DOMAIN g)
  <2> SUFFICES ASSUME NEW k \in DOMAIN f, NEW u \in {k} \X (1..f[k])
               PROVE  u \in Units(g, DOMAIN g)
    BY DEF Units
  <2>1. f[k] # 0 /\ k \in DOMAIN g /\ f[k] <= g[k] /\ g[k] \in Nat
    OBVIOUS
  <2>2. u \in {k} \X (1..g[k])
    BY <2>1
  <2> QED BY <2>1, <2>2 DEF Units
<1>2. IsFiniteSet(Units(g, DOMAIN g))
  BY UnitsFinite
<1> QED BY <1>1, <1>2, SumCountsUnits, FS_Subset

\* One unit more.
LEMMA SumOfOneMore ==
    ASSUME NEW f, IsFiniteSet(DOMAIN f), \A k \in DOMAIN f : f[k] \in Nat,
           NEW x \in DOMAIN f
    PROVE  SumOf([f EXCEPT ![x] = @ + 1]) = SumOf(f) + 1
<1> DEFINE D == DOMAIN f
           g == [f EXCEPT ![x] = @ + 1]
           u == <<x, f[x] + 1>>
<1>1. DOMAIN g = D /\ g[x] = f[x] + 1 /\ (\A k \in D : k # x => g[k] = f[k]) /\ f[x] \in Nat
  OBVIOUS
<1>2. IsFiniteSet(Units(f, D)) /\ Cardinality(Units(f, D)) \in Nat
  BY UnitsFinite, FS_CardinalityType
<1> HIDE DEF g
<1>3. 1..(f[x] + 1) = 1..f[x] \cup {f[x] + 1} /\ f[x] + 1 \notin 1..f[x]
  BY <1>1
<1>4. Units(g, D) = Units(f, D) \cup {u}
  <2>1. {x} \X (1..g[x]) = {x} \X (1..f[x]) \cup {u}
    BY <1>1, <1>3
  <2>2. \A k \in D : k # x => {k} \X (1..g[k]) = {k} \X (1..f[k])
    BY <1>1
  <2> QED BY <2>1, <2>2 DEF Units
<1>5. u \notin Units(f, D)
  BY <1>3 DEF Units
<1>6. Cardinality(Units(g, D)) = Cardinality(Units(f, D)) + 1
  BY <1>2, <1>4, <1>5, FS_AddElement
<1>7. \A k \in DOMAIN g : g[k] \in Nat
  BY <1>1
<1>8. SumOf(g) = Cardinality(Units(g, D)) /\ SumOf(f) = Cardinality(Units(f, D))
  BY <1>1, <1>7, SumCountsUnits
<1> QED BY <1>6, <1>8 DEF g

\* The sizes of the classes of a finite set, by any attribute, add up to its size.
LEMMA ClassesAddUp ==
    ASSUME NEW S, IsFiniteSet(S), NEW K, IsFiniteSet(K), NEW g, \A o \in S : g[o] \in K
    PROVE  SumOf([k \in K |-> Cardinality({o \in S : g[o] = k})]) = Cardinality(S)
<1> DEFINE f == [k \in K |-> Cardinality({o \in S : g[o] = k})]
           h == [s \in SUBSET K |-> Cardinality({o \in S : g[o] \in s})]
<1>1. h[{}] = 0
  <2>1. {o \in S : g[o] \in {}} = {}
    OBVIOUS
  <2> QED BY <2>1, FS_EmptySet
<1>2. \A s \in SUBSET K : \A x \in s : h[s] = f[x] + h[s \ {x}]
  <2> SUFFICES ASSUME NEW s \in SUBSET K, NEW x \in s PROVE h[s] = f[x] + h[s \ {x}]
    OBVIOUS
  <2> DEFINE A == {o \in S : g[o] = x}
             B == {o \in S : g[o] \in s \ {x}}
  <2>1. IsFiniteSet(A) /\ IsFiniteSet(B)
    BY FS_Subset
  <2>2. {o \in S : g[o] \in s} = A \cup B /\ A \cap B = {}
    OBVIOUS
  <2>3. Cardinality(A \cup B) = Cardinality(A) + Cardinality(B) - Cardinality(A \cap B)
        /\ Cardinality(A) \in Nat /\ Cardinality(B) \in Nat
    BY <2>1, FS_Union, FS_CardinalityType
  <2>4. h[s] = Cardinality(A \cup B) /\ f[x] = Cardinality(A) /\ h[s \ {x}] = Cardinality(B)
    BY <2>2
  <2>5. Cardinality(A \cap B) = 0
    BY <2>2, FS_EmptySet
  <2> HIDE DEF A, B, h, f
  <2> QED BY <2>3, <2>4, <2>5
<1>3. DOMAIN f = K /\ h = [s \in SUBSET DOMAIN f |-> h[s]]
  OBVIOUS
<1>4. h[K] = Cardinality(S)
  <2>1. {o \in S : g[o] \in K} = S
    OBVIOUS
  <2> QED BY <2>1
<1> HIDE DEF f, h
<1>5. SumOf(f) = h[K]
  BY <1>1, <1>2, <1>3, SumIs
<1> QED BY <1>4, <1>5 DEF f

-----------------------------------------------------------------------------
\* A finite set of integers that is not empty has a greatest element.
LEMMA MaxOfFinite ==
    ASSUME NEW S, S \subseteq Int, IsFiniteSet(S), S # {}
    PROVE  Max(S) \in S /\ \A y \in S : y <= Max(S)
<1> DEFINE Above(x) == {y \in S : y > x}
           ranks == {Cardinality(Above(x)) : x \in S}
<1>1. \A x \in S : IsFiniteSet(Above(x)) /\ Cardinality(Above(x)) \in Nat
  <2> TAKE x \in S
  <2>1. IsFiniteSet(Above(x))
    BY FS_Subset
  <2> QED BY <2>1, FS_CardinalityType
<1>2. PICK n \in ranks : \A m \in ranks : n <= m
  <2>1. ranks # {} /\ ranks \subseteq Nat
    BY <1>1
  <2> HIDE DEF ranks
  <2> QED BY <2>1, LeastOf
<1>3. PICK x \in S : n = Cardinality(Above(x))
  OBVIOUS
<1>4. \A y \in S : y <= x
  <2> SUFFICES ASSUME NEW y \in S, y > x PROVE FALSE
    OBVIOUS
  <2>1. Above(y) \subseteq Above(x) /\ y \in Above(x) /\ y \notin Above(y)
    <3>1. \A z \in S : z > y => z > x
      OBVIOUS
    <3>2. ~(y > y)
      OBVIOUS
    <3> QED BY <3>1, <3>2
  <2>2. Cardinality(Above(y)) <= Cardinality(Above(x)) /\ Cardinality(Above(y)) # Cardinality(Above(x))
    BY <2>1, <1>1, FS_Subset
  <2>3. n <= Cardinality(Above(y)) /\ n = Cardinality(Above(x)) /\ n \in Nat
        /\ Cardinality(Above(y)) \in Nat
    BY <1>1, <1>2, <1>3
  <2> HIDE DEF Above
  <2> QED BY <2>2, <2>3
<1>5. \E z \in S : \A y \in S : z >= y
  BY <1>4
<1> QED BY <1>5 DEF Max
=============================================================================
