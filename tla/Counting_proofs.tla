--------------------------- MODULE Counting_proofs ---------------------------
(***************************************************************************)
(* Facts about sums over finite sets, as the folds of the community        *)
(* modules compute them: an element is chosen, its value added to the sum  *)
(* of the others.  Modules about a component show that the sums of its     *)
(* model are sums as here, and cite these lemmas.  Where a proof goes by   *)
(* induction over a finite set it takes the sets for which the claim fails *)
(* and a least one among them.  And facts about ranks: how many come       *)
(* before an element in a total order, which is how the models sort.       *)
(***************************************************************************)
EXTENDS Integers, FiniteSets, FiniteSetTheorems, WellFoundedInduction, TLAPS

\* g has the sum of f over each subset of S.
IsSum(g, f, S) ==
    g = [s \in SUBSET S |->
            IF s = {} THEN 0
            ELSE LET x == CHOOSE y \in s : TRUE IN f[x] + g[s \ {x}]]

Sums(f, S) == CHOOSE g : IsSum(g, f, S)

\* The sum of f over S.
SumOf(f, S) == Sums(f, S)[S]

------------------------------------------------------------------------------

\* Induction over the subsets of a finite set.
LEMMA LeastSet ==
  ASSUME NEW S, IsFiniteSet(S), NEW T, T \subseteq SUBSET S, T # {}
  PROVE  \E m \in T : \A x \in m : m \ {x} \notin T
<1>1. T \subseteq FiniteSubsetsOf(S)
  BY FS_FiniteSubsetsOfFinite
<1>2. IsWellFoundedOn(StrictSubsetOrdering(S), FiniteSubsetsOf(S))
  BY FS_StrictSubsetOrderingWellFounded
<1>3. PICK m \in T : \A y \in T : ~(<<y, m>> \in StrictSubsetOrdering(S))
  BY <1>1, <1>2, WFMin
<1>4. \A x \in m : m \ {x} \in SUBSET S => <<m \ {x}, m>> \in StrictSubsetOrdering(S)
  BY DEF StrictSubsetOrdering
<1> QED BY <1>3, <1>4

\* Two sums agree where both are.
LEMMA SumAgree ==
  ASSUME NEW f, NEW A, IsFiniteSet(A), NEW B,
         NEW g, IsSum(g, f, A), NEW h, IsSum(h, f, B)
  PROVE  \A s \in SUBSET (A \cap B) : g[s] = h[s]
<1> DEFINE T == {s \in SUBSET (A \cap B) : g[s] # h[s]}
<1> SUFFICES ASSUME T # {} PROVE FALSE
  OBVIOUS
<1>1. PICK m \in T : \A x \in m : m \ {x} \notin T
  <2> HIDE DEF T
  <2>1. T \subseteq SUBSET A
    BY DEF T
  <2> QED BY <2>1, LeastSet
<1> DEFINE c == CHOOSE y \in m : TRUE
<1>2. CASE m = {}
  <2>1. g[{}] = 0 /\ h[{}] = 0
    BY DEF IsSum
  <2> QED BY <1>2, <2>1
<1>3. CASE m # {}
  <2>1. c \in m
    BY <1>3
  <2>2. g[m \ {c}] = h[m \ {c}]
    BY <1>1, <2>1
  <2>3. g[m] = f[c] + g[m \ {c}]
    BY <1>3 DEF IsSum
  <2>4. h[m] = f[c] + h[m \ {c}]
    BY <1>3 DEF IsSum
  <2> QED BY <2>2, <2>3, <2>4
<1> QED BY <1>2, <1>3

\* There is a sum: sums over m without one element each make one over m.
LEMMA SumExists ==
  ASSUME NEW f, NEW S, IsFiniteSet(S)
  PROVE  \E g : IsSum(g, f, S)
<1> DEFINE T == {s \in SUBSET S : ~ \E g : IsSum(g, f, s)}
<1> SUFFICES ASSUME T # {} PROVE FALSE
  OBVIOUS
<1>1. PICK m \in T : \A x \in m : m \ {x} \notin T
  <2> HIDE DEF T
  <2>1. T \subseteq SUBSET S
    BY DEF T
  <2> QED BY <2>1, LeastSet
<1> DEFINE H    == [x \in m |-> Sums(f, m \ {x})]
           c(s) == CHOOSE y \in s : TRUE
           g    == [s \in SUBSET m |->
                       IF s = {} THEN 0 ELSE f[c(s)] + H[c(s)][s \ {c(s)}]]
<1>2. \A x \in m : IsSum(H[x], f, m \ {x})
  <2> SUFFICES ASSUME NEW x \in m PROVE IsSum(H[x], f, m \ {x})
    OBVIOUS
  <2>1. \E h : IsSum(h, f, m \ {x})
    BY <1>1
  <2>2. H[x] = CHOOSE h : IsSum(h, f, m \ {x})
    BY DEF Sums
  <2> QED BY <2>1, <2>2
<1>3. \A x \in m : IsFiniteSet(m \ {x})
  BY FS_Subset
<1>4. \A s \in SUBSET m : s # {} => c(s) \in s
  OBVIOUS
<1> HIDE DEF H, c
<1>5. ASSUME NEW x \in m, NEW r \in SUBSET (m \ {x})
      PROVE  g[r] = H[x][r]
  <2>1. CASE r = {}
    BY <1>2, <2>1 DEF IsSum
  <2>2. CASE r # {}
    <3>1. c(r) \in r /\ r \ {c(r)} \in SUBSET ((m \ {x}) \cap (m \ {c(r)}))
      BY <1>4, <2>2
    <3>2. H[x][r] = f[c(r)] + H[x][r \ {c(r)}]
      BY <1>2, <2>2 DEF IsSum, c
    <3>3. H[x][r \ {c(r)}] = H[c(r)][r \ {c(r)}]
      <4>1. IsSum(H[x], f, m \ {x}) /\ IsSum(H[c(r)], f, m \ {c(r)})
        BY <1>2, <3>1
      <4>2. IsFiniteSet(m \ {x})
        BY <1>3
      <4> HIDE DEF g, T
      <4>3. \A s \in SUBSET ((m \ {x}) \cap (m \ {c(r)})) : H[x][s] = H[c(r)][s]
        BY ONLY <4>1, <4>2, SumAgree
      <4> QED BY <3>1, <4>3
    <3> QED BY <2>2, <3>2, <3>3
  <2> QED BY <2>1, <2>2
<1>6. \A s \in SUBSET m : g[s] = IF s = {} THEN 0 ELSE f[c(s)] + g[s \ {c(s)}]
  <2> SUFFICES ASSUME NEW s \in SUBSET m, s # {}
               PROVE  g[s] = f[c(s)] + g[s \ {c(s)}]
    OBVIOUS
  <2>1. c(s) \in m /\ s \ {c(s)} \in SUBSET (m \ {c(s)})
    BY <1>4
  <2>2. g[s \ {c(s)}] = H[c(s)][s \ {c(s)}]
    BY <1>5, <2>1
  <2> QED BY <2>2
<1>7. IsSum(g, f, m)
  <2> HIDE DEF g
  <2>1. g = [s \in SUBSET m |-> g[s]]
    BY DEF g
  <2> QED BY <1>6, <2>1 DEF IsSum, c
<1> QED BY <1>7

LEMMA SumsIsSum ==
  ASSUME NEW f, NEW S, IsFiniteSet(S)
  PROVE  IsSum(Sums(f, S), f, S)
BY SumExists DEF Sums

\* Whatever is a sum has the sum.
LEMMA SumUnique ==
  ASSUME NEW f, NEW S, IsFiniteSet(S), NEW g, IsSum(g, f, S), NEW s \in SUBSET S
  PROVE  g[s] = SumOf(f, s)
<1>1. IsFiniteSet(s) /\ s \in SUBSET (s \cap S)
  BY FS_Subset
<1> QED BY <1>1, SumsIsSum, SumAgree DEF SumOf

LEMMA SumIs ==
  ASSUME NEW f, NEW S, IsFiniteSet(S), NEW g, IsSum(g, f, S)
  PROVE  g[S] = SumOf(f, S)
<1>1. S \in SUBSET S
  OBVIOUS
<1> QED BY <1>1, SumUnique

LEMMA SumEmpty == ASSUME NEW f PROVE SumOf(f, {}) = 0
<1>1. IsSum(Sums(f, {}), f, {})
  BY SumsIsSum, FS_EmptySet
<1> QED BY <1>1 DEF IsSum, SumOf

\* The sum over a set, element by element.
LEMMA SumChosen ==
  ASSUME NEW f, NEW S, IsFiniteSet(S), S # {}
  PROVE  LET x == CHOOSE y \in S : TRUE
         IN x \in S /\ SumOf(f, S) = f[x] + SumOf(f, S \ {x})
<1> DEFINE x == CHOOSE y \in S : TRUE
           g == Sums(f, S)
<1>1. IsSum(g, f, S)
  BY SumsIsSum
<1>2. g[S] = f[x] + g[S \ {x}]
  BY <1>1 DEF IsSum
<1>3. g[S \ {x}] = SumOf(f, S \ {x})
  BY <1>1, SumUnique
<1> QED BY <1>2, <1>3 DEF SumOf

LEMMA SumNat ==
  ASSUME NEW f, NEW S, IsFiniteSet(S), \A x \in S : f[x] \in Nat
  PROVE  SumOf(f, S) \in Nat
<1> DEFINE T == {s \in SUBSET S : SumOf(f, s) \notin Nat}
<1> SUFFICES ASSUME T # {} PROVE FALSE
  OBVIOUS
<1>1. PICK m \in T : \A x \in m : m \ {x} \notin T
  <2> HIDE DEF T
  <2>1. T \subseteq SUBSET S
    BY DEF T
  <2> QED BY <2>1, LeastSet
<1>2. IsFiniteSet(m)
  BY FS_Subset
<1>3. m # {}
  BY SumEmpty
<1> DEFINE c == CHOOSE y \in m : TRUE
<1>4. c \in m /\ SumOf(f, m) = f[c] + SumOf(f, m \ {c})
  BY <1>2, <1>3, SumChosen
<1> HIDE DEF c
<1>5. SumOf(f, m \ {c}) \in Nat /\ f[c] \in Nat
  BY <1>1, <1>4
<1> QED BY <1>4, <1>5

\* The sum does not depend on which element is taken out.
LEMMA SumRemove ==
  ASSUME NEW f, NEW S, IsFiniteSet(S), \A y \in S : f[y] \in Nat, NEW x \in S
  PROVE  SumOf(f, S) = f[x] + SumOf(f, S \ {x})
<1> DEFINE T == {s \in SUBSET S : \E y \in s : SumOf(f, s) # f[y] + SumOf(f, s \ {y})}
<1> SUFFICES ASSUME T # {} PROVE FALSE
  OBVIOUS
<1>1. PICK m \in T : \A y \in m : m \ {y} \notin T
  <2> HIDE DEF T
  <2>1. T \subseteq SUBSET S
    BY DEF T
  <2> QED BY <2>1, LeastSet
<1>2. IsFiniteSet(m)
  BY FS_Subset
<1>3. PICK z \in m : SumOf(f, m) # f[z] + SumOf(f, m \ {z})
  OBVIOUS
<1> DEFINE c == CHOOSE y \in m : TRUE
<1>4. c \in m /\ SumOf(f, m) = f[c] + SumOf(f, m \ {c})
  BY <1>2, <1>3, SumChosen
<1> HIDE DEF c
<1>5. c # z
  BY <1>3, <1>4
<1> DEFINE r == m \ {c, z}
<1>6. /\ m \ {c} \in SUBSET S /\ z \in m \ {c} /\ (m \ {c}) \ {z} = r
      /\ m \ {z} \in SUBSET S /\ c \in m \ {z} /\ (m \ {z}) \ {c} = r
  BY <1>4, <1>5
<1>7. SumOf(f, m \ {c}) = f[z] + SumOf(f, r)
  BY <1>1, <1>4, <1>6
<1>8. SumOf(f, m \ {z}) = f[c] + SumOf(f, r)
  BY <1>1, <1>6
<1>9. f[c] \in Nat /\ f[z] \in Nat /\ SumOf(f, r) \in Nat
  <2>1. IsFiniteSet(r) /\ \A y \in r : f[y] \in Nat
    BY <1>2, FS_Subset
  <2> QED BY <1>4, <2>1, SumNat
<1> QED BY <1>3, <1>4, <1>7, <1>8, <1>9

\* The same values have the same sum.
LEMMA SumEqual ==
  ASSUME NEW f, NEW g, NEW S, IsFiniteSet(S), \A x \in S : f[x] = g[x]
  PROVE  SumOf(f, S) = SumOf(g, S)
<1> DEFINE T == {s \in SUBSET S : SumOf(f, s) # SumOf(g, s)}
<1> SUFFICES ASSUME T # {} PROVE FALSE
  OBVIOUS
<1>1. PICK m \in T : \A x \in m : m \ {x} \notin T
  <2> HIDE DEF T
  <2>1. T \subseteq SUBSET S
    BY DEF T
  <2> QED BY <2>1, LeastSet
<1>2. IsFiniteSet(m)
  BY FS_Subset
<1>3. m # {}
  BY SumEmpty
<1> DEFINE c == CHOOSE y \in m : TRUE
<1>4. c \in m /\ SumOf(f, m) = f[c] + SumOf(f, m \ {c})
              /\ SumOf(g, m) = g[c] + SumOf(g, m \ {c})
  BY <1>2, <1>3, SumChosen
<1> HIDE DEF c
<1>5. SumOf(f, m \ {c}) = SumOf(g, m \ {c}) /\ f[c] = g[c]
  BY <1>1, <1>4
<1> QED BY <1>4, <1>5

\* One more element.
LEMMA SumAdd ==
  ASSUME NEW f, NEW g, NEW S, IsFiniteSet(S), NEW x, x \notin S,
         \A y \in S : f[y] \in Nat /\ g[y] = f[y], g[x] \in Nat
  PROVE  SumOf(g, S \cup {x}) = SumOf(f, S) + g[x]
<1>1. IsFiniteSet(S \cup {x}) /\ (S \cup {x}) \ {x} = S
  BY FS_AddElement
<1>2. SumOf(g, S \cup {x}) = g[x] + SumOf(g, S)
  BY <1>1, SumRemove
<1>3. SumOf(g, S) = SumOf(f, S) /\ SumOf(f, S) \in Nat
  BY SumEqual, SumNat
<1> QED BY <1>2, <1>3

\* One value has changed.
LEMMA SumUpdate ==
  ASSUME NEW f, NEW g, NEW S, IsFiniteSet(S), NEW x \in S,
         \A y \in S : f[y] \in Nat /\ g[y] \in Nat, \A y \in S \ {x} : g[y] = f[y]
  PROVE  SumOf(g, S) + f[x] = SumOf(f, S) + g[x]
<1>1. SumOf(f, S) = f[x] + SumOf(f, S \ {x}) /\ SumOf(g, S) = g[x] + SumOf(g, S \ {x})
  BY SumRemove
<1>2. IsFiniteSet(S \ {x})
  BY FS_Subset
<1>3. SumOf(g, S \ {x}) = SumOf(f, S \ {x}) /\ SumOf(f, S \ {x}) \in Nat
  BY <1>2, SumEqual, SumNat
<1> QED BY <1>1, <1>3

\* A bound on each value bounds the sum.
LEMMA SumBound ==
  ASSUME NEW f, NEW g, NEW S, IsFiniteSet(S), NEW k \in Nat, NEW l \in Nat,
         \A x \in S : f[x] \in Nat /\ g[x] \in Nat /\ f[x] <= k * g[x] + l
  PROVE  SumOf(f, S) <= k * SumOf(g, S) + l * Cardinality(S)
<1> DEFINE T == {s \in SUBSET S : ~(SumOf(f, s) <= k * SumOf(g, s) + l * Cardinality(s))}
<1> SUFFICES ASSUME T # {} PROVE FALSE
  OBVIOUS
<1>1. PICK m \in T : \A x \in m : m \ {x} \notin T
  <2> HIDE DEF T
  <2>1. T \subseteq SUBSET S
    BY DEF T
  <2> QED BY <2>1, LeastSet
<1>2. IsFiniteSet(m)
  BY FS_Subset
<1>3. m # {}
  <2>1. SumOf(f, {}) = 0 /\ SumOf(g, {}) = 0 /\ Cardinality({}) = 0
    BY SumEmpty, FS_EmptySet
  <2>2. 0 <= k * 0 + l * 0
    OBVIOUS
  <2> QED BY <2>1, <2>2
<1>4. PICK c \in m : TRUE
  BY <1>3
<1> DEFINE r == m \ {c}
<1>5. /\ SumOf(f, m) = f[c] + SumOf(f, r)
      /\ SumOf(g, m) = g[c] + SumOf(g, r)
      /\ Cardinality(m) = Cardinality(r) + 1
      /\ IsFiniteSet(r) /\ Cardinality(r) \in Nat
  <2>1. IsFiniteSet(r) /\ Cardinality(r) = Cardinality(m) - 1
    BY <1>2, FS_RemoveElement
  <2>2. Cardinality(r) \in Nat /\ Cardinality(m) \in Nat
    BY <1>2, <2>1, FS_CardinalityType
  <2>3. \A y \in m : f[y] \in Nat /\ g[y] \in Nat
    OBVIOUS
  <2>4. SumOf(f, m) = f[c] + SumOf(f, r) /\ SumOf(g, m) = g[c] + SumOf(g, r)
    BY SMTT(60), <1>2, <2>3, SumRemove
  <2> QED BY <2>1, <2>2, <2>4
<1>6. SumOf(f, r) <= k * SumOf(g, r) + l * Cardinality(r)
  BY <1>1
<1>7. SumOf(f, r) \in Nat /\ SumOf(g, r) \in Nat /\ f[c] \in Nat /\ g[c] \in Nat
  <2>1. \A y \in r : f[y] \in Nat /\ g[y] \in Nat
    OBVIOUS
  <2> QED BY <1>5, <2>1, SumNat
<1>8. f[c] <= k * g[c] + l
  OBVIOUS
<1>9. \A a, b, p, q, n \in Nat :
         a <= k * p + l /\ b <= k * q + l * n => a + b <= k * (p + q) + l * (n + 1)
  <2> SUFFICES ASSUME NEW a \in Nat, NEW b \in Nat, NEW p \in Nat, NEW q \in Nat, NEW n \in Nat,
                      a <= k * p + l, b <= k * q + l * n
               PROVE  a + b <= k * (p + q) + l * (n + 1)
    OBVIOUS
  <2>1. k * (p + q) = k * p + k * q /\ l * (n + 1) = l * n + l
    OBVIOUS
  <2>2. k * p \in Nat /\ k * q \in Nat /\ l * n \in Nat
    OBVIOUS
  <2> QED BY <2>1, <2>2
<1>10. f[c] + SumOf(f, r) <= k * (g[c] + SumOf(g, r)) + l * (Cardinality(r) + 1)
  BY <1>5, <1>6, <1>7, <1>8, <1>9
<1> QED BY <1>5, <1>10

LEMMA SumZero ==
  ASSUME NEW f, NEW S, IsFiniteSet(S), \A x \in S : f[x] = 0
  PROVE  SumOf(f, S) = 0
<1>1. \A x \in S : f[x] \in Nat /\ f[x] \in Nat /\ f[x] <= 0 * f[x] + 0
  OBVIOUS
<1>2. SumOf(f, S) <= 0 * SumOf(f, S) + 0 * Cardinality(S)
  BY <1>1, SumBound
<1>3. SumOf(f, S) \in Nat /\ Cardinality(S) \in Nat
  BY <1>1, SumNat, FS_CardinalityType
<1> QED BY <1>2, <1>3

LEMMA SumAtMost ==
  ASSUME NEW f, NEW S, IsFiniteSet(S), NEW l \in Nat,
         \A x \in S : f[x] \in Nat /\ f[x] <= l
  PROVE  SumOf(f, S) <= l * Cardinality(S)
<1>1. \A x \in S : f[x] \in Nat /\ f[x] \in Nat /\ f[x] <= 0 * f[x] + l
  OBVIOUS
<1>2. SumOf(f, S) <= 0 * SumOf(f, S) + l * Cardinality(S)
  BY <1>1, SumBound
<1>3. SumOf(f, S) \in Nat /\ Cardinality(S) \in Nat
  BY <1>1, SumNat, FS_CardinalityType
<1>4. l * Cardinality(S) \in Nat
  BY <1>3
<1> QED BY <1>2, <1>3, <1>4

LEMMA SumAtLeast ==
  ASSUME NEW f, NEW S, IsFiniteSet(S), NEW l \in Nat,
         \A x \in S : f[x] \in Nat /\ f[x] >= l
  PROVE  SumOf(f, S) >= l * Cardinality(S)
<1> DEFINE T == {s \in SUBSET S : ~(SumOf(f, s) >= l * Cardinality(s))}
<1> SUFFICES ASSUME T # {} PROVE FALSE
  OBVIOUS
<1>1. PICK m \in T : \A x \in m : m \ {x} \notin T
  <2> HIDE DEF T
  <2>1. T \subseteq SUBSET S
    BY DEF T
  <2> QED BY <2>1, LeastSet
<1>2. IsFiniteSet(m)
  BY FS_Subset
<1>3. m # {}
  <2>1. SumOf(f, {}) = 0 /\ Cardinality({}) = 0 /\ l * 0 = 0
    BY SumEmpty, FS_EmptySet
  <2> QED BY <2>1
<1>4. PICK c \in m : TRUE
  BY <1>3
<1> DEFINE r == m \ {c}
<1>5. /\ SumOf(f, m) = f[c] + SumOf(f, r)
      /\ Cardinality(m) = Cardinality(r) + 1
      /\ IsFiniteSet(r) /\ Cardinality(r) \in Nat
  <2>1. IsFiniteSet(r) /\ Cardinality(r) = Cardinality(m) - 1
    BY <1>2, FS_RemoveElement
  <2>2. Cardinality(r) \in Nat /\ Cardinality(m) \in Nat
    BY <1>2, <2>1, FS_CardinalityType
  <2>3. \A y \in m : f[y] \in Nat
    OBVIOUS
  <2>4. SumOf(f, m) = f[c] + SumOf(f, r)
    BY <1>2, <2>3, SumRemove
  <2> QED BY <2>1, <2>2, <2>4
<1>6. SumOf(f, r) >= l * Cardinality(r)
  BY <1>1
<1>7. SumOf(f, r) \in Nat /\ f[c] \in Nat /\ f[c] >= l
  <2>1. \A y \in r : f[y] \in Nat
    OBVIOUS
  <2> QED BY <1>5, <2>1, SumNat
<1>8. \A a, b, n \in Nat : a >= l /\ b >= l * n => a + b >= l * (n + 1)
  <2> SUFFICES ASSUME NEW a \in Nat, NEW b \in Nat, NEW n \in Nat, a >= l, b >= l * n
               PROVE  a + b >= l * (n + 1)
    OBVIOUS
  <2>1. l * (n + 1) = l * n + l /\ l * n \in Nat
    OBVIOUS
  <2> QED BY <2>1
<1>9. f[c] + SumOf(f, r) >= l * (Cardinality(r) + 1)
  BY <1>5, <1>6, <1>7, <1>8
<1> QED BY <1>5, <1>9

\* A value more, of a new element or of one there was.
LEMMA SumGrows ==
  ASSUME NEW f, NEW g, NEW S, IsFiniteSet(S), NEW x, NEW d \in Nat,
         \A y \in S : f[y] \in Nat, \A y \in S \ {x} : g[y] = f[y],
         x \in S => g[x] = f[x] + d, x \notin S => g[x] = d
  PROVE  SumOf(g, S \cup {x}) = SumOf(f, S) + d
<1>1. CASE x \in S
  <2>1. S \cup {x} = S /\ g[x] = f[x] + d /\ f[x] \in Nat /\ g[x] \in Nat
    BY <1>1
  <2>2. \A y \in S : f[y] \in Nat /\ g[y] \in Nat
    BY <2>1
  <2>3. SumOf(g, S) + f[x] = SumOf(f, S) + g[x]
    BY <1>1, <2>2, SumUpdate
  <2>4. SumOf(f, S) \in Nat /\ SumOf(g, S) \in Nat
    BY <2>2, SumNat
  <2> QED BY <2>1, <2>3, <2>4
<1>2. CASE x \notin S
  <2>1. g[x] = d /\ g[x] \in Nat
    BY <1>2
  <2>2. \A y \in S : f[y] \in Nat /\ g[y] = f[y]
    BY <1>2
  <2>3. SumOf(g, S \cup {x}) = SumOf(f, S) + g[x]
    BY <1>2, <2>1, <2>2, SumAdd
  <2> QED BY <2>1, <2>3
<1> QED BY <1>1, <1>2

LEMMA SumSubset ==
  ASSUME NEW f, NEW S, IsFiniteSet(S), \A x \in S : f[x] \in Nat, NEW A \in SUBSET S
  PROVE  SumOf(f, A) <= SumOf(f, S)
<1> DEFINE T == {s \in SUBSET (S \ A) : ~(SumOf(f, A) <= SumOf(f, A \cup s))}
<1>1. ASSUME T # {}
      PROVE  FALSE
  <2>1. PICK m \in T : \A x \in m : m \ {x} \notin T
    <3>1. T \subseteq SUBSET (S \ A) /\ IsFiniteSet(S \ A)
      BY FS_Subset
    <3> HIDE DEF T
    <3> QED BY <1>1, <3>1, LeastSet
  <2>2. IsFiniteSet(A) /\ IsFiniteSet(A \cup m)
    BY FS_Subset
  <2>3. SumOf(f, A) \in Nat
    BY <2>2, SumNat
  <2>4. m # {}
    <3>1. A \cup {} = A
      OBVIOUS
    <3> QED BY <2>3, <3>1
  <2>5. PICK c \in m : TRUE
    BY <2>4
  <2>6. (A \cup m) \ {c} = A \cup (m \ {c}) /\ c \in A \cup m
    OBVIOUS
  <2>7. SumOf(f, A \cup m) = f[c] + SumOf(f, A \cup (m \ {c}))
    <3>1. \A y \in A \cup m : f[y] \in Nat
      OBVIOUS
    <3> QED BY <2>2, <2>6, <3>1, SumRemove
  <2>8. f[c] \in Nat /\ SumOf(f, A \cup (m \ {c})) \in Nat
    <3>1. IsFiniteSet(A \cup (m \ {c})) /\ \A y \in A \cup (m \ {c}) : f[y] \in Nat
      BY FS_Subset
    <3> QED BY <3>1, SumNat
  <2>9. SumOf(f, A) <= SumOf(f, A \cup (m \ {c}))
    BY <2>1
  <2> QED BY <2>3, <2>7, <2>8, <2>9
<1>2. S \ A \in SUBSET (S \ A) /\ A \cup (S \ A) = S
  OBVIOUS
<1> QED BY <1>1, <1>2

\* The same values under other names, which b gives.
Renamed(s, b) == {b[i] : i \in s}

LEMMA SumRenamed ==
  ASSUME NEW f, NEW g, NEW S, IsFiniteSet(S), NEW b,
         \A i, j \in S : b[i] = b[j] => i = j,
         \A i \in S : g[i] \in Nat, \A i \in S : f[b[i]] = g[i]
  PROVE  SumOf(g, S) = SumOf(f, Renamed(S, b))
<1> DEFINE T == {s \in SUBSET S : SumOf(g, s) # SumOf(f, Renamed(s, b))}
<1>1. ASSUME T # {}
      PROVE  FALSE
  <2>1. PICK m \in T : \A x \in m : m \ {x} \notin T
    <3>1. T \subseteq SUBSET S
      BY DEF T
    <3> HIDE DEF T
    <3> QED BY <1>1, <3>1, LeastSet
  <2>2. IsFiniteSet(m) /\ IsFiniteSet(Renamed(m, b))
    <3>1. IsFiniteSet(m)
      BY FS_Subset
    <3>2. PICK h : h = [i \in m |-> b[i]]
      OBVIOUS
    <3>3. h \in Surjection(m, Renamed(m, b))
      BY <3>2 DEF Surjection, Renamed
    <3> QED BY <3>1, <3>3, FS_Surjection
  <2>3. m # {}
    <3>1. Renamed({}, b) = {}
      BY DEF Renamed
    <3> QED BY <3>1, SumEmpty
  <2>4. PICK c \in m : TRUE
    BY <2>3
  <2>5. Renamed(m, b) \ {b[c]} = Renamed(m \ {c}, b) /\ b[c] \in Renamed(m, b)
    BY DEF Renamed
  <2>6. \A j \in Renamed(m, b) : f[j] \in Nat
    BY DEF Renamed
  <2>7. \A i \in m : g[i] \in Nat
    OBVIOUS
  <2>8. SumOf(g, m) = g[c] + SumOf(g, m \ {c})
    BY <2>2, <2>7, SumRemove
  <2>9. SumOf(f, Renamed(m, b)) = f[b[c]] + SumOf(f, Renamed(m, b) \ {b[c]})
    BY <2>2, <2>5, <2>6, SumRemove
  <2>10. SumOf(g, m \ {c}) = SumOf(f, Renamed(m \ {c}, b))
    BY <2>1
  <2> QED BY <2>5, <2>8, <2>9, <2>10
<1>2. S \in SUBSET S
  OBVIOUS
<1> QED BY <1>1, <1>2

LEMMA UpToFinite ==
  ASSUME NEW n \in Nat
  PROVE  IsFiniteSet(1..n) /\ Cardinality(1..n) = n
<1>1. IsFiniteSet(1..n) /\ Cardinality(1..n) = IF 1 > n THEN 0 ELSE n - 1 + 1
  BY FS_Interval
<1> QED BY <1>1

\* The last values sum up to no more than all.
LEMMA SumLast ==
  ASSUME NEW f, NEW g, NEW n \in Nat, NEW l \in Nat, l <= n,
         \A i \in 1..n : f[i] \in Nat, \A i \in 1..l : g[i] = f[(n - l) + i]
  PROVE  SumOf(g, 1..l) <= SumOf(f, 1..n)
<1>1. PICK b : b = [i \in 1..l |-> (n - l) + i]
  OBVIOUS
<1>2. \A i \in 1..l : b[i] = (n - l) + i /\ b[i] \in 1..n
  BY <1>1
<1>3. PICK A, B : A = 1..l /\ B = 1..n
  OBVIOUS
<1>4. IsFiniteSet(A) /\ IsFiniteSet(B) /\ \A i \in B : f[i] \in Nat
  BY <1>3, UpToFinite
<1>5. \A i, j \in A : b[i] = b[j] => i = j
  BY <1>2, <1>3
<1>6. \A i \in A : g[i] \in Nat /\ f[b[i]] = g[i] /\ b[i] \in B
  BY <1>2, <1>3
<1>7. SumOf(g, A) = SumOf(f, Renamed(A, b))
  BY ONLY <1>4, <1>5, <1>6, SumRenamed
<1>8. Renamed(A, b) \in SUBSET B
  BY <1>6 DEF Renamed
<1>9. SumOf(f, Renamed(A, b)) <= SumOf(f, B)
  BY ONLY <1>4, <1>8, SumSubset
<1> QED BY <1>3, <1>7, <1>9

------------------------------------------------------------------------------
(* Ranks.  In a strict total order R of the numbers up to n a number has    *)
(* the rank of how many come before it, and each rank is that of one.       *)

Orders(R, n) ==
    /\ \A i \in 1..n : <<i, i>> \notin R
    /\ \A i, j \in 1..n : i # j => <<i, j>> \in R \/ <<j, i>> \in R
    /\ \A i, j, k \in 1..n : <<i, j>> \in R /\ <<j, k>> \in R => <<i, k>> \in R

Lower(R, n, i) == {j \in 1..n : <<j, i>> \in R}

Rank(R, n, i) == Cardinality(Lower(R, n, i))

LEMMA RankBelow ==
  ASSUME NEW n \in Nat, NEW R, Orders(R, n), NEW i \in 1..n
  PROVE  /\ IsFiniteSet(Lower(R, n, i)) /\ Rank(R, n, i) \in Nat
         /\ IsFiniteSet(Lower(R, n, i) \cup {i})
         /\ Cardinality(Lower(R, n, i) \cup {i}) = Rank(R, n, i) + 1
         /\ Rank(R, n, i) + 1 <= n
<1> DEFINE L == Lower(R, n, i)
<1>1. L \in SUBSET (1..n) /\ L \cup {i} \in SUBSET (1..n) /\ i \notin L
  BY DEF Lower, Orders
<1> HIDE DEF L
<1>2. IsFiniteSet(L)
  BY <1>1, UpToFinite, FS_Subset
<1>3. Cardinality(L) \in Nat
  BY <1>2, FS_CardinalityType
<1>4. IsFiniteSet(L \cup {i}) /\ Cardinality(L \cup {i}) = Cardinality(L) + 1
  BY <1>1, <1>2, FS_AddElement
<1>5. Cardinality(L \cup {i}) <= n
  <2>1. Cardinality(L \cup {i}) <= Cardinality(1..n)
    BY <1>1, UpToFinite, FS_Subset
  <2> QED BY <2>1, UpToFinite
<1> QED BY <1>2, <1>3, <1>4, <1>5 DEF L, Rank

LEMMA RankGrows ==
  ASSUME NEW n \in Nat, NEW R, Orders(R, n), NEW i \in 1..n, NEW j \in 1..n, <<i, j>> \in R
  PROVE  Rank(R, n, i) < Rank(R, n, j)
<1>1. Lower(R, n, i) \cup {i} \in SUBSET Lower(R, n, j)
  BY DEF Lower, Orders
<1>2. Cardinality(Lower(R, n, i) \cup {i}) <= Cardinality(Lower(R, n, j))
  BY <1>1, RankBelow, FS_Subset
<1>3. /\ Cardinality(Lower(R, n, i) \cup {i}) = Rank(R, n, i) + 1
      /\ Rank(R, n, i) \in Nat /\ Rank(R, n, j) \in Nat
  BY RankBelow
<1> QED BY <1>2, <1>3 DEF Rank

LEMMA RankOnce ==
  ASSUME NEW n \in Nat, NEW R, Orders(R, n), NEW i \in 1..n, NEW j \in 1..n,
         Rank(R, n, i) = Rank(R, n, j)
  PROVE  i = j
<1> SUFFICES ASSUME i # j PROVE FALSE
  OBVIOUS
<1>1. <<i, j>> \in R \/ <<j, i>> \in R
  BY DEF Orders
<1>2. Rank(R, n, i) < Rank(R, n, j) \/ Rank(R, n, j) < Rank(R, n, i)
  BY <1>1, RankGrows
<1>3. Rank(R, n, i) \in Nat
  BY RankBelow
<1> QED BY <1>2, <1>3

LEMMA RankTaken ==
  ASSUME NEW n \in Nat, NEW R, Orders(R, n), NEW k \in Nat, k < n
  PROVE  \E i \in 1..n : Rank(R, n, i) = k
<1> DEFINE D == 1..n
           rank == [i \in D |-> Rank(R, n, i) + 1]
<1>1. \A i \in D : Rank(R, n, i) \in Nat /\ Rank(R, n, i) + 1 \in D
  <2> SUFFICES ASSUME NEW i \in D
               PROVE  Rank(R, n, i) \in Nat /\ Rank(R, n, i) + 1 \in D
    OBVIOUS
  <2>1. Rank(R, n, i) \in Nat /\ Rank(R, n, i) + 1 <= n
    BY RankBelow
  <2> QED BY <2>1
<1>2. IsFiniteSet(D)
  BY UpToFinite
<1>3. k + 1 \in D
  OBVIOUS
<1>4. \A i, j \in D : Rank(R, n, i) = Rank(R, n, j) => i = j
  BY RankOnce
<1> HIDE DEF D
<1>5. rank \in [D -> D] /\ \A i \in D : rank[i] = Rank(R, n, i) + 1
  BY <1>1
<1> HIDE DEF rank
<1>6. \A i, j \in D : rank[i] = rank[j] => i = j
  <2> SUFFICES ASSUME NEW i \in D, NEW j \in D, rank[i] = rank[j]
               PROVE  i = j
    OBVIOUS
  <2>1. Rank(R, n, i) = Rank(R, n, j)
    BY <1>1, <1>5
  <2> QED BY <1>4, <2>1
<1>7. rank \in Injection(D, D)
  BY <1>5, <1>6 DEF Injection, IsInjective
<1>8. rank \in Surjection(D, D)
  BY <1>2, <1>7, FS_Injection
<1>9. PICK i \in D : rank[i] = k + 1
  BY <1>3, <1>8 DEF Surjection
<1>10. Rank(R, n, i) = k
  BY <1>1, <1>5, <1>9
<1> QED BY <1>10 DEF D

\* How many exceed a limit is read off the value of rank q, when R orders by
\* value.
LEMMA RankDecides ==
  ASSUME NEW n \in Nat, NEW R, Orders(R, n), NEW f, NEW limit \in Nat,
         \A i \in 1..n : f[i] \in Nat,
         \A i, j \in 1..n : /\ <<i, j>> \in R => f[i] <= f[j]
                            /\ f[i] < f[j] => <<i, j>> \in R,
         NEW q \in Nat, NEW i \in 1..n, Rank(R, n, i) = q
  PROVE  f[i] > limit <=> Cardinality({j \in 1..n : f[j] > limit}) >= n - q
<1> DEFINE L == Lower(R, n, i)
           Over == {j \in 1..n : f[j] > limit}
<1>1. IsFiniteSet(1..n) /\ Cardinality(1..n) = n
  BY UpToFinite
<1>2. /\ IsFiniteSet(L) /\ Cardinality(L) = q /\ L \subseteq 1..n
      /\ IsFiniteSet(L \cup {i}) /\ Cardinality(L \cup {i}) = q + 1
      /\ q + 1 <= n
  <2>1. /\ IsFiniteSet(L) /\ IsFiniteSet(L \cup {i})
        /\ Cardinality(L \cup {i}) = q + 1 /\ q + 1 <= n
    BY RankBelow
  <2>2. Cardinality(L) = q
    BY DEF Rank
  <2>3. L \subseteq 1..n
    BY DEF Lower
  <2> QED BY <2>1, <2>2, <2>3
<1>3. IsFiniteSet(Over) /\ Cardinality(Over) \in Nat
  BY <1>1, FS_Subset, FS_CardinalityType
<1>4. CASE f[i] > limit
  <2>1. ASSUME NEW j \in (1..n) \ L
        PROVE  j \in Over
    <3>1. ~(f[j] < f[i])
      BY <2>1 DEF Lower
    <3>2. f[j] > limit
      BY <1>4, <3>1
    <3> QED BY <3>2
  <2>2. (1..n) \ L \in SUBSET Over
    BY <2>1
  <2> HIDE DEF L, Over
  <2>3. Cardinality((1..n) \ L) = n - q
    <3>1. (1..n) \cap L = L
      BY <1>2
    <3>2. Cardinality((1..n) \ L) = Cardinality(1..n) - Cardinality((1..n) \cap L)
      BY ONLY <1>1, FS_Difference
    <3> QED BY ONLY <1>1, <1>2, <3>1, <3>2
  <2>4. Cardinality((1..n) \ L) <= Cardinality(Over)
    BY <1>3, <2>2, FS_Subset
  <2>5. Cardinality(Over) >= n - q
    BY <1>3, <2>3, <2>4
  <2> QED BY <1>4, <2>5 DEF Over
<1>5. CASE ~(f[i] > limit)
  <2>1. ASSUME NEW j \in Over
        PROVE  j \in (1..n) \ (L \cup {i})
    <3>1. j \in 1..n /\ f[j] > f[i] /\ j # i
      BY <1>5
    <3>2. ~(f[j] <= f[i])
      BY <3>1
    <3>3. j \notin L
      BY <3>2 DEF Lower
    <3> QED BY <3>1, <3>3
  <2>2. Over \in SUBSET ((1..n) \ (L \cup {i}))
    BY <2>1
  <2> HIDE DEF L, Over
  <2>3. IsFiniteSet((1..n) \ (L \cup {i})) /\ Cardinality((1..n) \ (L \cup {i})) = n - (q + 1)
    <3>1. (1..n) \cap (L \cup {i}) = L \cup {i}
      BY <1>2
    <3>2. /\ IsFiniteSet((1..n) \ (L \cup {i}))
          /\ Cardinality((1..n) \ (L \cup {i}))
             = Cardinality(1..n) - Cardinality((1..n) \cap (L \cup {i}))
      BY ONLY <1>1, FS_Difference
    <3> QED BY ONLY <1>1, <1>2, <3>1, <3>2
  <2>4. Cardinality(Over) <= n - (q + 1)
    <3>1. Cardinality(Over) <= Cardinality((1..n) \ (L \cup {i}))
      BY ONLY <2>2, <2>3, FS_Subset
    <3> QED BY ONLY <2>3, <3>1
  <2>5. ~(Cardinality(Over) >= n - q)
    BY <1>3, <2>4
  <2> QED BY <1>5, <2>5 DEF Over
<1> QED BY <1>4, <1>5

------------------------------------------------------------------------------
(* Arithmetic that those who count need beside sums.                       *)

LEMMA ModSmall == ASSUME NEW n \in Nat, NEW w \in Nat, n < w PROVE n % w = n
OBVIOUS

LEMMA TimesMonotone ==
  ASSUME NEW k \in Nat, NEW m \in Nat, NEW n \in Nat, m <= n
  PROVE  k * m \in Nat /\ k * m <= k * n
<1>1. PICK d \in Nat : n = m + d
  <2>1. n - m \in Nat /\ n = m + (n - m)
    OBVIOUS
  <2> QED BY <2>1
<1>2. k * n = k * m + k * d /\ k * d \in Nat /\ k * m \in Nat
  BY <1>1
<1> QED BY <1>2

=============================================================================
