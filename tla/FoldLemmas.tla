----------------------------- MODULE FoldLemmas -----------------------------
(***************************************************************************)
(* Lemmas about the sums and folds of the community modules that the model *)
(* is built from.  Each is an induction, by a least counterexample: the    *)
(* smallest set, or the smallest number, of which it fails.                *)
(***************************************************************************)
EXTENDS Integers, FiniteSets, Functions, FiniteSetsExt, FiniteSetTheorems,
        WellFoundedInduction, TLAPS

\* Of some finite sets one has none of the others within.
LEMMA SmallestSet ==
  ASSUME NEW S, IsFiniteSet(S), NEW B \in SUBSET SUBSET S, B # {}
  PROVE  \E T \in B : \A U \in B : U \subseteq T => U = T
<1>1. B \subseteq FiniteSubsetsOf(S)
  BY FS_Subset DEF FiniteSubsetsOf
<1>2. PICK T \in B : \A U \in B : <<U, T>> \notin StrictSubsetOrdering(S)
  BY <1>1, FS_StrictSubsetOrderingWellFounded, WFMin
<1>3. \A U \in B : U \subseteq T => U = T
  BY <1>2 DEF StrictSubsetOrdering
<1> QED BY <1>3

\* The element that a fold over a set takes next.
AnyOf(s) == CHOOSE x \in s : TRUE

\* g gives the sums of the values v over the subsets of S.
SumsUp(v, S, g) ==
    g = [s \in SUBSET S |-> IF s = {} THEN 0 ELSE v[AnyOf(s)] + g[s \ {AnyOf(s)}]]

\* Where two such functions both give a sum, they give the same.
LEMMA SumsAgree ==
  ASSUME NEW v, NEW S, NEW R, NEW g, NEW h, IsFiniteSet(S), SumsUp(v, S, g), SumsUp(v, R, h),
         NEW T, T \subseteq S, T \subseteq R
  PROVE  g[T] = h[T]
<1> DEFINE B == {U \in SUBSET T : g[U] # h[U]}
<1> SUFFICES ASSUME B # {} PROVE FALSE
  OBVIOUS
<1>1. IsFiniteSet(T)
  BY FS_Subset
<1>2. PICK U \in B : \A V \in B : V \subseteq U => V = U
  <2>1. B \in SUBSET SUBSET T
    OBVIOUS
  <2> HIDE DEF B
  <2> QED BY <1>1, <2>1, SmallestSet
<1> DEFINE x == AnyOf(U)
<1>3. CASE U = {}
  BY <1>2, <1>3 DEF SumsUp
<1>4. CASE U # {}
  <2>1. x \in U
    BY <1>4 DEF AnyOf
  <2>2. g[U \ {x}] = h[U \ {x}]
    BY <1>2, <2>1
  <2>3. g[U] = v[x] + g[U \ {x}] /\ h[U] = v[x] + h[U \ {x}]
    BY <1>2, <1>4 DEF SumsUp
  <2> QED BY <1>2, <2>2, <2>3
<1> QED BY <1>3, <1>4

\* There is one over every finite set.
LEMMA SumsExist ==
  ASSUME NEW v, NEW S, IsFiniteSet(S)
  PROVE  \E g : SumsUp(v, S, g)
<1> DEFINE B == {U \in SUBSET S : ~ \E g : SumsUp(v, U, g)}
<1> SUFFICES ASSUME B # {} PROVE FALSE
  OBVIOUS
<1>1. PICK T \in B : \A U \in B : U \subseteq T => U = T
  <2>1. B \in SUBSET SUBSET S
    OBVIOUS
  <2> HIDE DEF B
  <2> QED BY <2>1, SmallestSet
<1> DEFINE G(U) == CHOOSE g : SumsUp(v, U, g)
           g == [s \in SUBSET T |-> IF s = {} THEN 0
                                   ELSE v[AnyOf(s)] + G(s \ {AnyOf(s)})[s \ {AnyOf(s)}]]
<1>2. \A s \in SUBSET T : s # {} => AnyOf(s) \in s
  BY DEF AnyOf
<1>3. \A U \in SUBSET T : U # T => SumsUp(v, U, G(U))
  BY <1>1
<1>4. ASSUME NEW s \in SUBSET T, s # T PROVE g[s] = G(s)[s]
  <2>1. SumsUp(v, s, G(s))
    BY <1>3, <1>4
  <2>2. CASE s = {}
    BY <2>1, <2>2 DEF SumsUp
  <2>3. CASE s # {}
    <3> DEFINE r == s \ {AnyOf(s)}
    <3>1. r \subseteq s /\ r # T
      BY <1>2, <1>4, <2>3
    <3>2. SumsUp(v, r, G(r))
      BY <1>3, <3>1
    <3>3. IsFiniteSet(s) /\ IsFiniteSet(r)
      BY FS_Subset
    <3>4. G(r)[r] = G(s)[r]
      BY <2>1, <3>1, <3>2, <3>3, SumsAgree
    <3>5. G(s)[s] = v[AnyOf(s)] + G(s)[r]
      <4> HIDE DEF G
      <4> QED BY <2>1, <2>3 DEF SumsUp
    <3>6. g[s] = v[AnyOf(s)] + G(r)[r]
      <4> HIDE DEF G
      <4> QED BY <2>3
    <3> QED BY <3>4, <3>5, <3>6
  <2> QED BY <2>2, <2>3
<1>5. g = [s \in SUBSET T |-> IF s = {} THEN 0 ELSE v[AnyOf(s)] + g[s \ {AnyOf(s)}]]
  <2>1. \A s \in SUBSET T : s # {} =>
           g[s \ {AnyOf(s)}] = G(s \ {AnyOf(s)})[s \ {AnyOf(s)}]
    <3> SUFFICES ASSUME NEW s \in SUBSET T, s # {}
                 PROVE  g[s \ {AnyOf(s)}] = G(s \ {AnyOf(s)})[s \ {AnyOf(s)}]
      OBVIOUS
    <3>1. s \ {AnyOf(s)} \in SUBSET T /\ s \ {AnyOf(s)} # T
      BY <1>2
    <3> HIDE DEF g, G
    <3> QED BY <1>4, <3>1
  <2> HIDE DEF G
  <2> QED BY <2>1
<1>6. SumsUp(v, T, g)
  BY <1>5 DEF SumsUp
<1> QED BY <1>1, <1>6

\* The sum over a set is one element's value and the sum over the others.
LEMMA SumOf ==
  ASSUME NEW v, NEW S, IsFiniteSet(S)
  PROVE  SumFunctionOnSet(v, S) = IF S = {} THEN 0
                                  ELSE v[AnyOf(S)] + SumFunctionOnSet(v, S \ {AnyOf(S)})
<1> DEFINE G(U) == CHOOSE g : SumsUp(v, U, g)
<1>1. ASSUME NEW U \in SUBSET S PROVE SumFunctionOnSet(v, U) = G(U)[U] /\ SumsUp(v, U, G(U))
  <2>1. SumFunctionOnSet(v, U) = G(U)[U]
    BY DEF SumFunctionOnSet, FoldFunctionOnSet, MapThenFoldSet, SumsUp, AnyOf
  <2>2. \E g : SumsUp(v, U, g)
    BY FS_Subset, SumsExist
  <2> QED BY <2>1, <2>2
<1> HIDE DEF G
<1>2. CASE S = {}
  BY <1>1, <1>2 DEF SumsUp
<1>3. CASE S # {}
  <2> DEFINE R == S \ {AnyOf(S)}
  <2>1. G(S)[S] = v[AnyOf(S)] + G(S)[R]
    BY <1>1, <1>3 DEF SumsUp
  <2>2. IsFiniteSet(R)
    BY FS_Subset
  <2>3. SumsUp(v, R, G(R)) /\ SumsUp(v, S, G(S))
    BY <1>1
  <2>4. G(R)[R] = G(S)[R]
    BY <2>2, <2>3, SumsAgree
  <2>5. SumFunctionOnSet(v, R) = G(R)[R] /\ SumFunctionOnSet(v, S) = G(S)[S]
    BY <1>1
  <2> QED BY <1>3, <2>1, <2>4, <2>5
<1> QED BY <1>2, <1>3

\* It is a number if its parts are.
LEMMA SumIs ==
  ASSUME NEW v, NEW S, IsFiniteSet(S), NEW N \in {Nat, Int}, \A x \in S : v[x] \in N
  PROVE  SumFunctionOnSet(v, S) \in N
<1> DEFINE B == {U \in SUBSET S : SumFunctionOnSet(v, U) \notin N}
<1> SUFFICES ASSUME B # {} PROVE FALSE
  OBVIOUS
<1>1. PICK T \in B : \A U \in B : U \subseteq T => U = T
  <2>1. B \in SUBSET SUBSET S
    OBVIOUS
  <2> HIDE DEF B
  <2> QED BY <2>1, SmallestSet
<1>2. SumFunctionOnSet(v, T) = IF T = {} THEN 0
                               ELSE v[AnyOf(T)] + SumFunctionOnSet(v, T \ {AnyOf(T)})
  BY FS_Subset, SumOf
<1>3. T # {} => AnyOf(T) \in T
  BY DEF AnyOf
<1>4. T # {} => SumFunctionOnSet(v, T \ {AnyOf(T)}) \in N
  BY <1>1, <1>3
<1>5. \A x, y \in N : x + y \in N
  OBVIOUS
<1>6. T # {} => v[AnyOf(T)] \in N
  BY <1>3
<1>7. 0 \in N
  OBVIOUS
<1> QED BY <1>1, <1>2, <1>4, <1>5, <1>6, <1>7

\* It does not matter which element is added last.
LEMMA SumWithout ==
  ASSUME NEW v, NEW S, IsFiniteSet(S), \A x \in S : v[x] \in Int, NEW x \in S
  PROVE  SumFunctionOnSet(v, S) = v[x] + SumFunctionOnSet(v, S \ {x})
<1> DEFINE Splits(T, y) ==
             SumFunctionOnSet(v, T) = v[y] + SumFunctionOnSet(v, T \ {y})
           B == {U \in SUBSET S : \E y \in U : ~Splits(U, y)}
<1>0. SUFFICES ASSUME B # {} PROVE FALSE
  OBVIOUS
<1>1. PICK T \in B : \A U \in B : U \subseteq T => U = T
  <2>1. B \in SUBSET SUBSET S
    OBVIOUS
  <2> HIDE DEF B
  <2> QED BY <1>0, <2>1, SmallestSet
<1>2. PICK y \in T : ~Splits(T, y)
  BY <1>1
<1>3. \A U \in SUBSET T : U # T => \A z \in U : Splits(U, z)
  BY <1>1
<1> DEFINE p == AnyOf(T)  rest == SumFunctionOnSet(v, (T \ {p}) \ {y})
<1>4. p \in T
  BY <1>2 DEF AnyOf
<1>5. Splits(T, p)
  BY <1>4, FS_Subset, SumOf
<1>6. p # y
  BY <1>2, <1>5
<1> HIDE DEF B, p
<1>7. T \in SUBSET S
  BY <1>1 DEF B
<1>8. Splits(T \ {p}, y)
  BY <1>2, <1>3, <1>4, <1>6
<1>9. Splits(T \ {y}, p)
  BY <1>2, <1>3, <1>4, <1>6
<1>10. (T \ {y}) \ {p} = (T \ {p}) \ {y}
  OBVIOUS
<1>11. rest \in Int /\ v[p] \in Int /\ v[y] \in Int
  <2>1. IsFiniteSet((T \ {p}) \ {y})
    BY <1>7, FS_Subset
  <2> QED BY <1>2, <1>4, <1>7, <2>1, SumIs
<1>12. /\ SumFunctionOnSet(v, T) = v[p] + (v[y] + rest)
       /\ SumFunctionOnSet(v, T \ {y}) = v[p] + rest
  BY <1>5, <1>8, <1>9, <1>10
<1>13. SumFunctionOnSet(v, T) = v[y] + SumFunctionOnSet(v, T \ {y})
  <2> HIDE DEF rest
  <2> QED BY <1>11, <1>12
<1> QED BY <1>2, <1>13

\* Only the parts matter.
LEMMA SumSame ==
  ASSUME NEW v, NEW w, NEW S, IsFiniteSet(S), \A x \in S : v[x] = w[x]
  PROVE  SumFunctionOnSet(v, S) = SumFunctionOnSet(w, S)
<1> DEFINE B == {U \in SUBSET S : SumFunctionOnSet(v, U) # SumFunctionOnSet(w, U)}
<1> SUFFICES ASSUME B # {} PROVE FALSE
  OBVIOUS
<1>1. PICK T \in B : \A U \in B : U \subseteq T => U = T
  <2>1. B \in SUBSET SUBSET S
    OBVIOUS
  <2> HIDE DEF B
  <2> QED BY <2>1, SmallestSet
<1>2. /\ SumFunctionOnSet(v, T) = IF T = {} THEN 0
                                   ELSE v[AnyOf(T)] + SumFunctionOnSet(v, T \ {AnyOf(T)})
      /\ SumFunctionOnSet(w, T) = IF T = {} THEN 0
                                   ELSE w[AnyOf(T)] + SumFunctionOnSet(w, T \ {AnyOf(T)})
  BY FS_Subset, SumOf
<1>3. T # {} => AnyOf(T) \in T
  BY DEF AnyOf
<1>4. T # {} => SumFunctionOnSet(v, T \ {AnyOf(T)}) = SumFunctionOnSet(w, T \ {AnyOf(T)})
  BY <1>1, <1>3
<1> QED BY <1>1, <1>2, <1>3, <1>4

\* If one part changes, the sum changes as much.
LEMMA SumChanged ==
  ASSUME NEW v, NEW w, NEW S, IsFiniteSet(S), NEW x \in S,
         \A y \in S : v[y] \in Int /\ w[y] \in Int, \A y \in S \ {x} : v[y] = w[y]
  PROVE  SumFunctionOnSet(w, S) = SumFunctionOnSet(v, S) - v[x] + w[x]
<1> DEFINE R == S \ {x}
<1>1. IsFiniteSet(R)
  BY FS_Subset
<1>2. SumFunctionOnSet(v, R) = SumFunctionOnSet(w, R)
  BY <1>1, SumSame
<1>3. SumFunctionOnSet(v, R) \in Int
  BY <1>1, SumIs
<1>4. /\ SumFunctionOnSet(v, S) = v[x] + SumFunctionOnSet(v, R)
      /\ SumFunctionOnSet(w, S) = w[x] + SumFunctionOnSet(w, R)
  BY SumWithout
<1> QED BY <1>2, <1>3, <1>4

\* Parts that are nothing may be left out.
LEMMA SumOfParts ==
  ASSUME NEW v, NEW S, IsFiniteSet(S), \A x \in S : v[x] \in Int,
         NEW R \in SUBSET S, \A x \in S \ R : v[x] = 0
  PROVE  SumFunctionOnSet(v, S) = SumFunctionOnSet(v, R)
<1> DEFINE B == {U \in SUBSET S : R \subseteq U
                                /\ SumFunctionOnSet(v, U) # SumFunctionOnSet(v, R)}
<1> SUFFICES ASSUME B # {} PROVE FALSE
  OBVIOUS
<1>1. PICK T \in B : \A U \in B : U \subseteq T => U = T
  <2>1. B \in SUBSET SUBSET S
    OBVIOUS
  <2> HIDE DEF B
  <2> QED BY <2>1, SmallestSet
<1>2. PICK x \in T : x \notin R
  <2>1. R \subseteq T /\ SumFunctionOnSet(v, T) # SumFunctionOnSet(v, R)
    BY <1>1
  <2> HIDE DEF B
  <2> QED BY <2>1
<1>3. SumFunctionOnSet(v, T) = v[x] + SumFunctionOnSet(v, T \ {x})
  BY FS_Subset, SumWithout
<1>4. SumFunctionOnSet(v, T \ {x}) = SumFunctionOnSet(v, R)
  BY <1>1, <1>2
<1>5. SumFunctionOnSet(v, R) \in Int
  BY FS_Subset, SumIs
<1> QED BY <1>1, <1>2, <1>3, <1>4, <1>5

\* More of what is not negative is not less.
LEMMA SumGrows ==
  ASSUME NEW v, NEW w, NEW S, IsFiniteSet(S), NEW R \in SUBSET S,
         \A x \in S : w[x] \in Nat, \A x \in R : v[x] \in Nat /\ v[x] <= w[x]
  PROVE  SumFunctionOnSet(v, R) <= SumFunctionOnSet(w, S)
<1> DEFINE B == {U \in SUBSET S : ~(SumFunctionOnSet(v, U \cap R) <= SumFunctionOnSet(w, U))}
<1>0. SUFFICES ASSUME B # {} PROVE FALSE
  <2>1. S \cap R = R
    OBVIOUS
  <2> QED BY <2>1
<1>1. PICK T \in B : \A U \in B : U \subseteq T => U = T
  <2>1. B \in SUBSET SUBSET S
    OBVIOUS
  <2> HIDE DEF B
  <2> QED BY <1>0, <2>1, SmallestSet
<1>2. T # {}
  <2>1. IsFiniteSet({}) /\ {} \cap R = {}
    BY FS_EmptySet
  <2>2. SumFunctionOnSet(v, {}) = 0 /\ SumFunctionOnSet(w, {}) = 0
    BY <2>1, SumOf
  <2>3. {} \notin B
    BY <2>1, <2>2
  <2> HIDE DEF B
  <2> QED BY <2>3
<1>3. PICK x \in T : TRUE
  BY <1>2
<1> DEFINE U == T \ {x}
<1>4. /\ T \in SUBSET S /\ U \in SUBSET S /\ U \cap R = (T \cap R) \ {x}
      /\ IsFiniteSet(T) /\ IsFiniteSet(U) /\ IsFiniteSet(U \cap R) /\ IsFiniteSet(T \cap R)
  BY FS_Subset
<1>5. SumFunctionOnSet(w, T) = w[x] + SumFunctionOnSet(w, U)
  BY <1>4, SumWithout
<1>6. SumFunctionOnSet(v, U \cap R) <= SumFunctionOnSet(w, U)
  BY <1>1, <1>3, <1>4
<1>7. SumFunctionOnSet(v, U \cap R) \in Nat /\ SumFunctionOnSet(w, U) \in Nat
  BY <1>4, SumIs
<1>8. CASE x \in R
  <2>1. SumFunctionOnSet(v, T \cap R) = v[x] + SumFunctionOnSet(v, U \cap R)
    BY <1>4, <1>8, SumWithout
  <2>2. v[x] \in Nat /\ w[x] \in Nat /\ v[x] <= w[x]
    BY <1>4, <1>8
  <2> HIDE DEF U
  <2>3. SumFunctionOnSet(v, T \cap R) <= SumFunctionOnSet(w, T)
    BY <1>5, <1>6, <1>7, <2>1, <2>2
  <2> QED BY <1>1, <2>3
<1>9. CASE x \notin R
  <2>1. SumFunctionOnSet(v, T \cap R) = SumFunctionOnSet(v, U \cap R)
    <3>1. T \cap R = U \cap R
      BY <1>9
    <3> QED BY <3>1
  <2>2. w[x] \in Nat
    BY <1>4
  <2> HIDE DEF U
  <2>3. SumFunctionOnSet(v, T \cap R) <= SumFunctionOnSet(w, T)
    BY <1>5, <1>6, <1>7, <2>1, <2>2
  <2> QED BY <1>1, <2>3
<1> QED BY <1>8, <1>9

\* The sum of a set of numbers.
LEMMA SumSetIs ==
  ASSUME NEW S, IsFiniteSet(S)
  PROVE  SumSet(S) = SumFunctionOnSet([x \in S |-> x], S)
<1> DEFINE v == [x \in S |-> x]
           Plain(g) == g = [s \in SUBSET S |-> IF s = {} THEN 0 ELSE AnyOf(s) + g[s \ {AnyOf(s)}]]
           h == CHOOSE g : Plain(g)
           k == CHOOSE g : SumsUp(v, S, g)
<1>1. SumSet(S) = h[S]
  BY DEF SumSet, FoldSet, MapThenFoldSet, AnyOf
<1>2. SumFunctionOnSet(v, S) = k[S]
  BY DEF SumFunctionOnSet, FoldFunctionOnSet, MapThenFoldSet, SumsUp, AnyOf
<1>3. \A s \in SUBSET S : s # {} => AnyOf(s) \in S /\ v[AnyOf(s)] = AnyOf(s)
  BY DEF AnyOf
<1>4. \A g : Plain(g) <=> SumsUp(v, S, g)
  <2> HIDE DEF v
  <2>1. \A g : [s \in SUBSET S |-> IF s = {} THEN 0 ELSE AnyOf(s) + g[s \ {AnyOf(s)}]]
             = [s \in SUBSET S |-> IF s = {} THEN 0 ELSE v[AnyOf(s)] + g[s \ {AnyOf(s)}]]
    BY <1>3
  <2> QED BY <2>1 DEF SumsUp
<1>5. \E g : SumsUp(v, S, g)
  BY SumsExist
<1>6. SumsUp(v, S, h) /\ SumsUp(v, S, k)
  <2> HIDE DEF v, Plain
  <2> QED BY <1>4, <1>5
<1> HIDE DEF h, k, v
<1>7. h[S] = k[S]
  BY <1>6, SumsAgree
<1> QED BY <1>1, <1>2, <1>7 DEF v

-----------------------------------------------------------------------------
\* What holds at first and stays holds to the end.
LEMMA UpTo ==
  ASSUME NEW n \in Nat, NEW G, 0 \in G, \A i \in 1..n : i - 1 \in G => i \in G
  PROVE  \A i \in 0..n : i \in G
<1> DEFINE B == {i \in 0..n : i \notin G}
<1> SUFFICES ASSUME B # {} PROVE FALSE
  OBVIOUS
<1>1. B \subseteq Nat
  OBVIOUS
<1>2. PICK i \in B : \A j \in B : <<j, i>> \notin OpToRel(<, Nat)
  <2> HIDE DEF B
  <2> QED BY <1>1, NatLessThanWellFounded, WFMin
<1>3. i - 1 \in 0..n
  OBVIOUS
<1>4. i \in 1..n /\ i - 1 \notin G
  OBVIOUS
<1>5. i - 1 \in B
  BY <1>3, <1>4
<1>6. i - 1 < i /\ i - 1 \in Nat /\ i \in Nat
  BY <1>4
<1>7. <<i - 1, i>> \in OpToRel(<, Nat)
  BY <1>6 DEF OpToRel
<1> HIDE DEF B
<1> QED BY <1>2, <1>5, <1>7

\* A set of positions has a last one.
LEMMA MaxIs ==
  ASSUME NEW n \in Nat, NEW S \in SUBSET (0..n), S # {}
  PROVE  Max(S) \in S /\ \A i \in S : i <= Max(S)
<1> DEFINE G == {k \in 0..n : \A R \in SUBSET (0..k) :
                   R # {} => \E m \in R : \A i \in R : m >= i}
<1>1. 0 \in G
  <2>1. \A i \in 0..0 : i = 0
    OBVIOUS
  <2>2. ASSUME NEW R \in SUBSET (0..0), R # {} PROVE \E m \in R : \A i \in R : m >= i
    <3>1. \A i \in R : i = 0
      BY <2>1
    <3>2. PICK m \in R : TRUE
      BY <2>2
    <3>3. \A i \in R : m >= i
      BY <3>1, <3>2
    <3> QED BY <3>3
  <2>3. 0 \in 0..n
    OBVIOUS
  <2> QED BY <2>2, <2>3
<1>2. ASSUME NEW k \in 1..n, k - 1 \in G PROVE k \in G
  <2> SUFFICES ASSUME NEW R \in SUBSET (0..k), R # {}
               PROVE  \E m \in R : \A i \in R : m >= i
    OBVIOUS
  <2>1. CASE k \in R
    <3>1. \A i \in R : k >= i
      OBVIOUS
    <3> QED BY <2>1, <3>1
  <2>2. CASE k \notin R
    <3>1. R \in SUBSET (0..k - 1)
      BY <2>2
    <3> QED BY <1>2, <3>1
  <2> QED BY <2>1, <2>2
<1>3. n \in G
  <2> HIDE DEF G
  <2> QED BY <1>1, <1>2, UpTo
<1>4. \E m \in S : \A i \in S : m >= i
  BY <1>3
<1>5. Max(S) \in S /\ \A i \in S : Max(S) >= i
  BY <1>4 DEF Max
<1> QED BY <1>5

\* The last of the first positions, and what lies before it.
LEMMA MaxOfAll ==
  ASSUME NEW i \in Nat, i > 0
  PROVE  1..i # {} /\ Max(1..i) = i /\ (1..i) \ {i} = 1..i - 1
<1>1. 1..i \in SUBSET (0..i) /\ 1..i # {} /\ i \in 1..i
  OBVIOUS
<1>2. Max(1..i) \in 1..i /\ \A j \in 1..i : j <= Max(1..i)
  BY <1>1, MaxIs
<1>3. Max(1..i) = i
  BY <1>1, <1>2
<1> QED BY <1>1, <1>3

\* A fold from the left, in which o[i] is what position i does.
FoldsLeft(o, base, n, g) ==
    \A S \in SUBSET (1..n) : g[S] = IF S = {} THEN base ELSE o[Max(S)][g[S \ {Max(S)}]]

\* There is one if what it passes through is closed.
LEMMA FoldExists ==
  ASSUME NEW n \in Nat, NEW T, NEW o \in [1..n -> [T -> T]], NEW base \in T
  PROVE  \E g \in [SUBSET (1..n) -> T] : FoldsLeft(o, base, n, g)
<1> DEFINE G == {k \in 0..n : \E g \in [SUBSET (1..k) -> T] : FoldsLeft(o, base, k, g)}
<1>1. 0 \in G
  <2> DEFINE g == [S \in SUBSET (1..0) |-> base]
  <2>1. g \in [SUBSET (1..0) -> T] /\ FoldsLeft(o, base, 0, g)
    BY DEF FoldsLeft
  <2> QED BY <2>1
<1>2. ASSUME NEW k \in 1..n, k - 1 \in G PROVE k \in G
  <2>1. PICK g \in [SUBSET (1..k - 1) -> T] : FoldsLeft(o, base, k - 1, g)
    BY <1>2
  <2> DEFINE h == [S \in SUBSET (1..k) |-> IF k \in S THEN o[k][g[S \ {k}]] ELSE g[S]]
  <2>2. \A S \in SUBSET (1..k) : /\ k \in S => S \ {k} \in SUBSET (1..k - 1)
                                /\ k \notin S => S \in SUBSET (1..k - 1)
    OBVIOUS
  <2>3. h \in [SUBSET (1..k) -> T]
    BY <2>2
  <2>4. ASSUME NEW S \in SUBSET (1..k)
        PROVE  h[S] = IF S = {} THEN base ELSE o[Max(S)][h[S \ {Max(S)}]]
    <3>1. CASE k \in S
      <4>1. Max(S) = k
        <5>1. k \in Nat /\ S # {} /\ S \in SUBSET (0..k)
          BY <3>1
        <5>2. Max(S) \in S /\ \A i \in S : i <= Max(S)
          BY <5>1, MaxIs
        <5>3. k <= Max(S) /\ Max(S) \in 0..k
          BY <3>1, <5>1, <5>2
        <5> QED BY <5>1, <5>3
      <4>2. h[S \ {k}] = g[S \ {k}]
        BY <2>2, <3>1
      <4> QED BY <3>1, <4>1, <4>2
    <3>2. CASE k \notin S
      <4>1. S \in SUBSET (1..k - 1)
        BY <2>2, <3>2
      <4>2. S # {} => Max(S) \in S
        <5>1. k \in Nat /\ S \in SUBSET (0..k)
          OBVIOUS
        <5> QED BY <5>1, MaxIs
      <4>3. g[S] = IF S = {} THEN base ELSE o[Max(S)][g[S \ {Max(S)}]]
        BY <2>1, <4>1 DEF FoldsLeft
      <4>4. h[S] = g[S] /\ h[S \ {Max(S)}] = g[S \ {Max(S)}]
        BY <3>2
      <4> QED BY <4>3, <4>4
    <3> QED BY <3>1, <3>2
  <2>5. FoldsLeft(o, base, k, h)
    <3> HIDE DEF h
    <3> QED BY <2>4 DEF FoldsLeft
  <2> HIDE DEF h
  <2> QED BY <2>3, <2>5
<1>3. \A i \in 0..n : i \in G
  <2>1. \A i \in 1..n : i - 1 \in G => i \in G
    BY <1>2
  <2> HIDE DEF G
  <2> QED BY <1>1, <2>1, UpTo
<1>4. n \in G
  <2>1. n \in 0..n
    OBVIOUS
  <2> HIDE DEF G
  <2> QED BY <1>3, <2>1
<1> QED BY <1>4

\* The same of a function that folds as long as what it has is in T.
FoldsWithin(T, o, base, n, g) ==
    /\ g[{}] = base
    /\ \A S \in SUBSET (1..n) :
          S # {} /\ g[S \ {Max(S)}] \in T => g[S] = o[Max(S)][g[S \ {Max(S)}]]

\* h[i] is what was made of the first i positions.
IsRun(o, base, n, h) == h[0] = base /\ \A i \in 1..n : h[i] = o[i][h[i - 1]]

\* Whatever such a function does elsewhere, it ends where a run of steps does.
LEMMA FoldRuns ==
  ASSUME NEW n \in Nat, NEW T, NEW o \in [1..n -> [T -> T]], NEW base \in T, NEW g,
         FoldsWithin(T, o, base, n, g)
  PROVE  \E h \in [0..n -> T] : IsRun(o, base, n, h) /\ h[n] = g[1..n]
<1> USE DEF FoldsWithin, IsRun
<1> DEFINE h == [i \in 0..n |-> g[1..i]]
           G == {i \in 0..n : g[1..i] \in T}
<1>1. ASSUME NEW i \in 1..n, g[1..i - 1] \in T PROVE g[1..i] = o[i][g[1..i - 1]]
  <2>1. i \in Nat /\ i > 0 /\ 1..i \in SUBSET (1..n)
    OBVIOUS
  <2>2. 1..i # {} /\ Max(1..i) = i /\ (1..i) \ {i} = 1..i - 1
    BY <2>1, MaxOfAll
  <2> QED BY <1>1, <2>1, <2>2
<1>2. g[1..0] = base
  <2>1. 1..0 = {}
    OBVIOUS
  <2> QED BY <2>1
<1>3. \A i \in 0..n : i \in G
  <2>1. 0 \in G
    BY <1>2
  <2>2. ASSUME NEW i \in 1..n, i - 1 \in G PROVE i \in G
    <3>1. g[1..i - 1] \in T
      BY <2>2
    <3>2. g[1..i] = o[i][g[1..i - 1]] /\ o[i] \in [T -> T]
      BY <1>1, <3>1
    <3> QED BY <3>1, <3>2
  <2> HIDE DEF G
  <2> QED BY <2>1, <2>2, UpTo
<1>4. h \in [0..n -> T] /\ h[0] = base /\ h[n] = g[1..n]
  BY <1>2, <1>3
<1>5. ASSUME NEW i \in 1..n PROVE h[i] = o[i][h[i - 1]]
  <2>1. i \in 0..n /\ i - 1 \in 0..n
    OBVIOUS
  <2>2. g[1..i - 1] \in T
    BY <1>3, <2>1
  <2> QED BY <1>1, <2>1, <2>2
<1> HIDE DEF h
<1> QED BY <1>4, <1>5
=============================================================================
