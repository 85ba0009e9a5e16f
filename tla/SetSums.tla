------------------------------- MODULE SetSums -------------------------------
(***************************************************************************)
(* Sums over finite sets and extremes of sets of numbers: what the proofs  *)
(* about balances, payouts and periods rest on.  A claim about all finite  *)
(* sets is proved from a least counterexample.                             *)
(***************************************************************************)
EXTENDS Integers, FiniteSets, Functions, FiniteSetTheorems, WellFoundedInduction, TLAPS

LEMMA LeastNat == ASSUME NEW S \in SUBSET Nat, S # {} PROVE \E x \in S : \A y \in S : x <= y
<1> DEFINE less == {ss \in Nat \X Nat : ss[1] < ss[2]}
<1>1. IsWellFoundedOn(less, Nat)
  BY NatLessThanWellFounded DEF OpToRel
<1>2. \A x, y \in Nat : <<y, x>> \in less <=> y < x
  OBVIOUS
<1> HIDE DEF less
<1>3. PICK x \in S : \A y \in S : ~(<<y, x>> \in less)
  BY <1>1, WFMin
<1>4. \A y \in S : x <= y
  <2> TAKE y \in S
  <2>1. x \in Nat /\ y \in Nat /\ ~(y < x)
    BY <1>2, <1>3
  <2> QED BY <2>1
<1> QED BY <1>4

LEMMA GreatestNat ==
  ASSUME NEW S \in SUBSET Nat, S # {}, NEW n \in Nat, \A y \in S : y <= n
  PROVE  \E x \in S : \A y \in S : x >= y
<1> DEFINE T == {n - y : y \in S}
<1>1. PICK z \in T : \A y \in T : z <= y
  <2>1. T \in SUBSET Nat /\ T # {}
    <3>1. \A y \in S : n - y \in Nat
      OBVIOUS
    <3> QED BY <3>1
  <2> HIDE DEF T
  <2> QED BY <2>1, LeastNat
<1>2. PICK x \in S : z = n - x
  OBVIOUS
<1>3. \A y \in S : z <= n - y
  BY <1>1
<1> QED BY <1>2, <1>3

\* Of the finite sets that satisfy a condition, given as a set of sets, one is least.
LEMMA LeastSet ==
  ASSUME NEW S, IsFiniteSet(S), NEW B \in SUBSET (SUBSET S), B # {}
  PROVE  \E T \in B : IsFiniteSet(T) /\ \A U \in B : ~(U \subseteq T /\ U # T)
<1>1. \A T \in SUBSET S : IsFiniteSet(T)
  BY FS_Subset
<1>2. B \subseteq FiniteSubsetsOf(S)
  BY <1>1 DEF FiniteSubsetsOf
<1>3. PICK T \in B : \A U \in B : ~(<<U, T>> \in StrictSubsetOrdering(S))
  BY <1>2, WFMin, FS_StrictSubsetOrderingWellFounded
<1> QED BY <1>1, <1>3 DEF StrictSubsetOrdering

\* Induction over the subsets of a finite set, for a condition given as a set of sets.
LEMMA SubsetInduction ==
  ASSUME NEW S, IsFiniteSet(S), NEW G, {} \in G,
         \A s \in SUBSET S : s # {} => \E x \in s : s \ {x} \in G => s \in G
  PROVE  S \in G
<1> DEFINE B == {T \in SUBSET S : T \notin G}
<1>1. ASSUME B # {} PROVE FALSE
  <2>1. B \in SUBSET (SUBSET S)
    OBVIOUS
  <2>2. PICK T \in B : IsFiniteSet(T) /\ \A U \in B : ~(U \subseteq T /\ U # T)
    <3> HIDE DEF B
    <3> QED BY <1>1, <2>1, LeastSet
  <2>3. T # {} /\ T \in SUBSET S /\ T \notin G
    BY <2>2
  <2>4. PICK x \in T : T \ {x} \in G => T \in G
    BY <2>3
  <2>5. T \ {x} \in SUBSET S /\ T \ {x} \subseteq T /\ T \ {x} # T
    BY <2>3, <2>4
  <2>6. T \ {x} \notin B
    BY <2>2, <2>5
  <2>7. T \ {x} \in G
    BY <2>5, <2>6
  <2> QED BY <2>3, <2>4, <2>7
<1>2. S \notin B
  BY <1>1
<1> QED BY <1>2

-----------------------------------------------------------------------------
\* The recursion behind SumFunctionOnSet: g sums up f over every subset of S.
Pick(s) == CHOOSE x \in s : TRUE
SumsUp(f, S, g) == g = [s \in SUBSET S |-> IF s = {} THEN 0 ELSE f[Pick(s)] + g[s \ {Pick(s)}]]

LEMMA PickIn == ASSUME NEW s, s # {} PROVE Pick(s) \in s
BY DEF Pick

LEMMA SumIsChosen ==
  ASSUME NEW f, NEW S PROVE SumFunctionOnSet(f, S) = (CHOOSE g : SumsUp(f, S, g))[S]
BY DEF SumFunctionOnSet, FoldFunctionOnSet, MapThenFoldSet, SumsUp, Pick

LEMMA SumsOfSubset ==
  ASSUME NEW f, NEW S, NEW g, SumsUp(f, S, g), NEW T, T \subseteq S
  PROVE  SumsUp(f, T, [s \in SUBSET T |-> g[s]])
<1>1. \A s \in SUBSET T : s \in SUBSET S /\ s \ {Pick(s)} \in SUBSET T
  OBVIOUS
<1> HIDE DEF Pick
<1> QED BY <1>1 DEF SumsUp

LEMMA SumsAgree ==
  ASSUME NEW f, NEW S, IsFiniteSet(S), NEW g, SumsUp(f, S, g), NEW h, SumsUp(f, S, h)
  PROVE  g = h
<1> DEFINE B == {s \in SUBSET S : g[s] # h[s]}
<1>1. ASSUME B # {} PROVE FALSE
  <2>1. B \in SUBSET (SUBSET S)
    OBVIOUS
  <2>2. PICK T \in B : \A U \in B : ~(U \subseteq T /\ U # T)
    <3> HIDE DEF B
    <3> QED BY <1>1, <2>1, LeastSet
  <2>3. T # {}
    BY <2>2 DEF SumsUp
  <2>4. T \ {Pick(T)} \in SUBSET S /\ T \ {Pick(T)} \subseteq T /\ T \ {Pick(T)} # T
    BY <2>2, <2>3, PickIn
  <2>5. g[T \ {Pick(T)}] = h[T \ {Pick(T)}]
    BY <2>2, <2>4
  <2> QED BY <2>2, <2>3, <2>5 DEF SumsUp
<1>2. \A s \in SUBSET S : g[s] = h[s]
  BY <1>1
<1>3. g = [s \in SUBSET S |-> g[s]] /\ h = [s \in SUBSET S |-> h[s]]
  BY DEF SumsUp
<1> QED BY <1>2, <1>3

LEMMA SumsExist == ASSUME NEW f, NEW S, IsFiniteSet(S) PROVE \E g : SumsUp(f, S, g)
<1> DEFINE Solves(T, g) == SumsUp(f, T, g)
           B == {T \in SUBSET S : \A g : ~Solves(T, g)}
<1>1. ASSUME B # {} PROVE FALSE
  <2>1. B \in SUBSET (SUBSET S)
    OBVIOUS
  <2>2. PICK T \in B : IsFiniteSet(T) /\ \A U \in B : ~(U \subseteq T /\ U # T)
    <3> HIDE DEF B
    <3> QED BY <1>1, <2>1, LeastSet
  <2> DEFINE below == (SUBSET T) \ {T}
             sum(u) == CHOOSE g : Solves(u, g)
             first == Pick(T)
             g == [s \in SUBSET T |-> IF s = {} THEN 0 ELSE IF s = T THEN f[first] + sum(T \ {first})[T \ {first}] ELSE sum(s)[s]]
  <2>3. \A u \in below : Solves(u, sum(u))
    <3> SUFFICES ASSUME NEW u \in below PROVE Solves(u, sum(u))
      OBVIOUS
    <3>1. \E h : Solves(u, h)
      BY <2>2
    <3> HIDE DEF Solves
    <3> QED BY <3>1
  <2> HIDE DEF sum
  <2>4. \A u, v \in below : v \subseteq u => sum(u)[v] = sum(v)[v]
    <3> SUFFICES ASSUME NEW u \in below, NEW v \in below, v \subseteq u PROVE sum(u)[v] = sum(v)[v]
      OBVIOUS
    <3> DEFINE h == [s \in SUBSET v |-> sum(u)[s]]
    <3>1. SumsUp(f, v, h)
      BY <2>3, SumsOfSubset
    <3>2. IsFiniteSet(v)
      BY <2>2, FS_Subset
    <3>3. h = sum(v)
      <4> HIDE DEF h
      <4> QED BY <2>3, <3>1, <3>2, SumsAgree
    <3>4. h[v] = sum(u)[v]
      OBVIOUS
    <3> QED BY <3>3, <3>4
  <2>5. \A s \in below : s # {} => s \ {Pick(s)} \in below /\ sum(s)[s] = f[Pick(s)] + sum(s \ {Pick(s)})[s \ {Pick(s)}]
    <3> SUFFICES ASSUME NEW s \in below, s # {}
                 PROVE  s \ {Pick(s)} \in below /\ sum(s)[s] = f[Pick(s)] + sum(s \ {Pick(s)})[s \ {Pick(s)}]
      OBVIOUS
    <3>1. s \ {Pick(s)} \in below /\ s \ {Pick(s)} \in SUBSET s
      BY PickIn
    <3>2. sum(s)[s] = f[Pick(s)] + sum(s)[s \ {Pick(s)}]
      BY <2>3 DEF SumsUp
    <3> QED BY <2>4, <3>1, <3>2
  <2>6. T # {} => T \ {first} \in below
    BY PickIn
  <2>7. \A s \in below : g[s] = sum(s)[s]
    <3>1. {} \in below => sum({})[{}] = 0
      BY <2>3 DEF SumsUp
    <3> QED BY <3>1
  <2>8. \A s \in SUBSET T : g[s] = IF s = {} THEN 0 ELSE f[Pick(s)] + g[s \ {Pick(s)}]
    <3> SUFFICES ASSUME NEW s \in SUBSET T, s # {} PROVE g[s] = f[Pick(s)] + g[s \ {Pick(s)}]
      OBVIOUS
    <3>1. CASE s = T
      <4>1. g[s] = f[first] + sum(T \ {first})[T \ {first}]
        BY <3>1
      <4> HIDE DEF g
      <4> QED BY <2>6, <2>7, <3>1, <4>1
    <3>2. CASE s # T
      <4> HIDE DEF g
      <4> QED BY <2>5, <2>7, <3>2
    <3> QED BY <3>1, <3>2
  <2>9. SumsUp(f, T, g)
    BY <2>8 DEF SumsUp
  <2> QED BY <2>2, <2>9
<1> QED BY <1>1

LEMMA SumUnfolds ==
  ASSUME NEW f, NEW S, IsFiniteSet(S)
  PROVE  SumFunctionOnSet(f, S) = IF S = {} THEN 0 ELSE f[Pick(S)] + SumFunctionOnSet(f, S \ {Pick(S)})
<1> DEFINE Solves(T, g) == SumsUp(f, T, g)
           sum(T) == CHOOSE g : Solves(T, g)
<1>1. ASSUME NEW T, IsFiniteSet(T) PROVE Solves(T, sum(T))
  <2>1. \E g : Solves(T, g)
    BY <1>1, SumsExist
  <2> HIDE DEF Solves
  <2> QED BY <2>1
<1>2. \A T : SumFunctionOnSet(f, T) = sum(T)[T]
  BY SumIsChosen
<1> HIDE DEF sum
<1>3. CASE S = {}
  BY <1>1, <1>2, <1>3 DEF SumsUp
<1>4. CASE S # {}
  <2> DEFINE T == S \ {Pick(S)}
             h == [s \in SUBSET T |-> sum(S)[s]]
  <2>1. IsFiniteSet(T) /\ T \subseteq S
    BY FS_RemoveElement
  <2>2. sum(S)[S] = f[Pick(S)] + sum(S)[T]
    BY <1>1, <1>4 DEF SumsUp
  <2>3. SumsUp(f, T, h)
    BY <1>1, <2>1, SumsOfSubset
  <2>4. h[T] = sum(S)[T]
    OBVIOUS
  <2>5. h = sum(T)
    <3> HIDE DEF h, T
    <3> QED BY <1>1, <2>1, <2>3, SumsAgree
  <2> QED BY <1>2, <1>4, <2>2, <2>4, <2>5
<1> QED BY <1>3, <1>4

-----------------------------------------------------------------------------
LEMMA SumEmpty == ASSUME NEW f PROVE SumFunctionOnSet(f, {}) = 0
BY SumUnfolds, FS_EmptySet

\* A sum depends on the values of f in S only.
LEMMA SumEqual ==
  ASSUME NEW f, NEW g, NEW S, IsFiniteSet(S), \A x \in S : f[x] = g[x]
  PROVE  SumFunctionOnSet(f, S) = SumFunctionOnSet(g, S)
<1> DEFINE B == {T \in SUBSET S : SumFunctionOnSet(f, T) # SumFunctionOnSet(g, T)}
<1>1. ASSUME B # {} PROVE FALSE
  <2>1. B \in SUBSET (SUBSET S)
    OBVIOUS
  <2>2. PICK T \in B : IsFiniteSet(T) /\ \A U \in B : ~(U \subseteq T /\ U # T)
    <3> HIDE DEF B
    <3> QED BY <1>1, <2>1, LeastSet
  <2>3. T # {}
    BY <2>2, SumEmpty
  <2> DEFINE x == Pick(T)
  <2>4. x \in T
    BY <2>3, PickIn
  <2> HIDE DEF x
  <2>5. SumFunctionOnSet(f, T \ {x}) = SumFunctionOnSet(g, T \ {x})
    BY <2>2, <2>4
  <2> QED BY <2>2, <2>3, <2>4, <2>5, SumUnfolds DEF x
<1> QED BY <1>1

LEMMA SumInt ==
  ASSUME NEW f, NEW S, IsFiniteSet(S), \A x \in S : f[x] \in Int
  PROVE  SumFunctionOnSet(f, S) \in Int
<1> DEFINE B == {T \in SUBSET S : SumFunctionOnSet(f, T) \notin Int}
<1>1. ASSUME B # {} PROVE FALSE
  <2>1. B \in SUBSET (SUBSET S)
    OBVIOUS
  <2>2. PICK T \in B : IsFiniteSet(T) /\ \A U \in B : ~(U \subseteq T /\ U # T)
    <3> HIDE DEF B
    <3> QED BY <1>1, <2>1, LeastSet
  <2>3. T # {}
    BY <2>2, SumEmpty
  <2> DEFINE x == Pick(T)
  <2>4. x \in T
    BY <2>3, PickIn
  <2> HIDE DEF x
  <2>5. SumFunctionOnSet(f, T \ {x}) \in Int /\ f[x] \in Int
    BY <2>2, <2>4
  <2>6. SumFunctionOnSet(f, T) = f[x] + SumFunctionOnSet(f, T \ {x})
    BY <2>2, <2>3, SumUnfolds DEF x
  <2>7. SumFunctionOnSet(f, T) \in Int
    BY <2>5, <2>6
  <2> QED BY <2>2, <2>7
<1> QED BY <1>1

\* Any element can be taken out.
LEMMA SumRemove ==
  ASSUME NEW f, NEW S, IsFiniteSet(S), \A x \in S : f[x] \in Int, NEW y \in S
  PROVE  SumFunctionOnSet(f, S) = f[y] + SumFunctionOnSet(f, S \ {y})
<1> DEFINE Sum(T) == SumFunctionOnSet(f, T)
           B == {T \in SUBSET S : \E z \in T : Sum(T) # f[z] + Sum(T \ {z})}
<1>0. \A T \in SUBSET S : IsFiniteSet(T) /\ Sum(T) \in Int
  BY FS_Subset, SumInt
<1>1. ASSUME B # {} PROVE FALSE
  <2>1. B \in SUBSET (SUBSET S)
    OBVIOUS
  <2>2. PICK T \in B : IsFiniteSet(T) /\ \A U \in B : ~(U \subseteq T /\ U # T)
    <3> HIDE DEF B
    <3> QED BY <1>1, <2>1, LeastSet
  <2>3. PICK z \in T : Sum(T) # f[z] + Sum(T \ {z})
    BY <2>2
  <2> DEFINE x == Pick(T)
  <2>4. x \in T /\ T \in SUBSET S
    BY <2>2, <2>3, PickIn
  <2>5. Sum(T) = f[x] + Sum(T \ {x})
    BY <2>2, <2>3, SumUnfolds
  <2> HIDE DEF x
  <2>6. z # x
    BY <2>3, <2>5
  <2> HIDE DEF Sum
  <2>6a. \A U \in SUBSET T : U # T => \A u \in U : Sum(U) = f[u] + Sum(U \ {u})
    BY <2>2, <2>4
  <2>7. Sum(T \ {x}) = f[z] + Sum((T \ {x}) \ {z})
    BY <2>3, <2>4, <2>6, <2>6a
  <2>8. (T \ {z}) \ {x} = (T \ {x}) \ {z}
    OBVIOUS
  <2>9. Sum(T \ {z}) = f[x] + Sum((T \ {x}) \ {z})
    BY <2>3, <2>4, <2>6, <2>6a, <2>8
  <2>10. f[x] \in Int /\ f[z] \in Int /\ Sum((T \ {x}) \ {z}) \in Int
    BY <1>0, <2>4, <2>3
  <2> QED BY <2>3, <2>5, <2>7, <2>9, <2>10
<1> HIDE DEF Sum
<1>2. S \notin B
  BY <1>1
<1>3. Sum(S) = f[y] + Sum(S \ {y})
  BY <1>2
<1> QED BY <1>3 DEF Sum

LEMMA SumAdd ==
  ASSUME NEW f, NEW S, IsFiniteSet(S), NEW y, y \notin S, \A x \in S \cup {y} : f[x] \in Int
  PROVE  SumFunctionOnSet(f, S \cup {y}) = SumFunctionOnSet(f, S) + f[y]
<1>1. IsFiniteSet(S \cup {y}) /\ (S \cup {y}) \ {y} = S
  BY FS_AddElement
<1>2. SumFunctionOnSet(f, S \cup {y}) = f[y] + SumFunctionOnSet(f, S)
  BY <1>1, SumRemove
<1>3. SumFunctionOnSet(f, S) \in Int /\ f[y] \in Int
  BY SumInt
<1> QED BY <1>2, <1>3

\* The sum follows the one value that changes.
LEMMA SumChange ==
  ASSUME NEW f, NEW g, NEW S, IsFiniteSet(S), NEW y \in S,
         \A x \in S : f[x] \in Int /\ g[x] \in Int, \A x \in S \ {y} : g[x] = f[x]
  PROVE  SumFunctionOnSet(g, S) = SumFunctionOnSet(f, S) - f[y] + g[y]
<1>1. IsFiniteSet(S \ {y})
  BY FS_RemoveElement
<1>2. SumFunctionOnSet(g, S \ {y}) = SumFunctionOnSet(f, S \ {y}) /\ SumFunctionOnSet(f, S \ {y}) \in Int
  BY <1>1, SumEqual, SumInt
<1>3. SumFunctionOnSet(f, S) = f[y] + SumFunctionOnSet(f, S \ {y}) /\ SumFunctionOnSet(g, S) = g[y] + SumFunctionOnSet(g, S \ {y})
  BY SumRemove
<1> QED BY <1>2, <1>3

LEMMA SumZero ==
  ASSUME NEW f, NEW S, IsFiniteSet(S), \A x \in S : f[x] = 0
  PROVE  SumFunctionOnSet(f, S) = 0
<1> DEFINE B == {T \in SUBSET S : SumFunctionOnSet(f, T) # 0}
<1>1. ASSUME B # {} PROVE FALSE
  <2>1. B \in SUBSET (SUBSET S)
    OBVIOUS
  <2>2. PICK T \in B : IsFiniteSet(T) /\ \A U \in B : ~(U \subseteq T /\ U # T)
    <3> HIDE DEF B
    <3> QED BY <1>1, <2>1, LeastSet
  <2>3. T # {}
    BY <2>2, SumEmpty
  <2> DEFINE x == Pick(T)
  <2>4. x \in T
    BY <2>3, PickIn
  <2> HIDE DEF x
  <2>5. SumFunctionOnSet(f, T \ {x}) = 0 /\ f[x] = 0
    BY <2>2, <2>4
  <2> QED BY <2>2, <2>3, <2>5, SumUnfolds DEF x
<1> QED BY <1>1

-----------------------------------------------------------------------------
\* A collection of subsets of S that holds {} and grows by any element holds S.
LEMMA SubsetsGrow ==
  ASSUME NEW S, IsFiniteSet(S), NEW G \in SUBSET (SUBSET S), {} \in G,
         \A U \in G, y \in S : y \notin U => U \cup {y} \in G
  PROVE  S \in G
<1> DEFINE B == (SUBSET S) \ G
<1>1. ASSUME B # {} PROVE FALSE
  <2>1. B \in SUBSET (SUBSET S)
    OBVIOUS
  <2>2. PICK T \in B : IsFiniteSet(T) /\ \A U \in B : ~(U \subseteq T /\ U # T)
    <3> HIDE DEF B
    <3> QED BY <1>1, <2>1, LeastSet
  <2>3. PICK y \in T : TRUE
    BY <2>2
  <2>4. T \ {y} \in G /\ y \in S /\ (T \ {y}) \cup {y} = T
    BY <2>2, <2>3
  <2>5. T \in G
    BY <2>4
  <2> QED BY <2>2, <2>5
<1> QED BY <1>1

\* Two sets apart are summed up one by one.
LEMMA SumUnion ==
  ASSUME NEW f, NEW S, IsFiniteSet(S), NEW T, IsFiniteSet(T), S \cap T = {}, \A x \in S \cup T : f[x] \in Int
  PROVE  IsFiniteSet(S \cup T) /\ SumFunctionOnSet(f, S \cup T) = SumFunctionOnSet(f, S) + SumFunctionOnSet(f, T)
<1> DEFINE G == {U \in SUBSET T : SumFunctionOnSet(f, S \cup U) = SumFunctionOnSet(f, S) + SumFunctionOnSet(f, U)}
<1>1. {} \in G
  BY SumEmpty, SumInt
<1>2. ASSUME NEW U \in G, NEW y \in T, y \notin U PROVE U \cup {y} \in G
  <2>1. IsFiniteSet(U) /\ IsFiniteSet(S \cup U) /\ y \notin S \cup U /\ S \cup (U \cup {y}) = (S \cup U) \cup {y}
    BY <1>2, FS_Subset, FS_Union
  <2>2. SumFunctionOnSet(f, (S \cup U) \cup {y}) = SumFunctionOnSet(f, S \cup U) + f[y]
    BY <2>1, SumAdd
  <2>3. SumFunctionOnSet(f, U \cup {y}) = SumFunctionOnSet(f, U) + f[y]
    BY <1>2, <2>1, SumAdd
  <2>4. SumFunctionOnSet(f, S) \in Int /\ SumFunctionOnSet(f, U) \in Int /\ f[y] \in Int
    BY <2>1, SumInt
  <2>5. SumFunctionOnSet(f, S \cup U) = SumFunctionOnSet(f, S) + SumFunctionOnSet(f, U)
    BY <1>2
  <2>6. SumFunctionOnSet(f, S \cup (U \cup {y})) = SumFunctionOnSet(f, S) + SumFunctionOnSet(f, U \cup {y})
    <3>1. PICK a \in Int, b \in Int, c \in Int : a = SumFunctionOnSet(f, S) /\ b = SumFunctionOnSet(f, U) /\ c = f[y]
      BY <2>4
    <3>2. PICK V : V = S \cup (U \cup {y}) /\ V = (S \cup U) \cup {y}
      BY <2>1
    <3>3. SumFunctionOnSet(f, V) = (a + b) + c
      BY <2>2, <2>5, <3>1, <3>2
    <3>4. SumFunctionOnSet(f, U \cup {y}) = b + c
      BY <2>3, <3>1
    <3>5. (a + b) + c = a + (b + c)
      BY <3>1
    <3> QED BY <3>1, <3>2, <3>3, <3>4, <3>5
  <2> QED BY <2>6
<1>3. T \in G
  <2>1. G \in SUBSET (SUBSET T)
    OBVIOUS
  <2> HIDE DEF G
  <2> QED BY <1>1, <1>2, <2>1, SubsetsGrow
<1> QED BY <1>3, FS_Union

\* What adds nothing may be left out.
LEMMA SumOmit ==
  ASSUME NEW f, NEW S, IsFiniteSet(S), NEW T \in SUBSET S, \A x \in T : f[x] \in Int, \A x \in S \ T : f[x] = 0
  PROVE  IsFiniteSet(T) /\ SumFunctionOnSet(f, S) = SumFunctionOnSet(f, T)
<1>1. IsFiniteSet(T) /\ IsFiniteSet(S \ T) /\ S = T \cup (S \ T)
  BY FS_Subset
<1>2. SumFunctionOnSet(f, S \ T) = 0
  BY <1>1, SumZero
<1>3. SumFunctionOnSet(f, S) = SumFunctionOnSet(f, T) + SumFunctionOnSet(f, S \ T)
  <2>1. T \cap (S \ T) = {} /\ \A x \in T \cup (S \ T) : f[x] \in Int
    OBVIOUS
  <2> QED BY <1>1, <2>1, SumUnion
<1>4. SumFunctionOnSet(f, T) \in Int
  BY <1>1, SumInt
<1> QED BY <1>1, <1>2, <1>3, <1>4

LEMMA SumConstant ==
  ASSUME NEW f, NEW S, IsFiniteSet(S), NEW c \in Int, \A x \in S : f[x] = c
  PROVE  SumFunctionOnSet(f, S) = c * Cardinality(S)
<1> DEFINE G == {U \in SUBSET S : SumFunctionOnSet(f, U) = c * Cardinality(U)}
<1>1. {} \in G
  BY SumEmpty, FS_EmptySet
<1>2. ASSUME NEW U \in G, NEW y \in S, y \notin U PROVE U \cup {y} \in G
  <2>1. IsFiniteSet(U)
    BY FS_Subset
  <2>2. PICK n \in Nat : n = Cardinality(U)
    BY <2>1, FS_CardinalityType
  <2>3. Cardinality(U \cup {y}) = n + 1
    BY <1>2, <2>1, <2>2, FS_AddElement
  <2>4. SumFunctionOnSet(f, U \cup {y}) = c * n + c
    BY <1>2, <2>1, <2>2, SumAdd
  <2>5. c * (n + 1) = c * n + c
    OBVIOUS
  <2> QED BY <2>3, <2>4, <2>5
<1>3. S \in G
  <2>1. G \in SUBSET (SUBSET S)
    OBVIOUS
  <2> HIDE DEF G
  <2> QED BY <1>1, <1>2, <2>1, SubsetsGrow
<1> QED BY <1>3

\* A sum may be taken over the images of the elements.
Carries(h, S, T, f, g) ==
  /\ T = {h[x] : x \in S} /\ \A x, y \in S : h[x] = h[y] => x = y
  /\ \A x \in S : f[x] \in Int /\ g[h[x]] = f[x]
LEMMA SumMapped ==
  ASSUME NEW f, NEW S, IsFiniteSet(S), NEW h, NEW g, NEW T, Carries(h, S, T, f, g)
  PROVE  IsFiniteSet(T) /\ SumFunctionOnSet(g, T) = SumFunctionOnSet(f, S)
<1> DEFINE I(U) == {h[x] : x \in U}
           G == {U \in SUBSET S : IsFiniteSet(I(U)) /\ SumFunctionOnSet(g, I(U)) = SumFunctionOnSet(f, U)}
<1>0. T = I(S) /\ (\A x, y \in S : h[x] = h[y] => x = y) /\ \A x \in S : f[x] \in Int /\ g[h[x]] = f[x]
  BY DEF Carries
<1>1. {} \in G
  <2>1. I({}) = {}
    OBVIOUS
  <2> QED BY <2>1, SumEmpty, FS_EmptySet
<1>2. ASSUME NEW U \in G, NEW y \in S, y \notin U PROVE U \cup {y} \in G
  <2>1. IsFiniteSet(U) /\ U \in SUBSET S /\ IsFiniteSet(I(U)) /\ SumFunctionOnSet(g, I(U)) = SumFunctionOnSet(f, U)
    BY FS_Subset
  <2>2. I(U \cup {y}) = I(U) \cup {h[y]} /\ h[y] \notin I(U)
    BY <1>0, <1>2, <2>1
  <2>3. PICK J : J = I(U)
    OBVIOUS
  <2>4. PICK z : z = h[y]
    OBVIOUS
  <2>5. \A x \in J \cup {z} : g[x] \in Int
    BY <1>0, <2>1, <2>3, <2>4
  <2>6. IsFiniteSet(J) /\ z \notin J /\ SumFunctionOnSet(g, J) = SumFunctionOnSet(f, U) /\ g[z] = f[y]
    BY <1>0, <2>1, <2>2, <2>3, <2>4
  <2>7. SumFunctionOnSet(g, J \cup {z}) = SumFunctionOnSet(g, J) + g[z] /\ IsFiniteSet(J \cup {z})
    BY <2>5, <2>6, SumAdd, FS_AddElement
  <2>8. SumFunctionOnSet(f, U \cup {y}) = SumFunctionOnSet(f, U) + f[y]
    BY <1>0, <1>2, <2>1, SumAdd
  <2>9. I(U \cup {y}) = J \cup {z}
    BY <2>2, <2>3, <2>4
  <2> HIDE DEF I
  <2> QED BY <2>1, <2>6, <2>7, <2>8, <2>9
<1>3. S \in G
  <2>1. G \in SUBSET (SUBSET S)
    OBVIOUS
  <2> HIDE DEF G
  <2> QED BY <1>1, <1>2, <2>1, SubsetsGrow
<1> QED BY <1>0, <1>3

\* Sets apart from each other are summed up one by one.
Parts(A, R) == \A i, j \in A : i # j => R[i] \cap R[j] = {}
Sums(A, R, f, s) == \A i \in A : IsFiniteSet(R[i]) /\ s[i] = SumFunctionOnSet(f, R[i]) /\ \A x \in R[i] : f[x] \in Int
LEMMA SumUnions ==
  ASSUME NEW A, IsFiniteSet(A), NEW R, NEW f, NEW s, Sums(A, R, f, s), Parts(A, R)
  PROVE  IsFiniteSet(UNION {R[i] : i \in A}) /\ SumFunctionOnSet(f, UNION {R[i] : i \in A}) = SumFunctionOnSet(s, A)
<1> DEFINE I(U) == UNION {R[i] : i \in U}
           G == {U \in SUBSET A : IsFiniteSet(I(U)) /\ SumFunctionOnSet(f, I(U)) = SumFunctionOnSet(s, U)}
<1>1. {} \in G
  <2>1. I({}) = {}
    OBVIOUS
  <2> QED BY <2>1, SumEmpty, FS_EmptySet
<1>2. ASSUME NEW U \in G, NEW y \in A, y \notin U PROVE U \cup {y} \in G
  <2>1. IsFiniteSet(U) /\ U \in SUBSET A /\ IsFiniteSet(I(U)) /\ SumFunctionOnSet(f, I(U)) = SumFunctionOnSet(s, U)
    BY FS_Subset
  <2>2. I(U \cup {y}) = I(U) \cup R[y]
    OBVIOUS
  <2>3. I(U) \cap R[y] = {}
    BY <1>2, <2>1 DEF Parts
  <2>4. \A x \in I(U) \cup R[y] : f[x] \in Int
    BY <2>1 DEF Sums
  <2>5. PICK J, K : J = I(U) /\ K = R[y]
    OBVIOUS
  <2>6. IsFiniteSet(J \cup K) /\ SumFunctionOnSet(f, J \cup K) = SumFunctionOnSet(f, J) + SumFunctionOnSet(f, K)
    <3>1. IsFiniteSet(J) /\ IsFiniteSet(K) /\ J \cap K = {} /\ \A x \in J \cup K : f[x] \in Int
      BY <2>1, <2>3, <2>4, <2>5 DEF Sums
    <3> HIDE DEF G, I
    <3> QED BY <3>1, SumUnion
  <2>7. \A i \in U \cup {y} : s[i] \in Int
    BY <2>1, SumInt DEF Sums
  <2>8. SumFunctionOnSet(s, U \cup {y}) = SumFunctionOnSet(s, U) + s[y]
    BY <1>2, <2>1, <2>7, SumAdd
  <2>9. I(U \cup {y}) = J \cup K /\ s[y] = SumFunctionOnSet(f, K)
    BY <2>2, <2>5 DEF Sums
  <2> HIDE DEF I
  <2> QED BY <2>1, <2>5, <2>6, <2>8, <2>9
<1>3. A \in G
  <2>1. G \in SUBSET (SUBSET A)
    OBVIOUS
  <2> HIDE DEF G
  <2> QED BY <1>1, <1>2, <2>1, SubsetsGrow
<1> QED BY <1>3

\* Shares by weight, rounded down, are within what is shared out.
LEMMA SharesWithin ==
  ASSUME NEW A, IsFiniteSet(A), NEW pool \in Nat, NEW total \in Nat, NEW w, NEW a,
         \A i \in A : w[i] \in Nat /\ a[i] \in Nat /\ a[i] * total <= pool * w[i]
  PROVE  SumFunctionOnSet(a, A) \in Nat /\ SumFunctionOnSet(a, A) * total <= pool * SumFunctionOnSet(w, A)
<1> DEFINE G == {U \in SUBSET A : /\ SumFunctionOnSet(a, U) \in Nat /\ SumFunctionOnSet(w, U) \in Nat
                                  /\ SumFunctionOnSet(a, U) * total <= pool * SumFunctionOnSet(w, U)}
<1>1. {} \in G
  BY SumEmpty
<1>2. ASSUME NEW U \in G, NEW y \in A, y \notin U PROVE U \cup {y} \in G
  <2>1. IsFiniteSet(U) /\ U \in SUBSET A
    BY FS_Subset
  <2>2. PICK m \in Nat, n \in Nat : m = SumFunctionOnSet(a, U) /\ n = SumFunctionOnSet(w, U) /\ m * total <= pool * n
    OBVIOUS
  <2>3. PICK c \in Nat, d \in Nat : c = a[y] /\ d = w[y] /\ c * total <= pool * d
    OBVIOUS
  <2>4. SumFunctionOnSet(a, U \cup {y}) = m + c /\ SumFunctionOnSet(w, U \cup {y}) = n + d
    BY <1>2, <2>1, <2>2, <2>3, SumAdd
  <2>5. (m + c) * total <= pool * (n + d)
    <3>1. (m + c) * total = m * total + c * total /\ pool * (n + d) = pool * n + pool * d
      OBVIOUS
    <3>2. m * total \in Int /\ c * total \in Int /\ pool * n \in Int /\ pool * d \in Int
      OBVIOUS
    <3> QED BY <2>2, <2>3, <3>1, <3>2
  <2>6. m + c \in Nat /\ n + d \in Nat
    OBVIOUS
  <2> QED BY <2>1, <2>4, <2>5, <2>6
<1>3. A \in G
  <2>1. G \in SUBSET (SUBSET A)
    OBVIOUS
  <2> HIDE DEF G
  <2> QED BY <1>1, <1>2, <2>1, SubsetsGrow
<1> QED BY <1>3

LEMMA SumNat ==
  ASSUME NEW f, NEW S, IsFiniteSet(S), \A x \in S : f[x] \in Nat
  PROVE  SumFunctionOnSet(f, S) \in Nat
<1> DEFINE G == {U \in SUBSET S : SumFunctionOnSet(f, U) \in Nat}
<1>1. {} \in G
  BY SumEmpty
<1>2. ASSUME NEW U \in G, NEW y \in S, y \notin U PROVE U \cup {y} \in G
  <2>1. IsFiniteSet(U)
    BY FS_Subset
  <2>2. SumFunctionOnSet(f, U \cup {y}) = SumFunctionOnSet(f, U) + f[y]
    BY <1>2, <2>1, SumAdd
  <2>3. SumFunctionOnSet(f, U) \in Nat /\ f[y] \in Nat
    OBVIOUS
  <2>4. SumFunctionOnSet(f, U \cup {y}) \in Nat
    BY <2>2, <2>3
  <2> QED BY <2>4
<1>3. S \in G
  <2>1. G \in SUBSET (SUBSET S)
    OBVIOUS
  <2> HIDE DEF G
  <2> QED BY <1>1, <1>2, <2>1, SubsetsGrow
<1> QED BY <1>3

LEMMA SumSingle == ASSUME NEW f, NEW x, f[x] \in Int PROVE SumFunctionOnSet(f, {x}) = f[x]
<1>1. {} \cup {x} = {x} /\ IsFiniteSet({})
  BY FS_EmptySet
<1>2. SumFunctionOnSet(f, {} \cup {x}) = SumFunctionOnSet(f, {}) + f[x]
  BY <1>1, SumAdd
<1> QED BY <1>1, <1>2, SumEmpty

LEMMA UpTo == ASSUME NEW n \in Nat PROVE IsFiniteSet(1..n) /\ Cardinality(1..n) = n
<1>1. \A a, b \in Int : IsFiniteSet(a..b) /\ Cardinality(a..b) = IF a > b THEN 0 ELSE b - a + 1
  BY FS_Interval
<1>2. IsFiniteSet(1..n) /\ Cardinality(1..n) = IF 1 > n THEN 0 ELSE n - 1 + 1
  BY <1>1
<1> QED BY <1>2

\* The sum of two functions added up value by value.
LEMMA SumPlus ==
  ASSUME NEW f, NEW g, NEW h, NEW S, IsFiniteSet(S),
         \A x \in S : f[x] \in Int /\ g[x] \in Int /\ h[x] = f[x] + g[x]
  PROVE  SumFunctionOnSet(h, S) = SumFunctionOnSet(f, S) + SumFunctionOnSet(g, S)
<1> DEFINE Sum(k, U) == SumFunctionOnSet(k, U)
           G == {U \in SUBSET S : Sum(h, U) = Sum(f, U) + Sum(g, U)}
<1>1. {} \in G
  BY SumEmpty
<1>2. ASSUME NEW U \in SUBSET S, U # {} PROVE \E x \in U : U \ {x} \in G => U \in G
  <2>1. PICK x \in U : TRUE
    BY <1>2
  <2>2. IsFiniteSet(U) /\ IsFiniteSet(U \ {x}) /\ \A y \in U : h[y] \in Int
    BY FS_Subset
  <2>3. /\ Sum(h, U) = h[x] + Sum(h, U \ {x})
        /\ Sum(f, U) = f[x] + Sum(f, U \ {x}) /\ Sum(g, U) = g[x] + Sum(g, U \ {x})
    BY <2>2, SumRemove
  <2>4. Sum(f, U \ {x}) \in Int /\ Sum(g, U \ {x}) \in Int /\ h[x] = f[x] + g[x]
        /\ f[x] \in Int /\ g[x] \in Int
    BY <2>2, SumInt
  <2> HIDE DEF Sum
  <2>5. U \ {x} \in G => U \in G
    BY <2>3, <2>4
  <2> QED BY <2>1, <2>5
<1> HIDE DEF G
<1>3. S \in G
  BY <1>1, <1>2, SubsetInduction
<1> QED BY <1>3 DEF G
=============================================================================
