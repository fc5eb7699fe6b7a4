-------------------------- MODULE AggregatesProofs --------------------------
(***************************************************************************)
(* What sums and maxima over finite sets of rows are, for sets of any      *)
(* size.  A sum is defined by recursion over the subsets of its set, so    *)
(* that the facts about it need an induction; it is carried out by looking *)
(* at a minimal counterexample (MinimalSubset).                            *)
(***************************************************************************)
EXTENDS Aggregates, FiniteSetTheorems, WellFoundedInduction, TLAPS

\* Induction over a finite set, by a minimal counterexample: among subsets of
\* a finite set there is one with no strict subset among them.
LEMMA MinimalSubset ==
  ASSUME NEW S, IsFiniteSet(S), NEW B, B \subseteq SUBSET S, B # {}
  PROVE  \E s \in B : \A t \in SUBSET s : t # s => t \notin B
<1>1. IsWellFoundedOn(StrictSubsetOrdering(S), SUBSET S)
  BY FS_StrictSubsetOrderingWellFounded, FS_FiniteSubsetsOfFinite
<1>2. PICK s \in B : \A t \in B : ~(<<t, s>> \in StrictSubsetOrdering(S))
  BY <1>1, WFMin
<1> QED BY <1>2 DEF StrictSubsetOrdering

\* The element the recursion takes off first.
First(s) == CHOOSE x \in s : TRUE

\* g[s] is the sum of f over s, for every subset s of S.
IsSum(g, f, S) ==
  g = [s \in SUBSET S |-> IF s = {} THEN 0 ELSE f[First(s)] + g[s \ {First(s)}]]

\* The element that the recursion picks is one of the set.
LEMMA FirstIn == ASSUME NEW s, s # {} PROVE First(s) \in s
BY DEF First

\* SumOf unfolded to its recursive function.
LEMMA SumOfDef ==
  ASSUME NEW f, NEW S
  PROVE  SumOf(f, S) = (CHOOSE g : IsSum(g, f, S))[S]
BY DEF SumOf, MapThenSumSet, MapThenFoldSet, IsSum, First

\* Two such functions agree where both are defined.
LEMMA SumUnique ==
  ASSUME NEW f, NEW S, NEW T, NEW g, NEW h, IsSum(g, f, S), IsSum(h, f, T),
         NEW s, s \subseteq S, s \subseteq T, IsFiniteSet(s)
  PROVE  g[s] = h[s]
<1> DEFINE Bad == {t \in SUBSET s : g[t] # h[t]}
<1> SUFFICES ASSUME Bad # {} PROVE FALSE
  OBVIOUS
<1>1. PICK t \in Bad : \A u \in SUBSET t : u # t => u \notin Bad
  <2>1. Bad \subseteq SUBSET s
    OBVIOUS
  <2> HIDE DEF Bad
  <2> QED BY <2>1, MinimalSubset
<1>2. g[t] = IF t = {} THEN 0 ELSE f[First(t)] + g[t \ {First(t)}]
  BY DEF IsSum
<1>3. h[t] = IF t = {} THEN 0 ELSE f[First(t)] + h[t \ {First(t)}]
  BY DEF IsSum
<1>4. t # {}
  BY <1>2, <1>3
<1>5. g[t \ {First(t)}] = h[t \ {First(t)}]
  BY <1>1, <1>4, FirstIn
<1> QED BY <1>1, <1>2, <1>3, <1>5

\* There is such a function for every finite set.
LEMMA SumExists ==
  ASSUME NEW f, NEW S, IsFiniteSet(S)
  PROVE  \E g : IsSum(g, f, S)
<1> DEFINE Bad == {t \in SUBSET S : ~\E g : IsSum(g, f, t)}
<1> SUFFICES ASSUME Bad # {} PROVE FALSE
  OBVIOUS
<1>1. PICK t \in Bad : \A u \in SUBSET t : u # t => u \notin Bad
  <2>1. Bad \subseteq SUBSET S
    OBVIOUS
  <2> HIDE DEF Bad
  <2> QED BY <2>1, MinimalSubset
<1> DEFINE sum(u) == CHOOSE g : IsSum(g, f, u)
           step(u) == IF u = {} THEN 0 ELSE f[First(u)] + sum(u \ {First(u)})[u \ {First(u)}]
           G == [u \in SUBSET t |-> step(u)]
<1>2. \A u \in SUBSET t : IsFiniteSet(u)
  BY FS_Subset
<1>3. \A u \in SUBSET t : u # t => IsSum(sum(u), f, u)
  BY <1>1
<1>4. ASSUME NEW u \in SUBSET t, u # t PROVE G[u] = sum(u)[u]
  <2> DEFINE v == u \ {First(u)}
  <2>1. IsSum(sum(u), f, u)
    BY <1>3, <1>4
  <2>2. sum(u)[u] = IF u = {} THEN 0 ELSE f[First(u)] + sum(u)[v]
    <3> HIDE DEF sum
    <3> QED BY <2>1 DEF IsSum
  <2>3. ASSUME u # {} PROVE sum(u)[v] = sum(v)[v]
    <3>1. v \subseteq u /\ v # t /\ v \in SUBSET t
      BY <1>4, <2>3, FirstIn
    <3>2. IsSum(sum(v), f, v) /\ IsFiniteSet(v)
      BY <1>2, <1>3, <3>1
    <3> HIDE DEF sum, v
    <3> QED BY <2>1, <3>1, <3>2, SumUnique
  <2>4. G[u] = step(u)
    OBVIOUS
  <2> HIDE DEF sum, G
  <2> QED BY <2>2, <2>3, <2>4
<1>5. IsSum(G, f, t)
  <2>1. ASSUME NEW u \in SUBSET t, u # {}
        PROVE  step(u) = f[First(u)] + G[u \ {First(u)}]
    <3>1. u \ {First(u)} \in SUBSET t /\ u \ {First(u)} # t
      BY <2>1, FirstIn
    <3> HIDE DEF sum, G
    <3> QED BY <1>4, <2>1, <3>1
  <2>2. G = [u \in SUBSET t |-> IF u = {} THEN 0 ELSE f[First(u)] + G[u \ {First(u)}]]
    <3>1. \A u \in SUBSET t : step(u) = IF u = {} THEN 0 ELSE f[First(u)] + G[u \ {First(u)}]
      <4> HIDE DEF G, sum
      <4> QED BY <2>1
    <3> HIDE DEF step
    <3> QED BY <3>1
  <2> HIDE DEF G
  <2> QED BY <2>2 DEF IsSum
<1> QED BY <1>1, <1>5

\* The recursion equation.
LEMMA SumOfRec ==
  ASSUME NEW f, NEW S, IsFiniteSet(S)
  PROVE  SumOf(f, S) = IF S = {} THEN 0 ELSE f[First(S)] + SumOf(f, S \ {First(S)})
<1> DEFINE sum(u) == CHOOSE g : IsSum(g, f, u)
           R == S \ {First(S)}
<1>1. IsFiniteSet(R)
  BY FS_Subset
<1>2. IsSum(sum(S), f, S) /\ IsSum(sum(R), f, R)
  BY <1>1, SumExists
<1>3. SumOf(f, S) = sum(S)[S] /\ SumOf(f, R) = sum(R)[R]
  BY SumOfDef
<1> HIDE DEF sum
<1>4. sum(S)[S] = IF S = {} THEN 0 ELSE f[First(S)] + sum(S)[R]
  BY <1>2 DEF IsSum
<1>5. sum(S)[R] = sum(R)[R]
  BY <1>1, <1>2, SumUnique
<1> QED BY <1>3, <1>4, <1>5

\* The sum over no rows is zero.
LEMMA SumOfEmpty ==
  ASSUME NEW f PROVE SumOf(f, {}) = 0
BY SumOfRec, FS_EmptySet

\* A sum of integers is an integer, a sum of naturals a natural.
LEMMA SumOfType ==
  ASSUME NEW S, IsFiniteSet(S), NEW f, \A x \in S : f[x] \in Int
  PROVE  /\ SumOf(f, S) \in Int
         /\ (\A x \in S : f[x] \in Nat) => SumOf(f, S) \in Nat
<1> DEFINE Good(t) == /\ SumOf(f, t) \in Int
                      /\ (\A x \in S : f[x] \in Nat) => SumOf(f, t) \in Nat
           Bad == {t \in SUBSET S : ~Good(t)}
<1> SUFFICES ASSUME Bad # {} PROVE FALSE
  OBVIOUS
<1>1. PICK t \in Bad : \A u \in SUBSET t : u # t => u \notin Bad
  <2>1. Bad \subseteq SUBSET S
    OBVIOUS
  <2> HIDE DEF Bad
  <2> QED BY <2>1, MinimalSubset
<1>2. IsFiniteSet(t)
  BY FS_Subset
<1>3. SumOf(f, t) = IF t = {} THEN 0 ELSE f[First(t)] + SumOf(f, t \ {First(t)})
  BY <1>2, SumOfRec
<1>4. t # {}
  BY <1>3
<1>5. First(t) \in t /\ First(t) \in S
  BY <1>4, FirstIn
<1>6. Good(t \ {First(t)})
  BY <1>1, <1>5
<1> QED BY <1>3, <1>4, <1>5, <1>6

\* Sums of functions that agree on the set are equal.
LEMMA SumOfSame ==
  ASSUME NEW S, IsFiniteSet(S), NEW f, NEW g, \A x \in S : f[x] = g[x]
  PROVE  SumOf(f, S) = SumOf(g, S)
<1> DEFINE Bad == {t \in SUBSET S : SumOf(f, t) # SumOf(g, t)}
<1> SUFFICES ASSUME Bad # {} PROVE FALSE
  OBVIOUS
<1>1. PICK t \in Bad : \A u \in SUBSET t : u # t => u \notin Bad
  <2>1. Bad \subseteq SUBSET S
    OBVIOUS
  <2> HIDE DEF Bad
  <2> QED BY <2>1, MinimalSubset
<1>2. IsFiniteSet(t)
  BY FS_Subset
<1>3. /\ SumOf(f, t) = IF t = {} THEN 0 ELSE f[First(t)] + SumOf(f, t \ {First(t)})
      /\ SumOf(g, t) = IF t = {} THEN 0 ELSE g[First(t)] + SumOf(g, t \ {First(t)})
  BY <1>2, SumOfRec
<1>4. t # {}
  BY <1>3
<1>5. First(t) \in t /\ f[First(t)] = g[First(t)]
  BY <1>4, FirstIn
<1>6. SumOf(f, t \ {First(t)}) = SumOf(g, t \ {First(t)})
  BY <1>1, <1>5
<1> QED BY <1>3, <1>4, <1>5, <1>6

\* An element less takes its value off.
LEMMA SumOfRemove ==
  ASSUME NEW S, IsFiniteSet(S), NEW x \in S, NEW f, \A y \in S : f[y] \in Int
  PROVE  SumOf(f, S) = SumOf(f, S \ {x}) + f[x]
<1> DEFINE Bad == {t \in SUBSET S : \E y \in t : SumOf(f, t) # SumOf(f, t \ {y}) + f[y]}
<1> SUFFICES ASSUME Bad # {} PROVE FALSE
  OBVIOUS
<1>1. PICK t \in Bad : \A u \in SUBSET t : u # t => u \notin Bad
  <2>1. Bad \subseteq SUBSET S
    OBVIOUS
  <2> HIDE DEF Bad
  <2> QED BY <2>1, MinimalSubset
<1>2. PICK y \in t : SumOf(f, t) # SumOf(f, t \ {y}) + f[y]
  OBVIOUS
<1> DEFINE c == First(t)
           u == (t \ {c}) \ {y}
<1>3. c \in t
  BY FirstIn
<1>4. IsFiniteSet(t) /\ IsFiniteSet(u) /\ IsFiniteSet(t \ {c})
  BY FS_Subset, FS_RemoveElement
<1>5. SumOf(f, t) = f[c] + SumOf(f, t \ {c})
  BY <1>3, <1>4, SumOfRec
<1>6. SumOf(f, u) \in Int /\ SumOf(f, t \ {c}) \in Int /\ f[y] \in Int /\ f[c] \in Int
  <2>1. \A z \in t : f[z] \in Int
    OBVIOUS
  <2> QED BY <1>2, <1>3, <1>4, <2>1, SumOfType
<1>7. c # y
  <2> SUFFICES ASSUME c = y PROVE FALSE
    OBVIOUS
  <2>1. SumOf(f, t) = f[y] + SumOf(f, t \ {y}) /\ SumOf(f, t \ {y}) \in Int
    BY <1>5, <1>6
  <2> HIDE DEF c, u, Bad
  <2> QED BY <1>2, <1>6, <2>1
<1>8. SumOf(f, t \ {c}) = SumOf(f, u) + f[y]
  <2>1. t \ {c} \notin Bad /\ y \in t \ {c}
    BY <1>1, <1>3, <1>7
  <2> QED BY <2>1
<1>9. SumOf(f, t \ {y}) = SumOf(f, u) + f[c]
  <2>1. t \ {y} \notin Bad /\ c \in t \ {y} /\ (t \ {y}) \ {c} = u
    BY <1>1, <1>3, <1>7
  <2> QED BY <2>1
<1> HIDE DEF u, c, Bad
<1> QED BY <1>2, <1>5, <1>6, <1>8, <1>9

\* An element more adds its value.
LEMMA SumOfAdd ==
  ASSUME NEW S, IsFiniteSet(S), NEW x, x \notin S,
         NEW f, \A y \in S \cup {x} : f[y] \in Int
  PROVE  SumOf(f, S \cup {x}) = SumOf(f, S) + f[x]
<1>1. IsFiniteSet(S \cup {x}) /\ (S \cup {x}) \ {x} = S
  BY FS_AddElement
<1> QED BY <1>1, SumOfRemove

\* The sum over two disjoint sets of rows.
LEMMA SumOfUnion ==
  ASSUME NEW S, IsFiniteSet(S), NEW T, IsFiniteSet(T), S \cap T = {},
         NEW f, \A x \in S \cup T : f[x] \in Int
  PROVE  SumOf(f, S \cup T) = SumOf(f, S) + SumOf(f, T)
<1> DEFINE Bad == {t \in SUBSET T : SumOf(f, S \cup t) # SumOf(f, S) + SumOf(f, t)}
<1> SUFFICES ASSUME Bad # {} PROVE FALSE
  OBVIOUS
<1>1. PICK t \in Bad : \A u \in SUBSET t : u # t => u \notin Bad
  <2>1. Bad \subseteq SUBSET T
    OBVIOUS
  <2> HIDE DEF Bad
  <2> QED BY <2>1, MinimalSubset
<1>2. t \subseteq T /\ IsFiniteSet(t) /\ SumOf(f, S) \in Int
  BY FS_Subset, SumOfType
<1>3. CASE t = {}
  <2> DEFINE V == S \cup t
  <2>1. V = S /\ SumOf(f, t) = 0
    BY <1>3, SumOfEmpty
  <2> HIDE DEF V
  <2>2. SumOf(f, V) = SumOf(f, S) + SumOf(f, t)
    BY <1>2, <2>1
  <2> QED BY <2>2 DEF V
<1>4. CASE t # {}
  <2>1. PICK x \in t : TRUE
    BY <1>4
  <2> DEFINE u == t \ {x}
  <2>2. /\ IsFiniteSet(u) /\ IsFiniteSet(S \cup u) /\ x \notin u /\ x \notin S \cup u
        /\ t = u \cup {x} /\ S \cup t = (S \cup u) \cup {x}
    <3>1. IsFiniteSet(u) /\ IsFiniteSet(S \cup u)
      BY <1>2, FS_RemoveElement, FS_Union
    <3> QED BY <1>2, <2>1, <3>1
  <2>3. SumOf(f, S \cup u) = SumOf(f, S) + SumOf(f, u)
    BY <1>1, <1>2, <2>1
  <2>4. \A y \in (S \cup u) \cup {x} : f[y] \in Int
    BY <1>2, <2>1
  <2> HIDE DEF u
  <2>5. SumOf(f, t) = SumOf(f, u) + f[x]
    BY <2>2, <2>4, SumOfAdd
  <2>6. SumOf(f, S \cup t) = SumOf(f, S \cup u) + f[x]
    BY <2>2, <2>4, SumOfAdd
  <2>7. SumOf(f, u) \in Int /\ f[x] \in Int
    BY <2>2, <2>4, SumOfType
  <2>8. SumOf(f, S \cup t) = SumOf(f, S) + SumOf(f, t)
    BY <1>2, <2>3, <2>5, <2>6, <2>7
  <2> QED BY <2>8
<1> QED BY <1>3, <1>4

-----------------------------------------------------------------------------
\* A finite, non-empty set of rows has one with the largest value.
LEMMA Largest ==
  ASSUME NEW S, IsFiniteSet(S), S # {}, NEW f, \A x \in S : f[x] \in Int
  PROVE  \E x \in S : \A y \in S : f[x] >= f[y]
<1> DEFINE Top(t, x) == \A y \in t : f[x] >= f[y]
           Bad == {t \in SUBSET S : t # {} /\ ~\E x \in t : Top(t, x)}
<1> SUFFICES ASSUME Bad # {} PROVE FALSE
  OBVIOUS
<1>1. PICK t \in Bad : \A u \in SUBSET t : u # t => u \notin Bad
  <2>1. Bad \subseteq SUBSET S
    OBVIOUS
  <2> HIDE DEF Bad
  <2> QED BY <2>1, MinimalSubset
<1>2. PICK x \in t : TRUE
  OBVIOUS
<1>3. t \ {x} \notin Bad
  BY <1>1, <1>2
<1>4. CASE t \ {x} = {}
  BY <1>2, <1>4
<1>5. CASE t \ {x} # {}
  <2>1. PICK z \in t \ {x} : Top(t \ {x}, z)
    BY <1>3, <1>5
  <2>2. Top(t, x) \/ Top(t, z)
    BY <1>2, <2>1
  <2> QED BY <1>2, <2>1, <2>2
<1> QED BY <1>4, <1>5

\* Max of the values in a finite, non-empty set of rows is the largest one.
LEMMA MaxOfRows ==
  ASSUME NEW S, IsFiniteSet(S), S # {}, NEW f, \A x \in S : f[x] \in Int
  PROVE  /\ Max({f[x] : x \in S}) \in {f[x] : x \in S}
         /\ \A y \in S : f[y] <= Max({f[x] : x \in S})
<1>1. \E m \in {f[x] : x \in S} : \A n \in {f[x] : x \in S} : m >= n
  BY Largest
<1> QED BY <1>1 DEF Max
=============================================================================
