----------------------------- MODULE SumProofs -----------------------------
(***************************************************************************)
(* Sums over finite sets of rows: MapThenSumSet of the community modules   *)
(* adds the elements one by one, in whatever order it chooses them, and    *)
(* these lemmas say that the order does not matter. The induction is a     *)
(* smallest counterexample (SmallestSubset), from the well-foundedness of strict *)
(* inclusion on the subsets of a finite set.                               *)
(***************************************************************************)
EXTENDS FiniteSetsExt, Integers, FiniteSetTheorems, WellFoundedInduction, TLAPS

\* The sum of f over S.
SumOf(f, S) == MapThenSumSet(LAMBDA x : f[x], S)

\* Of some subsets of a finite set one contains none of the others.
LEMMA SmallestSubset ==
  ASSUME NEW S, IsFiniteSet(S), NEW B, B \subseteq SUBSET S, B # {}
  PROVE  \E m \in B : \A t \in B : t \subseteq m => t = m
<1>1. IsWellFoundedOn(StrictSubsetOrdering(S), FiniteSubsetsOf(S))
  BY FS_StrictSubsetOrderingWellFounded
<1>2. B \subseteq FiniteSubsetsOf(S)
  BY FS_FiniteSubsetsOfFinite
<1>3. PICK m \in B : \A t \in B : ~ (<<t, m>> \in StrictSubsetOrdering(S))
  BY <1>1, <1>2, WFMin
<1>4. \A t \in B : t \subseteq m => t = m
  BY <1>3 DEF StrictSubsetOrdering
<1> QED
  BY <1>4

-----------------------------------------------------------------------------
(* The recursion by which the sum is defined.                              *)

SumFirst(s) == CHOOSE x \in s : TRUE
SumAdds(f, g, s) == IF s = {} THEN 0 ELSE f[SumFirst(s)] + g[s \ {SumFirst(s)}]
SumTable(f, g, S) == g = [s \in SUBSET S |-> SumAdds(f, g, s)]

LEMMA SumUnfolds ==
  ASSUME NEW f, NEW S
  PROVE  SumOf(f, S) = (CHOOSE g : SumTable(f, g, S))[S]
BY DEF SumOf, MapThenSumSet, MapThenFoldSet, SumTable, SumAdds, SumFirst

LEMMA SumFirstOf == ASSUME NEW s, s # {} PROVE SumFirst(s) \in s /\ s \ {SumFirst(s)} # s
BY DEF SumFirst

\* Two tables agree where both are.
LEMMA TablesAgree ==
  ASSUME NEW f, NEW S, IsFiniteSet(S), NEW T \in SUBSET S, NEW g, NEW h,
         SumTable(f, g, S), SumTable(f, h, T), NEW s \in SUBSET T
  PROVE  g[s] = h[s]
<1> DEFINE B == {u \in SUBSET T : g[u] # h[u]}
<1> SUFFICES ASSUME B # {} PROVE FALSE
  OBVIOUS
<1>1. PICK m \in B : \A t \in B : t \subseteq m => t = m
  <2>1. B \subseteq SUBSET S
    OBVIOUS
  <2> HIDE DEF B
  <2> QED
    BY <2>1, SmallestSubset
<1>2. m \in SUBSET S /\ m \in SUBSET T /\ g[m] # h[m]
  OBVIOUS
<1>3. g[m] = SumAdds(f, g, m) /\ h[m] = SumAdds(f, h, m)
  BY <1>2 DEF SumTable
<1>4. m # {}
  BY <1>2, <1>3 DEF SumAdds
<1>5. g[m \ {SumFirst(m)}] = h[m \ {SumFirst(m)}]
  <2>1. m \ {SumFirst(m)} \subseteq m /\ m \ {SumFirst(m)} # m /\ m \ {SumFirst(m)} \in SUBSET T
    BY <1>2, <1>4, SumFirstOf
  <2> QED
    BY <1>1, <2>1
<1> QED
  BY <1>2, <1>3, <1>5 DEF SumAdds

\* There is a table for every finite set.
LEMMA TableThere ==
  ASSUME NEW f, NEW S, IsFiniteSet(S)
  PROVE  \E g : SumTable(f, g, S)
<1> DEFINE B == {u \in SUBSET S : ~ \E g : SumTable(f, g, u)}
<1> SUFFICES ASSUME B # {} PROVE FALSE
  OBVIOUS
<1>1. PICK m \in B : \A t \in B : t \subseteq m => t = m
  <2>1. B \subseteq SUBSET S
    OBVIOUS
  <2> HIDE DEF B
  <2> QED
    BY <2>1, SmallestSubset
<1> DEFINE of(u) == CHOOSE g : SumTable(f, g, u)
           new == [s \in SUBSET m |->
                     IF s = {} THEN 0 ELSE f[SumFirst(s)] + of(s \ {SumFirst(s)})[s \ {SumFirst(s)}]]
<1>2. ASSUME NEW u \in SUBSET m, u # m PROVE SumTable(f, of(u), u) /\ IsFiniteSet(u)
  <2>1. \E g : SumTable(f, g, u)
    BY <1>1, <1>2
  <2>2. u \in SUBSET S
    OBVIOUS
  <2> QED
    BY <2>1, <2>2, FS_Subset
<1>3. ASSUME NEW s \in SUBSET m PROVE new[s] = SumAdds(f, new, s)
  <2>1. CASE s = {}
    BY <1>3, <2>1 DEF SumAdds
  <2>2. CASE s # {}
    <3> DEFINE u == s \ {SumFirst(s)}
    <3>1. u \in SUBSET m /\ u # m /\ new[s] = f[SumFirst(s)] + of(u)[u]
      BY <1>3, <2>2, SumFirstOf
    <3>2. SumTable(f, of(u), u)
      BY <1>2, <3>1
    <3>3. of(u)[u] = SumAdds(f, of(u), u)
      BY <3>2 DEF SumTable
    <3>4. new[u] = SumAdds(f, of(u), u)
      <4>1. CASE u = {}
        BY <3>1, <4>1 DEF SumAdds
      <4>2. CASE u # {}
        <5> DEFINE v == u \ {SumFirst(u)}
        <5>1. v \in SUBSET u /\ v \in SUBSET m /\ v # m
          BY <3>1, <4>2, SumFirstOf
        <5>2. SumTable(f, of(v), v) /\ IsFiniteSet(u)
          BY <1>2, <3>1, <5>1
        <5>3. of(u)[v] = of(v)[v]
          <6> HIDE DEF of, v, u
          <6> QED
            BY <3>2, <5>1, <5>2, TablesAgree
        <5>4. new[u] = f[SumFirst(u)] + of(v)[v]
          BY <3>1, <4>2
        <5> QED
          BY <4>2, <5>3, <5>4 DEF SumAdds
      <4> QED
        BY <4>1, <4>2
    <3>5. new[u] = of(u)[u]
      BY <3>3, <3>4
    <3> QED
      BY <2>2, <3>1, <3>5 DEF SumAdds
  <2> QED
    BY <2>1, <2>2
<1>4. new = [s \in SUBSET m |-> SumAdds(f, new, s)]
  <2>1. new = [s \in SUBSET m |-> new[s]]
    OBVIOUS
  <2> HIDE DEF new
  <2> QED
    BY <1>3, <2>1
<1>5. SumTable(f, new, m)
  BY <1>4 DEF SumTable
<1> QED
  BY <1>5

\* The sum adds an element it chooses to that of the others.
LEMMA SumStep ==
  ASSUME NEW f, NEW S, IsFiniteSet(S)
  PROVE  /\ S = {} => SumOf(f, S) = 0
         /\ S # {} => SumOf(f, S) = f[SumFirst(S)] + SumOf(f, S \ {SumFirst(S)})
<1> DEFINE g == CHOOSE h : SumTable(f, h, S)
           T == S \ {SumFirst(S)}
           k == CHOOSE h : SumTable(f, h, T)
<1>1. SumTable(f, g, S) /\ SumOf(f, S) = g[S]
  BY TableThere, SumUnfolds
<1>2. IsFiniteSet(T) /\ T \in SUBSET S
  BY FS_Subset
<1>3. SumTable(f, k, T) /\ SumOf(f, T) = k[T]
  BY <1>2, TableThere, SumUnfolds
<1>4. g[T] = k[T]
  <2> HIDE DEF g, k, T
  <2> QED
    BY <1>1, <1>2, <1>3, TablesAgree
<1>5. g[S] = SumAdds(f, g, S)
  BY <1>1 DEF SumTable
<1> QED
  BY <1>1, <1>3, <1>4, <1>5 DEF SumAdds

-----------------------------------------------------------------------------
(* What the sum is, in any order.                                          *)

LEMMA SumEmpty == \A f : SumOf(f, {}) = 0
BY SumStep, FS_EmptySet

LEMMA SumInt ==
  ASSUME NEW S, IsFiniteSet(S), NEW f, \A x \in S : f[x] \in Int
  PROVE  SumOf(f, S) \in Int
<1> DEFINE B == {u \in SUBSET S : SumOf(f, u) \notin Int}
<1> SUFFICES ASSUME B # {} PROVE FALSE
  OBVIOUS
<1>1. PICK m \in B : \A t \in B : t \subseteq m => t = m
  <2>1. B \subseteq SUBSET S
    OBVIOUS
  <2> HIDE DEF B
  <2> QED
    BY <2>1, SmallestSubset
<1>2. m \in SUBSET S /\ SumOf(f, m) \notin Int /\ IsFiniteSet(m)
  BY FS_Subset
<1>3. m # {}
  BY <1>2, SumEmpty
<1>4. SumFirst(m) \in m /\ m \ {SumFirst(m)} # m /\ m \ {SumFirst(m)} \in SUBSET S
  BY <1>2, <1>3, SumFirstOf
<1>5. SumOf(f, m \ {SumFirst(m)}) \in Int
  BY <1>1, <1>4
<1>6. SumOf(f, m) = f[SumFirst(m)] + SumOf(f, m \ {SumFirst(m)})
  BY <1>2, <1>3, SumStep
<1> QED
  BY <1>2, <1>4, <1>5, <1>6

\* Any element may be added last.
LEMMA SumRemove ==
  ASSUME NEW S, IsFiniteSet(S), NEW f, \A x \in S : f[x] \in Int, NEW y \in S
  PROVE  SumOf(f, S) = SumOf(f, S \ {y}) + f[y]
<1> DEFINE B == {u \in SUBSET S : \E z \in u : SumOf(f, u) # SumOf(f, u \ {z}) + f[z]}
<1> SUFFICES ASSUME B # {} PROVE FALSE
  OBVIOUS
<1>1. PICK m \in B : \A t \in B : t \subseteq m => t = m
  <2>1. B \subseteq SUBSET S
    OBVIOUS
  <2> HIDE DEF B
  <2> QED
    BY <2>1, SmallestSubset
<1>2. PICK z \in m : SumOf(f, m) # SumOf(f, m \ {z}) + f[z]
  OBVIOUS
<1> DEFINE x == SumFirst(m)
           u == m \ {x}
           v == m \ {z}
           w == m \ {x, z}
<1>3. m \in SUBSET S /\ IsFiniteSet(m) /\ x \in m
  BY FS_Subset, SumFirstOf
<1>4. SumOf(f, m) = f[x] + SumOf(f, u)
  BY <1>3, SumStep
<1>5. x # z
  <2>1. IsFiniteSet(v)
    BY <1>3, FS_Subset
  <2>2. f[z] \in Int /\ SumOf(f, v) \in Int
    BY <1>3, <2>1, SumInt
  <2>3. x = z => u = v
    OBVIOUS
  <2>4. SumOf(f, m) # SumOf(f, v) + f[z]
    BY <1>2
  <2> HIDE DEF x, u, v
  <2> QED
    BY <1>4, <2>2, <2>3, <2>4
<1>6. /\ u \in SUBSET S /\ v \in SUBSET S /\ u # m /\ v # m /\ z \in u /\ x \in v
      /\ u \ {z} = w /\ v \ {x} = w /\ IsFiniteSet(w)
  BY <1>3, <1>5, FS_Subset
<1>7. SumOf(f, u) = SumOf(f, w) + f[z] /\ SumOf(f, v) = SumOf(f, w) + f[x]
  <2>1. u \notin B /\ v \notin B
    BY <1>1, <1>6
  <2> QED
    BY <1>6, <2>1
<1>8. f[x] \in Int /\ f[z] \in Int /\ SumOf(f, w) \in Int
  BY <1>3, <1>6, SumInt
<1> QED
  BY <1>2, <1>4, <1>7, <1>8

\* A sum grows by what an element adds.
LEMMA SumAdd ==
  ASSUME NEW S, IsFiniteSet(S), NEW f, \A x \in S : f[x] \in Int, NEW y, y \notin S, f[y] \in Int
  PROVE  SumOf(f, S \union {y}) = SumOf(f, S) + f[y]
<1>1. IsFiniteSet(S \union {y}) /\ (S \union {y}) \ {y} = S
  BY FS_AddElement
<1> QED
  BY <1>1, SumRemove

\* Functions that are the same on S have the same sum.
LEMMA SumSame ==
  ASSUME NEW S, IsFiniteSet(S), NEW f, NEW g, \A x \in S : f[x] = g[x]
  PROVE  SumOf(f, S) = SumOf(g, S)
<1> DEFINE B == {u \in SUBSET S : SumOf(f, u) # SumOf(g, u)}
<1> SUFFICES ASSUME B # {} PROVE FALSE
  OBVIOUS
<1>1. PICK m \in B : \A t \in B : t \subseteq m => t = m
  <2>1. B \subseteq SUBSET S
    OBVIOUS
  <2> HIDE DEF B
  <2> QED
    BY <2>1, SmallestSubset
<1>2. m \in SUBSET S /\ SumOf(f, m) # SumOf(g, m) /\ IsFiniteSet(m)
  BY FS_Subset
<1>3. m # {}
  BY <1>2, SumEmpty
<1>4. SumFirst(m) \in m /\ m \ {SumFirst(m)} # m /\ m \ {SumFirst(m)} \in SUBSET S
  BY <1>2, <1>3, SumFirstOf
<1>5. SumOf(f, m \ {SumFirst(m)}) = SumOf(g, m \ {SumFirst(m)})
  BY <1>1, <1>4
<1>6. /\ SumOf(f, m) = f[SumFirst(m)] + SumOf(f, m \ {SumFirst(m)})
      /\ SumOf(g, m) = g[SumFirst(m)] + SumOf(g, m \ {SumFirst(m)})
  BY <1>2, <1>3, SumStep
<1> QED
  BY <1>2, <1>4, <1>5, <1>6

\* One entry that changes changes the sum by as much.
LEMMA SumChange ==
  ASSUME NEW S, IsFiniteSet(S), NEW f, NEW g, \A x \in S : f[x] \in Int /\ g[x] \in Int,
         NEW y \in S, \A x \in S \ {y} : f[x] = g[x]
  PROVE  SumOf(g, S) = SumOf(f, S) + g[y] - f[y]
<1>1. IsFiniteSet(S \ {y})
  BY FS_Subset
<1>2. SumOf(f, S \ {y}) = SumOf(g, S \ {y}) /\ SumOf(f, S \ {y}) \in Int
  BY <1>1, SumSame, SumInt
<1>3. SumOf(f, S) = SumOf(f, S \ {y}) + f[y]
  BY SumRemove
<1>4. SumOf(g, S) = SumOf(g, S \ {y}) + g[y]
  BY SumRemove
<1> QED
  BY <1>2, <1>3, <1>4

\* What is nothing on S adds up to nothing.
LEMMA SumZero ==
  ASSUME NEW S, IsFiniteSet(S), NEW f, \A x \in S : f[x] = 0
  PROVE  SumOf(f, S) = 0
<1> DEFINE B == {u \in SUBSET S : SumOf(f, u) # 0}
<1> SUFFICES ASSUME B # {} PROVE FALSE
  OBVIOUS
<1>1. PICK m \in B : \A t \in B : t \subseteq m => t = m
  <2>1. B \subseteq SUBSET S
    OBVIOUS
  <2> HIDE DEF B
  <2> QED
    BY <2>1, SmallestSubset
<1>2. m \in SUBSET S /\ SumOf(f, m) # 0 /\ IsFiniteSet(m)
  BY FS_Subset
<1>3. m # {}
  BY <1>2, SumEmpty
<1>4. SumFirst(m) \in m /\ m \ {SumFirst(m)} # m /\ m \ {SumFirst(m)} \in SUBSET S
  BY <1>2, <1>3, SumFirstOf
<1>5. SumOf(f, m \ {SumFirst(m)}) = 0
  BY <1>1, <1>4
<1>6. SumOf(f, m) = f[SumFirst(m)] + SumOf(f, m \ {SumFirst(m)})
  BY <1>2, <1>3, SumStep
<1> QED
  BY <1>2, <1>4, <1>5, <1>6

\* Elements that add nothing may be left out.
LEMMA SumWhere ==
  ASSUME NEW S, IsFiniteSet(S), NEW T \in SUBSET S, NEW f, NEW g, \A x \in T : f[x] \in Int /\ g[x] = f[x],
         \A x \in S \ T : g[x] = 0
  PROVE  SumOf(g, S) = SumOf(f, T)
<1> DEFINE B == {u \in SUBSET S : SumOf(g, u) # SumOf(f, u \cap T)}
<1> SUFFICES ASSUME B # {} PROVE FALSE
  <2>1. S \cap T = T /\ S \in SUBSET S
    OBVIOUS
  <2> QED
    BY <2>1
<1>1. PICK m \in B : \A t \in B : t \subseteq m => t = m
  <2>1. B \subseteq SUBSET S
    OBVIOUS
  <2> HIDE DEF B
  <2> QED
    BY <2>1, SmallestSubset
<1> DEFINE x == SumFirst(m)
           u == m \ {x}
<1>2. m \in SUBSET S /\ SumOf(g, m) # SumOf(f, m \cap T) /\ IsFiniteSet(m)
  BY FS_Subset
<1>3. m # {}
  <2>1. {} \cap T = {}
    OBVIOUS
  <2> QED
    BY <1>2, <2>1, SumEmpty
<1>4. x \in m /\ u # m /\ u \in SUBSET S /\ x \in S
  BY <1>2, <1>3, SumFirstOf
<1>5. SumOf(g, u) = SumOf(f, u \cap T)
  BY <1>1, <1>4
<1>6. SumOf(g, m) = g[x] + SumOf(g, u)
  BY <1>2, <1>3, SumStep
<1>7. IsFiniteSet(u \cap T) /\ IsFiniteSet(m \cap T)
  BY <1>2, FS_Subset
<1>8. SumOf(f, u \cap T) \in Int
  BY <1>7, SumInt
<1>9. CASE x \in T
  <2>1. x \in m \cap T /\ (m \cap T) \ {x} = u \cap T
    BY <1>4, <1>9
  <2>2. \A y \in m \cap T : f[y] \in Int
    OBVIOUS
  <2>3. SumOf(f, m \cap T) = SumOf(f, (m \cap T) \ {x}) + f[x]
    <3> HIDE DEF x
    <3> QED
      BY <1>7, <2>1, <2>2, SumRemove
  <2>4. f[x] \in Int /\ g[x] = f[x]
    BY <1>9
  <2> QED
    BY <1>2, <1>5, <1>6, <1>8, <2>1, <2>3, <2>4
<1>10. CASE x \notin T
  <2>1. m \cap T = u \cap T
    BY <1>10
  <2>2. g[x] = 0
    BY <1>4, <1>10
  <2>3. SumOf(f, m \cap T) = SumOf(f, u \cap T)
    BY <2>1
  <2>4. 0 + SumOf(f, u \cap T) = SumOf(f, u \cap T)
    BY <1>8
  <2>5. SumOf(g, m) = 0 + SumOf(f, u \cap T)
    BY <1>5, <1>6, <2>2
  <2> HIDE DEF B, x, u
  <2> QED
    BY <1>2, <2>3, <2>4, <2>5
<1> QED
  BY <1>9, <1>10

\* At most one entry of a table of numbers changes, by d.
OneMoves(f, h, S, d) ==
  \/ d = 0 /\ \A x \in S : h[x] = f[x]
  \/ \E y \in S : h[y] = f[y] + d /\ \A x \in S \ {y} : h[x] = f[x]

LEMMA SumMoves ==
  ASSUME NEW S, IsFiniteSet(S), NEW f, NEW h, NEW d \in Int,
         \A x \in S : f[x] \in Int /\ h[x] \in Int, OneMoves(f, h, S, d)
  PROVE  SumOf(h, S) = SumOf(f, S) + d /\ SumOf(f, S) \in Int /\ SumOf(h, S) \in Int
<1>1. SumOf(f, S) \in Int /\ SumOf(h, S) \in Int
  BY SumInt
<1>2. CASE d = 0 /\ \A x \in S : h[x] = f[x]
  <2>1. SumOf(f, S) = SumOf(h, S)
    BY <1>2, SumSame
  <2> QED
    BY <1>1, <1>2, <2>1
<1>3. ASSUME NEW y \in S, h[y] = f[y] + d, \A x \in S \ {y} : h[x] = f[x]
      PROVE  SumOf(h, S) = SumOf(f, S) + d
  <2>0. \A x \in S \ {y} : f[x] = h[x]
    BY <1>3
  <2>1. SumOf(h, S) = SumOf(f, S) + h[y] - f[y]
    <3>1. \A x \in S : f[x] \in Int /\ h[x] \in Int
      OBVIOUS
    <3>2. \A F, G : (\A x \in S : F[x] \in Int /\ G[x] \in Int) =>
            \A z \in S : (\A x \in S \ {z} : F[x] = G[x]) => SumOf(G, S) = SumOf(F, S) + G[z] - F[z]
      BY SumChange
    <3> QED
      BY <2>0, <3>1, <3>2
  <2> QED
    BY <1>1, <1>3, <2>1
<1> QED
  BY <1>1, <1>2, <1>3 DEF OneMoves

\* Larger entries have a larger sum.
LEMMA SumLe ==
  ASSUME NEW S, IsFiniteSet(S), NEW f, NEW g, \A x \in S : f[x] \in Int /\ g[x] \in Int /\ f[x] <= g[x]
  PROVE  SumOf(f, S) <= SumOf(g, S)
<1> DEFINE B == {u \in SUBSET S : ~ (SumOf(f, u) <= SumOf(g, u))}
<1> SUFFICES ASSUME B # {} PROVE FALSE
  OBVIOUS
<1>1. PICK m \in B : \A t \in B : t \subseteq m => t = m
  <2>1. B \subseteq SUBSET S
    OBVIOUS
  <2> HIDE DEF B
  <2> QED
    BY <2>1, SmallestSubset
<1> DEFINE x == SumFirst(m)
           u == m \ {x}
<1>2. m \in SUBSET S /\ ~ (SumOf(f, m) <= SumOf(g, m)) /\ IsFiniteSet(m)
  BY FS_Subset
<1>3. m # {}
  BY <1>2, SumEmpty
<1>4. x \in m /\ u # m /\ u \in SUBSET S /\ x \in S /\ IsFiniteSet(u)
  BY <1>2, <1>3, SumFirstOf, FS_Subset
<1>5. SumOf(f, u) <= SumOf(g, u)
  BY <1>1, <1>4
<1>6. SumOf(f, m) = f[x] + SumOf(f, u) /\ SumOf(g, m) = g[x] + SumOf(g, u)
  BY <1>2, <1>3, SumStep
<1>7. SumOf(f, u) \in Int /\ SumOf(g, u) \in Int /\ f[x] \in Int /\ g[x] \in Int /\ f[x] <= g[x]
  BY <1>4, SumInt
<1> HIDE DEF x, u
<1> QED
  BY <1>2, <1>5, <1>6, <1>7

LEMMA SumNat ==
  ASSUME NEW S, IsFiniteSet(S), NEW f, \A x \in S : f[x] \in Nat
  PROVE  SumOf(f, S) \in Nat
<1> DEFINE z == [x \in S |-> 0]
<1>1. SumOf(z, S) = 0
  BY SumZero
<1>2. \A x \in S : z[x] \in Int /\ f[x] \in Int /\ z[x] <= f[x]
  OBVIOUS
<1> HIDE DEF z
<1>3. SumOf(z, S) <= SumOf(f, S)
  BY <1>2, SumLe
<1>4. SumOf(f, S) \in Int
  BY <1>2, SumInt
<1> QED
  BY <1>1, <1>3, <1>4

\* No entry is more than the sum of numbers.
LEMMA SumEntry ==
  ASSUME NEW S, IsFiniteSet(S), NEW f, \A x \in S : f[x] \in Nat, NEW y \in S
  PROVE  f[y] <= SumOf(f, S)
<1>1. SumOf(f, S) = SumOf(f, S \ {y}) + f[y]
  BY SumRemove
<1>2. SumOf(f, S \ {y}) \in Nat
  BY FS_Subset, SumNat
<1> QED
  BY <1>1, <1>2
=============================================================================
