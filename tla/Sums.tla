--------------------------------- MODULE Sums ---------------------------------
(***************************************************************************)
(* Least numbers, smallest sets and sums over finite sets, for the proofs  *)
(* about the models.                                                       *)
(*                                                                         *)
(* Sums are recursive functions on sets.  That there is one, and that the  *)
(* order of adding doesn't matter, follow from the smallest set for which  *)
(* it would.                                                               *)
(***************************************************************************)
EXTENDS Integers, FiniteSetTheorems, WellFoundedInduction, TLAPS

-----------------------------------------------------------------------------
(* Numbers and sets                                                          *)

\* A number is below another: what the library calls well-founded.
Below == {p \in Nat \X Nat : p[1] < p[2]}

LEMMA LeastNumber ==
    ASSUME NEW S \in SUBSET Nat, S # {}
    PROVE  \E n \in S : \A m \in S : n <= m
<1>1. IsWellFoundedOn(Below, Nat)
    <2>1. OpToRel(<, Nat) = Below
        BY Zenon DEF OpToRel, Below
    <2> QED
        BY <2>1, NatLessThanWellFounded, Zenon
<1>2. PICK n \in S : \A m \in S : <<m, n>> \notin Below
    BY <1>1, WFMin
<1>3. ASSUME NEW m \in S PROVE n <= m
    <2>1. <<m, n>> \notin Below /\ m \in Nat /\ n \in Nat
        BY <1>2
    <2>2. ~(m < n)
        BY <2>1 DEF Below
    <2> QED
        BY <2>1, <2>2
<1> QED
    BY <1>3

LEMMA SmallestSet ==
    ASSUME NEW S, IsFiniteSet(S), NEW B, B \subseteq SUBSET S, B # {}
    PROVE  \E m \in B : \A s \in SUBSET m : s # m => s \notin B
<1>1. IsWellFoundedOn(StrictSubsetOrdering(S), FiniteSubsetsOf(S)) /\ FiniteSubsetsOf(S) = SUBSET S
    BY FS_StrictSubsetOrderingWellFounded, FS_FiniteSubsetsOfFinite
<1>2. PICK m \in B : \A s \in B : ~ (<<s, m>> \in StrictSubsetOrdering(S))
    BY <1>1, WFMin
<1> QED
    BY <1>2 DEF StrictSubsetOrdering

LEMMA FiniteImage ==
    ASSUME NEW S, IsFiniteSet(S), NEW h
    PROVE  IsFiniteSet({h[x] : x \in S})
<1> DEFINE T == {h[x] : x \in S}
           g == [x \in S |-> h[x]]
<1>1. g \in Surjection(S, T)
    BY DEF Surjection
<1> QED
    BY <1>1, FS_Surjection

-----------------------------------------------------------------------------
(* Sums                                                                      *)

Pick(s) == CHOOSE x \in s : TRUE

\* g has what f adds up to for each part of S.
Adds(f, S, g) ==
    g = [s \in SUBSET S |-> IF s = {} THEN 0 ELSE f[Pick(s)] + g[s \ {Pick(s)}]]

Folded(f, S) == CHOOSE g : Adds(f, S, g)

\* What a function has for the members of a set, added up.
SumOf(f, S) == Folded(f, S)[S]

\* What is added up of a set doesn't depend on what it is a part of.
LEMMA AddsAgree ==
    ASSUME NEW f, NEW S, NEW T, IsFiniteSet(S), NEW g, NEW h, Adds(f, S, g), Adds(f, T, h)
    PROVE  \A s \in (SUBSET S) \cap (SUBSET T) : g[s] = h[s]
<1> DEFINE B == {s \in (SUBSET S) \cap (SUBSET T) : g[s] # h[s]}
<1>1. SUFFICES ASSUME B # {} PROVE FALSE
    OBVIOUS
<1>2. PICK m \in B : \A s \in SUBSET m : s # m => s \notin B
    <2>1. B \subseteq SUBSET S
        OBVIOUS
    <2> HIDE DEF B
    <2> QED
        BY <1>1, <2>1, SmallestSet
<1>3. CASE m = {}
    BY <1>2, <1>3 DEF Adds
<1>4. CASE m # {}
    <2>1. Pick(m) \in m
        BY <1>4 DEF Pick
    <2>2. g[m \ {Pick(m)}] = h[m \ {Pick(m)}]
        BY <1>2, <2>1
    <2>3. g[m] = f[Pick(m)] + g[m \ {Pick(m)}] /\ h[m] = f[Pick(m)] + h[m \ {Pick(m)}]
        BY <1>2, <1>4 DEF Adds
    <2> QED
        BY <1>2, <2>2, <2>3
<1> QED
    BY <1>3, <1>4

LEMMA AddsExists ==
    ASSUME NEW f, NEW S, IsFiniteSet(S)
    PROVE  Adds(f, S, Folded(f, S))
<1> DEFINE B == {s \in SUBSET S : ~ \E g : Adds(f, s, g)}
<1>1. SUFFICES ASSUME B # {} PROVE FALSE
    BY DEF Folded
<1>2. PICK m \in B : \A s \in SUBSET m : s # m => s \notin B
    <2>1. B \subseteq SUBSET S
        OBVIOUS
    <2> HIDE DEF B
    <2> QED
        BY <1>1, <2>1, SmallestSet
<1>3. \A s \in SUBSET m : s # m => Adds(f, s, Folded(f, s)) /\ IsFiniteSet(s)
    BY <1>2, FS_Subset DEF Folded
<1> DEFINE below(s) == IF s = {} THEN 0
                       ELSE f[Pick(s)] + Folded(f, s \ {Pick(s)})[s \ {Pick(s)}]
           g == [s \in SUBSET m |-> below(s)]
<1>4. ASSUME NEW s \in SUBSET m, s # {}
      PROVE  g[s \ {Pick(s)}] = Folded(f, s \ {Pick(s)})[s \ {Pick(s)}]
    <2> DEFINE t == s \ {Pick(s)}
    <2>1. Pick(s) \in s /\ t \in SUBSET m /\ t # m
        BY <1>4 DEF Pick
    <2>2. CASE t = {}
        <3>1. Adds(f, {}, Folded(f, {}))
            BY <1>3, <2>1, <2>2
        <3>2. Folded(f, {})[{}] = 0
            BY <3>1 DEF Adds
        <3> QED
            BY <2>2, <3>2
    <2>3. CASE t # {}
        <3> DEFINE u == t \ {Pick(t)}
        <3>1. Pick(t) \in t /\ u \in SUBSET t /\ u \in SUBSET m /\ u # m
            BY <2>1, <2>3 DEF Pick
        <3>2. Adds(f, t, Folded(f, t)) /\ Adds(f, u, Folded(f, u)) /\ IsFiniteSet(u)
            BY <1>3, <2>1, <3>1
        <3>3. Folded(f, t)[t] = f[Pick(t)] + Folded(f, t)[u]
            BY <2>3, <3>2 DEF Adds
        <3>4. Folded(f, t)[u] = Folded(f, u)[u]
            <4> HIDE DEF t, u
            <4> QED
                BY <3>1, <3>2, AddsAgree
        <3>5. g[t] = f[Pick(t)] + Folded(f, u)[u]
            BY <2>1, <2>3
        <3> QED
            BY <3>3, <3>4, <3>5
    <2> QED
        BY <2>2, <2>3
<1>5. Adds(f, m, g)
    BY <1>4 DEF Adds
<1> QED
    BY <1>2, <1>5

LEMMA SumStep ==
    ASSUME NEW f, NEW S, IsFiniteSet(S)
    PROVE  SumOf(f, S) = IF S = {} THEN 0 ELSE f[Pick(S)] + SumOf(f, S \ {Pick(S)})
<1> DEFINE T == S \ {Pick(S)}
<1>1. Adds(f, S, Folded(f, S)) /\ IsFiniteSet(T) /\ Adds(f, T, Folded(f, T))
    BY FS_Subset, AddsExists
<1>2. Folded(f, S)[T] = Folded(f, T)[T]
    <2> HIDE DEF T
    <2> DEFINE g == Folded(f, S)  h == Folded(f, T)
    <2>1. T \in (SUBSET S) \cap (SUBSET T) /\ Adds(f, S, g) /\ Adds(f, T, h)
        BY <1>1 DEF T
    <2> HIDE DEF T, g, h
    <2>2. g[T] = h[T]
        BY <2>1, AddsAgree
    <2> QED
        BY <2>2 DEF g, h
<1>3. Folded(f, S)[S] = IF S = {} THEN 0 ELSE f[Pick(S)] + Folded(f, S)[T]
    BY <1>1 DEF Adds
<1> QED
    BY <1>2, <1>3 DEF SumOf

LEMMA SumEmpty == \A f : SumOf(f, {}) = 0
BY SumStep, FS_EmptySet

\* Equal sets have equal sums, said for the provers.
LEMMA SumAlike ==
    ASSUME NEW f, NEW S, NEW T, S = T
    PROVE  SumOf(f, S) = SumOf(f, T)
BY Zenon

LEMMA SumType ==
    ASSUME NEW f, NEW S, IsFiniteSet(S), \A x \in S : f[x] \in Int
    PROVE  SumOf(f, S) \in Int
<1> DEFINE B == {s \in SUBSET S : SumOf(f, s) \notin Int}
<1>1. SUFFICES ASSUME B # {} PROVE FALSE
    OBVIOUS
<1>2. PICK m \in B : \A s \in SUBSET m : s # m => s \notin B
    <2>1. B \subseteq SUBSET S
        OBVIOUS
    <2> HIDE DEF B
    <2> QED
        BY <1>1, <2>1, SmallestSet
<1>3. IsFiniteSet(m) /\ (m # {} => Pick(m) \in m)
    BY <1>2, FS_Subset DEF Pick
<1>4. m # {} => SumOf(f, m \ {Pick(m)}) \in Int /\ f[Pick(m)] \in Int
    BY <1>2, <1>3
<1> QED
    BY <1>2, <1>3, <1>4, SumStep

\* The order does not matter.
LEMMA SumRemove ==
    ASSUME NEW f, NEW S, IsFiniteSet(S), \A x \in S : f[x] \in Int, NEW x \in S
    PROVE  SumOf(f, S) = f[x] + SumOf(f, S \ {x})
<1> DEFINE B == {s \in SUBSET S : \E y \in s : SumOf(f, s) # f[y] + SumOf(f, s \ {y})}
<1>1. SUFFICES ASSUME B # {} PROVE FALSE
    OBVIOUS
<1>2. PICK m \in B : \A s \in SUBSET m : s # m => s \notin B
    <2>1. B \subseteq SUBSET S
        OBVIOUS
    <2> HIDE DEF B
    <2> QED
        BY <1>1, <2>1, SmallestSet
<1>3. PICK y \in m : SumOf(f, m) # f[y] + SumOf(f, m \ {y})
    BY <1>2
<1> DEFINE c == Pick(m)
<1>4. c \in m /\ IsFiniteSet(m) /\ IsFiniteSet(m \ {y}) /\ IsFiniteSet(m \ {c})
    BY <1>3, FS_Subset, FS_RemoveElement DEF Pick
<1>5. SumOf(f, m) = f[c] + SumOf(f, m \ {c})
    BY <1>3, <1>4, SumStep
<1>6. y # c
    BY <1>3, <1>5
<1> HIDE DEF c
<1>7. SumOf(f, m \ {c}) = f[y] + SumOf(f, (m \ {c}) \ {y})
    BY <1>2, <1>3, <1>4, <1>6
<1>8. SumOf(f, m \ {y}) = f[c] + SumOf(f, (m \ {y}) \ {c})
    BY <1>2, <1>3, <1>4, <1>6
<1> DEFINE rest == (m \ {y}) \ {c}
<1>9. (m \ {c}) \ {y} = rest /\ IsFiniteSet(rest)
    BY <1>4, FS_RemoveElement
<1> HIDE DEF rest
<1>10. SumOf(f, rest) \in Int /\ f[c] \in Int /\ f[y] \in Int
    <2>1. \A z \in rest : f[z] \in Int
        BY DEF rest
    <2> QED
        BY <1>3, <1>4, <1>9, <2>1, SumType
<1>11. SumOf(f, m \ {c}) = f[y] + SumOf(f, rest)
    BY <1>7, <1>9
<1>12. SumOf(f, m \ {y}) = f[c] + SumOf(f, rest)
    BY <1>8 DEF rest
<1> QED
    BY <1>3, <1>5, <1>10, <1>11, <1>12

LEMMA SumAdd ==
    ASSUME NEW f, NEW S, IsFiniteSet(S), \A x \in S : f[x] \in Int, NEW x, x \notin S, f[x] \in Int
    PROVE  SumOf(f, S \cup {x}) = SumOf(f, S) + f[x]
<1>1. IsFiniteSet(S \cup {x}) /\ (S \cup {x}) \ {x} = S
    BY FS_AddElement
<1>2. SumOf(f, S \cup {x}) = f[x] + SumOf(f, S)
    BY <1>1, SumRemove
<1> QED
    BY <1>2, SumType

\* Only what is summed up matters.
LEMMA SumSame ==
    ASSUME NEW f, NEW g, NEW S, IsFiniteSet(S), \A x \in S : f[x] = g[x]
    PROVE  SumOf(f, S) = SumOf(g, S)
<1> DEFINE B == {s \in SUBSET S : SumOf(f, s) # SumOf(g, s)}
<1>1. SUFFICES ASSUME B # {} PROVE FALSE
    OBVIOUS
<1>2. PICK m \in B : \A s \in SUBSET m : s # m => s \notin B
    <2>1. B \subseteq SUBSET S
        OBVIOUS
    <2> HIDE DEF B
    <2> QED
        BY <1>1, <2>1, SmallestSet
<1>3. IsFiniteSet(m) /\ (m # {} => Pick(m) \in m)
    BY <1>2, FS_Subset DEF Pick
<1>4. m # {} => SumOf(f, m \ {Pick(m)}) = SumOf(g, m \ {Pick(m)}) /\ f[Pick(m)] = g[Pick(m)]
    BY <1>2, <1>3
<1> QED
    BY <1>2, <1>3, <1>4, SumStep

LEMMA SumApart ==
    ASSUME NEW f, NEW S, NEW T, IsFiniteSet(S), IsFiniteSet(T), S \cap T = {},
           \A x \in S \cup T : f[x] \in Int
    PROVE  SumOf(f, S \cup T) = SumOf(f, S) + SumOf(f, T)
<1> DEFINE B == {t \in SUBSET T : SumOf(f, S \cup t) # SumOf(f, S) + SumOf(f, t)}
<1>1. SUFFICES ASSUME B # {} PROVE FALSE
    OBVIOUS
<1>2. PICK m \in B : \A s \in SUBSET m : s # m => s \notin B
    <2>1. B \subseteq SUBSET T
        OBVIOUS
    <2> HIDE DEF B
    <2> QED
        BY <1>1, <2>1, SmallestSet
<1>3. CASE m = {}
    <2>1. S \cup m = S
        BY <1>3
    <2>2. SumOf(f, m) = 0 /\ SumOf(f, S) \in Int
        BY <1>3, SumEmpty, SumType
    <2>3. SumOf(f, S \cup m) = SumOf(f, S)
        BY <2>1, SumAlike
    <2>4. SumOf(f, S \cup m) = SumOf(f, S) + SumOf(f, m)
        BY <2>2, <2>3
    <2> QED
        BY <1>2, <2>4
<1>4. CASE m # {}
    <2> DEFINE c == Pick(m)  u == m \ {c}
    <2>1. c \in m /\ IsFiniteSet(m) /\ IsFiniteSet(S \cup m) /\ IsFiniteSet(u) /\ m \subseteq T
        BY <1>2, <1>4, FS_Subset, FS_Union, FS_RemoveElement DEF Pick
    <2>2. SumOf(f, S \cup u) = SumOf(f, S) + SumOf(f, u)
        BY <1>2, <2>1
    <2>3. (S \cup m) \ {c} = S \cup u
        BY <2>1
    <2> HIDE DEF c
    <2>4. SumOf(f, S \cup m) = f[c] + SumOf(f, S \cup u)
        BY <2>1, <2>3, SumRemove
    <2>5. SumOf(f, m) = f[c] + SumOf(f, u)
        BY <2>1, SumRemove
    <2>6. f[c] \in Int /\ SumOf(f, S) \in Int /\ SumOf(f, u) \in Int
        BY <2>1, SumType
    <2> QED
        BY <1>2, <2>2, <2>4, <2>5, <2>6
<1> QED
    BY <1>3, <1>4

LEMMA SumWithout ==
    ASSUME NEW f, NEW S, IsFiniteSet(S), NEW T \in SUBSET S, \A x \in S : f[x] \in Int
    PROVE  SumOf(f, S \ T) = SumOf(f, S) - SumOf(f, T)
<1>1. IsFiniteSet(T) /\ IsFiniteSet(S \ T) /\ (S \ T) \cup T = S /\ (S \ T) \cap T = {}
    BY FS_Subset
<1>2. SumOf(f, S) = SumOf(f, S \ T) + SumOf(f, T)
    BY <1>1, SumApart
<1> QED
    BY <1>1, <1>2, SumType

LEMMA SumSingle ==
    ASSUME NEW f, NEW x, f[x] \in Int
    PROVE  SumOf(f, {x}) = f[x]
<1>0. {x} \ {x} = {}
    OBVIOUS
<1>1. IsFiniteSet({x}) /\ SumOf(f, {x} \ {x}) = 0
    BY <1>0, FS_Singleton, SumEmpty, SumAlike
<1>2. SumOf(f, {x}) = f[x] + SumOf(f, {x} \ {x})
    BY <1>1, SumRemove
<1> QED
    BY <1>1, <1>2

\* Equal amounts.
LEMMA SumEqual ==
    ASSUME NEW f, NEW S, IsFiniteSet(S), NEW n \in Int, \A x \in S : f[x] = n
    PROVE  SumOf(f, S) = Cardinality(S) * n
<1> DEFINE B == {s \in SUBSET S : SumOf(f, s) # Cardinality(s) * n}
<1>1. SUFFICES ASSUME B # {} PROVE FALSE
    OBVIOUS
<1>2. PICK m \in B : \A s \in SUBSET m : s # m => s \notin B
    <2>1. B \subseteq SUBSET S
        OBVIOUS
    <2> HIDE DEF B
    <2> QED
        BY <1>1, <2>1, SmallestSet
<1>3. IsFiniteSet(m)
    BY <1>2, FS_Subset
<1>4. CASE m = {}
    BY <1>2, <1>4, SumEmpty, FS_EmptySet
<1>5. CASE m # {}
    <2> DEFINE c == Pick(m)  k == Cardinality(m \ {c})
    <2>1. c \in m
        BY <1>5 DEF Pick
    <2>2. SumOf(f, m) = n + SumOf(f, m \ {c})
        BY <1>2, <1>3, <1>5, <2>1, SumStep
    <2>3. k \in Nat /\ Cardinality(m) = k + 1
        <3>1. IsFiniteSet(m \ {c}) /\ Cardinality(m \ {c}) = Cardinality(m) - 1
            BY <1>3, <2>1, FS_RemoveElement
        <3>2. Cardinality(m) \in Nat /\ Cardinality(m \ {c}) \in Nat
            BY <1>3, <3>1, FS_CardinalityType
        <3> QED
            BY <3>1, <3>2
    <2>4. SumOf(f, m \ {c}) = k * n
        BY <1>2, <2>1
    <2> HIDE DEF c, k
    <2>5. (k + 1) * n = n + k * n
        BY <2>3
    <2> QED
        BY <1>2, <2>2, <2>3, <2>4, <2>5
<1> QED
    BY <1>4, <1>5

\* The members of a set that have something in common.
Part(S, part, p) == {x \in S : part[x] = p}
Parts(S, part) == {part[x] : x \in S}

\* A set's sum is that of the sums of its parts, when each of its members is in one.
LEMMA SumByPart ==
    ASSUME NEW f, NEW S, IsFiniteSet(S), \A x \in S : f[x] \in Int, NEW part, NEW g,
           \A p \in Parts(S, part) : g[p] = SumOf(f, Part(S, part, p))
    PROVE  SumOf(f, S) = SumOf(g, Parts(S, part))
<1> DEFINE P == Parts(S, part)
           Of(s) == {x \in S : part[x] \in s}
           B == {s \in SUBSET P : SumOf(f, Of(s)) # SumOf(g, s)}
<1>0. IsFiniteSet(P) /\ Of(P) = S
    BY FiniteImage DEF Parts
<1>1. SUFFICES ASSUME B # {} PROVE FALSE
    <2>1. SumOf(f, Of(P)) = SumOf(g, P)
        BY <1>1
    <2> QED
        BY <1>0, <2>1, SumAlike
<1>2. PICK m \in B : \A s \in SUBSET m : s # m => s \notin B
    <2>1. B \subseteq SUBSET P
        OBVIOUS
    <2> HIDE DEF B
    <2> QED
        BY <1>0, <1>1, <2>1, SmallestSet
<1>3. IsFiniteSet(m)
    BY <1>0, <1>2, FS_Subset
<1>4. CASE m = {}
    <2>1. Of(m) = {}
        BY <1>4
    <2>2. SumOf(f, Of(m)) = SumOf(f, {})
        BY <2>1, SumAlike
    <2> QED
        BY <1>2, <1>4, <2>2, SumEmpty
<1>5. CASE m # {}
    <2> DEFINE c == Pick(m)  u == m \ {c}  C == Part(S, part, c)
    <2>1. c \in m /\ m \subseteq P
        BY <1>2, <1>5 DEF Pick
    <2>2. SumOf(g, m) = g[c] + SumOf(g, u)
        BY <1>3, <1>5, SumStep
    <2> HIDE DEF c
    <2>3. SumOf(f, Of(u)) = SumOf(g, u)
        BY <1>2, <2>1
    <2>4. g[c] = SumOf(f, C)
        BY <2>1
    <2>5. Of(m) = C \cup Of(u) /\ C \cap Of(u) = {} /\ IsFiniteSet(C) /\ IsFiniteSet(Of(u))
        BY <2>1, FS_Subset DEF Part
    <2>6. \A x \in C \cup Of(u) : f[x] \in Int
        BY DEF Part
    <2> HIDE DEF C, u, Of
    <2>7. SumOf(f, Of(m)) = SumOf(f, C \cup Of(u))
        BY <2>5, SumAlike
    <2>8. SumOf(f, C \cup Of(u)) = SumOf(f, C) + SumOf(f, Of(u))
        BY <2>5, <2>6, SumApart
    <2> QED
        BY <1>2, <2>2, <2>3, <2>4, <2>7, <2>8
<1> QED
    BY <1>4, <1>5
=============================================================================
