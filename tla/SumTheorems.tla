------------------------------ MODULE SumTheorems ------------------------------
(***************************************************************************)
(* Finite sums: what MapThenSumSet, and any other fold that adds weights   *)
(* one chosen element after another, computes, whichever element it        *)
(* chooses.  w is a function that gives every element its weight.          *)
(*                                                                         *)
(* Each fact is shown by a smallest set for which it would fail.           *)
(***************************************************************************)
EXTENDS Integers, FiniteSets, FiniteSetTheorems, WellFoundedInduction, TLAPS

\* Among finite sets there are smallest ones.
LEMMA SmallestSet ==
  ASSUME NEW S, IsFiniteSet(S), NEW B \in SUBSET (SUBSET S), B # {}
  PROVE  \E s \in B : \A t \in B : t \subseteq s => t = s
<1>1. B \subseteq FiniteSubsetsOf(S)
  BY FS_Subset DEF FiniteSubsetsOf
<1>2. PICK s \in B : \A t \in B : ~(<<t, s>> \in StrictSubsetOrdering(S))
  BY <1>1, WFMin, FS_StrictSubsetOrderingWellFounded
<1> QED
  BY <1>2 DEF StrictSubsetOrdering

LEMMA SmallestNumber ==
  ASSUME NEW T \in SUBSET Nat, T # {}
  PROVE  \E m \in T : \A k \in T : m <= k
<1>1. PICK m \in T : \A k \in T : <<k, m>> \notin OpToRel(<, Nat)
  BY NatLessThanWellFounded, WFMin
<1>2. \A k \in T : ~(k < m)
  BY <1>1 DEF OpToRel
<1> QED
  BY <1>2

Pick(s) == CHOOSE x \in s : TRUE
Step(f, s, w) == IF s = {} THEN 0 ELSE w[Pick(s)] + f[s \ {Pick(s)}]
Sums(f, S, w) == f = [s \in SUBSET S |-> Step(f, s, w)]
Weights(w, D) == IsFiniteSet(D) /\ w \in [D -> Nat]
Sum(w, S) == (CHOOSE f : Sums(f, S, w))[S]

LEMMA Picked ==
  ASSUME NEW s, s # {}
  PROVE  Pick(s) \in s
<1> QED
  BY DEF Pick

\* The recursion defines a function.
LEMMA SumExists ==
  ASSUME NEW S, IsFiniteSet(S), NEW w
  PROVE  \E f : Sums(f, S, w)
<1> DEFINE Upto(n) == {s \in SUBSET S : Cardinality(s) <= n}
           Some(n) == \E f : f = [s \in Upto(n) |-> Step(f, s, w)]
<1>1. \A s \in SUBSET S : IsFiniteSet(s) /\ Cardinality(s) \in Nat
  BY FS_Subset, FS_CardinalityType
<1>2. Some(0)
  <2> DEFINE f == [s \in Upto(0) |-> 0]
  <2>1. \A s \in Upto(0) : s = {}
    BY <1>1, FS_EmptySet
  <2>2. f = [s \in Upto(0) |-> Step(f, s, w)]
    BY <2>1 DEF Step
  <2> QED
    BY <2>2
<1>3. ASSUME NEW n \in Nat, Some(n) PROVE Some(n + 1)
  <2>1. PICK f : f = [s \in Upto(n) |-> Step(f, s, w)]
    BY <1>3
  <2> DEFINE g == [s \in Upto(n + 1) |-> Step(f, s, w)]
  <2>2. \A s \in Upto(n) : g[s] = f[s]
    <3> SUFFICES ASSUME NEW s \in Upto(n) PROVE g[s] = f[s]
      OBVIOUS
    <3>1. s \in Upto(n + 1)
      BY <1>1
    <3>2. f[s] = Step(f, s, w)
      BY <2>1
    <3> QED
      BY <3>1, <3>2
  <2>3. ASSUME NEW s \in Upto(n + 1), s # {} PROVE s \ {Pick(s)} \in Upto(n)
    BY <1>1, <2>3, Picked, FS_RemoveElement
  <2>4. \A s \in Upto(n + 1) : Step(f, s, w) = Step(g, s, w)
    BY <2>2, <2>3 DEF Step
  <2>5. g = [s \in Upto(n + 1) |-> Step(g, s, w)]
    BY <2>4
  <2> QED
    BY <2>5
<1> HIDE DEF Some
<1>4. \A n \in Nat : Some(n)
  <2> SUFFICES ASSUME {n \in Nat : ~Some(n)} # {} PROVE FALSE
    OBVIOUS
  <2>1. PICK m \in Nat : ~Some(m) /\ \A k \in Nat : ~Some(k) => m <= k
    BY SmallestNumber
  <2>2. m # 0 /\ m - 1 \in Nat
    BY <1>2, <2>1
  <2>3. Some(m - 1)
    BY <2>1, <2>2
  <2>4. Some((m - 1) + 1)
    BY <1>3, <2>2, <2>3
  <2> QED
    BY <2>1, <2>2, <2>4
<1>5. Upto(Cardinality(S)) = SUBSET S
  BY <1>1, FS_Subset
<1>6. Some(Cardinality(S))
  BY <1>1, <1>4
<1>7. \E f : f = [s \in Upto(Cardinality(S)) |-> Step(f, s, w)]
  BY <1>6 DEF Some
<1> HIDE DEF Upto
<1> QED
  BY <1>5, <1>7 DEF Sums

\* And only one, whatever set it is folded over, and whatever the weights
\* outside it.
LEMMA SumUnique ==
  ASSUME NEW T, NEW S \in SUBSET T, IsFiniteSet(S), NEW w, NEW v, NEW f, NEW g,
         Sums(f, S, w), Sums(g, T, v), \A x \in S : w[x] = v[x]
  PROVE  f[S] = g[S]
<1> DEFINE B == {s \in SUBSET S : f[s] # g[s]}
<1>1. SUFFICES ASSUME B # {} PROVE FALSE
  OBVIOUS
<1>3. PICK s \in B : \A t \in B : t \subseteq s => t = s
  <2>1. B \in SUBSET (SUBSET S)
    OBVIOUS
  <2> HIDE DEF B
  <2> QED
    BY <1>1, <2>1, SmallestSet
<1>4. f[s] = Step(f, s, w) /\ g[s] = Step(g, s, v)
  BY <1>3 DEF Sums
<1>5. s # {}
  BY <1>3, <1>4 DEF Step
<1>6. /\ s \ {Pick(s)} \subseteq s /\ s \ {Pick(s)} # s /\ s \ {Pick(s)} \in SUBSET S
      /\ Pick(s) \in S
  BY <1>3, <1>5, Picked
<1>7. f[s \ {Pick(s)}] = g[s \ {Pick(s)}] /\ w[Pick(s)] = v[Pick(s)]
  BY <1>3, <1>6
<1> QED
  BY <1>3, <1>4, <1>7 DEF Step

\* What Sum computes, one element at a time.
LEMMA SumStep ==
  ASSUME NEW D, NEW w, Weights(w, D), NEW S \in SUBSET D
  PROVE  /\ S = {} => Sum(w, S) = 0
         /\ S # {} => /\ Pick(S) \in S
                      /\ Sum(w, S) = w[Pick(S)] + Sum(w, S \ {Pick(S)})
<1>1. PICK f : Sums(f, D, w)
  BY SumExists DEF Weights
<1>2. \A s \in SUBSET D : Sum(w, s) = f[s]
  <2> SUFFICES ASSUME NEW s \in SUBSET D PROVE Sum(w, s) = f[s]
    OBVIOUS
  <2>1. IsFiniteSet(s)
    BY FS_Subset DEF Weights
  <2> DEFINE g == CHOOSE g : Sums(g, s, w)
  <2>2. Sums(g, s, w)
    BY <2>1, SumExists
  <2> HIDE DEF g
  <2>3. g[s] = f[s]
    BY <1>1, <2>1, <2>2, SumUnique
  <2> QED
    BY <2>3 DEF Sum, g
<1>3. f[S] = Step(f, S, w)
  BY <1>1 DEF Sums
<1> QED
  BY <1>2, <1>3, Picked DEF Step

LEMMA SumIsNat ==
  ASSUME NEW D, NEW w, Weights(w, D), NEW S \in SUBSET D
  PROVE  Sum(w, S) \in Nat
<1> DEFINE B == {s \in SUBSET D : Sum(w, s) \notin Nat}
<1>1. SUFFICES ASSUME B # {} PROVE FALSE
  OBVIOUS
<1>2. PICK s \in B : \A t \in B : t \subseteq s => t = s
  <2>1. B \in SUBSET (SUBSET D) /\ IsFiniteSet(D)
    BY DEF Weights
  <2> HIDE DEF B
  <2> QED
    BY <1>1, <2>1, SmallestSet
<1>3. s # {} /\ Pick(s) \in s
  <2>1. s \in SUBSET D /\ Sum(w, s) \notin Nat
    BY <1>2
  <2>2. s = {} => Sum(w, s) = 0
    BY <2>1, SumStep
  <2> QED
    BY <2>1, <2>2, Picked
<1>4. Sum(w, s \ {Pick(s)}) \in Nat
  BY <1>2, <1>3
<1>5. w[Pick(s)] \in Nat
  BY <1>2, <1>3 DEF Weights
<1>6. Sum(w, s) = w[Pick(s)] + Sum(w, s \ {Pick(s)})
  BY <1>2, <1>3, SumStep
<1> QED
  BY <1>2, <1>4, <1>5, <1>6

\* Any element may be removed first.
LEMMA SumRemove ==
  ASSUME NEW D, NEW w, Weights(w, D), NEW S \in SUBSET D, NEW x \in S
  PROVE  Sum(w, S) = w[x] + Sum(w, S \ {x})
<1> DEFINE Good(s) == \A y \in s : Sum(w, s) = w[y] + Sum(w, s \ {y})
           B == {s \in SUBSET D : ~Good(s)}
<1>1. SUFFICES ASSUME B # {} PROVE FALSE
  OBVIOUS
<1>2. PICK s \in B : \A t \in B : t \subseteq s => t = s
  <2>1. B \in SUBSET (SUBSET D) /\ IsFiniteSet(D)
    BY DEF Weights
  <2> HIDE DEF B
  <2> QED
    BY <1>1, <2>1, SmallestSet
<1>3. PICK y \in s : Sum(w, s) # w[y] + Sum(w, s \ {y})
  BY <1>2
<1> DEFINE c == Pick(s)
<1>4. c \in s /\ Sum(w, s) = w[c] + Sum(w, s \ {c})
  <2>1. s # {} /\ s \in SUBSET D
    BY <1>2, <1>3
  <2> HIDE DEF B
  <2> QED
    BY <2>1, SumStep
<1>5. c # y
  BY <1>3, <1>4
<1>6. Good(s \ {c}) /\ Good(s \ {y})
  BY <1>2, <1>3, <1>4
<1> HIDE DEF c
<1>7. Sum(w, s \ {c}) = w[y] + Sum(w, (s \ {c}) \ {y})
  BY <1>3, <1>5, <1>6
<1>8. Sum(w, s \ {y}) = w[c] + Sum(w, (s \ {y}) \ {c})
  BY <1>4, <1>5, <1>6
<1>9. (s \ {c}) \ {y} = (s \ {y}) \ {c}
  OBVIOUS
<1>10. /\ w[c] \in Nat /\ w[y] \in Nat
       /\ Sum(w, (s \ {y}) \ {c}) \in Nat
  BY <1>2, <1>3, <1>4, SumIsNat DEF Weights
<1>11. Sum(w, (s \ {c}) \ {y}) = Sum(w, (s \ {y}) \ {c})
  BY <1>9, Zenon
<1> DEFINE rest == Sum(w, (s \ {y}) \ {c})
           wc == w[c]
           wy == w[y]
<1>12. /\ Sum(w, s) = wc + (wy + rest) /\ Sum(w, s) # wy + (wc + rest)
       /\ wc \in Nat /\ wy \in Nat /\ rest \in Nat
  <2> HIDE DEF wc, wy, rest
  <2>1. Sum(w, s \ {c}) = wy + rest /\ Sum(w, s \ {y}) = wc + rest
    BY <1>7, <1>8, <1>11 DEF wc, wy, rest
  <2>2. Sum(w, s) = wc + Sum(w, s \ {c}) /\ Sum(w, s) # wy + Sum(w, s \ {y})
    BY <1>3, <1>4 DEF wc, wy
  <2> QED
    BY <1>10, <2>1, <2>2 DEF wc, wy, rest
<1> HIDE DEF wc, wy, rest
<1> QED
  BY <1>12

\* Weights that agree on a set give it the same sum.
LEMMA SumSame ==
  ASSUME NEW S, IsFiniteSet(S), NEW w, NEW v, \A x \in S : w[x] = v[x]
  PROVE  Sum(w, S) = Sum(v, S)
<1> DEFINE f == CHOOSE f : Sums(f, S, w)
           g == CHOOSE g : Sums(g, S, v)
<1>1. Sums(f, S, w) /\ Sums(g, S, v)
  BY SumExists
<1> HIDE DEF f, g
<1>2. f[S] = g[S]
  <2>1. S \in SUBSET S
    OBVIOUS
  <2> QED
    BY <1>1, <2>1, SumUnique
<1> QED
  BY <1>2 DEF Sum, f, g

\* A function that satisfies the recursion computes the sum.
LEMMA SumByRecursion ==
  ASSUME NEW S, IsFiniteSet(S), NEW w, NEW f, Sums(f, S, w)
  PROVE  f[S] = Sum(w, S)
<1> DEFINE g == CHOOSE g : Sums(g, S, w)
<1>1. Sums(g, S, w)
  BY SumExists
<1>2. S \in SUBSET S
  OBVIOUS
<1> HIDE DEF g
<1>3. f[S] = g[S]
  BY <1>1, <1>2, SumUnique
<1> QED
  BY <1>3 DEF Sum, g

-----------------------------------------------------------------------------
(* Comparing sums. *)

\* One element more.
LEMMA SumAdd ==
  ASSUME NEW D, NEW w, Weights(w, D), NEW S \in SUBSET D, NEW x \in D \ S
  PROVE  Sum(w, S \cup {x}) = w[x] + Sum(w, S)
<1>1. S \cup {x} \in SUBSET D /\ x \in S \cup {x} /\ (S \cup {x}) \ {x} = S
  OBVIOUS
<1>2. \A U \in SUBSET D : x \in U => Sum(w, U) = w[x] + Sum(w, U \ {x})
  BY SumRemove
<1>3. Sum(w, S \cup {x}) = w[x] + Sum(w, (S \cup {x}) \ {x})
  BY <1>1, <1>2
<1> QED
  BY <1>1, <1>3

\* What weighs nothing does not count, and less sums to less.
LEMMA SumCovers ==
  ASSUME NEW D, NEW w, Weights(w, D), NEW v, Weights(v, D),
         NEW S \in SUBSET D, NEW T \in SUBSET D,
         \A x \in S : (x \in T /\ w[x] <= v[x]) \/ w[x] = 0
  PROVE  Sum(w, S) <= Sum(v, T)
<1> DEFINE Within(s, t) == \A x \in s : (x \in t /\ w[x] <= v[x]) \/ w[x] = 0
           Good(s) == \A t \in SUBSET D : Within(s, t) => Sum(w, s) <= Sum(v, t)
           B == {s \in SUBSET D : ~Good(s)}
<1>1. SUFFICES ASSUME B # {} PROVE FALSE
  OBVIOUS
<1>2. PICK s \in B : \A t \in B : t \subseteq s => t = s
  <2>1. B \in SUBSET (SUBSET D) /\ IsFiniteSet(D)
    BY DEF Weights
  <2> HIDE DEF B
  <2> QED
    BY <1>1, <2>1, SmallestSet
<1>3. PICK t \in SUBSET D : Within(s, t) /\ ~(Sum(w, s) <= Sum(v, t))
  BY <1>2
<1>4. Sum(v, t) \in Nat /\ Sum(w, s) \in Nat
  BY <1>2, <1>3, SumIsNat
<1>5. PICK x \in s : TRUE
  <2>1. s = {} => Sum(w, s) = 0
    BY <1>2, SumStep
  <2> QED
    BY <1>3, <1>4, <2>1
<1>6. Good(s \ {x}) /\ Sum(w, s \ {x}) \in Nat
  BY <1>2, <1>5, SumIsNat
<1>7. Sum(w, s) = w[x] + Sum(w, s \ {x}) /\ w[x] \in Nat /\ v[x] \in Nat
  BY <1>2, <1>5, SumRemove DEF Weights
<1>8. CASE x \in t /\ w[x] <= v[x]
  <2>1. Sum(v, t) = v[x] + Sum(v, t \ {x}) /\ Sum(v, t \ {x}) \in Nat
    BY <1>3, <1>8, SumRemove, SumIsNat
  <2>2. Sum(w, s \ {x}) <= Sum(v, t \ {x})
    BY <1>3, <1>6
  <2> QED
    BY <1>3, <1>6, <1>7, <1>8, <2>1, <2>2
<1>9. CASE w[x] = 0
  <2>1. CASE x \in t
    <3>1. w[x] <= v[x]
      BY <1>7, <1>9
    <3> QED
      BY <1>8, <2>1, <3>1
  <2>2. CASE x \notin t
    <3>1. Sum(w, s \ {x}) <= Sum(v, t)
      BY <1>3, <1>6
    <3> QED
      BY <1>3, <1>4, <1>6, <1>7, <1>9, <3>1
  <2> QED
    BY <2>1, <2>2
<1> QED
  BY <1>3, <1>5, <1>8, <1>9

\* A union sums to no more than its parts, and to them when they are disjoint.
LEMMA SumUnion ==
  ASSUME NEW D, NEW w, Weights(w, D), NEW S \in SUBSET D, NEW T \in SUBSET D
  PROVE  /\ Sum(w, S \cup T) <= Sum(w, S) + Sum(w, T)
         /\ S \cap T = {} => Sum(w, S \cup T) = Sum(w, S) + Sum(w, T)
<1> DEFINE Good(s) ==
      /\ Sum(w, s \cup T) <= Sum(w, s) + Sum(w, T)
      /\ s \cap T = {} => Sum(w, s \cup T) = Sum(w, s) + Sum(w, T)
           B == {s \in SUBSET D : ~Good(s)}
<1>1. SUFFICES ASSUME B # {} PROVE FALSE
  OBVIOUS
<1>2. PICK s \in B : \A t \in B : t \subseteq s => t = s
  <2>1. B \in SUBSET (SUBSET D) /\ IsFiniteSet(D)
    BY DEF Weights
  <2> HIDE DEF B
  <2> QED
    BY <1>1, <2>1, SmallestSet
<1>3. Sum(w, T) \in Nat /\ Sum(w, s) \in Nat
  BY <1>2, SumIsNat
<1>4. s # {}
  <2> SUFFICES ASSUME s = {} PROVE FALSE
    OBVIOUS
  <2>1. Sum(w, s) = 0 /\ s \cup T = T
    BY <1>2, SumStep
  <2> QED
    BY <1>2, <1>3, <2>1
<1>5. PICK x \in s : TRUE
  BY <1>4
<1>6. Good(s \ {x}) /\ Sum(w, s \ {x}) \in Nat
  BY <1>2, <1>5, SumIsNat
<1>7. Sum(w, s) = w[x] + Sum(w, s \ {x}) /\ w[x] \in Nat
  BY <1>2, <1>5, SumRemove DEF Weights
<1>8. CASE x \in T
  <2>1. (s \ {x}) \cup T = s \cup T /\ s \cap T # {}
    BY <1>5, <1>8
  <2>2. Sum(w, s \cup T) <= Sum(w, s \ {x}) + Sum(w, T)
    BY <1>6, <2>1
  <2>3. s \cup T \in SUBSET D
    BY <1>2
  <2>4. Sum(w, s \cup T) \in Nat
    BY <2>3, SumIsNat
  <2>5. Good(s)
    BY <1>3, <1>6, <1>7, <2>1, <2>2, <2>4
  <2> QED
    BY <1>2, <2>5
<1>9. CASE x \notin T
  <2>1. /\ (s \cup T) \ {x} = (s \ {x}) \cup T /\ x \in s \cup T
        /\ s \cup T \in SUBSET D
        /\ s \cap T = {} => (s \ {x}) \cap T = {}
    BY <1>2, <1>5, <1>9
  <2>2. Sum(w, s \cup T) = w[x] + Sum(w, (s \ {x}) \cup T)
    <3>1. \A U \in SUBSET D : x \in U => Sum(w, U) = w[x] + Sum(w, U \ {x})
      BY SumRemove
    <3>2. Sum(w, s \cup T) = w[x] + Sum(w, (s \cup T) \ {x})
      BY <2>1, <3>1
    <3> QED
      BY <2>1, <3>2
  <2>3. (s \ {x}) \cup T \in SUBSET D
    BY <2>1
  <2>4. Sum(w, (s \ {x}) \cup T) \in Nat
    BY <2>3, SumIsNat
  <2>5. Good(s)
    BY <1>3, <1>6, <1>7, <2>1, <2>2, <2>4
  <2> QED
    BY <1>2, <2>5
<1> QED
  BY <1>8, <1>9

\* Weights add up element by element.
LEMMA SumPlus ==
  ASSUME NEW D, NEW w, Weights(w, D), NEW v, Weights(v, D), NEW u, Weights(u, D),
         NEW S \in SUBSET D, \A x \in S : u[x] = w[x] + v[x]
  PROVE  Sum(u, S) = Sum(w, S) + Sum(v, S)
<1> DEFINE Good(s) == Sum(u, s) = Sum(w, s) + Sum(v, s)
           B == {s \in SUBSET D : s \subseteq S /\ ~Good(s)}
<1>1. SUFFICES ASSUME B # {} PROVE FALSE
  OBVIOUS
<1>2. PICK s \in B : \A t \in B : t \subseteq s => t = s
  <2>1. B \in SUBSET (SUBSET D) /\ IsFiniteSet(D)
    BY DEF Weights
  <2> HIDE DEF B
  <2> QED
    BY <1>1, <2>1, SmallestSet
<1>3. s # {}
  <2> SUFFICES ASSUME s = {} PROVE FALSE
    OBVIOUS
  <2>1. Sum(u, s) = 0 /\ Sum(w, s) = 0 /\ Sum(v, s) = 0
    BY <1>2, SumStep
  <2> QED
    BY <1>2, <2>1
<1>4. PICK x \in s : TRUE
  BY <1>3
<1>5. /\ Sum(u, s) = u[x] + Sum(u, s \ {x}) /\ Sum(w, s) = w[x] + Sum(w, s \ {x})
      /\ Sum(v, s) = v[x] + Sum(v, s \ {x})
  BY <1>2, <1>4, SumRemove
<1>6. Good(s \ {x})
  BY <1>2, <1>4
<1>7. /\ Sum(u, s \ {x}) \in Nat /\ Sum(w, s \ {x}) \in Nat /\ Sum(v, s \ {x}) \in Nat
      /\ w[x] \in Nat /\ v[x] \in Nat
  BY <1>2, <1>4, SumIsNat DEF Weights
<1>8. u[x] = w[x] + v[x]
  BY <1>2, <1>4
<1>9. Good(s)
  BY <1>5, <1>6, <1>7, <1>8
<1> QED
  BY <1>2, <1>9

\* One element changes its weight.
LEMMA SumChange ==
  ASSUME NEW D, NEW w, Weights(w, D), NEW v, Weights(v, D), NEW x \in D,
         \A y \in D : y # x => v[y] = w[y]
  PROVE  /\ Sum(v, D) = (Sum(w, D) - w[x]) + v[x]
         /\ w[x] <= Sum(w, D)
<1> DEFINE rest == D \ {x}
<1>1. D \in SUBSET D /\ rest \in SUBSET D
  OBVIOUS
<1>2. Sum(v, D) = v[x] + Sum(v, rest) /\ Sum(w, D) = w[x] + Sum(w, rest)
  BY <1>1, SumRemove
<1>3. Sum(v, rest) = Sum(w, rest)
  <2>1. IsFiniteSet(rest) /\ \A y \in rest : v[y] = w[y]
    BY <1>1, FS_Subset DEF Weights
  <2> HIDE DEF rest
  <2> QED
    BY <2>1, SumSame
<1>4. v[x] \in Nat /\ w[x] \in Nat /\ Sum(w, rest) \in Nat
  BY <1>1, SumIsNat DEF Weights
<1> HIDE DEF rest
<1> QED
  BY <1>2, <1>3, <1>4

\* A sum over the image of an injection.
LEMMA SumInto ==
  ASSUME NEW D, NEW w, Weights(w, D), NEW E, NEW v, Weights(v, E),
         NEW S \in SUBSET D, NEW f, \A x \in S : f[x] \in E,
         \A x, y \in S : f[x] = f[y] => x = y,
         \A x \in S : w[x] = v[f[x]]
  PROVE  Sum(w, S) = Sum(v, {f[x] : x \in S})
<1> DEFINE Image(s) == {f[x] : x \in s}
           Good(s) == Sum(w, s) = Sum(v, Image(s))
           B == {s \in SUBSET D : s \subseteq S /\ ~Good(s)}
<1>1. SUFFICES ASSUME B # {} PROVE FALSE
  OBVIOUS
<1>2. PICK s \in B : \A t \in B : t \subseteq s => t = s
  <2>1. B \in SUBSET (SUBSET D) /\ IsFiniteSet(D)
    BY DEF Weights
  <2> HIDE DEF B
  <2> QED
    BY <1>1, <2>1, SmallestSet
<1>3. s # {}
  <2> SUFFICES ASSUME s = {} PROVE FALSE
    OBVIOUS
  <2>1. Sum(w, s) = 0
    BY <1>2, SumStep
  <2>2. Image(s) = {} /\ {} \in SUBSET E
    OBVIOUS
  <2>3. Sum(v, {}) = 0
    BY <2>2, SumStep
  <2> QED
    BY <1>2, <2>1, <2>2, <2>3
<1>4. PICK x \in s : TRUE
  BY <1>3
<1>5. Sum(w, s) = w[x] + Sum(w, s \ {x})
  BY <1>2, <1>4, SumRemove
<1>6. Good(s \ {x})
  BY <1>2, <1>4
<1>7. Image(s) \in SUBSET E /\ f[x] \in Image(s)
  BY <1>2, <1>4
<1>8. Image(s \ {x}) = Image(s) \ {f[x]}
  BY <1>2, <1>4
<1> HIDE DEF Image
<1>9. Sum(v, Image(s)) = v[f[x]] + Sum(v, Image(s) \ {f[x]})
  BY <1>7, SumRemove
<1>10. w[x] = v[f[x]]
  BY <1>2, <1>4
<1>11. Good(s)
  BY <1>5, <1>6, <1>8, <1>9, <1>10
<1> QED
  BY <1>2, <1>11
=============================================================================
