------------------------------ MODULE SumTheorems -----------------------------
(***************************************************************************)
(* What MapThenSumSet of FiniteSetsExt computes over a finite set: the     *)
(* sums of the ledgers do not depend on the order its fold takes.  The     *)
(* fold is a recursive function; that it exists is proved by stages of     *)
(* cardinality, and the rest by a counterexample of least cardinality.     *)
(***************************************************************************)
EXTENDS Integers, FiniteSets, FiniteSetsExt, FiniteSetTheorems, WellFoundedInduction, TLAPS

Sum(f, S) == MapThenSumSet(LAMBDA x : f[x], S)

\* The function the fold defines, by its recursion.
Pick(s)          == CHOOSE x \in s : TRUE
Recurs(g, f, D)  == g = [s \in D |-> IF s = {} THEN 0 ELSE f[Pick(s)] + g[s \ {Pick(s)}]]
Fold(f, S)       == CHOOSE g : Recurs(g, f, SUBSET S)

\* A property of the subsets of a finite set that fails, fails of one of least
\* cardinality.
LEMMA Least ==
  ASSUME NEW S, IsFiniteSet(S), NEW bad \in SUBSET (SUBSET S), bad # {}
  PROVE  \E s \in bad : \A t \in bad : ~(Cardinality(t) < Cardinality(s))
<1>. DEFINE C == {Cardinality(s) : s \in bad}
<1>1. C \subseteq Nat /\ C # {}
  <2>1. \A s \in bad : Cardinality(s) \in Nat BY FS_Subset, FS_CardinalityType
  <2>. QED BY <2>1
<1>2. \E n \in C : \A m \in C : ~(m < n)
  <2>. HIDE DEF C
  <2>1. PICK n \in C : \A m \in C : ~(<<m, n>> \in OpToRel(<, Nat))
    BY <1>1, NatLessThanWellFounded, WFMin
  <2>. QED BY <1>1, <2>1 DEF OpToRel
<1>. QED BY <1>2

\* A member taken away: one fewer.
LEMMA Smaller ==
  ASSUME NEW S, IsFiniteSet(S), NEW s \in SUBSET S, NEW x \in s
  PROVE  /\ IsFiniteSet(s) /\ Cardinality(s) \in Nat
         /\ s \ {x} \in SUBSET S /\ Cardinality(s \ {x}) = Cardinality(s) - 1
<1>1. IsFiniteSet(s) BY FS_Subset
<1>2. Cardinality(s \ {x}) = Cardinality(s) - 1 BY <1>1, FS_RemoveElement
<1>. QED BY <1>1, <1>2, FS_CardinalityType

\* The recursion of the fold has a solution.
LEMMA FoldExists ==
  ASSUME NEW f, NEW S, IsFiniteSet(S)
  PROVE  \E g : Recurs(g, f, SUBSET S)
<1>. DEFINE Stage(n) == {s \in SUBSET S : Cardinality(s) <= n}
            Solves(g, n) == Recurs(g, f, Stage(n))
            bad == {n \in Nat : ~\E g : Solves(g, n)}
<1>1. \A s \in SUBSET S : s # {} =>
         /\ Pick(s) \in s /\ s \ {Pick(s)} \in SUBSET S /\ Cardinality(s) \in Nat
         /\ Cardinality(s \ {Pick(s)}) = Cardinality(s) - 1
  <2>. TAKE s \in SUBSET S
  <2>. HAVE s # {}
  <2>1. Pick(s) \in s BY DEF Pick
  <2>. QED BY <2>1, Smaller
<1>2. bad = {}
  <2>. SUFFICES ASSUME bad # {} PROVE FALSE OBVIOUS
  <2>1. PICK n \in bad : \A m \in bad : ~(<<m, n>> \in OpToRel(<, Nat))
    BY NatLessThanWellFounded, WFMin
  <2>2. n \in Nat /\ \A m \in Nat : m < n => \E g : Solves(g, m)
    BY <2>1 DEF OpToRel
  <2>3. CASE n = 0
    <3>. DEFINE g == [s \in Stage(0) |-> 0]
    <3>1. \A s \in Stage(0) : s = {}
      BY FS_Subset, FS_EmptySet, FS_CardinalityType
    <3>2. Solves(g, 0) BY <3>1 DEF Recurs
    <3>. QED BY <2>1, <2>3, <3>2
  <2>4. CASE n # 0
    <3>1. n - 1 \in Nat /\ n - 1 < n BY <2>2, <2>4
    <3>2. PICK g : Solves(g, n - 1) BY <2>2, <3>1
    <3>. DEFINE h == [s \in Stage(n) |->
                        IF s = {} THEN 0 ELSE f[Pick(s)] + g[s \ {Pick(s)}]]
    <3>3. \A s \in Stage(n) : s # {} => s \ {Pick(s)} \in Stage(n - 1)
      BY <1>1, <2>2
    <3>4. \A s \in Stage(n - 1) : s \in Stage(n) /\ h[s] = g[s]
      <4>1. \A s \in SUBSET S : Cardinality(s) \in Nat BY FS_Subset, FS_CardinalityType
      <4>2. \A s \in Stage(n - 1) : s \in Stage(n) BY <2>2, <4>1
      <4>3. \A s \in Stage(n - 1) :
               g[s] = IF s = {} THEN 0 ELSE f[Pick(s)] + g[s \ {Pick(s)}]
        BY <3>2 DEF Recurs
      <4>. QED BY <4>2, <4>3
    <3>5. \A s \in Stage(n) : s # {} => g[s \ {Pick(s)}] = h[s \ {Pick(s)}]
      BY <3>3, <3>4
    <3>6. Solves(h, n) BY <3>5 DEF Recurs
    <3>. QED BY <2>1, <3>6
  <2>. QED BY <2>3, <2>4
<1>3. Cardinality(S) \in Nat BY FS_CardinalityType
<1>4. PICK g : Solves(g, Cardinality(S)) BY <1>2, <1>3
<1>5. Stage(Cardinality(S)) = SUBSET S BY FS_Subset
<1>. QED BY <1>4, <1>5 DEF Recurs

\* So the fold is what its recursion says.
LEMMA FoldIs ==
  ASSUME NEW f, NEW S, IsFiniteSet(S)
  PROVE  \A s \in SUBSET S :
           Fold(f, S)[s] = IF s = {} THEN 0
                           ELSE f[Pick(s)] + Fold(f, S)[s \ {Pick(s)}]
<1>1. Recurs(Fold(f, S), f, SUBSET S) BY FoldExists DEF Fold
<1>. DEFINE g == Fold(f, S)
<1>2. Recurs(g, f, SUBSET S) BY <1>1
<1>. HIDE DEF g
<1>3. \A s \in SUBSET S : g[s] = IF s = {} THEN 0 ELSE f[Pick(s)] + g[s \ {Pick(s)}]
  BY <1>2 DEF Recurs
<1>. QED BY <1>3 DEF g

LEMMA SumIsFold ==
  ASSUME NEW f, NEW S
  PROVE  Sum(f, S) = Fold(f, S)[S]
  BY Zenon DEF Sum, MapThenSumSet, MapThenFoldSet, Pick, Recurs, Fold

\* A larger set to fold over makes no difference.
LEMMA FoldsAgree ==
  ASSUME NEW f, NEW S, IsFiniteSet(S), NEW T \in SUBSET S
  PROVE  Fold(f, S)[T] = Sum(f, T)
<1>. DEFINE bad == {s \in SUBSET T : Fold(f, S)[s] # Fold(f, T)[s]}
<1>1. IsFiniteSet(T) BY FS_Subset
<1>2. bad = {}
  <2>. SUFFICES ASSUME bad # {} PROVE FALSE OBVIOUS
  <2>1. PICK s \in bad : \A t \in bad : ~(Cardinality(t) < Cardinality(s))
    BY <1>1, Least
  <2>2. s \in SUBSET T /\ s \in SUBSET S OBVIOUS
  <2>3. s # {} BY <1>1, <2>2, FoldIs
  <2>4. Pick(s) \in s BY <2>3 DEF Pick
  <2>5. /\ Cardinality(s) \in Nat /\ s \ {Pick(s)} \in SUBSET T
        /\ Cardinality(s \ {Pick(s)}) = Cardinality(s) - 1
    BY <1>1, <2>2, <2>4, Smaller
  <2>6. Cardinality(s \ {Pick(s)}) < Cardinality(s) BY <2>5
  <2>7. Fold(f, S)[s \ {Pick(s)}] = Fold(f, T)[s \ {Pick(s)}] BY <2>1, <2>5, <2>6
  <2>8. Fold(f, S)[s] = Fold(f, T)[s] BY <1>1, <2>2, <2>3, <2>7, FoldIs
  <2>. QED BY <2>8
<1>. QED BY <1>2, SumIsFold

\* Nothing sums up to nothing.
LEMMA SumEmpty == ASSUME NEW f PROVE Sum(f, {}) = 0
<1>1. IsFiniteSet({}) BY FS_EmptySet
<1>2. {} \in SUBSET {} OBVIOUS
<1>. QED BY <1>1, <1>2, FoldIs, SumIsFold

LEMMA SumPick ==
  ASSUME NEW f, NEW S, IsFiniteSet(S), S # {}
  PROVE  Pick(S) \in S /\ Sum(f, S) = f[Pick(S)] + Sum(f, S \ {Pick(S)})
<1>1. Pick(S) \in S BY DEF Pick
<1>2. S \in SUBSET S /\ S \ {Pick(S)} \in SUBSET S OBVIOUS
<1>3. Fold(f, S)[S] = f[Pick(S)] + Fold(f, S)[S \ {Pick(S)}] BY <1>2, FoldIs
<1>4. Fold(f, S)[S \ {Pick(S)}] = Sum(f, S \ {Pick(S)}) BY <1>2, FoldsAgree
<1>. QED BY <1>1, <1>3, <1>4, SumIsFold

\* Numbers sum up to a number.
LEMMA SumType ==
  ASSUME NEW S, IsFiniteSet(S), NEW f, \A x \in S : f[x] \in Nat
  PROVE  Sum(f, S) \in Nat
<1>. DEFINE bad == {s \in SUBSET S : Sum(f, s) \notin Nat}
<1>1. bad = {}
  <2>. SUFFICES ASSUME bad # {} PROVE FALSE OBVIOUS
  <2>1. PICK s \in bad : \A t \in bad : ~(Cardinality(t) < Cardinality(s)) BY Least
  <2>2. s \in SUBSET S /\ s # {} BY SumEmpty
  <2>3. IsFiniteSet(s) BY <2>2, FS_Subset
  <2>4. Pick(s) \in s /\ Sum(f, s) = f[Pick(s)] + Sum(f, s \ {Pick(s)}) BY <2>2, <2>3, SumPick
  <2>5. /\ Cardinality(s) \in Nat /\ s \ {Pick(s)} \in SUBSET S
        /\ Cardinality(s \ {Pick(s)}) = Cardinality(s) - 1
    BY <2>2, <2>4, Smaller
  <2>6. Sum(f, s \ {Pick(s)}) \in Nat BY <2>1, <2>5
  <2>. QED BY <2>2, <2>4, <2>6
<1>. QED BY <1>1

\* The sum does not depend on the order: any member may be taken first.
LEMMA SumRemove ==
  ASSUME NEW S, IsFiniteSet(S), NEW f, \A y \in S : f[y] \in Nat, NEW x \in S
  PROVE  Sum(f, S) = f[x] + Sum(f, S \ {x})
<1>. DEFINE bad == {s \in SUBSET S : \E y \in s : Sum(f, s) # f[y] + Sum(f, s \ {y})}
<1>1. bad = {}
  <2>. SUFFICES ASSUME bad # {} PROVE FALSE OBVIOUS
  <2>1. PICK s \in bad : \A t \in bad : ~(Cardinality(t) < Cardinality(s)) BY Least
  <2>2. PICK y \in s : Sum(f, s) # f[y] + Sum(f, s \ {y}) OBVIOUS
  <2>. DEFINE p == Pick(s)
  <2>3. s \in SUBSET S /\ IsFiniteSet(s) BY FS_Subset
  <2>4. p \in s /\ Sum(f, s) = f[p] + Sum(f, s \ {p}) BY <2>2, <2>3, SumPick
  <2>. HIDE DEF p
  <2>5. p # y BY <2>2, <2>4
  <2>6. /\ Cardinality(s) \in Nat
        /\ s \ {p} \in SUBSET S /\ Cardinality(s \ {p}) = Cardinality(s) - 1
        /\ s \ {y} \in SUBSET S /\ Cardinality(s \ {y}) = Cardinality(s) - 1
    BY <2>2, <2>3, <2>4, Smaller
  <2>7. s \ {p} \notin bad /\ s \ {y} \notin bad
    <3>. HIDE DEF bad
    <3>1. Cardinality(s \ {p}) < Cardinality(s) /\ Cardinality(s \ {y}) < Cardinality(s)
      BY <2>6
    <3>. QED BY <2>1, <3>1
  <2>8. /\ Sum(f, s \ {p}) = f[y] + Sum(f, (s \ {p}) \ {y})
        /\ Sum(f, s \ {y}) = f[p] + Sum(f, (s \ {y}) \ {p})
    BY <2>2, <2>4, <2>5, <2>6, <2>7
  <2>9. (s \ {p}) \ {y} = (s \ {y}) \ {p} OBVIOUS
  <2>10. f[p] \in Nat /\ f[y] \in Nat /\ Sum(f, (s \ {y}) \ {p}) \in Nat
    <3>1. IsFiniteSet((s \ {y}) \ {p}) BY <2>3, FS_Subset
    <3>2. \A z \in (s \ {y}) \ {p} : f[z] \in Nat BY <2>3
    <3>. QED BY <2>2, <2>3, <2>4, <3>1, <3>2, SumType
  <2>. QED BY <2>2, <2>4, <2>8, <2>9, <2>10
<1>. QED BY <1>1

\* A new member adds its value.
LEMMA SumAdd ==
  ASSUME NEW S, IsFiniteSet(S), NEW x, x \notin S,
         NEW f, \A y \in S \cup {x} : f[y] \in Nat
  PROVE  Sum(f, S \cup {x}) = Sum(f, S) + f[x]
<1>1. IsFiniteSet(S \cup {x}) BY FS_AddElement
<1>2. (S \cup {x}) \ {x} = S OBVIOUS
<1>3. Sum(f, S \cup {x}) = f[x] + Sum(f, S) BY <1>1, <1>2, SumRemove
<1>4. Sum(f, S) \in Nat BY SumType
<1>. QED BY <1>3, <1>4

\* Only the values of the members matter.
LEMMA SumSame ==
  ASSUME NEW S, IsFiniteSet(S), NEW f, NEW g, \A x \in S : f[x] = g[x]
  PROVE  Sum(f, S) = Sum(g, S)
<1>. DEFINE bad == {s \in SUBSET S : Sum(f, s) # Sum(g, s)}
<1>1. bad = {}
  <2>. SUFFICES ASSUME bad # {} PROVE FALSE OBVIOUS
  <2>1. PICK s \in bad : \A t \in bad : ~(Cardinality(t) < Cardinality(s)) BY Least
  <2>2. s \in SUBSET S /\ s # {} BY SumEmpty
  <2>3. IsFiniteSet(s) BY <2>2, FS_Subset
  <2>4. /\ Pick(s) \in s /\ Sum(f, s) = f[Pick(s)] + Sum(f, s \ {Pick(s)})
        /\ Sum(g, s) = g[Pick(s)] + Sum(g, s \ {Pick(s)})
    BY <2>2, <2>3, SumPick
  <2>5. /\ Cardinality(s) \in Nat /\ s \ {Pick(s)} \in SUBSET S
        /\ Cardinality(s \ {Pick(s)}) = Cardinality(s) - 1
    BY <2>2, <2>4, Smaller
  <2>6. Sum(f, s \ {Pick(s)}) = Sum(g, s \ {Pick(s)}) BY <2>1, <2>5
  <2>. QED BY <2>2, <2>4, <2>6
<1>. QED BY <1>1

\* One value changes, and the sum by as much.
LEMMA SumChange ==
  ASSUME NEW S, IsFiniteSet(S), NEW x \in S,
         NEW f, \A y \in S : f[y] \in Nat, NEW g, \A y \in S : g[y] \in Nat,
         \A y \in S \ {x} : g[y] = f[y]
  PROVE  Sum(g, S) + f[x] = Sum(f, S) + g[x]
<1>1. IsFiniteSet(S \ {x}) BY FS_Subset
<1>2. Sum(f, S) = f[x] + Sum(f, S \ {x}) /\ Sum(g, S) = g[x] + Sum(g, S \ {x})
  BY SumRemove
<1>3. Sum(g, S \ {x}) = Sum(f, S \ {x}) BY <1>1, SumSame
<1>4. Sum(f, S \ {x}) \in Nat BY <1>1, SumType
<1>. QED BY <1>2, <1>3, <1>4

\* Zeros sum up to zero.
LEMMA SumZero ==
  ASSUME NEW S, IsFiniteSet(S), NEW f, \A x \in S : f[x] = 0
  PROVE  Sum(f, S) = 0
<1>. DEFINE bad == {s \in SUBSET S : Sum(f, s) # 0}
<1>1. bad = {}
  <2>. SUFFICES ASSUME bad # {} PROVE FALSE OBVIOUS
  <2>1. PICK s \in bad : \A t \in bad : ~(Cardinality(t) < Cardinality(s)) BY Least
  <2>2. s \in SUBSET S /\ s # {} BY SumEmpty
  <2>3. IsFiniteSet(s) BY <2>2, FS_Subset
  <2>4. Pick(s) \in s /\ Sum(f, s) = f[Pick(s)] + Sum(f, s \ {Pick(s)}) BY <2>2, <2>3, SumPick
  <2>5. /\ Cardinality(s) \in Nat /\ s \ {Pick(s)} \in SUBSET S
        /\ Cardinality(s \ {Pick(s)}) = Cardinality(s) - 1
    BY <2>2, <2>4, Smaller
  <2>6. Sum(f, s \ {Pick(s)}) = 0 BY <2>1, <2>5
  <2>. QED BY <2>2, <2>4, <2>6
<1>. QED BY <1>1
=============================================================================
