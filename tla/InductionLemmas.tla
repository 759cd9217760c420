-------------------------- MODULE InductionLemmas ---------------------------
(***************************************************************************)
(* Induction over numbers and finite sets; what the sums and folds of the  *)
(* modules Functions and SequencesExt compute; and facts about sequences   *)
(* and multiples that the library has no theorem for.                      *)
(*                                                                         *)
(* A property is the set of what has it, so every lemma is first-order.    *)
(* All rest on one fact, that a set of natural numbers has a least one.    *)
(***************************************************************************)
EXTENDS Integers, SequencesExt, WellFoundedInduction, FiniteSetTheorems,
        SequenceTheorems, TLAPS

(* Induction.                                                              *)

LEMMA NatOrder ==
  \E R : IsWellFoundedOn(R, Nat) /\ \A x, y \in Nat : <<y, x>> \in R <=> y < x
<1>1. IsWellFoundedOn(OpToRel(<, Nat), Nat)
    BY NatLessThanWellFounded
<1>2. \A x, y \in Nat : <<y, x>> \in OpToRel(<, Nat) <=> y < x
    BY DEF OpToRel
<1>. QED  BY <1>1, <1>2, Zenon

LEMMA LeastNumber ==
  ASSUME NEW S \in SUBSET Nat, S # {}
  PROVE  \E m \in S : \A k \in S : m <= k
<1>1. PICK R : IsWellFoundedOn(R, Nat) /\ \A x, y \in Nat : <<y, x>> \in R <=> y < x
    BY NatOrder
<1>2. PICK m \in S : \A y \in S : ~ (<<y, m>> \in R)
    BY <1>1, WFMin
<1>3. ASSUME NEW k \in S PROVE m <= k
  <2>1. <<k, m>> \in R <=> k < m
      BY <1>1
  <2>2. ~(k < m)
      BY <2>1, <1>2
  <2>. QED  BY <2>2
<1>. QED  BY <1>3

LEMMA GreatestNumber ==
  ASSUME NEW S \in SUBSET Nat, S # {}, NEW n \in Nat, \A k \in S : k <= n
  PROVE  \E m \in S : \A k \in S : k <= m
<1>. \A k \in S : n - k \in Nat
    OBVIOUS
<1>1. {n - k : k \in S} \in SUBSET Nat /\ {n - k : k \in S} # {}
    OBVIOUS
<1>2. PICK d \in {n - k : k \in S} : \A c \in {n - k : k \in S} : d <= c
    BY <1>1, LeastNumber
<1>3. PICK m \in S : d = n - m
    BY <1>2
<1>4. ASSUME NEW k \in S PROVE k <= m
  <2>1. d <= n - k
      BY <1>2
  <2>. QED  BY <2>1, <1>3
<1>. QED  BY <1>4

LEMMA NatCounting ==
  ASSUME NEW F, 0 \in F, \A n \in Nat : n \in F => n + 1 \in F
  PROVE  Nat \subseteq F
<1>1. SUFFICES ASSUME Nat \ F # {} PROVE FALSE
    OBVIOUS
<1>2. PICK m \in Nat \ F : \A k \in Nat \ F : m <= k
    BY <1>1, LeastNumber
<1>3. m - 1 \in Nat /\ m - 1 \notin Nat \ F
    BY <1>2
<1>. QED  BY <1>2, <1>3

\* A set of finite sets that is not empty has one of the fewest elements.
LEMMA SmallestSet ==
  ASSUME NEW G, G # {}, \A T \in G : IsFiniteSet(T)
  PROVE  \E T \in G : \A U \in G : Cardinality(T) <= Cardinality(U)
<1>1. {Cardinality(T) : T \in G} \in SUBSET Nat /\ {Cardinality(T) : T \in G} # {}
    BY FS_CardinalityType
<1>2. PICK n \in {Cardinality(T) : T \in G} : \A k \in {Cardinality(T) : T \in G} : n <= k
    BY <1>1, LeastNumber
<1>. QED  BY <1>2

\* One element less is less.
LEMMA OneLess ==
  ASSUME NEW T, IsFiniteSet(T), NEW x \in T
  PROVE  /\ IsFiniteSet(T \ {x}) /\ Cardinality(T) \in Nat
         /\ Cardinality(T \ {x}) \in Nat /\ Cardinality(T \ {x}) < Cardinality(T)
<1>1. Cardinality(T) \in Nat
    BY FS_CardinalityType
<1>2. IsFiniteSet(T \ {x}) /\ Cardinality(T \ {x}) = Cardinality(T) - 1
    BY FS_RemoveElement
<1>3. Cardinality(T \ {x}) \in Nat
    BY <1>2, FS_CardinalityType
<1>. QED  BY <1>1, <1>2, <1>3

LEMMA NotAsMany ==
  ASSUME NEW T, IsFiniteSet(T), NEW x \in T
  PROVE  ~ (Cardinality(T) <= Cardinality(T \ {x}))
<1>1. Cardinality(T) \in Nat /\ Cardinality(T \ {x}) \in Nat
    BY OneLess
<1>2. Cardinality(T \ {x}) < Cardinality(T)
    BY OneLess
<1>. QED  BY <1>1, <1>2

LEMMA Collecting ==
  ASSUME NEW S, IsFiniteSet(S), NEW F, {} \in F,
         \A T \in SUBSET S : \A x \in S \ T : T \in F => T \cup {x} \in F
  PROVE  SUBSET S \subseteq F
<1>1. SUFFICES ASSUME (SUBSET S) \ F # {} PROVE FALSE
    OBVIOUS
<1>2. \A T \in SUBSET S : IsFiniteSet(T)
    BY FS_Subset
<1>3. PICK T \in (SUBSET S) \ F : \A U \in (SUBSET S) \ F : Cardinality(T) <= Cardinality(U)
    BY <1>1, <1>2, SmallestSet
<1>4. T \in SUBSET S /\ T \notin F /\ IsFiniteSet(T)
    BY <1>2, <1>3
<1>5. T # {}
    BY <1>4
<1>6. PICK x \in T : TRUE
    BY <1>5
<1>7. ~ (Cardinality(T) <= Cardinality(T \ {x}))
    BY <1>4, OneLess
<1>8. T \ {x} \in F
    BY <1>3, <1>4, <1>7
<1>9. (T \ {x}) \cup {x} = T /\ x \in S \ (T \ {x}) /\ T \ {x} \in SUBSET S
    BY <1>4
<1>. QED  BY <1>4, <1>8, <1>9

\* A set of values of a function is no larger than the set of arguments.
LEMMA Values ==
  ASSUME NEW S, IsFiniteSet(S), NEW g, S \subseteq DOMAIN g
  PROVE  /\ IsFiniteSet({g[x] : x \in S})
         /\ (\A x, y \in S : g[x] = g[y] => x = y)
              => Cardinality({g[x] : x \in S}) = Cardinality(S)
<1>. DEFINE T == {g[x] : x \in S}
            h == [x \in S |-> g[x]]
<1>1. h \in Surjection(S, T)
    BY DEF Surjection
<1>2. /\ IsFiniteSet(T)
      /\ Cardinality(T) = Cardinality(S) <=> h \in Injection(S, T)
    BY <1>1, FS_Surjection
<1>3. (\A x, y \in S : g[x] = g[y] => x = y) => h \in Injection(S, T)
    BY DEF Injection, IsInjective
<1>. QED  BY <1>2, <1>3

-----------------------------------------------------------------------------
(* Recursion over the subsets of a finite set.                             *)

\* f is computed from the value it has without the element that ch takes away.
FoldedBy(f, S, V, base, step, ch) ==
  /\ f \in [SUBSET S -> V]
  /\ \A T \in SUBSET S :
       f[T] = IF T = {} THEN base ELSE step[ch[T], f[T \ {ch[T]}]]

\* ch takes an element of every set it is given.
Takes(ch, S) == \A T \in (SUBSET S) \ {{}} : ch[T] \in T

LEMMA FoldExists ==
  ASSUME NEW S, IsFiniteSet(S), NEW V, NEW base \in V, NEW step \in [S \X V -> V],
         NEW ch, Takes(ch, S)
  PROVE  \E f : FoldedBy(f, S, V, base, step, ch)
<1>. DEFINE Small(n) == {T \in SUBSET S : Cardinality(T) <= n}
            Fits(f, n) ==
              /\ f \in [Small(n) -> V]
              /\ \A T \in Small(n) :
                   f[T] = IF T = {} THEN base ELSE step[ch[T], f[T \ {ch[T]}]]
            F == {n \in Nat : \E f : Fits(f, n)}
<1>1. \A T \in SUBSET S : IsFiniteSet(T) /\ Cardinality(T) \in Nat
    BY FS_Subset, FS_CardinalityType
<1>2. \A T \in (SUBSET S) \ {{}} : /\ ch[T] \in T /\ ch[T] \in S
                                 /\ T \ {ch[T]} \in SUBSET S
                                 /\ Cardinality(T \ {ch[T]}) < Cardinality(T)
    BY <1>1, OneLess DEF Takes
<1>3. 0 \in F
  <2>1. Small(0) = {{}}
      BY <1>1, FS_EmptySet
  <2>2. Fits([T \in Small(0) |-> base], 0)
      BY <2>1
  <2>. QED  BY <2>2
<1>4. ASSUME NEW n \in Nat, n \in F PROVE n + 1 \in F
  <2>1. PICK f : Fits(f, n)
      BY <1>4
  <2>. DEFINE g == [T \in Small(n + 1) |->
                      IF T \in Small(n) THEN f[T] ELSE step[ch[T], f[T \ {ch[T]}]]]
  <2>2. ASSUME NEW T \in Small(n + 1), T # {}
        PROVE  T \ {ch[T]} \in Small(n) /\ step[ch[T], f[T \ {ch[T]}]] \in V
    <3>. T \in (SUBSET S) \ {{}} /\ Cardinality(T) <= n + 1 /\ Cardinality(T) \in Nat
        BY <1>1, <2>2
    <3>. T \ {ch[T]} \in SUBSET S /\ Cardinality(T \ {ch[T]}) < Cardinality(T)
        BY <1>2
    <3>. Cardinality(T \ {ch[T]}) \in Nat
        BY <1>1
    <3>1. T \ {ch[T]} \in Small(n)
        OBVIOUS
    <3>2. f[T \ {ch[T]}] \in V /\ ch[T] \in S
        BY <3>1, <2>1, <1>2, <2>2
    <3>. QED  BY <3>1, <3>2
  <2>3. Small(n) \subseteq Small(n + 1) /\ {} \in Small(n)
      BY <1>1, FS_EmptySet
  <2>4. g \in [Small(n + 1) -> V]
      BY <2>1, <2>2, <2>3
  <2>5. ASSUME NEW T \in Small(n + 1)
        PROVE  g[T] = IF T = {} THEN base ELSE step[ch[T], g[T \ {ch[T]}]]
    <3>1. CASE T = {}
        BY <3>1, <2>1, <2>3
    <3>2. CASE T # {}
      <4>1. T \ {ch[T]} \in Small(n)
          BY <2>2, <3>2
      <4>2. g[T \ {ch[T]}] = f[T \ {ch[T]}]
          BY <4>1, <2>3
      <4>3. g[T] = step[ch[T], f[T \ {ch[T]}]]
          BY <2>1, <3>2
      <4>. QED  BY <4>2, <4>3, <3>2
    <3>. QED  BY <3>1, <3>2
  <2>6. Fits(g, n + 1)
      BY <2>4, <2>5
  <2>7. n + 1 \in Nat
      OBVIOUS
  <2>. HIDE DEF Fits, g
  <2>. QED  BY <2>6, <2>7
<1>5. Cardinality(S) \in F
  <2>. HIDE DEF F
  <2>. QED  BY <1>1, <1>3, <1>4, NatCounting
<1>6. PICK f : Fits(f, Cardinality(S))
    BY <1>5
<1>7. Small(Cardinality(S)) = SUBSET S
    BY <1>1, FS_Subset
<1>. QED  BY <1>6, <1>7 DEF FoldedBy

\* A function that obeys the equation, as far as it is typed, is typed.
LEMMA FoldTyped ==
  ASSUME NEW S, IsFiniteSet(S), NEW V, NEW base \in V, NEW step \in [S \X V -> V],
         NEW ch, Takes(ch, S), NEW g, g = [T \in SUBSET S |-> g[T]], g[{}] = base,
         \A T \in (SUBSET S) \ {{}} :
           g[T \ {ch[T]}] \in V => g[T] = step[ch[T], g[T \ {ch[T]}]]
  PROVE  FoldedBy(g, S, V, base, step, ch)
<1>. DEFINE Bad == {T \in SUBSET S : g[T] \notin V}
<1>1. Bad = {}
  <2>1. SUFFICES ASSUME Bad # {} PROVE FALSE
      OBVIOUS
  <2>2. \A T \in Bad : IsFiniteSet(T)
      BY FS_Subset
  <2>3. PICK T \in Bad : \A U \in Bad : Cardinality(T) <= Cardinality(U)
    <3>. HIDE DEF Bad
    <3>. QED  BY <2>1, <2>2, SmallestSet
  <2>4. T # {} /\ T \in SUBSET S /\ IsFiniteSet(T)
      BY <2>2
  <2>5. ch[T] \in T
      BY <2>4 DEF Takes
  <2>6. ~ (Cardinality(T) <= Cardinality(T \ {ch[T]}))
    <3>1. IsFiniteSet(T)
        BY <2>4
    <3>. QED  BY <3>1, <2>5, NotAsMany, Zenon
  <2>7. g[T \ {ch[T]}] \in V
      BY <2>3, <2>4, <2>6
  <2>8. step[ch[T], g[T \ {ch[T]}]] \in V
      BY <2>4, <2>5, <2>7
  <2>. QED  BY <2>4, <2>7, <2>8
<1>. QED  BY <1>1 DEF FoldedBy

\* What holds at first and is kept by every step holds at the end.
KeptByStep(I, S, V, step, ch) ==
  \A T \in (SUBSET S) \ {{}} : \A v \in V :
    <<T \ {ch[T]}, v>> \in I => <<T, step[ch[T], v]>> \in I

LEMMA FoldInduction ==
  ASSUME NEW S, IsFiniteSet(S), NEW V, NEW base, NEW step, NEW ch, Takes(ch, S),
         NEW f, FoldedBy(f, S, V, base, step, ch), NEW I, <<{}, base>> \in I,
         KeptByStep(I, S, V, step, ch)
  PROVE  \A T \in SUBSET S : <<T, f[T]>> \in I
<1>. USE DEF KeptByStep
<1>. DEFINE Bad == {T \in SUBSET S : <<T, f[T]>> \notin I}
<1>1. SUFFICES ASSUME Bad # {} PROVE FALSE
    OBVIOUS
<1>2. \A T \in Bad : IsFiniteSet(T)
    BY FS_Subset
<1>3. PICK T \in Bad : \A R \in Bad : Cardinality(T) <= Cardinality(R)
  <2>. HIDE DEF Bad
  <2>. QED  BY <1>1, <1>2, SmallestSet
<1>4. T # {} /\ T \in SUBSET S /\ IsFiniteSet(T)
    BY <1>2 DEF FoldedBy
<1>5. ch[T] \in T
    BY <1>4 DEF Takes
<1>6. ~ (Cardinality(T) <= Cardinality(T \ {ch[T]}))
  <2>1. IsFiniteSet(T)
      BY <1>4
  <2>. QED  BY <2>1, <1>5, NotAsMany, Zenon
<1>7. T \ {ch[T]} \in SUBSET S /\ <<T \ {ch[T]}, f[T \ {ch[T]}]>> \in I
    BY <1>3, <1>4, <1>6
<1>8. f[T \ {ch[T]}] \in V /\ f[T] = step[ch[T], f[T \ {ch[T]}]]
    BY <1>4, <1>7 DEF FoldedBy
<1>9. <<T, step[ch[T], f[T \ {ch[T]}]]>> \in I
    BY <1>4, <1>7, <1>8
<1>. QED  BY <1>8, <1>9
-----------------------------------------------------------------------------
(* Sums: SumFunctionOnSet takes the elements one by one, in an order of its *)
(* own.                                                                    *)

AnyOf(T) == CHOOSE x \in T : TRUE

\* g[T] is the sum of f over T, for every set T of elements of S.
Sums(g, f, S) ==
  /\ g \in [SUBSET S -> Nat]
  /\ \A T \in SUBSET S : g[T] = IF T = {} THEN 0 ELSE f[AnyOf(T)] + g[T \ {AnyOf(T)}]

LEMMA SumsExist ==
  ASSUME NEW S, IsFiniteSet(S), NEW f, \A x \in S : f[x] \in Nat
  PROVE  \E g : Sums(g, f, S) /\ SumFunctionOnSet(f, S) = g[S]
<1>. DEFINE step == [p \in S \X Nat |-> f[p[1]] + p[2]]
            ch == [T \in SUBSET S |-> AnyOf(T)]
            Body(g) == [T \in SUBSET S |->
                          IF T = {} THEN 0 ELSE f[AnyOf(T)] + g[T \ {AnyOf(T)}]]
<1>1. \A T \in SUBSET S : T # {} => AnyOf(T) \in T /\ ch[T] = AnyOf(T)
    BY DEF AnyOf
<1>2. Takes(ch, S)
    BY <1>1 DEF Takes
<1>3. step \in [S \X Nat -> Nat]
    OBVIOUS
<1>4. PICK h : FoldedBy(h, S, Nat, 0, step, ch)
  <2>. HIDE DEF step, ch
  <2>. QED  BY <1>2, <1>3, FoldExists
<1>5. ASSUME NEW T \in SUBSET S PROVE h[T] = Body(h)[T]
  <2>1. CASE T = {}
      BY <1>4, <2>1 DEF FoldedBy
  <2>2. CASE T # {}
    <3>1. AnyOf(T) \in S /\ T \ {AnyOf(T)} \in SUBSET S
        BY <1>1, <2>2
    <3>2. h[T] = step[AnyOf(T), h[T \ {AnyOf(T)}]] /\ h[T \ {AnyOf(T)}] \in Nat
        BY <1>1, <1>4, <2>2, <3>1 DEF FoldedBy
    <3>. QED  BY <3>1, <3>2, <2>2
  <2>. QED  BY <2>1, <2>2
<1>6. h = Body(h)
    BY <1>4, <1>5 DEF FoldedBy
<1>. DEFINE g == CHOOSE iter : iter = Body(iter)
<1>7. g = Body(g)
    BY <1>6
<1>8. SumFunctionOnSet(f, S) = g[S]
    BY Zenon DEF SumFunctionOnSet, FoldFunctionOnSet, MapThenFoldSet, AnyOf
<1>. HIDE DEF g
<1>9. \A T \in SUBSET S : g[T] = IF T = {} THEN 0 ELSE f[AnyOf(T)] + g[T \ {AnyOf(T)}]
    BY <1>7
<1>10. FoldedBy(g, S, Nat, 0, step, ch)
  <2>1. g = [T \in SUBSET S |-> g[T]] /\ g[{}] = 0
      BY <1>7, <1>9
  <2>2. ASSUME NEW T \in (SUBSET S) \ {{}}, g[T \ {ch[T]}] \in Nat
        PROVE  g[T] = step[ch[T], g[T \ {ch[T]}]]
    <3>1. ch[T] = AnyOf(T) /\ AnyOf(T) \in S
        BY <1>1
    <3>. QED  BY <3>1, <2>2, <1>9
  <2>3. 0 \in Nat
      OBVIOUS
  <2>. HIDE DEF step, ch
  <2>. QED  BY <1>2, <1>3, <2>1, <2>2, <2>3, FoldTyped, Zenon
<1>. QED  BY <1>8, <1>9, <1>10 DEF Sums, FoldedBy

LEMMA SumsAgree ==
  ASSUME NEW S, IsFiniteSet(S), NEW f, NEW g, Sums(g, f, S),
         NEW U \in SUBSET S, NEW h, Sums(h, f, U)
  PROVE  g[U] = h[U]
<1>. DEFINE Bad == {T \in SUBSET U : g[T] # h[T]}
<1>1. SUFFICES ASSUME Bad # {} PROVE FALSE
    OBVIOUS
<1>2. \A T \in Bad : IsFiniteSet(T)
    BY FS_Subset
<1>3. PICK T \in Bad : \A R \in Bad : Cardinality(T) <= Cardinality(R)
  <2>. HIDE DEF Bad
  <2>. QED  BY <1>1, <1>2, SmallestSet
<1>4. T # {} /\ T \in SUBSET S /\ T \in SUBSET U
    BY DEF Sums
<1>5. AnyOf(T) \in T
    BY <1>4 DEF AnyOf
<1>6. ~ (Cardinality(T) <= Cardinality(T \ {AnyOf(T)}))
  <2>1. IsFiniteSet(T)
      BY <1>2
  <2>. QED  BY <2>1, <1>5, OneLess
<1>7. g[T \ {AnyOf(T)}] = h[T \ {AnyOf(T)}]
    BY <1>3, <1>4, <1>6
<1>8. g[T] = f[AnyOf(T)] + g[T \ {AnyOf(T)}] /\ h[T] = f[AnyOf(T)] + h[T \ {AnyOf(T)}]
    BY <1>4 DEF Sums
<1>. QED  BY <1>7, <1>8

\* The order does not matter.
LEMMA SumsTakeAny ==
  ASSUME NEW S, IsFiniteSet(S), NEW f, \A x \in S : f[x] \in Nat,
         NEW g, Sums(g, f, S)
  PROVE  \A T \in SUBSET S : \A x \in T : g[T] = f[x] + g[T \ {x}]
<1>. DEFINE Bad == {T \in SUBSET S : \E x \in T : g[T] # f[x] + g[T \ {x}]}
<1>1. SUFFICES ASSUME Bad # {} PROVE FALSE
    OBVIOUS
<1>2. \A T \in Bad : IsFiniteSet(T)
    BY FS_Subset
<1>3. PICK T \in Bad : \A R \in Bad : Cardinality(T) <= Cardinality(R)
  <2>. HIDE DEF Bad
  <2>. QED  BY <1>1, <1>2, SmallestSet
<1>4. PICK x \in T : g[T] # f[x] + g[T \ {x}]
    OBVIOUS
<1>. DEFINE c == AnyOf(T)
<1>5. c \in T
    BY <1>4 DEF AnyOf
<1>6. g[T] = f[c] + g[T \ {c}]
    BY <1>4 DEF Sums
<1>. HIDE DEF c
<1>7. x # c
    BY <1>4, <1>6
<1>8. \A y \in T : T \ {y} \in SUBSET S /\ ~ (Cardinality(T) <= Cardinality(T \ {y}))
    BY <1>2, OneLess
<1>9. \A y \in T : T \ {y} \notin Bad
    BY <1>3, <1>8
<1>10. g[T \ {c}] = f[x] + g[(T \ {c}) \ {x}]
    BY <1>5, <1>7, <1>8, <1>9
<1>11. g[T \ {x}] = f[c] + g[(T \ {x}) \ {c}]
    BY <1>5, <1>7, <1>8, <1>9
<1>12. (T \ {c}) \ {x} = (T \ {x}) \ {c} /\ (T \ {x}) \ {c} \in SUBSET S
    OBVIOUS
<1>13. f[x] \in Nat /\ f[c] \in Nat /\ g[(T \ {x}) \ {c}] \in Nat
    BY <1>5, <1>12 DEF Sums
<1>14. ASSUME NEW k \in Nat, NEW m \in Nat, NEW n \in Nat PROVE k + (m + n) = m + (k + n)
    OBVIOUS
<1>15. f[c] + (f[x] + g[(T \ {x}) \ {c}]) = f[x] + (f[c] + g[(T \ {x}) \ {c}])
    BY <1>13, <1>14
<1>16. g[T] = f[c] + (f[x] + g[(T \ {x}) \ {c}])
    BY <1>6, <1>10, <1>12
<1>17. f[x] + g[T \ {x}] = f[x] + (f[c] + g[(T \ {x}) \ {c}])
    BY <1>11
<1>. QED  BY <1>4, <1>15, <1>16, <1>17

\* What a sum is.
LEMMA SumEmpty ==
  ASSUME NEW f
  PROVE  SumFunctionOnSet(f, {}) = 0
<1>1. PICK g : Sums(g, f, {}) /\ SumFunctionOnSet(f, {}) = g[{}]
    BY SumsExist, FS_EmptySet
<1>. QED  BY <1>1 DEF Sums

LEMMA SumType ==
  ASSUME NEW S, IsFiniteSet(S), NEW f, \A x \in S : f[x] \in Nat
  PROVE  SumFunctionOnSet(f, S) \in Nat
<1>1. PICK g : Sums(g, f, S) /\ SumFunctionOnSet(f, S) = g[S]
    BY SumsExist
<1>. QED  BY <1>1 DEF Sums

LEMMA SumWithout ==
  ASSUME NEW S, IsFiniteSet(S), NEW f, \A x \in S : f[x] \in Nat, NEW x \in S
  PROVE  SumFunctionOnSet(f, S) = f[x] + SumFunctionOnSet(f, S \ {x})
<1>1. PICK g : Sums(g, f, S) /\ SumFunctionOnSet(f, S) = g[S]
    BY SumsExist
<1>2. IsFiniteSet(S \ {x}) /\ S \ {x} \in SUBSET S
    BY FS_Subset
<1>3. PICK h : Sums(h, f, S \ {x}) /\ SumFunctionOnSet(f, S \ {x}) = h[S \ {x}]
    BY <1>2, SumsExist
<1>4. g[S \ {x}] = h[S \ {x}]
    BY <1>1, <1>2, <1>3, SumsAgree
<1>5. g[S] = f[x] + g[S \ {x}]
    BY <1>1, SumsTakeAny
<1>. QED  BY <1>1, <1>3, <1>4, <1>5

Apart(C, T) == \A r, q \in T : r # q => C[r] \cap C[q] = {}

\* f gives the sizes of the sets of A that C gives.
Sizes(f, C, R, A) == \A r \in R : C[r] \in SUBSET A /\ f[r] = Cardinality(C[r])

\* A sum of sizes is no smaller than the union, and no larger when nothing is
\* in two of the sets.
LEMMA SumOfSizes ==
  ASSUME NEW R, IsFiniteSet(R), NEW A, IsFiniteSet(A), NEW C, NEW f, Sizes(f, C, R, A)
  PROVE  /\ SumFunctionOnSet(f, R) \in Nat
         /\ Cardinality(UNION {C[r] : r \in R}) <= SumFunctionOnSet(f, R)
         /\ Apart(C, R) => Cardinality(UNION {C[r] : r \in R}) = SumFunctionOnSet(f, R)
<1>. USE DEF Sizes
<1>. DEFINE All(T) == UNION {C[r] : r \in T}
            Right(T) == /\ Cardinality(All(T)) <= SumFunctionOnSet(f, T)
                        /\ Apart(C, T) => Cardinality(All(T)) = SumFunctionOnSet(f, T)
            F == {T \in SUBSET R : Right(T)}
<1>1. ASSUME NEW T \in SUBSET R
      PROVE  All(T) \in SUBSET A /\ IsFiniteSet(All(T)) /\ Cardinality(All(T)) \in Nat
  <2>1. All(T) \in SUBSET A
      OBVIOUS
  <2>. QED  BY <2>1, FS_Subset, FS_CardinalityType
<1>2. \A r \in R : IsFiniteSet(C[r]) /\ f[r] \in Nat
    BY FS_Subset, FS_CardinalityType
<1>3. {} \in F
  <2>1. All({}) = {} /\ Cardinality(All({})) = 0
      BY FS_EmptySet
  <2>. QED  BY <2>1, SumEmpty
<1>4. ASSUME NEW T \in SUBSET R, NEW x \in R \ T, T \in F PROVE T \cup {x} \in F
  <2>1. SumFunctionOnSet(f, T \cup {x}) = f[x] + SumFunctionOnSet(f, T)
    <3>1. T \cup {x} \in SUBSET R /\ (T \cup {x}) \ {x} = T /\ x \in T \cup {x}
        OBVIOUS
    <3>2. IsFiniteSet(T \cup {x})
        BY <3>1, FS_Subset
    <3>3. \A y \in T \cup {x} : f[y] \in Nat
        BY <3>1, <1>2
    <3>. QED  BY <3>1, <3>2, <3>3, SumWithout
  <2>2. SumFunctionOnSet(f, T) \in Nat
    <3>1. IsFiniteSet(T)
        BY FS_Subset
    <3>. QED  BY <3>1, <1>2, SumType
  <2>3. All(T \cup {x}) = All(T) \cup C[x]
      OBVIOUS
  <2>4. /\ Cardinality(All(T) \cup C[x])
             = Cardinality(All(T)) + Cardinality(C[x]) - Cardinality(All(T) \cap C[x])
        /\ Cardinality(All(T) \cap C[x]) \in Nat
        /\ All(T) \cap C[x] = {} => Cardinality(All(T) \cap C[x]) = 0
    <3>1. IsFiniteSet(All(T) \cap C[x])
        BY <1>1, FS_Intersection
    <3>. HIDE DEF All
    <3>. QED  BY <3>1, <1>1, <1>2, FS_Union, FS_CardinalityType, FS_EmptySet
  <2>5. Cardinality(All(T)) \in Nat /\ Cardinality(C[x]) \in Nat /\ f[x] = Cardinality(C[x])
      BY <1>1, <1>2
  <2>6. Cardinality(All(T \cup {x})) <= SumFunctionOnSet(f, T \cup {x})
    <3>1. Cardinality(All(T)) <= SumFunctionOnSet(f, T)
        BY <1>4
    <3>2. ASSUME NEW u \in Nat, NEW s \in Nat, NEW c \in Nat, NEW i \in Nat, u <= s
          PROVE  u + c - i <= c + s
        BY <3>2
    <3>. DEFINE u == Cardinality(All(T))
                s == SumFunctionOnSet(f, T)
                c == Cardinality(C[x])
                i == Cardinality(All(T) \cap C[x])
    <3>3. u \in Nat /\ s \in Nat /\ c \in Nat /\ i \in Nat /\ u <= s
        BY <3>1, <2>2, <2>4, <2>5
    <3>4. Cardinality(All(T \cup {x})) = u + c - i
        BY <2>3, <2>4
    <3>5. SumFunctionOnSet(f, T \cup {x}) = c + s
        BY <2>1, <2>5
    <3>. HIDE DEF All, u, s, c, i
    <3>. QED  BY <3>2, <3>3, <3>4, <3>5
  <2>7. ASSUME Apart(C, T \cup {x})
        PROVE  Cardinality(All(T \cup {x})) = SumFunctionOnSet(f, T \cup {x})
    <3>1. Apart(C, T) /\ All(T) \cap C[x] = {}
        BY <2>7 DEF Apart
    <3>2. Cardinality(All(T)) = SumFunctionOnSet(f, T)
        BY <1>4, <3>1
    <3>3. ASSUME NEW s \in Nat, NEW c \in Nat PROVE s + c - 0 = c + s
        OBVIOUS
    <3>4. Cardinality(All(T \cup {x})) = SumFunctionOnSet(f, T) + Cardinality(C[x]) - 0
        BY <3>1, <3>2, <2>3, <2>4
    <3>5. SumFunctionOnSet(f, T \cup {x}) = Cardinality(C[x]) + SumFunctionOnSet(f, T)
        BY <2>1, <2>5
    <3>. HIDE DEF All
    <3>. QED  BY <3>3, <3>4, <3>5, <2>2, <2>5
  <2>8. T \cup {x} \in SUBSET R
      OBVIOUS
  <2>. HIDE DEF All
  <2>. QED  BY <2>6, <2>7, <2>8
<1>5. R \in F
  <2>. HIDE DEF F
  <2>. QED  BY <1>3, <1>4, Collecting
<1>. QED  BY <1>2, <1>5, SumType

LEMMA SumOfParts ==
  ASSUME NEW R, IsFiniteSet(R), NEW A, IsFiniteSet(A), NEW C, NEW f,
         Sizes(f, C, R, A), Apart(C, R), UNION {C[r] : r \in R} = A
  PROVE  SumFunctionOnSet(f, R) = Cardinality(A)
<1>1. Cardinality(UNION {C[r] : r \in R}) = SumFunctionOnSet(f, R)
    BY SumOfSizes
<1>. QED  BY <1>1
-----------------------------------------------------------------------------
(* Sequences: their elements, and what a fold from the left computes.       *)

LEMMA HeadAndTail ==
  ASSUME NEW S, NEW s \in Seq(S), s # <<>>
  PROVE  /\ Head(s) \in S /\ Tail(s) \in Seq(S) /\ Len(s) \in Nat /\ Len(Tail(s)) = Len(s) - 1
         /\ ToSet(s) = {Head(s)} \cup ToSet(Tail(s))
<1>1. /\ Head(s) \in S /\ Tail(s) \in Seq(S) /\ Len(Tail(s)) = Len(s) - 1
      /\ \A i \in 1..Len(Tail(s)) : Tail(s)[i] = s[i + 1]
    BY HeadTailProperties
<1>2. Head(s) = s[1] /\ Len(s) \in Nat \ {0}
    BY EmptySeq
<1>3. DOMAIN s = 1..Len(s) /\ DOMAIN Tail(s) = 1..(Len(s) - 1)
    BY <1>1, LenProperties
<1>4. ToSet(Tail(s)) \subseteq ToSet(s) /\ Head(s) \in ToSet(s)
    BY <1>1, <1>2, <1>3 DEF ToSet
<1>5. ASSUME NEW i \in DOMAIN s PROVE s[i] \in {Head(s)} \cup ToSet(Tail(s))
  <2>1. CASE i = 1
      BY <2>1, <1>2
  <2>2. CASE i # 1
    <3>1. i - 1 \in DOMAIN Tail(s) /\ s[i] = Tail(s)[i - 1]
        BY <2>2, <1>1, <1>2, <1>3
    <3>. QED  BY <3>1 DEF ToSet
  <2>. QED  BY <2>1, <2>2
<1>. QED  BY <1>1, <1>2, <1>4, <1>5 DEF ToSet

Ascending(s) == \A i, j \in DOMAIN s : i < j => s[i] < s[j]

LEMMA TailAscends ==
  ASSUME NEW s \in Seq(Nat \ {0}), s # <<>>, Ascending(s)
  PROVE  Ascending(Tail(s)) /\ \A k \in ToSet(Tail(s)) : Head(s) < k
<1>1. /\ Tail(s) \in Seq(Nat \ {0}) /\ Len(Tail(s)) = Len(s) - 1
      /\ \A i \in 1..Len(Tail(s)) : Tail(s)[i] = s[i + 1]
    BY HeadTailProperties
<1>2. Head(s) = s[1] /\ Len(s) \in Nat \ {0}
    BY EmptySeq
<1>3. DOMAIN s = 1..Len(s) /\ DOMAIN Tail(s) = 1..(Len(s) - 1)
    BY <1>1, LenProperties
<1>4. ASSUME NEW i \in DOMAIN Tail(s) PROVE s[1] < Tail(s)[i]
    BY <1>1, <1>2, <1>3 DEF Ascending
<1>5. ASSUME NEW i \in DOMAIN Tail(s), NEW j \in DOMAIN Tail(s), i < j
      PROVE  Tail(s)[i] < Tail(s)[j]
    BY <1>1, <1>2, <1>3, <1>5 DEF Ascending
<1>. QED  BY <1>2, <1>4, <1>5 DEF Ascending, ToSet

LEMMA Removing ==
  ASSUME NEW S, NEW s \in Seq(S), NEW i \in DOMAIN s
  PROVE  /\ RemoveAt(s, i) \in Seq(S) /\ ToSet(RemoveAt(s, i)) \subseteq ToSet(s)
         /\ IsInjective(s) => IsInjective(RemoveAt(s, i))
<1>. DEFINE a == SubSeq(s, 1, i - 1)
            b == SubSeq(s, i + 1, Len(s))
            from(j) == IF j < i THEN j ELSE j + 1
<1>1. Len(s) \in Nat /\ DOMAIN s = 1..Len(s) /\ i \in 1..Len(s) /\ \A j \in 1..Len(s) : s[j] \in S
    BY LenProperties
<1>2. a \in Seq(S) /\ Len(a) = i - 1 /\ \A j \in 1..(i - 1) : a[j] = s[j]
  <2>1. /\ a \in Seq(S) /\ Len(a) = IF 1 <= i - 1 THEN (i - 1) - 1 + 1 ELSE 0
        /\ \A j \in 1..((i - 1) - 1 + 1) : a[j] = s[1 + j - 1]
    <3>1. 1 \in Int /\ i - 1 \in Int /\ \A j \in 1..(i - 1) : s[j] \in S
        BY <1>1
    <3>. QED  BY <3>1, SubSeqProperties
  <2>. QED  BY <2>1, <1>1
<1>3. b \in Seq(S) /\ Len(b) = Len(s) - i /\ \A j \in 1..(Len(s) - i) : b[j] = s[i + j]
  <2>1. /\ b \in Seq(S) /\ Len(b) = IF i + 1 <= Len(s) THEN Len(s) - (i + 1) + 1 ELSE 0
        /\ \A j \in 1..(Len(s) - (i + 1) + 1) : b[j] = s[(i + 1) + j - 1]
    <3>1. i + 1 \in Int /\ Len(s) \in Int /\ \A j \in (i + 1)..Len(s) : s[j] \in S
        BY <1>1
    <3>. QED  BY <3>1, SubSeqProperties
  <2>. QED  BY <2>1, <1>1
<1>. HIDE DEF a, b
<1>4. /\ a \o b \in Seq(S) /\ Len(a \o b) = Len(a) + Len(b)
      /\ \A j \in 1..(Len(a) + Len(b)) : (a \o b)[j] = IF j <= Len(a) THEN a[j] ELSE b[j - Len(a)]
    BY <1>2, <1>3, ConcatProperties
<1>5. DOMAIN (a \o b) = 1..(Len(s) - 1)
  <2>1. DOMAIN (a \o b) = 1..Len(a \o b)
      BY <1>4, LenProperties
  <2>2. Len(a \o b) = Len(s) - 1
      BY <1>1, <1>2, <1>3, <1>4
  <2>. QED  BY <2>1, <2>2
<1>6. ASSUME NEW j \in 1..(Len(s) - 1) PROVE from(j) \in 1..Len(s) /\ (a \o b)[j] = s[from(j)]
  <2>1. CASE j < i
      BY <2>1, <1>1, <1>2, <1>3, <1>4
  <2>2. CASE ~(j < i)
    <3>1. (a \o b)[j] = b[j - (i - 1)] /\ j - (i - 1) \in 1..(Len(s) - i)
        BY <2>2, <1>1, <1>2, <1>3, <1>4
    <3>2. b[j - (i - 1)] = s[i + (j - (i - 1))]
        BY <3>1, <1>3
    <3>3. i + (j - (i - 1)) = j + 1
        BY <1>1
    <3>. QED  BY <3>1, <3>2, <3>3, <2>2, <1>1
  <2>. QED  BY <2>1, <2>2
<1>7. \A j, k \in 1..(Len(s) - 1) : from(j) = from(k) => j = k
    BY <1>1
<1>8. RemoveAt(s, i) = a \o b
    BY DEF RemoveAt, a, b
<1>. HIDE DEF from
<1>9. ToSet(a \o b) \subseteq ToSet(s)
    BY <1>1, <1>5, <1>6 DEF ToSet
<1>10. IsInjective(s) => IsInjective(a \o b)
  <2>. SUFFICES ASSUME IsInjective(s), NEW j \in DOMAIN (a \o b), NEW k \in DOMAIN (a \o b),
                       (a \o b)[j] = (a \o b)[k]
                PROVE  j = k
      BY DEF IsInjective
  <2>1. from(j) \in DOMAIN s /\ from(k) \in DOMAIN s /\ s[from(j)] = s[from(k)]
      BY <1>1, <1>5, <1>6
  <2>2. from(j) = from(k)
      BY <2>1 DEF IsInjective
  <2>. QED  BY <1>5, <1>7, <2>2
<1>. QED  BY <1>4, <1>8, <1>9, <1>10

LEMMA Joined ==
  ASSUME NEW S, NEW s \in Seq(S), NEW t \in Seq(S)
  PROVE  /\ s \o t \in Seq(S) /\ ToSet(s \o t) = ToSet(s) \cup ToSet(t)
         /\ IsInjective(s) /\ IsInjective(t) /\ ToSet(s) \cap ToSet(t) = {}
              => IsInjective(s \o t)
<1>1. /\ s \o t \in Seq(S) /\ Len(s \o t) = Len(s) + Len(t)
      /\ \A i \in 1..(Len(s) + Len(t)) : (s \o t)[i] = IF i <= Len(s) THEN s[i] ELSE t[i - Len(s)]
    BY ConcatProperties
<1>2. /\ Len(s) \in Nat /\ Len(t) \in Nat /\ DOMAIN s = 1..Len(s) /\ DOMAIN t = 1..Len(t)
      /\ DOMAIN (s \o t) = 1..(Len(s) + Len(t))
    BY <1>1, LenProperties
<1>3. ASSUME NEW i \in DOMAIN (s \o t)
      PROVE  \/ i \in DOMAIN s /\ (s \o t)[i] = s[i]
             \/ i - Len(s) \in DOMAIN t /\ (s \o t)[i] = t[i - Len(s)]
    BY <1>1, <1>2
<1>4. \A i \in DOMAIN s : i \in DOMAIN (s \o t) /\ (s \o t)[i] = s[i]
    BY <1>1, <1>2
<1>5. \A i \in DOMAIN t : i + Len(s) \in DOMAIN (s \o t) /\ (s \o t)[i + Len(s)] = t[i]
    BY <1>1, <1>2
<1>6. ToSet(s \o t) = ToSet(s) \cup ToSet(t)
  <2>1. ToSet(s \o t) \subseteq ToSet(s) \cup ToSet(t)
      BY <1>3 DEF ToSet
  <2>2. ToSet(s) \subseteq ToSet(s \o t) /\ ToSet(t) \subseteq ToSet(s \o t)
      BY <1>4, <1>5, Zenon DEF ToSet
  <2>. QED  BY <2>1, <2>2
<1>7. ASSUME IsInjective(s), IsInjective(t), ToSet(s) \cap ToSet(t) = {}
      PROVE  IsInjective(s \o t)
  <2>1. \A i \in DOMAIN s, j \in DOMAIN t : s[i] # t[j]
      BY <1>7 DEF ToSet
  <2>2. ASSUME NEW i \in DOMAIN (s \o t), NEW j \in DOMAIN (s \o t), (s \o t)[i] = (s \o t)[j]
        PROVE  i = j
    <3>1. CASE i \in DOMAIN s /\ (s \o t)[i] = s[i]
        BY <3>1, <2>1, <2>2, <1>3, <1>7 DEF IsInjective
    <3>2. CASE i - Len(s) \in DOMAIN t /\ (s \o t)[i] = t[i - Len(s)]
      <4>1. j - Len(s) \in DOMAIN t /\ (s \o t)[j] = t[j - Len(s)]
          BY <3>2, <2>1, <2>2, <1>3
      <4>2. i - Len(s) = j - Len(s)
          BY <3>2, <4>1, <2>2, <1>7 DEF IsInjective
      <4>. QED  BY <4>2, <1>2
    <3>. QED  BY <3>1, <3>2, <1>3
  <2>. QED  BY <2>2 DEF IsInjective
<1>. QED  BY <1>1, <1>6, <1>7

LEMMA OneMore ==
  ASSUME NEW S, NEW s \in Seq(S), NEW p \in S
  PROVE  /\ <<p>> \o s \in Seq(S) /\ ToSet(<<p>> \o s) = ToSet(s) \cup {p}
         /\ IsInjective(s) /\ p \notin ToSet(s) => IsInjective(<<p>> \o s)
<1>1. <<p>> \in Seq(S) /\ DOMAIN <<p>> = {1} /\ <<p>>[1] = p
    OBVIOUS
<1>2. ToSet(<<p>>) = {p} /\ IsInjective(<<p>>)
    BY <1>1 DEF ToSet, IsInjective
<1>3. /\ <<p>> \o s \in Seq(S) /\ ToSet(<<p>> \o s) = ToSet(<<p>>) \cup ToSet(s)
      /\ IsInjective(<<p>>) /\ IsInjective(s) /\ ToSet(<<p>>) \cap ToSet(s) = {}
           => IsInjective(<<p>> \o s)
    BY <1>1, Joined, Zenon
<1>. QED  BY <1>2, <1>3, Zenon

\* As many products as entries, where none is listed twice.
LEMMA ListsMeasured ==
  ASSUME NEW S, NEW s \in Seq(S), IsInjective(s)
  PROVE  IsFiniteSet(ToSet(s)) /\ Cardinality(ToSet(s)) = Len(s)
<1>1. Len(s) \in Nat /\ DOMAIN s = 1..Len(s)
    BY LenProperties
<1>2. IsFiniteSet(DOMAIN s) /\ Cardinality(DOMAIN s) = Len(s)
    BY <1>1, FS_Interval
<1>3. \A i, j \in DOMAIN s : s[i] = s[j] => i = j
    BY DEF IsInjective
<1>4. /\ IsFiniteSet({s[i] : i \in DOMAIN s})
      /\ Cardinality({s[i] : i \in DOMAIN s}) = Cardinality(DOMAIN s)
    BY <1>2, <1>3, Values
<1>. QED  BY <1>2, <1>4 DEF ToSet

LEMMA NothingAscends == Ascending(<<>>) /\ ToSet(<<>>) = {} /\ IsInjective(<<>>)
<1>1. DOMAIN <<>> = {}
    OBVIOUS
<1>. QED  BY <1>1 DEF Ascending, ToSet, IsInjective

\* Some of a list: what lies behind lo, at most w of it.
Piece(s, lo, w) == SubSeq(s, lo + 1, IF lo + w < Len(s) THEN lo + w ELSE Len(s))
PieceOf(s, lo, w) == {j \in DOMAIN s : lo < j /\ j <= lo + w}

LEMMA Slice ==
  ASSUME NEW S, NEW s \in Seq(S), NEW lo \in Nat, NEW w \in Nat \ {0}
  PROVE  /\ Piece(s, lo, w) \in Seq(S)
         /\ ToSet(Piece(s, lo, w)) = {s[i] : i \in PieceOf(s, lo, w)}
         /\ Piece(s, lo, w) = <<>> <=> Len(s) <= lo
         /\ Len(Piece(s, lo, w)) < w => Len(s) < lo + w
         /\ IsInjective(s) => IsInjective(Piece(s, lo, w))
<1>1. PICK n \in Nat : n = Len(s) /\ DOMAIN s = 1..n
    BY LenProperties
<1>2. PICK hi \in Nat : hi = IF lo + w < n THEN lo + w ELSE n
  <2>1. CASE lo + w < n
      BY <2>1
  <2>2. CASE ~(lo + w < n)
      BY <2>2, <1>1
  <2>. QED  BY <2>1, <2>2
<1>3. /\ hi <= n /\ hi <= lo + w /\ (hi = lo + w \/ hi = n) /\ lo < lo + w
    BY <1>1, <1>2
<1>. DEFINE t == SubSeq(s, lo + 1, hi)
            P == PieceOf(s, lo, w)
<1>4. P = (lo + 1)..hi
    BY <1>1, <1>2, <1>3 DEF PieceOf
<1>5. /\ t \in Seq(S)
      /\ Len(t) = IF lo + 1 <= hi THEN hi - (lo + 1) + 1 ELSE 0
      /\ \A j \in 1..(hi - (lo + 1) + 1) : t[j] = s[(lo + 1) + j - 1]
  <2>1. \A i \in (lo + 1)..hi : s[i] \in S
      BY <1>1, <1>2, <1>3, ElementOfSeq
  <2>2. lo + 1 \in Int /\ hi \in Int
      BY <1>2
  <2>. QED  BY <2>1, <2>2, SubSeqProperties
<1>. HIDE DEF t, P
<1>6. Len(t) = IF lo < hi THEN hi - lo ELSE 0
    BY <1>2, <1>5
<1>7. DOMAIN t = 1..Len(t) /\ Len(t) \in Nat
    BY <1>5, LenProperties
<1>8. ASSUME NEW j \in DOMAIN t PROVE lo + j \in P /\ t[j] = s[lo + j]
  <2>1. j \in 1..(hi - lo) /\ lo < hi
      BY <1>2, <1>6, <1>7
  <2>2. t[j] = s[(lo + 1) + j - 1]
      BY <1>2, <1>5, <2>1
  <2>3. (lo + 1) + j - 1 = lo + j /\ lo + j \in (lo + 1)..hi
      BY <1>2, <2>1
  <2>. QED  BY <1>4, <2>2, <2>3
<1>9. ASSUME NEW i \in P PROVE i - lo \in DOMAIN t /\ t[i - lo] = s[i]
  <2>1. i \in (lo + 1)..hi
      BY <1>4
  <2>2. i - lo \in 1..(hi - lo) /\ lo < hi /\ lo + (i - lo) = i
      BY <1>2, <2>1
  <2>3. i - lo \in DOMAIN t
      BY <1>2, <1>6, <1>7, <2>2
  <2>. QED  BY <1>8, <2>2, <2>3
<1>10. ToSet(t) = {s[i] : i \in P}
  <2>1. ToSet(t) \subseteq {s[i] : i \in P}
      BY <1>8 DEF ToSet
  <2>2. {s[i] : i \in P} \subseteq ToSet(t)
      BY <1>9 DEF ToSet
  <2>. QED  BY <2>1, <2>2
<1>11. t = <<>> <=> Len(t) = 0
    BY <1>5, EmptySeq
<1>12. t = <<>> <=> n <= lo
    BY <1>1, <1>2, <1>3, <1>6, <1>11
<1>13. Len(t) < w => n < lo + w
    BY <1>1, <1>2, <1>3, <1>6
<1>14. IsInjective(s) => IsInjective(t)
  <2>1. SUFFICES ASSUME IsInjective(s), NEW i \in DOMAIN t, NEW j \in DOMAIN t, t[i] = t[j]
                 PROVE  i = j
      BY DEF IsInjective
  <2>2. s[lo + i] = s[lo + j] /\ lo + i \in DOMAIN s /\ lo + j \in DOMAIN s
      BY <1>8, <2>1 DEF P, PieceOf
  <2>3. lo + i = lo + j
      BY <2>1, <2>2 DEF IsInjective
  <2>. QED  BY <1>7, <2>3
<1>15. t = Piece(s, lo, w)
    BY <1>1, <1>2 DEF t, Piece
<1>. QED  BY <1>1, <1>5, <1>10, <1>12, <1>13, <1>14, <1>15 DEF P

LEMMA GreatestIn ==
  ASSUME NEW n \in Nat, NEW T \in SUBSET (1..n), T # {}
  PROVE  Max(T) \in T
<1>1. \E m \in T : \A k \in T : k <= m
  <2>1. T \in SUBSET Nat /\ \A k \in T : k <= n
      OBVIOUS
  <2>. QED  BY <2>1, GreatestNumber
<1>2. \E m \in T : \A k \in T : m >= k
    BY <1>1
<1>. QED  BY <1>2 DEF Max

\* A fold from the left takes the elements of s in turn: a function that obeys
\* its equation exists, and every such function gives what each step keeps.
FoldsLeft(g, s, first, next) ==
  \A T \in SUBSET DOMAIN s :
    g[T] = IF T = {} THEN first ELSE next[g[T \ {Max(T)}], s[Max(T)]]

FoldsTyped(g, s, V, first, next) ==
  /\ g = [T \in SUBSET DOMAIN s |-> g[T]] /\ g[{}] = first
  /\ \A T \in (SUBSET DOMAIN s) \ {{}} :
       g[T \ {Max(T)}] \in V => g[T] = next[g[T \ {Max(T)}], s[Max(T)]]

\* I is kept when an element of s joins those that were taken.
KeptByFold(I, s, V, first, next) ==
  /\ <<{}, first>> \in I
  /\ \A T \in (SUBSET DOMAIN s) \ {{}} : \A v \in V :
       <<T \ {Max(T)}, v>> \in I => <<T, next[v, s[Max(T)]]>> \in I

LeftFolding(s, S, V, first, next) ==
  s \in Seq(S) /\ first \in V /\ next \in [V \X S -> V]

\* The last element of each part of s, and all there is to say of a fold.
LastsOf(s, S) == \A T \in (SUBSET DOMAIN s) \ {{}} : Max(T) \in T /\ s[Max(T)] \in S
FoldsSomehow(s, V, first, next) ==
  \E h \in [SUBSET DOMAIN s -> V] : FoldsLeft(h, s, first, next)
FoldsTo(g, I, s, V, first, next) ==
  FoldsTyped(g, s, V, first, next) /\ KeptByFold(I, s, V, first, next)
    => g[DOMAIN s] \in V /\ <<DOMAIN s, g[DOMAIN s]>> \in I

LEMMA LeftFold ==
  ASSUME NEW s, NEW S, NEW V, NEW first, NEW next, LeftFolding(s, S, V, first, next)
  PROVE  /\ LastsOf(s, S) /\ FoldsSomehow(s, V, first, next)
         /\ \A g, I : FoldsTo(g, I, s, V, first, next)
<1>. USE DEF LeftFolding
<1>. DEFINE R == DOMAIN s
            step == [a \in R \X V |-> next[a[2], s[a[1]]]]
            ch == [T \in SUBSET R |-> Max(T)]
<1>1. Len(s) \in Nat /\ R = 1..Len(s) /\ \A i \in R : s[i] \in S
    BY LenProperties
<1>2. IsFiniteSet(R)
    BY <1>1, FS_Interval
<1>3. \A T \in (SUBSET R) \ {{}} : Max(T) \in T /\ ch[T] = Max(T) /\ Max(T) \in R
  <2>. HIDE DEF R
  <2>. QED  BY <1>1, GreatestIn
<1>4. Takes(ch, R)
    BY <1>3 DEF Takes
<1>5. step \in [R \X V -> V] /\ \A i \in R, v \in V : step[i, v] = next[v, s[i]]
    BY <1>1
<1>6. \E h \in [SUBSET R -> V] : FoldsLeft(h, s, first, next)
  <2>1. PICK h : FoldedBy(h, R, V, first, step, ch)
    <3>. HIDE DEF step, ch, R
    <3>. QED  BY <1>2, <1>4, <1>5, FoldExists
  <2>. HIDE DEF step, ch
  <2>2. h \in [SUBSET R -> V]
      BY <2>1 DEF FoldedBy
  <2>3. ASSUME NEW T \in SUBSET R
        PROVE  h[T] = IF T = {} THEN first ELSE next[h[T \ {Max(T)}], s[Max(T)]]
    <3>1. CASE T = {}
        BY <2>1, <3>1 DEF FoldedBy
    <3>2. CASE T # {}
      <4>1. h[T \ {Max(T)}] \in V
          BY <2>2
      <4>2. h[T] = step[Max(T), h[T \ {Max(T)}]]
          BY <1>3, <2>1, <3>2 DEF FoldedBy
      <4>. QED  BY <1>3, <1>5, <3>2, <4>1, <4>2
    <3>. QED  BY <3>1, <3>2
  <2>. QED  BY <2>2, <2>3 DEF FoldsLeft
<1>7. ASSUME NEW g, NEW I, FoldsTyped(g, s, V, first, next), KeptByFold(I, s, V, first, next)
      PROVE  g[R] \in V /\ <<R, g[R]>> \in I
  <2>1. g = [T \in SUBSET R |-> g[T]] /\ g[{}] = first
      BY <1>7 DEF FoldsTyped
  <2>2. ASSUME NEW T \in (SUBSET R) \ {{}}, g[T \ {ch[T]}] \in V
        PROVE  g[T] = step[ch[T], g[T \ {ch[T]}]]
    <3>. HIDE DEF step, ch
    <3>1. ch[T] = Max(T) /\ Max(T) \in R
        BY <1>3
    <3>2. g[T] = next[g[T \ {Max(T)}], s[Max(T)]]
        BY <1>7, <2>2, <3>1, Zenon DEF FoldsTyped
    <3>. QED  BY <1>5, <2>2, <3>1, <3>2
  <2>3. FoldedBy(g, R, V, first, step, ch)
    <3>. HIDE DEF R, step, ch
    <3>. QED  BY <1>2, <1>4, <1>5, <2>1, <2>2, FoldTyped, Zenon
  <2>4. ASSUME NEW T \in (SUBSET R) \ {{}}, NEW v \in V, <<T \ {ch[T]}, v>> \in I
        PROVE  <<T, step[ch[T], v]>> \in I
    <3>. HIDE DEF step, ch
    <3>1. ch[T] = Max(T) /\ Max(T) \in R
        BY <1>3
    <3>2. <<T, next[v, s[Max(T)]]>> \in I
        BY <1>7, <2>4, <3>1, Zenon DEF KeptByFold
    <3>. QED  BY <1>5, <3>1, <3>2
  <2>5. \A T \in SUBSET R : <<T, g[T]>> \in I
    <3>1. <<{}, first>> \in I
        BY <1>7 DEF KeptByFold
    <3>2. KeptByStep(I, R, V, step, ch)
        BY <2>4, Zenon DEF KeptByStep
    <3>. HIDE DEF R, step, ch
    <3>. QED  BY <1>2, <1>4, <2>3, <3>1, <3>2, FoldInduction
  <2>6. R \in SUBSET R
      OBVIOUS
  <2>. HIDE DEF R, step, ch
  <2>. QED  BY <2>3, <2>5, <2>6 DEF FoldedBy
<1>8. LastsOf(s, S)
    BY <1>1, <1>3 DEF LastsOf
<1>9. \A g, I : FoldsTo(g, I, s, V, first, next)
    BY <1>7, Zenon DEF FoldsTo
<1>. QED  BY <1>6, <1>8, <1>9 DEF FoldsSomehow

LEMMA Joining ==
  ASSUME NEW S, NEW rs \in Seq(S), NEW p \in S
  PROVE  /\ Append(rs, p) \in Seq(S) /\ ToSet(Append(rs, p)) = ToSet(rs) \cup {p}
         /\ Len(Append(rs, p)) = Len(rs) + 1
         /\ IsInjective(rs) /\ p \notin ToSet(rs) => IsInjective(Append(rs, p))
<1>1. /\ Append(rs, p) \in Seq(S) /\ Len(Append(rs, p)) = Len(rs) + 1
      /\ \A i \in 1..Len(rs) : Append(rs, p)[i] = rs[i]
      /\ Append(rs, p)[Len(rs) + 1] = p
    OBVIOUS
<1>2. DOMAIN rs = 1..Len(rs) /\ DOMAIN Append(rs, p) = 1..(Len(rs) + 1) /\ Len(rs) \in Nat
    BY <1>1, LenProperties
<1>3. ToSet(Append(rs, p)) = ToSet(rs) \cup {p}
    BY <1>1, <1>2 DEF ToSet
<1>4. IsInjective(rs) /\ p \notin ToSet(rs) => IsInjective(Append(rs, p))
    BY <1>1, <1>2 DEF ToSet, IsInjective
<1>. QED  BY <1>1, <1>3, <1>4

Deduped(first, s) ==
  FoldLeft(LAMBDA rs, p : IF p \in ToSet(rs) THEN rs ELSE Append(rs, p),
           first, s)

LEMMA Dropping ==
  ASSUME NEW S, NEW first \in Seq(S), NEW s \in Seq(S)
  PROVE  /\ Deduped(first, s) \in Seq(S)
         /\ ToSet(Deduped(first, s)) = ToSet(first) \cup ToSet(s)
         /\ IsInjective(first) => IsInjective(Deduped(first, s))
<1>. DEFINE V == Seq(S)
            op(rs, p) == IF p \in ToSet(rs) THEN rs ELSE Append(rs, p)
            next == [a \in V \X S |-> op(a[1], a[2])]
            Body(g) == [T \in SUBSET DOMAIN s |->
                          IF T = {} THEN first ELSE op(g[T \ {Max(T)}], s[Max(T)])]
<1>1. \A v \in V, k \in S : next[v, k] = op(v, k) /\ op(v, k) \in V
    BY Joining
<1>2. next \in [V \X S -> V]
    BY <1>1
<1>. HIDE DEF op, next
<1>3. /\ LastsOf(s, S) /\ FoldsSomehow(s, V, first, next)
      /\ \A g, I : FoldsTo(g, I, s, V, first, next)
  <2>1. LeftFolding(s, S, V, first, next)
      BY <1>2 DEF LeftFolding
  <2>. HIDE DEF V
  <2>. QED  BY <2>1, LeftFold
<1>. USE DEF LastsOf
<1>4. PICK h \in [SUBSET DOMAIN s -> V] : FoldsLeft(h, s, first, next)
    BY <1>3 DEF FoldsSomehow
<1>5. ASSUME NEW T \in SUBSET DOMAIN s PROVE h[T] = Body(h)[T]
    BY <1>1, <1>3, <1>4 DEF FoldsLeft
<1>6. h = Body(h)
    BY <1>4, <1>5
<1>. DEFINE g == CHOOSE iter : iter = Body(iter)
<1>7. g = Body(g)
    BY <1>6
<1>8. Deduped(first, s) = g[DOMAIN s]
    BY Zenon DEF Deduped, FoldLeft, MapThenFoldSet, op
<1>. HIDE DEF g
<1>9. \A T \in SUBSET DOMAIN s :
        g[T] = IF T = {} THEN first ELSE op(g[T \ {Max(T)}], s[Max(T)])
    BY <1>7
<1>10. FoldsTyped(g, s, V, first, next)
  <2>1. g = [T \in SUBSET DOMAIN s |-> g[T]] /\ g[{}] = first
      BY <1>7, <1>9
  <2>. QED  BY <2>1, <1>1, <1>3, <1>9 DEF FoldsTyped
<1>. DEFINE I == {a \in (SUBSET DOMAIN s) \X V :
                    /\ ToSet(a[2]) = ToSet(first) \cup {s[i] : i \in a[1]}
                    /\ IsInjective(first) => IsInjective(a[2])}
<1>11. ASSUME NEW T \in (SUBSET DOMAIN s) \ {{}}, NEW v \in V, <<T \ {Max(T)}, v>> \in I
       PROVE  <<T, op(v, s[Max(T)])>> \in I
  <2>1. Max(T) \in T /\ s[Max(T)] \in S
      BY <1>3
  <2>2. op(v, s[Max(T)]) \in V
      BY <1>1, <2>1
  <2>3. {s[i] : i \in T} = {s[i] : i \in T \ {Max(T)}} \cup {s[Max(T)]}
      BY <2>1
  <2>4. /\ ToSet(op(v, s[Max(T)])) = ToSet(v) \cup {s[Max(T)]}
        /\ IsInjective(v) => IsInjective(op(v, s[Max(T)]))
      BY <2>1, Joining DEF op
  <2>5. /\ ToSet(v) = ToSet(first) \cup {s[i] : i \in T \ {Max(T)}}
        /\ IsInjective(first) => IsInjective(v)
      BY <1>11
  <2>. QED  BY <2>2, <2>3, <2>4, <2>5
<1>12. KeptByFold(I, s, V, first, next)
  <2>1. <<{}, first>> \in I
      OBVIOUS
  <2>. HIDE DEF I
  <2>. QED  BY <2>1, <1>1, <1>3, <1>11 DEF KeptByFold
<1>13. <<DOMAIN s, g[DOMAIN s]>> \in I
  <2>. HIDE DEF V, I
  <2>. QED  BY <1>3, <1>10, <1>12, Zenon DEF FoldsTo
<1>. QED  BY <1>8, <1>13 DEF ToSet

\* A queue of at most m, with c that have been seen.
Room(q, c, m) == Len(q) + c <= m

QueuedUpTo(m, c, seen, first, s) ==
  FoldLeft(LAMBDA q, k : IF k \notin seen /\ Len(q) + c < m THEN Append(q, k) ELSE q,
           first, s)

LEMMA Queueing ==
  ASSUME NEW S, NEW first \in Seq(S), NEW s \in Seq(S), NEW seen, NEW m \in Nat,
         NEW c \in Nat, Room(first, c, m)
  PROVE  /\ QueuedUpTo(m, c, seen, first, s) \in Seq(S)
         /\ ToSet(first) \subseteq ToSet(QueuedUpTo(m, c, seen, first, s))
         /\ Room(QueuedUpTo(m, c, seen, first, s), c, m)
<1>. DEFINE V == Seq(S)
            op(q, k) == IF k \notin seen /\ Len(q) + c < m THEN Append(q, k) ELSE q
            next == [a \in V \X S |-> op(a[1], a[2])]
            Body(g) == [T \in SUBSET DOMAIN s |->
                          IF T = {} THEN first ELSE op(g[T \ {Max(T)}], s[Max(T)])]
<1>1. \A v \in V, k \in S : next[v, k] = op(v, k) /\ op(v, k) \in V
    BY Joining
<1>2. next \in [V \X S -> V]
    BY <1>1
<1>. HIDE DEF op, next
<1>3. /\ LastsOf(s, S) /\ FoldsSomehow(s, V, first, next)
      /\ \A g, I : FoldsTo(g, I, s, V, first, next)
  <2>1. LeftFolding(s, S, V, first, next)
      BY <1>2 DEF LeftFolding
  <2>. HIDE DEF V
  <2>. QED  BY <2>1, LeftFold
<1>. USE DEF LastsOf
<1>4. PICK h \in [SUBSET DOMAIN s -> V] : FoldsLeft(h, s, first, next)
    BY <1>3 DEF FoldsSomehow
<1>5. ASSUME NEW T \in SUBSET DOMAIN s PROVE h[T] = Body(h)[T]
    BY <1>1, <1>3, <1>4 DEF FoldsLeft
<1>6. h = Body(h)
    BY <1>4, <1>5
<1>. DEFINE g == CHOOSE iter : iter = Body(iter)
<1>7. g = Body(g)
    BY <1>6
<1>8. QueuedUpTo(m, c, seen, first, s) = g[DOMAIN s]
    BY Zenon DEF QueuedUpTo, FoldLeft, MapThenFoldSet, op
<1>. HIDE DEF g
<1>9. \A T \in SUBSET DOMAIN s :
        g[T] = IF T = {} THEN first ELSE op(g[T \ {Max(T)}], s[Max(T)])
    BY <1>7
<1>10. FoldsTyped(g, s, V, first, next)
  <2>1. g = [T \in SUBSET DOMAIN s |-> g[T]] /\ g[{}] = first
      BY <1>7, <1>9
  <2>. QED  BY <2>1, <1>1, <1>3, <1>9 DEF FoldsTyped
<1>. DEFINE I == {a \in (SUBSET DOMAIN s) \X V :
                    ToSet(first) \subseteq ToSet(a[2]) /\ Room(a[2], c, m)}
<1>11. ASSUME NEW T \in (SUBSET DOMAIN s) \ {{}}, NEW v \in V, <<T \ {Max(T)}, v>> \in I
       PROVE  <<T, op(v, s[Max(T)])>> \in I
  <2>1. s[Max(T)] \in S /\ op(v, s[Max(T)]) \in V
      BY <1>1, <1>3
  <2>2. Len(v) \in Nat /\ Len(v) + c <= m
      BY <1>11, LenProperties DEF Room
  <2>3. ToSet(v) \subseteq ToSet(op(v, s[Max(T)])) /\ Room(op(v, s[Max(T)]), c, m)
      BY <2>1, <2>2, Joining DEF op, Room
  <2>. QED  BY <1>11, <2>1, <2>3
<1>12. KeptByFold(I, s, V, first, next)
  <2>1. <<{}, first>> \in I
      OBVIOUS
  <2>. HIDE DEF I
  <2>. QED  BY <2>1, <1>1, <1>3, <1>11 DEF KeptByFold
<1>13. <<DOMAIN s, g[DOMAIN s]>> \in I
  <2>. HIDE DEF V, I
  <2>. QED  BY <1>3, <1>10, <1>12, Zenon DEF FoldsTo
<1>. QED  BY <1>8, <1>13 DEF ToSet
-----------------------------------------------------------------------------
(* Multiples.                                                              *)

LEMMA Multiples ==
  ASSUME NEW k \in Nat \ {0}, NEW w \in Nat \ {0}
  PROVE  (k - 1) * w \in Nat /\ k * w \in Nat /\ k * w = (k - 1) * w + w
<1>1. ASSUME NEW m \in Nat, NEW n \in Nat PROVE m * n \in Nat
    OBVIOUS
<1>2. k - 1 \in Nat
    OBVIOUS
<1>. QED  BY <1>1, <1>2

LEMMA MultiplesGrow ==
  ASSUME NEW j \in Nat \ {0}, NEW k \in Nat \ {0}, j < k, NEW w \in Nat \ {0}
  PROVE  j * w <= (k - 1) * w
<1>1. ASSUME NEW m \in Nat, NEW n \in Nat PROVE m * n \in Nat
    OBVIOUS
<1>2. k - 1 - j \in Nat
    OBVIOUS
<1>3. (k - 1 - j) * w \in Nat /\ j * w \in Nat
    BY <1>1, <1>2
<1>4. (k - 1) * w = j * w + (k - 1 - j) * w
    OBVIOUS
<1>. QED  BY <1>3, <1>4

LEMMA MultiplesReach ==
  ASSUME NEW i \in Nat \ {0}, NEW w \in Nat \ {0}
  PROVE  \E k \in 1..i : (k - 1) * w < i /\ i <= k * w
<1>1. i <= i * w
  <2>1. \A n \in Nat : i * n \in Nat
      OBVIOUS
  <2>2. w - 1 \in Nat /\ i * w = i * (w - 1) + i
      OBVIOUS
  <2>. QED  BY <2>1, <2>2
<1>. DEFINE K == {k \in Nat : i <= k * w}
<1>2. K \in SUBSET Nat /\ i \in K
    BY <1>1
<1>3. PICK k \in K : \A m \in K : k <= m
  <2>. HIDE DEF K
  <2>. QED  BY <1>2, LeastNumber
<1>4. k # 0 /\ k <= i
    BY <1>2, <1>3
<1>5. k - 1 \in Nat /\ k - 1 \notin K
    BY <1>3, <1>4
<1>6. (k - 1) * w \in Nat
    BY <1>4, Multiples
<1>. QED  BY <1>3, <1>4, <1>5, <1>6
=============================================================================
