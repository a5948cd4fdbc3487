----------------------------- MODULE SumLemmas -----------------------------
(***************************************************************************)
(* What a sum over a finite set does when the set grows by an element or   *)
(* loses some, for every finite set.  The sums of the models are           *)
(* MapThenSumSet of FiniteSetsExt, a recursive function on subsets that    *)
(* takes the elements in the order CHOOSE gives them.  The lemmas are      *)
(* about such functions, with the weights as a function; each is proved by *)
(* taking a least set that refutes it (WFMin).                             *)
(***************************************************************************)
EXTENDS Integers, FiniteSetsExt, FiniteSetTheorems, TLAPS

AnyOf(S) == CHOOSE x \in S : TRUE

\* g is the recursive function that sums the weights w over subsets of S.
Sums(g, w, S) ==
    g = [s \in SUBSET S |-> IF s = {} THEN 0 ELSE w[AnyOf(s)] + g[s \ {AnyOf(s)}]]

\* A set of subsets of a finite set, if it has any, has one that contains no other.
LEMMA LeastSubset ==
    ASSUME NEW S, IsFiniteSet(S), NEW Bad \in SUBSET (SUBSET S), Bad # {}
    PROVE  \E T \in Bad : \A U \in Bad : ~(U \subseteq T /\ U # T)
<1>1. IsWellFoundedOn(StrictSubsetOrdering(S), SUBSET S)
  BY FS_StrictSubsetOrderingWellFounded, FS_FiniteSubsetsOfFinite
<1>2. PICK T \in Bad : \A U \in Bad : <<U, T>> \notin StrictSubsetOrdering(S)
  BY <1>1, WFMin
<1> QED
  BY <1>2 DEF StrictSubsetOrdering

LEMMA AnyOfIn == ASSUME NEW S, S # {} PROVE AnyOf(S) \in S
  BY DEF AnyOf

LEMMA SumsStep ==
    ASSUME NEW S, NEW w, NEW g, Sums(g, w, S), NEW T \in SUBSET S
    PROVE  g[T] = IF T = {} THEN 0 ELSE w[AnyOf(T)] + g[T \ {AnyOf(T)}]
  BY DEF Sums

\* Two such functions agree where both are defined, on the set of one of them.
LEMMA SumsAgree ==
    ASSUME NEW S, IsFiniteSet(S), NEW w, NEW v, NEW g, NEW h,
           NEW A, S \subseteq A, \A x \in S : w[x] = v[x], Sums(g, w, A), Sums(h, v, S)
    PROVE  g[S] = h[S]
<1> DEFINE Bad == {T \in SUBSET S : g[T] # h[T]}
<1>1. ASSUME Bad # {} PROVE FALSE
  <2>0. Bad \in SUBSET (SUBSET S)
    OBVIOUS
  <2>1. PICK T \in Bad : \A U \in Bad : ~(U \subseteq T /\ U # T)
    <3> HIDE DEF Bad
    <3> QED
      BY <1>1, <2>0, LeastSubset
  <2>2. T \in SUBSET A /\ T \in SUBSET S
    OBVIOUS
  <2>3. T # {}
    <3>1. g[{}] = 0 /\ h[{}] = 0
      BY SumsStep
    <3> QED
      BY <2>1, <3>1
  <2>4. AnyOf(T) \in T
    BY <2>3, AnyOfIn
  <2>5. g[T \ {AnyOf(T)}] = h[T \ {AnyOf(T)}]
    BY <2>1, <2>4
  <2>6. g[T] = w[AnyOf(T)] + g[T \ {AnyOf(T)}]
    BY <2>2, <2>3, SumsStep
  <2>7. h[T] = v[AnyOf(T)] + h[T \ {AnyOf(T)}]
    <3> HIDE DEF Bad
    <3> QED
      BY <2>2, <2>3, SumsStep
  <2> QED
    BY <2>1, <2>2, <2>4, <2>5, <2>6, <2>7
<1> QED
  BY <1>1

\* There is one for every finite set.
LEMMA SumsExist ==
    ASSUME NEW S, IsFiniteSet(S), NEW w
    PROVE  \E g : Sums(g, w, S)
<1> DEFINE Bad == {T \in SUBSET S : ~ \E g : Sums(g, w, T)}
<1>1. ASSUME Bad # {} PROVE FALSE
  <2>0. Bad \in SUBSET (SUBSET S)
    OBVIOUS
  <2>1. PICK T \in Bad : \A U \in Bad : ~(U \subseteq T /\ U # T)
    <3> HIDE DEF Bad
    <3> QED
      BY <1>1, <2>0, LeastSubset
  <2> DEFINE G(U) == CHOOSE h : Sums(h, w, U)
             less(U) == U \ {AnyOf(U)}
             g == [U \in SUBSET T |-> IF U = {} THEN 0 ELSE w[AnyOf(U)] + G(less(U))[less(U)]]
  <2>2. ASSUME NEW U \in SUBSET T, U # T PROVE Sums(G(U), w, U)
    <3>1. \E h : Sums(h, w, U)
      BY <2>1, <2>2
    <3> QED
      BY <3>1
  <2>3. ASSUME NEW U \in SUBSET T, U # {} PROVE less(U) \in SUBSET T /\ less(U) # T
    BY <2>3, AnyOfIn
  <2>4. ASSUME NEW U \in SUBSET T, U # T PROVE g[U] = G(U)[U]
    <3>1. Sums(G(U), w, U)
      BY <2>2, <2>4
    <3>2. CASE U = {}
      <4>1. G(U)[U] = 0 /\ g[U] = 0
        <5> HIDE DEF G
        <5> QED
          BY <3>1, <3>2, SumsStep
      <4> QED
        BY <4>1
    <3>3. CASE U # {}
      <4>1. less(U) \in SUBSET T /\ less(U) # T /\ less(U) \subseteq U
        BY <2>3, <3>3
      <4>2. Sums(G(less(U)), w, less(U))
        BY <2>2, <4>1
      <4>3. IsFiniteSet(less(U))
        BY <4>1, FS_Subset
      <4> HIDE DEF G, less
      <4>4. G(less(U))[less(U)] = G(U)[less(U)]
        BY <3>1, <4>1, <4>2, <4>3, SumsAgree
      <4>5. G(U)[U] = w[AnyOf(U)] + G(U)[less(U)]
        BY <3>1, <3>3, SumsStep DEF less
      <4> QED
        BY <3>3, <4>4, <4>5
    <3> QED
      BY <3>2, <3>3
  <2>5. Sums(g, w, T)
    <3> HIDE DEF G
    <3>1. \A U \in SUBSET T : U # {} => g[less(U)] = G(less(U))[less(U)]
      <4> SUFFICES ASSUME NEW U \in SUBSET T, U # {} PROVE g[less(U)] = G(less(U))[less(U)]
        OBVIOUS
      <4> HIDE DEF g, less
      <4> QED
        BY <2>3, <2>4
    <3>2. g = [U \in SUBSET T |-> IF U = {} THEN 0 ELSE w[AnyOf(U)] + g[U \ {AnyOf(U)}]]
      <4>1. \A U \in SUBSET T :
               (IF U = {} THEN 0 ELSE w[AnyOf(U)] + G(less(U))[less(U)])
                = (IF U = {} THEN 0 ELSE w[AnyOf(U)] + g[less(U)])
        <5> HIDE DEF g, less
        <5> QED
          BY <3>1
      <4> QED
        BY <4>1
    <3> QED
      BY <3>2 DEF Sums
  <2> QED
    BY <2>1, <2>5
<1> QED
  BY <1>1

-----------------------------------------------------------------------------
\* With weights that are integers: the sum is one, and any element may be
\* taken first.
LEMMA SumsTyped ==
    ASSUME NEW S, IsFiniteSet(S), NEW w \in [S -> Int], NEW g, Sums(g, w, S)
    PROVE  \A T \in SUBSET S : g[T] \in Int
<1> DEFINE Bad == {T \in SUBSET S : g[T] \notin Int}
<1>1. ASSUME Bad # {} PROVE FALSE
  <2>0. Bad \in SUBSET (SUBSET S)
    OBVIOUS
  <2>1. PICK T \in Bad : \A U \in Bad : ~(U \subseteq T /\ U # T)
    <3> HIDE DEF Bad
    <3> QED
      BY <1>1, <2>0, LeastSubset
  <2>2. CASE T = {}
    <3>1. g[{}] = 0
      BY SumsStep
    <3> QED
      BY <2>1, <2>2, <3>1
  <2>3. CASE T # {}
    <3>1. AnyOf(T) \in T
      BY <2>3, AnyOfIn
    <3>2. g[T \ {AnyOf(T)}] \in Int
      BY <2>1, <3>1
    <3>3. g[T] = w[AnyOf(T)] + g[T \ {AnyOf(T)}]
      <4>1. T \in SUBSET S
        BY <2>1
      <4> HIDE DEF Bad
      <4> QED
        BY <2>3, <4>1, SumsStep
    <3>4. w[AnyOf(T)] \in Int
      BY <3>1
    <3> QED
      BY <2>1, <3>2, <3>3, <3>4
  <2> QED
    BY <2>2, <2>3
<1> QED
  BY <1>1

LEMMA SumsRemove ==
    ASSUME NEW S, IsFiniteSet(S), NEW w \in [S -> Int], NEW g, Sums(g, w, S)
    PROVE  \A T \in SUBSET S : \A x \in T : g[T] = w[x] + g[T \ {x}]
<1> DEFINE Bad == {T \in SUBSET S : \E x \in T : g[T] # w[x] + g[T \ {x}]}
<1>1. ASSUME Bad # {} PROVE FALSE
  <2>0. Bad \in SUBSET (SUBSET S)
    OBVIOUS
  <2>1. PICK T \in Bad : \A U \in Bad : ~(U \subseteq T /\ U # T)
    <3> HIDE DEF Bad
    <3> QED
      BY <1>1, <2>0, LeastSubset
  <2>2. PICK x \in T : g[T] # w[x] + g[T \ {x}]
    BY <2>1
  <2> DEFINE a == AnyOf(T)
  <2>3. a \in T /\ T # {} /\ T \in SUBSET S
    BY <2>2, AnyOfIn
  <2>4. g[T] = w[a] + g[T \ {a}]
    BY <2>3, SumsStep
  <2> HIDE DEF a
  <2>5. x # a
    BY <2>2, <2>4
  <2>6. g[T \ {a}] = w[x] + g[(T \ {a}) \ {x}]
    <3>1. T \ {a} \notin Bad /\ T \ {a} \in SUBSET S /\ x \in T \ {a}
      BY <2>1, <2>2, <2>3, <2>5
    <3> QED
      BY <3>1
  <2>7. g[T \ {x}] = w[a] + g[(T \ {x}) \ {a}]
    <3>1. T \ {x} \notin Bad /\ T \ {x} \in SUBSET S /\ a \in T \ {x}
      BY <2>1, <2>2, <2>3, <2>5
    <3> QED
      BY <3>1
  <2>8. (T \ {a}) \ {x} = (T \ {x}) \ {a}
    OBVIOUS
  <2>9. g[(T \ {a}) \ {x}] \in Int /\ w[a] \in Int /\ w[x] \in Int
    <3>1. (T \ {a}) \ {x} \in SUBSET S
      BY <2>3
    <3> QED
      BY <2>3, <3>1, SumsTyped
  <2>10. g[T] = w[a] + (w[x] + g[(T \ {a}) \ {x}]) /\ g[T \ {x}] = w[a] + g[(T \ {a}) \ {x}]
    BY <2>4, <2>6, <2>7, <2>8
  <2> HIDE DEF Bad
  <2> QED
    BY <2>2, <2>9, <2>10
<1> QED
  BY <1>1

\* Elements without a negative weight do not lower a sum.
LEMMA SumsGrow ==
    ASSUME NEW S, IsFiniteSet(S), NEW w \in [S -> Nat], NEW g, Sums(g, w, S),
           NEW U \in SUBSET S
    PROVE  g[U] <= g[S]
<1> DEFINE Bad == {T \in SUBSET S : U \subseteq T /\ ~(g[U] <= g[T])}
<1>1. ASSUME Bad # {} PROVE FALSE
  <2>0. Bad \in SUBSET (SUBSET S)
    OBVIOUS
  <2>1. PICK T \in Bad : \A V \in Bad : ~(V \subseteq T /\ V # T)
    <3> HIDE DEF Bad
    <3> QED
      BY <1>1, <2>0, LeastSubset
  <2>2. w \in [S -> Int]
    OBVIOUS
  <2>3. g[U] \in Int /\ g[T] \in Int
    BY <2>1, <2>2, SumsTyped
  <2>4. PICK x \in T : x \notin U
    <3>1. ASSUME T \subseteq U PROVE FALSE
      <4>1. T = U
        BY <2>1, <3>1
      <4>2. g[U] <= g[U]
        BY <2>3
      <4> QED
        BY <2>1, <4>1, <4>2
    <3> QED
      BY <3>1
  <2>5. g[U] <= g[T \ {x}]
    BY <2>1, <2>4
  <2>6. g[T] = w[x] + g[T \ {x}]
    BY <2>1, <2>2, <2>4, SumsRemove
  <2>7. g[T \ {x}] \in Int /\ w[x] \in Nat
    <3>1. T \ {x} \in SUBSET S
      BY <2>1
    <3> QED
      BY <2>1, <2>2, <2>4, <3>1, SumsTyped
  <2>8. ~(g[U] <= g[T])
    BY <2>1
  <2> HIDE DEF Bad
  <2> QED
    BY <2>3, <2>5, <2>6, <2>7, <2>8
<1> QED
  BY <1>1

\* The sum over a part, by a function of its own, is the smaller one.
LEMMA SumsPart ==
    ASSUME NEW S, IsFiniteSet(S), NEW w \in [S -> Nat], NEW g, Sums(g, w, S),
           NEW A \in SUBSET S, NEW v, \A x \in A : w[x] = v[x], NEW h, Sums(h, v, A)
    PROVE  h[A] \in Int /\ g[S] \in Int /\ h[A] <= g[S] /\ h[A] = g[A]
<1>1. IsFiniteSet(A) /\ A \subseteq S
  BY FS_Subset
<1>2. g[A] = h[A]
  BY <1>1, SumsAgree
<1>3. w \in [S -> Int]
  OBVIOUS
<1>4. g[A] \in Int /\ g[S] \in Int /\ g[A] <= g[S]
  BY <1>1, <1>3, SumsTyped, SumsGrow
<1> QED
  BY <1>2, <1>4
=============================================================================
