------------------------------- MODULE SumProofs -------------------------------
(***************************************************************************)
(* Induction and sums: what the proofs about texts, lists and views need   *)
(* of numbers and finite sets, whatever they are of.                       *)
(***************************************************************************)
EXTENDS Integers, FiniteSets, FiniteSetTheorems, WellFoundedInduction, TLAPS

-----------------------------------------------------------------------------
(* Positions in order *)

\* A set of naturals has a least element: there is no infinite descent among
\* the intervals that end at them. Induction, in these proofs, is to look at
\* the least number that would be a counterexample.
LEMMA LeastNatural ==
    ASSUME NEW T \in SUBSET Nat, T # {}
    PROVE  \E x \in T : \A y \in T : x <= y
  <1> DEFINE U == {1 .. n : n \in T}
  <1>1. U \subseteq FiniteSubsetsOf(Nat) /\ U # {}
    <2>1. \A n \in T : IsFiniteSet(1 .. n) /\ 1 .. n \subseteq Nat
      BY FS_Interval
    <2> QED BY <2>1 DEF FiniteSubsetsOf
  <1>2. PICK s \in U : \A t \in U : ~(<<t, s>> \in StrictSubsetOrdering(Nat))
    <2>1. IsWellFoundedOn(StrictSubsetOrdering(Nat), FiniteSubsetsOf(Nat))
      BY FS_StrictSubsetOrderingWellFounded
    <2> QED BY <1>1, <2>1, WFMin
  <1>3. PICK x \in T : s = 1 .. x
    BY <1>2
  <1>4. ASSUME NEW y \in T, y < x
        PROVE  FALSE
    <2>1. 1 .. y \in U /\ 1 .. y \subseteq 1 .. x /\ 1 .. y # 1 .. x /\ 1 .. x \subseteq Nat
      <3>1. x \in 1 .. x /\ x \notin 1 .. y
        BY <1>4
      <3> QED BY <1>4, <3>1
    <2> QED BY <1>2, <1>3, <2>1 DEF StrictSubsetOrdering
  <1> QED BY <1>4

-----------------------------------------------------------------------------
(* Sums *)

\* The element a fold over a set takes next.
Some(s) == CHOOSE x \in s : TRUE

\* sums gives every set of D the sum of the weights of its elements, as the folds
\* of the community modules work it out.
SumsUp(sums, w, D) ==
    sums = [s \in D |-> IF s = {} THEN 0 ELSE w[Some(s)] + sums[s \ {Some(s)}]]

Sums(w, T) == CHOOSE sums : SumsUp(sums, w, SUBSET T)

\* The weights are natural; the sums add them up, whichever is taken first.
Weights(w, T) == \A x \in T : w[x] \in Nat

AddsUp(sums, w, D) ==
    \A s \in D : /\ sums[s] \in Nat
                 /\ s = {} => sums[s] = 0
                 /\ \A x \in s : sums[s] = w[x] + sums[s \ {x}]

\* Taking the next element out of a finite set makes it smaller.
LEMMA OneLess ==
    ASSUME NEW T, IsFiniteSet(T), NEW s \in SUBSET T, s # {}, NEW x \in s
    PROVE  /\ s \ {x} \in SUBSET T
           /\ Cardinality(s) \in Nat \ {0}
           /\ Cardinality(s \ {x}) = Cardinality(s) - 1
  <1>1. IsFiniteSet(s)
    BY FS_Subset
  <1>2. Cardinality(s \ {x}) = Cardinality(s) - 1 /\ Cardinality(s) \in Nat
    BY <1>1, FS_RemoveElement, FS_CardinalityType
  <1>3. Cardinality(s \ {x}) \in Nat
    BY <1>1, FS_Subset, FS_CardinalityType
  <1> QED BY <1>2, <1>3

LEMMA SomeIn == ASSUME NEW s, s # {} PROVE Some(s) \in s
  BY DEF Some

\* The recursion ends: there are such sums.
LEMMA SumsExist ==
    ASSUME NEW T, IsFiniteSet(T), NEW w
    PROVE  SumsUp(Sums(w, T), w, SUBSET T)
  <1> DEFINE Small(n) == {s \in SUBSET T : Cardinality(s) <= n}
             U == {n \in Nat : ~\E g : SumsUp(g, w, Small(n))}
  <1>1. U = {}
    <2> SUFFICES ASSUME U # {} PROVE FALSE
      OBVIOUS
    <2>1. PICK m \in U : \A n \in U : m <= n
      <3>1. U \in SUBSET Nat
        OBVIOUS
      <3> HIDE DEF U
      <3> QED BY <3>1, LeastNatural
    <2>2. m \in Nat
      OBVIOUS
    <2>3. CASE m = 0
      <3> DEFINE g == [s \in Small(m) |-> 0]
      <3>1. \A s \in Small(m) : s = {}
        <4> SUFFICES ASSUME NEW s \in Small(m), s # {} PROVE FALSE
          OBVIOUS
        <4>1. PICK x \in s : TRUE
          OBVIOUS
        <4>2. Cardinality(s) \in Nat \ {0}
          BY <4>1, OneLess
        <4> QED BY <2>3, <4>2
      <3>2. SumsUp(g, w, Small(m))
        BY <3>1 DEF SumsUp
      <3> QED BY <2>1, <3>2
    <2>4. CASE m # 0
      <3>1. PICK g : SumsUp(g, w, Small(m - 1))
        <4>1. m - 1 \in Nat /\ ~(m <= m - 1)
          BY <2>2, <2>4
        <4>2. m - 1 \notin U
          BY <2>1, <4>1, Zenon
        <4> QED BY <4>1, <4>2
      <3> DEFINE Sum(f, s) == IF s = {} THEN 0 ELSE w[Some(s)] + f[s \ {Some(s)}]
                 h == [s \in Small(m) |-> Sum(g, s)]
      <3>2. \A s \in Small(m - 1) : s \in Small(m) /\ h[s] = g[s]
        <4> SUFFICES ASSUME NEW s \in Small(m - 1)
                     PROVE  s \in Small(m) /\ h[s] = g[s]
          OBVIOUS
        <4>1. IsFiniteSet(s) /\ Cardinality(s) \in Nat
          BY FS_Subset, FS_CardinalityType
        <4>2. s \in Small(m)
          BY <2>2, <4>1
        <4>3. g[s] = Sum(g, s)
          BY <3>1 DEF SumsUp
        <4> QED BY <4>2, <4>3
      <3>3. \A s \in Small(m) : Sum(g, s) = Sum(h, s)
        <4> SUFFICES ASSUME NEW s \in Small(m), s # {}
                     PROVE  g[s \ {Some(s)}] = h[s \ {Some(s)}]
          OBVIOUS
        <4>1. PICK x : x = Some(s)
          OBVIOUS
        <4>2. /\ s \ {x} \in SUBSET T
              /\ Cardinality(s) \in Nat \ {0}
              /\ Cardinality(s \ {x}) = Cardinality(s) - 1
          BY <4>1, SomeIn, OneLess
        <4>3. s \ {x} \in Small(m - 1)
          BY <2>2, <4>2
        <4> QED BY <3>2, <4>1, <4>3
      <3>4. h = [s \in Small(m) |-> Sum(h, s)]
        BY <3>3
      <3>5. SumsUp(h, w, Small(m))
        BY <3>4, Zenon DEF SumsUp
      <3> QED BY <2>1, <3>5
    <2> QED BY <2>3, <2>4
  <1>2. Cardinality(T) \in Nat
    BY FS_CardinalityType
  <1>3. Small(Cardinality(T)) = SUBSET T
    BY FS_Subset
  <1>4. \E g : SumsUp(g, w, SUBSET T)
    BY <1>1, <1>2, <1>3
  <1> QED BY <1>4 DEF Sums

\* Sums of natural weights are natural, and the element taken out first makes no
\* difference.
LEMMA SumsOfNaturals ==
    ASSUME NEW T, IsFiniteSet(T), NEW w, Weights(w, T),
           NEW g, SumsUp(g, w, SUBSET T)
    PROVE  AddsUp(g, w, SUBSET T)
  <1> DEFINE Good(s) == /\ g[s] \in Nat
                        /\ s = {} => g[s] = 0
                        /\ \A x \in s : g[s] = w[x] + g[s \ {x}]
             U == {n \in Nat : \E s \in SUBSET T : Cardinality(s) = n /\ ~Good(s)}
  <1>1. \A s \in SUBSET T : g[s] = IF s = {} THEN 0 ELSE w[Some(s)] + g[s \ {Some(s)}]
    BY Zenon DEF SumsUp
  <1>2. U = {}
    <2> SUFFICES ASSUME U # {} PROVE FALSE
      OBVIOUS
    <2>1. PICK m \in U : \A n \in U : m <= n
      <3>1. U \in SUBSET Nat
        OBVIOUS
      <3> HIDE DEF U
      <3> QED BY <3>1, LeastNatural
    <2>2. PICK s \in SUBSET T : Cardinality(s) = m /\ ~Good(s)
      OBVIOUS
    <2>3. \A t \in SUBSET T : \A n \in Nat : Cardinality(t) = n /\ n < m => Good(t)
      BY <2>1
    <2>4. CASE s = {}
      BY <1>1, <2>2, <2>4
    <2>5. CASE s # {}
      <3> HIDE DEF Good, U
      <3>1. ASSUME NEW t \in SUBSET T, t # {}, NEW x \in t, Cardinality(t) <= m
            PROVE  t \ {x} \in SUBSET T /\ Good(t \ {x})
        <4>1. /\ t \ {x} \in SUBSET T
              /\ Cardinality(t) \in Nat \ {0}
              /\ Cardinality(t \ {x}) = Cardinality(t) - 1
          BY <3>1, OneLess
        <4>2. Cardinality(t \ {x}) \in Nat /\ Cardinality(t \ {x}) < m
          BY <2>2, <3>1, <4>1 DEF U
        <4> QED BY <2>3, <4>1, <4>2
      <3>2. PICK c \in s : c = Some(s)
        BY <2>5, SomeIn
      <3>3. m \in Nat /\ Cardinality(s) <= m
        BY <2>2 DEF U
      <3>4. Good(s \ {c}) /\ s \ {c} \in SUBSET T
        BY <2>5, <3>1, <3>3
      <3>5. g[s] = w[c] + g[s \ {c}] /\ w[c] \in Nat /\ g[s \ {c}] \in Nat
        BY <1>1, <2>5, <3>2, <3>4 DEF Good, Weights
      <3>6. ASSUME NEW x \in s
            PROVE  g[s] = w[x] + g[s \ {x}]
        <4>1. CASE x = c
          BY <3>5, <4>1
        <4>2. CASE x # c
          <5>1. Good(s \ {x}) /\ s \ {x} \in SUBSET T
            BY <2>5, <3>1, <3>3
          <5>2. x \in s \ {c} /\ c \in s \ {x}
            BY <4>2
          <5>3. PICK rest \in SUBSET T : rest = (s \ {c}) \ {x} /\ rest = (s \ {x}) \ {c}
            BY <3>4
          <5>4. g[s \ {c}] = w[x] + g[rest] /\ g[s \ {x}] = w[c] + g[rest]
            BY <3>4, <5>1, <5>2, <5>3 DEF Good
          <5>5. g[rest] \in Nat
            <6>1. Cardinality(s \ {c}) <= m
              <7>1. Cardinality(s \ {c}) = Cardinality(s) - 1 /\ Cardinality(s) \in Nat \ {0}
                BY <2>5, OneLess
              <7> QED BY <3>3, <7>1
            <6>2. Good((s \ {c}) \ {x})
              BY <3>1, <3>4, <5>2, <6>1
            <6> QED BY <5>3, <6>2 DEF Good
          <5>6. w[x] \in Nat /\ w[c] \in Nat
            BY DEF Weights
          <5> QED BY <3>5, <5>4, <5>5, <5>6
        <4> QED BY <4>1, <4>2
      <3>7. Good(s)
        BY <2>5, <3>5, <3>6 DEF Good
      <3> QED BY <2>2, <3>7
    <2> QED BY <2>4, <2>5
  <1>3. ASSUME NEW s \in SUBSET T
        PROVE  Good(s)
    <2>1. Cardinality(s) \in Nat
      BY FS_Subset, FS_CardinalityType
    <2> QED BY <1>2, <2>1
  <1> QED BY <1>3 DEF AddsUp

\* A sum is at least any of its weights.
LEMMA SumAtLeast ==
    ASSUME NEW T, IsFiniteSet(T), NEW w, Weights(w, T), NEW x \in T
    PROVE  Sums(w, T)[T] \in Nat /\ Sums(w, T)[T] >= w[x]
  <1>1. PICK g : g = Sums(w, T)
    OBVIOUS
  <1>2. SumsUp(g, w, SUBSET T)
    BY <1>1, SumsExist
  <1>3. AddsUp(g, w, SUBSET T)
    BY <1>2, SumsOfNaturals
  <1>4. PICK rest \in SUBSET T : rest = T \ {x}
    OBVIOUS
  <1>5. /\ g[T] \in Nat /\ g[T] = w[x] + g[rest] /\ g[rest] \in Nat
    BY <1>3, <1>4 DEF AddsUp
  <1>6. w[x] \in Nat
    BY DEF Weights
  <1> QED BY <1>1, <1>5, <1>6

\* The weights of S are the same by both.
Agree(w, v, S) == \A x \in S : w[x] = v[x]

\* Sums depend on the weights alone, not on the set they are part of.
LEMMA SumOfPart ==
    ASSUME NEW T, IsFiniteSet(T), NEW w, NEW S \in SUBSET T, NEW v, Agree(w, v, S)
    PROVE  Sums(w, T)[S] = Sums(v, S)[S]
  <1> IsFiniteSet(S)
    BY FS_Subset
  <1>1. PICK f : f = Sums(w, T)
    OBVIOUS
  <1>2. PICK g : g = Sums(v, S)
    OBVIOUS
  <1>3. SumsUp(f, w, SUBSET T)
    BY <1>1, SumsExist
  <1>4. SumsUp(g, v, SUBSET S)
    BY <1>2, SumsExist
  <1> DEFINE U == {n \in Nat : \E s \in SUBSET S : Cardinality(s) = n /\ f[s] # g[s]}
  <1>5. \A s \in SUBSET S :
           /\ f[s] = IF s = {} THEN 0 ELSE w[Some(s)] + f[s \ {Some(s)}]
           /\ g[s] = IF s = {} THEN 0 ELSE v[Some(s)] + g[s \ {Some(s)}]
    <2> SUFFICES ASSUME NEW s \in SUBSET S
                 PROVE  /\ f[s] = IF s = {} THEN 0 ELSE w[Some(s)] + f[s \ {Some(s)}]
                        /\ g[s] = IF s = {} THEN 0 ELSE v[Some(s)] + g[s \ {Some(s)}]
      OBVIOUS
    <2>1. s \in SUBSET T
      OBVIOUS
    <2>2. f[s] = IF s = {} THEN 0 ELSE w[Some(s)] + f[s \ {Some(s)}]
      BY <1>3, <2>1, Zenon DEF SumsUp
    <2>3. g[s] = IF s = {} THEN 0 ELSE v[Some(s)] + g[s \ {Some(s)}]
      BY <1>4, <2>1, Zenon DEF SumsUp
    <2> QED BY <2>2, <2>3
  <1>6. U = {}
    <2> SUFFICES ASSUME U # {} PROVE FALSE
      OBVIOUS
    <2>1. PICK m \in U : \A n \in U : m <= n
      <3>1. U \in SUBSET Nat
        OBVIOUS
      <3> HIDE DEF U
      <3> QED BY <3>1, LeastNatural
    <2>2. PICK s \in SUBSET S : Cardinality(s) = m /\ f[s] # g[s]
      OBVIOUS
    <2>3. s # {}
      BY <1>5, <2>2
    <2>4. PICK c \in s : c = Some(s)
      BY <2>3, SomeIn
    <2>5. /\ s \ {c} \in SUBSET S
          /\ Cardinality(s) \in Nat \ {0}
          /\ Cardinality(s \ {c}) = Cardinality(s) - 1
      BY <2>3, OneLess
    <2>6. Cardinality(s \ {c}) \in Nat /\ ~(m <= Cardinality(s \ {c}))
      BY <2>2, <2>5
    <2>7. f[s \ {c}] = g[s \ {c}]
      BY <2>1, <2>5, <2>6
    <2>8. f[s] = w[c] + f[s \ {c}] /\ g[s] = v[c] + g[s \ {c}] /\ w[c] = v[c]
      BY <1>5, <2>3, <2>4 DEF Agree
    <2> QED BY <2>2, <2>7, <2>8
  <1>7. Cardinality(S) \in Nat /\ S \in SUBSET S
    BY FS_CardinalityType
  <1> QED BY <1>1, <1>2, <1>6, <1>7

\* All but one.
Without(T, x) == T \ {x}

\* One more element adds its weight.
LEMMA SumOneMore ==
    ASSUME NEW T, IsFiniteSet(T), NEW w, Weights(w, T), NEW x \in T,
           NEW v, Agree(w, v, Without(T, x))
    PROVE  Sums(w, T)[T] = w[x] + Sums(v, Without(T, x))[Without(T, x)]
  <1>1. PICK f : f = Sums(w, T)
    OBVIOUS
  <1>2. PICK S \in SUBSET T : S = Without(T, x)
    BY DEF Without
  <1>3. SumsUp(f, w, SUBSET T)
    BY <1>1, SumsExist
  <1>4. AddsUp(f, w, SUBSET T)
    BY <1>3, SumsOfNaturals
  <1>5. f[T] = w[x] + f[S]
    BY <1>2, <1>4 DEF AddsUp, Without
  <1>6. f[S] = Sums(v, S)[S]
    BY <1>1, <1>2, SumOfPart
  <1> QED BY <1>1, <1>2, <1>5, <1>6

\* A sequence of weights that gets longer by one.
LEMMA SumOfLonger ==
    ASSUME NEW n \in Nat, NEW w, Weights(w, 1 .. n + 1), NEW v, Agree(w, v, 1 .. n)
    PROVE  Sums(w, 1 .. n + 1)[1 .. n + 1] = w[n + 1] + Sums(v, 1 .. n)[1 .. n]
  <1>1. PICK T : T = 1 .. n + 1
    OBVIOUS
  <1>2. PICK x \in T : x = n + 1
    BY <1>1
  <1>3. Without(T, x) = 1 .. n
    BY <1>1, <1>2 DEF Without
  <1>4. IsFiniteSet(T)
    BY <1>1, FS_Interval
  <1>5. Weights(w, T) /\ Agree(w, v, Without(T, x))
    BY <1>1, <1>3
  <1>6. Sums(w, T)[T] = w[x] + Sums(v, Without(T, x))[Without(T, x)]
    BY <1>4, <1>5, SumOneMore
  <1> QED BY <1>1, <1>2, <1>3, <1>6, Zenon

-----------------------------------------------------------------------------
(* Sets that grow by an element *)

\* What holds of the empty set, and of every set that is one element larger than one
\* it holds of, holds of a finite set: P are the subsets it holds of.
LEMMA SetsGrow ==
    ASSUME NEW T, IsFiniteSet(T), NEW P, {} \in P,
           \A s \in SUBSET T : \A x \in T : x \notin s /\ s \in P => s \cup {x} \in P
    PROVE  T \in P
  <1> DEFINE U == {n \in Nat : \E s \in SUBSET T : Cardinality(s) = n /\ s \notin P}
  <1>1. U = {}
    <2> SUFFICES ASSUME U # {} PROVE FALSE
      OBVIOUS
    <2>1. PICK m \in U : \A n \in U : m <= n
      <3>1. U \in SUBSET Nat
        OBVIOUS
      <3> HIDE DEF U
      <3> QED BY <3>1, LeastNatural
    <2>2. PICK s \in SUBSET T : Cardinality(s) = m /\ s \notin P
      OBVIOUS
    <2>3. PICK x \in s : TRUE
      BY <2>2
    <2>4. PICK rest : rest = s \ {x}
      OBVIOUS
    <2>5. rest \in SUBSET T /\ Cardinality(rest) \in Nat /\ ~(m <= Cardinality(rest))
      <3>1. /\ rest \in SUBSET T
            /\ Cardinality(s) \in Nat \ {0} /\ Cardinality(rest) = Cardinality(s) - 1
        BY <2>3, <2>4, OneLess
      <3> QED BY <2>2, <3>1
    <2>6. rest \in P
      BY <2>1, <2>5
    <2>7. x \in T /\ x \notin rest /\ rest \cup {x} = s
      BY <2>3, <2>4
    <2> QED BY <2>2, <2>5, <2>6, <2>7
  <1>2. Cardinality(T) \in Nat
    BY FS_CardinalityType
  <1> QED BY <1>1, <1>2

-----------------------------------------------------------------------------
(* The sum of the weights of a finite set *)

SumOf(w, T) == Sums(w, T)[T]

LEMMA SumType ==
    ASSUME NEW T, IsFiniteSet(T), NEW w, Weights(w, T)
    PROVE  SumOf(w, T) \in Nat
  <1>1. AddsUp(Sums(w, T), w, SUBSET T)
    BY SumsExist, SumsOfNaturals
  <1> QED BY <1>1 DEF AddsUp, SumOf

LEMMA SumOfNone ==
    ASSUME NEW w
    PROVE  SumOf(w, {}) = 0
  <1>1. IsFiniteSet({}) /\ Weights(w, {})
    BY FS_EmptySet DEF Weights
  <1>2. AddsUp(Sums(w, {}), w, SUBSET {})
    BY <1>1, SumsExist, SumsOfNaturals
  <1> QED BY <1>2 DEF AddsUp, SumOf

LEMMA SumAgrees ==
    ASSUME NEW T, IsFiniteSet(T), NEW w, NEW v, Agree(w, v, T)
    PROVE  SumOf(w, T) = SumOf(v, T)
  <1>1. T \in SUBSET T
    OBVIOUS
  <1> QED BY <1>1, SumOfPart DEF SumOf

LEMMA SumWith ==
    ASSUME NEW T, IsFiniteSet(T), NEW x, x \notin T, NEW w, Weights(w, T), w[x] \in Nat
    PROVE  SumOf(w, T \cup {x}) = SumOf(w, T) + w[x]
  <1>1. PICK S : S = T \cup {x}
    OBVIOUS
  <1>2. IsFiniteSet(S) /\ Weights(w, S) /\ x \in S /\ Without(S, x) = T
    BY <1>1, FS_AddElement DEF Weights, Without
  <1>3. Agree(w, w, Without(S, x))
    BY DEF Agree
  <1>4. Sums(w, S)[S] = w[x] + Sums(w, Without(S, x))[Without(S, x)]
    BY <1>2, <1>3, SumOneMore
  <1>5. SumOf(w, S) = w[x] + SumOf(w, T)
    BY <1>2, <1>4, Zenon DEF SumOf
  <1>6. SumOf(w, T) \in Nat
    BY SumType
  <1> QED BY <1>1, <1>5, <1>6

\* Weights may be added before or after.
LEMMA SumOfBoth ==
    ASSUME NEW T, IsFiniteSet(T), NEW v, Weights(v, T), NEW w, Weights(w, T),
           NEW u, \A x \in T : u[x] = v[x] + w[x]
    PROVE  SumOf(u, T) = SumOf(v, T) + SumOf(w, T)
  <1> DEFINE P == {s \in SUBSET T : SumOf(u, s) = SumOf(v, s) + SumOf(w, s)}
  <1>1. {} \in P
    BY SumOfNone
  <1>2. ASSUME NEW s \in SUBSET T, NEW x \in T, x \notin s, s \in P
        PROVE  s \cup {x} \in P
    <2>1. IsFiniteSet(s) /\ Weights(v, s) /\ Weights(w, s)
      BY FS_Subset DEF Weights
    <2>2. v[x] \in Nat /\ w[x] \in Nat /\ u[x] = v[x] + w[x]
      BY DEF Weights
    <2>3. Weights(u, s) /\ u[x] \in Nat
      BY <2>1, <2>2 DEF Weights
    <2>4. /\ SumOf(u, s \cup {x}) = SumOf(u, s) + u[x]
          /\ SumOf(v, s \cup {x}) = SumOf(v, s) + v[x]
          /\ SumOf(w, s \cup {x}) = SumOf(w, s) + w[x]
      BY <1>2, <2>1, <2>2, <2>3, SumWith
    <2>5. SumOf(v, s) \in Nat /\ SumOf(w, s) \in Nat /\ SumOf(u, s) = SumOf(v, s) + SumOf(w, s)
      BY <1>2, <2>1, SumType
    <2>6. SumOf(u, s \cup {x}) = SumOf(v, s \cup {x}) + SumOf(w, s \cup {x})
      BY <2>2, <2>4, <2>5
    <2> QED BY <2>6
  <1> HIDE DEF P
  <1>3. T \in P
    BY <1>1, <1>2, SetsGrow
  <1> QED BY <1>3 DEF P

\* Weights that are all nothing but one.
LEMMA SumOfOne ==
    ASSUME NEW T, IsFiniteSet(T), NEW y, NEW w, \A x \in T : x # y => w[x] = 0,
           y \in T => w[y] \in Nat
    PROVE  SumOf(w, T) = IF y \in T THEN w[y] ELSE 0
  <1> DEFINE P == {s \in SUBSET T : SumOf(w, s) = IF y \in s THEN w[y] ELSE 0}
  <1>1. {} \in P
    BY SumOfNone
  <1>2. ASSUME NEW s \in SUBSET T, NEW x \in T, x \notin s, s \in P
        PROVE  s \cup {x} \in P
    <2>1. IsFiniteSet(s) /\ Weights(w, s) /\ w[x] \in Nat
      BY FS_Subset DEF Weights
    <2>2. SumOf(w, s \cup {x}) = SumOf(w, s) + w[x]
      BY <1>2, <2>1, SumWith
    <2>3. SumOf(w, s \cup {x}) = IF y \in s \cup {x} THEN w[y] ELSE 0
      BY <1>2, <2>1, <2>2
    <2> QED BY <2>3
  <1> HIDE DEF P
  <1>3. T \in P
    BY <1>1, <1>2, SetsGrow
  <1> QED BY <1>3 DEF P

\* A sum of ones and noughts is at most the number of its terms.
LEMMA SumAtMost ==
    ASSUME NEW T, IsFiniteSet(T), NEW w, \A x \in T : w[x] \in {0, 1}
    PROVE  SumOf(w, T) <= Cardinality(T)
  <1> DEFINE P == {s \in SUBSET T : SumOf(w, s) <= Cardinality(s)}
  <1>1. {} \in P
    BY SumOfNone, FS_EmptySet
  <1>2. ASSUME NEW s \in SUBSET T, NEW x \in T, x \notin s, s \in P
        PROVE  s \cup {x} \in P
    <2>1. IsFiniteSet(s) /\ Weights(w, s) /\ w[x] \in {0, 1}
      BY FS_Subset DEF Weights
    <2>2. SumOf(w, s \cup {x}) = SumOf(w, s) + w[x]
      BY <1>2, <2>1, SumWith
    <2>3. Cardinality(s \cup {x}) = Cardinality(s) + 1 /\ Cardinality(s) \in Nat
      BY <1>2, <2>1, FS_AddElement, FS_CardinalityType
    <2>4. SumOf(w, s) \in Nat
      BY <2>1, SumType
    <2> QED BY <1>2, <2>1, <2>2, <2>3, <2>4
  <1> HIDE DEF P
  <1>3. T \in P
    BY <1>1, <1>2, SetsGrow
  <1> QED BY <1>3 DEF P

\* Ones and noughts count.
LEMMA SumCounts ==
    ASSUME NEW T, IsFiniteSet(T), NEW K \in SUBSET T,
           NEW w, \A x \in T : w[x] = IF x \in K THEN 1 ELSE 0
    PROVE  SumOf(w, T) = Cardinality(K)
  <1> DEFINE P == {s \in SUBSET T : SumOf(w, s) = Cardinality(K \cap s)}
  <1>1. {} \in P
    BY SumOfNone, FS_EmptySet
  <1>2. ASSUME NEW s \in SUBSET T, NEW x \in T, x \notin s, s \in P
        PROVE  s \cup {x} \in P
    <2>1. IsFiniteSet(s) /\ Weights(w, s) /\ w[x] \in Nat
      BY FS_Subset DEF Weights
    <2>6. IsFiniteSet(K \cap s)
      BY <2>1, FS_Intersection
    <2>2. SumOf(w, s \cup {x}) = SumOf(w, s) + w[x]
      BY <1>2, <2>1, SumWith
    <2>3. Cardinality(K \cap s) \in Nat
      BY <2>6, FS_CardinalityType
    <2>4. CASE x \in K
      <3>1. K \cap (s \cup {x}) = (K \cap s) \cup {x}
        BY <2>4
      <3>2. Cardinality((K \cap s) \cup {x}) = Cardinality(K \cap s) + 1
        BY <1>2, <2>6, FS_AddElement
      <3> QED BY <1>2, <2>2, <2>4, <3>1, <3>2
    <2>5. CASE x \notin K
      <3>1. K \cap (s \cup {x}) = K \cap s
        BY <2>5
      <3>2. SumOf(w, s \cup {x}) = Cardinality(K \cap s)
        BY <1>2, <2>2, <2>3, <2>5
      <3> QED BY <3>1, <3>2
    <2> QED BY <2>4, <2>5
  <1> HIDE DEF P
  <1>3. T \in P
    BY <1>1, <1>2, SetsGrow
  <1>4. K \cap T = K
    OBVIOUS
  <1> QED BY <1>3, <1>4 DEF P

\* A common factor may be taken out.
LEMMA SumScaled ==
    ASSUME NEW T, IsFiniteSet(T), NEW g \in Nat, NEW w, Weights(w, T),
           NEW v, \A x \in T : v[x] = g * w[x]
    PROVE  SumOf(v, T) = g * SumOf(w, T)
  <1> DEFINE P == {s \in SUBSET T : SumOf(v, s) = g * SumOf(w, s)}
  <1>1. {} \in P
    BY SumOfNone
  <1>2. ASSUME NEW s \in SUBSET T, NEW x \in T, x \notin s, s \in P
        PROVE  s \cup {x} \in P
    <2>1. IsFiniteSet(s) /\ Weights(w, s) /\ w[x] \in Nat
      BY FS_Subset DEF Weights
    <2>2. \A a \in Nat : g * a \in Nat
      OBVIOUS
    <2>3. Weights(v, s) /\ v[x] \in Nat
      BY <2>1, <2>2 DEF Weights
    <2>4. SumOf(w, s \cup {x}) = SumOf(w, s) + w[x] /\ SumOf(v, s \cup {x}) = SumOf(v, s) + v[x]
      BY <1>2, <2>1, <2>3, SumWith
    <2>5. PICK a \in Nat : a = SumOf(w, s)
      BY <2>1, SumType
    <2>6. PICK b \in Nat : b = w[x]
      BY <2>1
    <2>7. g * (a + b) = g * a + g * b
      OBVIOUS
    <2>8. SumOf(v, s) = g * a /\ v[x] = g * b
      BY <1>2, <2>5, <2>6
    <2> QED BY <2>4, <2>5, <2>6, <2>7, <2>8
  <1> HIDE DEF P
  <1>3. T \in P
    BY <1>1, <1>2, SetsGrow
  <1> QED BY <1>3 DEF P

\* Columns: the weights of x \in A in column g.
Column(u, g, A) == [x \in A |-> u[x][g]]

\* What the rows of a table add up to, and what its columns do.
RowSums(u, b, A, G) == \A x \in A : Weights(u[x], G) /\ b[x] = SumOf(u[x], G)
ColumnSums(u, c, A, G) == \A g \in G : c[g] = SumOf(Column(u, g, A), A)

\* A table adds up by its rows as it does by its columns.
LEMMA SumSwaps ==
    ASSUME NEW A, IsFiniteSet(A), NEW G, IsFiniteSet(G),
           NEW u, NEW b, RowSums(u, b, A, G), NEW c, ColumnSums(u, c, A, G)
    PROVE  SumOf(b, A) = SumOf(c, G)
  <1> DEFINE Col(s) == [g \in G |-> SumOf(Column(u, g, A), s)]
             P == {s \in SUBSET A : SumOf(b, s) = SumOf(Col(s), G)}
  <1>1. {} \in P
    <2>1. \A g \in G : Col({})[g] = 0
      BY SumOfNone
    <2>2. PICK none : none = Col({})
      OBVIOUS
    <2>3. SumOf(none, G) = IF 0 \in G THEN none[0] ELSE 0
      BY <2>1, <2>2, SumOfOne
    <2>4. SumOf(none, G) = 0
      BY <2>1, <2>2, <2>3
    <2> QED BY <2>2, <2>4, SumOfNone
  <1>2. ASSUME NEW s \in SUBSET A, NEW x \in A, x \notin s, s \in P
        PROVE  s \cup {x} \in P
    <2>0. ASSUME NEW y \in A
          PROVE  b[y] \in Nat
      <3>1. Weights(u[y], G) /\ b[y] = SumOf(u[y], G)
        BY DEF RowSums
      <3> QED BY <3>1, SumType
    <2>1. IsFiniteSet(s) /\ \A y \in A : b[y] \in Nat
      BY <2>0, FS_Subset
    <2>2. Weights(b, s)
      BY <2>1 DEF Weights
    <2>3. SumOf(b, s \cup {x}) = SumOf(b, s) + b[x]
      <3> HIDE DEF P
      <3> QED BY <1>2, <2>1, <2>2, SumWith
    <2>4. ASSUME NEW g \in G
          PROVE  /\ Col(s)[g] \in Nat
                 /\ Col(s \cup {x})[g] = Col(s)[g] + u[x][g]
      <3>1. PICK w : w = Column(u, g, A)
        OBVIOUS
      <3>4. \A y \in A : w[y] \in Nat /\ w[y] = u[y][g]
        BY <3>1 DEF Column, Weights, RowSums
      <3>2. Weights(w, s) /\ w[x] \in Nat /\ w[x] = u[x][g]
        BY <3>4 DEF Weights
      <3>3. SumOf(w, s \cup {x}) = SumOf(w, s) + w[x] /\ SumOf(w, s) \in Nat
        <4> HIDE DEF P, Col
        <4>1. SumOf(w, s) \in Nat
          BY <2>1, <3>2, SumType
        <4>2. IsFiniteSet(s) /\ x \notin s /\ Weights(w, s) /\ w[x] \in Nat
          BY <1>2, <2>1, <3>2
        <4>3. SumOf(w, s \cup {x}) = SumOf(w, s) + w[x]
          BY <4>2, SumWith
        <4> QED BY <4>1, <4>3
      <3>5. Col(s)[g] = SumOf(w, s)
        BY <3>1
      <3>6. Col(s \cup {x})[g] = SumOf(w, s \cup {x})
        BY <3>1
      <3> HIDE DEF P, Col
      <3> QED BY <3>2, <3>3, <3>5, <3>6
    <2>5. PICK before : before = Col(s)
      OBVIOUS
    <2>6. PICK after : after = Col(s \cup {x})
      OBVIOUS
    <2>7. Weights(before, G) /\ Weights(u[x], G) /\ \A g \in G : after[g] = before[g] + u[x][g]
      BY <2>4, <2>5, <2>6 DEF Weights, RowSums
    <2>8. SumOf(after, G) = SumOf(before, G) + SumOf(u[x], G)
      BY <2>7, SumOfBoth
    <2>9. b[x] = SumOf(u[x], G)
      BY DEF RowSums
    <2> QED BY <1>2, <2>3, <2>5, <2>6, <2>8, <2>9
  <1>3. A \in P
    <2> HIDE DEF P
    <2> QED BY <1>1, <1>2, SetsGrow
  <1>4. PICK all : all = Col(A)
    OBVIOUS
  <1>5. Agree(all, c, G)
    BY <1>4 DEF Agree, ColumnSums
  <1>6. SumOf(all, G) = SumOf(c, G)
    BY <1>5, SumAgrees
  <1> QED BY <1>3, <1>4, <1>6

\* Sets that have nothing in common.
NoOverlap(C) == \A s, t \in C : s # t => s \cap t = {}

\* Their sizes add up to the size of their union.
LEMMA SumOfSizes ==
    ASSUME NEW C, IsFiniteSet(C), \A s \in C : IsFiniteSet(s), NoOverlap(C),
           NEW w, \A s \in C : w[s] = Cardinality(s)
    PROVE  SumOf(w, C) = Cardinality(UNION C)
  <1> DEFINE P == {F \in SUBSET C : SumOf(w, F) = Cardinality(UNION F)}
  <1>1. {} \in P
    <2>1. UNION {} = {}
      OBVIOUS
    <2> QED BY <2>1, SumOfNone, FS_EmptySet
  <1>2. ASSUME NEW F \in SUBSET C, NEW s \in C, s \notin F, F \in P
        PROVE  F \cup {s} \in P
    <2>1. IsFiniteSet(F) /\ \A t \in C : w[t] \in Nat
      BY FS_Subset, FS_CardinalityType
    <2>2. IsFiniteSet(F) /\ Weights(w, F) /\ w[s] \in Nat
      BY <2>1 DEF Weights
    <2>3. SumOf(w, F \cup {s}) = SumOf(w, F) + w[s]
      <3> HIDE DEF P
      <3> QED BY <1>2, <2>2, SumWith
    <2>4. IsFiniteSet(UNION F) /\ IsFiniteSet(s)
      BY <2>1, FS_UNION
    <2>5. (UNION F) \cap s = {} /\ UNION (F \cup {s}) = (UNION F) \cup s
      BY <1>2 DEF NoOverlap
    <2>6. Cardinality((UNION F) \cup s) = Cardinality(UNION F) + Cardinality(s)
      <3>1. /\ Cardinality(UNION F) \in Nat /\ Cardinality(s) \in Nat
            /\ Cardinality((UNION F) \cap s) = 0
        BY <2>4, <2>5, FS_CardinalityType, FS_EmptySet
      <3>2. Cardinality((UNION F) \cup s)
              = Cardinality(UNION F) + Cardinality(s) - Cardinality((UNION F) \cap s)
        BY <2>4, FS_Union
      <3> QED BY <3>1, <3>2
    <2>7. SumOf(w, F) = Cardinality(UNION F)
      BY <1>2
    <2> QED BY <2>3, <2>5, <2>6, <2>7
  <1> HIDE DEF P
  <1>3. C \in P
    BY <1>1, <1>2, SetsGrow
  <1> QED BY <1>3 DEF P

\* The values that are not 0 are in G; v gives each as often as it is there.
ValuesIn(w, T, G) == \A x \in T : w[x] # 0 => w[x] \in G
ByValue(v, w, T, G) == \A g \in G : v[g] = g * Cardinality({x \in T : w[x] = g})

\* Weights by their value: each that is not 0, as often as it is there.
LEMMA SumByValue ==
    ASSUME NEW T, IsFiniteSet(T), NEW w, Weights(w, T),
           NEW G, IsFiniteSet(G), G \subseteq Nat, ValuesIn(w, T, G),
           NEW v, ByValue(v, w, T, G)
    PROVE  SumOf(w, T) = SumOf(v, G)
  <1> DEFINE u == [x \in T |-> [g \in G |-> IF w[x] = g THEN g ELSE 0]]
  <1>1. ASSUME NEW x \in T
        PROVE  Weights(u[x], G) /\ w[x] = SumOf(u[x], G)
    <2>1. PICK y : y = w[x] /\ y \in Nat
      BY DEF Weights
    <2>2. PICK t : t = u[x]
      OBVIOUS
    <2>3. /\ \A g \in G : g # y => t[g] = 0
          /\ y \in G => t[y] = y
          /\ \A g \in G : t[g] \in Nat
      BY <2>1, <2>2
    <2>4. SumOf(t, G) = IF y \in G THEN t[y] ELSE 0
      BY <2>1, <2>3, SumOfOne
    <2>5. y \notin G => y = 0
      BY <2>1 DEF ValuesIn
    <2>6. Weights(t, G)
      BY <2>3 DEF Weights
    <2> QED BY <2>1, <2>2, <2>3, <2>4, <2>5, <2>6
  <1>2. ASSUME NEW g \in G
        PROVE  v[g] = SumOf(Column(u, g, T), T)
    <2>1. PICK K : K = {x \in T : w[x] = g}
      OBVIOUS
    <2>2. PICK one : one = [x \in T |-> IF x \in K THEN 1 ELSE 0]
      OBVIOUS
    <2>3. K \in SUBSET T /\ \A x \in T : one[x] = IF x \in K THEN 1 ELSE 0
      BY <2>1, <2>2
    <2>4. SumOf(one, T) = Cardinality(K)
      BY <2>3, SumCounts
    <2>5. PICK col : col = Column(u, g, T)
      OBVIOUS
    <2>6. \A x \in T : col[x] = g * one[x]
      <3> SUFFICES ASSUME NEW x \in T PROVE col[x] = g * one[x]
        OBVIOUS
      <3>1. col[x] = IF w[x] = g THEN g ELSE 0
        BY <2>5 DEF Column
      <3>2. one[x] = IF w[x] = g THEN 1 ELSE 0
        BY <2>1, <2>3
      <3>3. g * 1 = g /\ g * 0 = 0
        OBVIOUS
      <3> QED BY <3>1, <3>2, <3>3
    <2>7. Weights(one, T) /\ g \in Nat
      BY <2>3 DEF Weights
    <2>8. SumOf(col, T) = g * SumOf(one, T)
      BY <2>6, <2>7, SumScaled
    <2> QED BY <2>1, <2>4, <2>5, <2>8 DEF ByValue
  <1>3. RowSums(u, w, T, G) /\ ColumnSums(u, v, T, G)
    BY <1>1, <1>2 DEF RowSums, ColumnSums
  <1> HIDE DEF u
  <1> QED BY <1>3, SumSwaps
================================================================================
