----------------------------- MODULE LoopLemmas -----------------------------
(***************************************************************************)
(* Facts about loops.  A loop of the code is a recursive function          *)
(*     f[k \in 0..n] == IF k = 0 THEN s ELSE G(k, f[k - 1])                *)
(* in the model, f[k] being its variables after k iterations.  That there  *)
(* is such a function, and that it keeps what its iterations keep, has to  *)
(* be proved by induction, which is stated here about sets and functions.  *)
(*                                                                         *)
(* And about sums: SumFunctionOnSet of the community modules is such a     *)
(* loop too, one that visits the elements of a finite set in an order      *)
(* nobody knows.                                                           *)
(***************************************************************************)
EXTENDS Integers, Sequences, FiniteSets, Functions, FiniteSetTheorems,
        WellFoundedInduction, TLAPS

\* The functions that give the state in Y after an iteration from the number
\* of the iteration and the state before it, and the runs of such a function.
\* Named, so that the provers can match them.
Iterations(n, Y) == [(1..n) \X Y -> Y]
Runs(n, Y, s, g) ==
    {f \in [0..n -> Y] : /\ f[0] = s
                         /\ \A k \in 1..n : f[k] = g[<<k, f[k - 1]>>]}

\* The order on the natural numbers is well founded.
LEMMA NatWellFounded == IsWellFoundedOn({p \in Nat \X Nat : p[1] < p[2]}, Nat)
  BY NatLessThanWellFounded DEF OpToRel

\* A set of naturals that is not empty has a smallest element.
LEMMA SmallestExists ==
    ASSUME NEW T \in SUBSET Nat, T # {}
    PROVE  \E x \in T : \A y \in T : x <= y
<1> DEFINE R == {p \in Nat \X Nat : p[1] < p[2]}
<1>1. IsWellFoundedOn(R, Nat)
  BY NatWellFounded
<1>2. PICK x \in T : \A y \in T : ~(<<y, x>> \in R)
  <2> HIDE DEF R
  <2> QED
    BY <1>1, WFMin
<1>3. \A y \in T : <<y, x>> \in R <=> y < x
  OBVIOUS
<1>4. \A y \in T : ~(y < x)
  <2> HIDE DEF R
  <2> QED
    BY <1>2, <1>3
<1>5. QED
  BY <1>4

\* Induction up to n.
LEMMA UpTo ==
    ASSUME NEW n \in Nat, NEW S,
           0 \in S, \A k \in 1..n : k - 1 \in S => k \in S
    PROVE  0..n \subseteq S
<1> DEFINE T == (0..n) \ S
<1>1. SUFFICES ASSUME T # {} PROVE FALSE
  OBVIOUS
<1>2. T \in SUBSET Nat
  OBVIOUS
<1>3. PICK x \in T : \A y \in T : x <= y
  <2> HIDE DEF T
  <2> QED
    BY <1>1, <1>2, SmallestExists
<1>4. x \in 1..n
  BY <1>3
<1>5. x - 1 \notin T
  BY <1>3, <1>4
<1>6. QED
  BY <1>3, <1>4, <1>5

\* A loop whose iteration k maps a set Y into itself, as the function g does,
\* has a run in Y from every state of Y.
LEMMA RunExists ==
    ASSUME NEW n \in Nat, NEW Y, NEW s \in Y, NEW g \in Iterations(n, Y)
    PROVE  \E f : f \in Runs(n, Y, s, g)
<1> DEFINE Run(f, m) == /\ f[0] = s
                        /\ \A k \in 1..m : f[k] = g[<<k, f[k - 1]>>]
           S == {m \in 0..n : \E f \in [0..n -> Y] : Run(f, m)}
<1>1. 0 \in S
  <2> DEFINE h == [k \in 0..n |-> s]
  <2>1. h \in [0..n -> Y] /\ Run(h, 0)
    OBVIOUS
  <2> HIDE DEF h, Run
  <2>2. QED
    BY <2>1
<1>2. ASSUME NEW m \in 1..n, m - 1 \in S
      PROVE  m \in S
  <2>1. PICK f \in [0..n -> Y] : Run(f, m - 1)
    BY <1>2
  <2> DEFINE h == [f EXCEPT ![m] = g[<<m, f[m - 1]>>]]
  <2>2. f[m - 1] \in Y /\ g[<<m, f[m - 1]>>] \in Y
    BY DEF Iterations
  <2>3. h \in [0..n -> Y]
    BY <2>2
  <2>4. \A k \in 0..(m - 1) : h[k] = f[k]
    OBVIOUS
  <2>5. h[m] = g[<<m, f[m - 1]>>]
    OBVIOUS
  <2>6. Run(h, m)
    <3>1. h[0] = s
      BY <2>1, <2>4
    <3>2. ASSUME NEW k \in 1..m PROVE h[k] = g[<<k, h[k - 1]>>]
      <4>1. k - 1 \in 0..(m - 1) /\ h[k - 1] = f[k - 1]
        BY <2>4
      <4>2. CASE k = m
        BY <4>1, <4>2, <2>5
      <4>3. CASE k # m
        <5>1. k \in 1..(m - 1)
          BY <4>3
        <5>2. h[k] = f[k]
          BY <5>1, <2>4
        <5>3. QED
          BY <5>1, <5>2, <4>1, <2>1
      <4>4. QED
        BY <4>2, <4>3
    <3>3. QED
      BY <3>1, <3>2
  <2> HIDE DEF h, Run
  <2>7. QED
    BY <2>3, <2>6
<1>3. n \in S
  <2> HIDE DEF S
  <2>1. 0..n \subseteq S
    BY <1>1, <1>2, UpTo
  <2>2. QED
    BY <2>1
<1>4. QED
  BY <1>3 DEF Runs

\* A loop that starts in Y and whose iterations stay in Y stays in Y.
LEMMA StaysIn ==
    ASSUME NEW n \in Nat, NEW Y, NEW f,
           f[0] \in Y, \A k \in 1..n : f[k - 1] \in Y => f[k] \in Y
    PROVE  \A k \in 0..n : f[k] \in Y
<1> DEFINE S == {k \in 0..n : f[k] \in Y}
<1>1. 0 \in S
  OBVIOUS
<1>2. \A k \in 1..n : k - 1 \in S => k \in S
  OBVIOUS
<1>3. 0..n \subseteq S
  <2> HIDE DEF S
  <2> QED
    BY <1>1, <1>2, UpTo
<1>4. QED
  BY <1>3

----------------------------------------------------------------------------
\* Sums over finite sets.

\* Induction over the subsets of a finite set, from smaller to larger ones.
LEMMA FiniteInduction ==
    ASSUME NEW S, IsFiniteSet(S), NEW D, {} \in D,
           \A T \in SUBSET S : T # {} /\ (\A x \in T : T \ {x} \in D) => T \in D
    PROVE  S \in D
<1> DEFINE n == Cardinality(S)
           E == {k \in 0..n : \A T \in SUBSET S : Cardinality(T) = k => T \in D}
<1>1. n \in Nat
  BY FS_CardinalityType
<1>2. \A T \in SUBSET S : IsFiniteSet(T) /\ Cardinality(T) \in Nat
  BY FS_Subset, FS_CardinalityType
<1> HIDE DEF n
<1>3. 0 \in E
  <2>1. \A T \in SUBSET S : Cardinality(T) = 0 => T = {}
    BY <1>2, FS_EmptySet
  <2>2. QED
    BY <1>1, <2>1
<1>4. ASSUME NEW k \in 1..n, k - 1 \in E
      PROVE  k \in E
  <2>1. SUFFICES ASSUME NEW T \in SUBSET S, Cardinality(T) = k
                 PROVE  T \in D
    BY <1>1
  <2>2. T # {}
    <3>1. Cardinality({}) = 0
      BY FS_EmptySet
    <3>2. QED
      BY <1>1, <2>1, <3>1
  <2>3. ASSUME NEW x \in T PROVE T \ {x} \in D
    <3>1. Cardinality(T \ {x}) = k - 1
      BY <1>2, <2>1, FS_RemoveElement
    <3>2. QED
      BY <1>4, <3>1
  <2>4. QED
    BY <2>2, <2>3
<1>5. n \in E
  <2> HIDE DEF E
  <2>1. 0..n \subseteq E
    BY <1>1, <1>3, <1>4, UpTo
  <2>2. QED
    BY <1>1, <2>1
<1>6. QED
  BY <1>5 DEF n

\* Named, so that the provers can match them: f can be summed over S, g is the
\* same on S, and m gives the elements of S their names in T.
Summable(f, S) == IsFiniteSet(S) /\ \A x \in S : f[x] \in Int
SameOn(S, f, g) == \A x \in S : g[x] = f[x]
Renaming(m, S, T) ==
    /\ \A x \in S : m[x] \in T
    /\ \A x, y \in S : m[x] = m[y] => x = y
    /\ \A z \in T : \E x \in S : z = m[x]

\* The functions that give the sum of f over every subset of S, whatever the
\* order of the summands.
Sums(f, S) ==
    {g \in [SUBSET S -> Int] :
        /\ g[{}] = 0
        /\ \A T \in SUBSET S : \A x \in T : g[T] = f[x] + g[T \ {x}]}

LEMMA SumsExist ==
    ASSUME NEW S, IsFiniteSet(S), NEW f, \A x \in S : f[x] \in Int
    PROVE  \E g : g \in Sums(f, S)
<1> DEFINE D == {T \in SUBSET S : \E g : g \in Sums(f, T)}
<1>1. {} \in D
  <2> DEFINE g == [T \in {{}} |-> 0]
  <2>1. SUBSET {} = {{}}
    OBVIOUS
  <2>2. g \in [SUBSET {} -> Int] /\ g[{}] = 0
    BY <2>1
  <2>3. \A T \in SUBSET {} : T = {}
    BY <2>1
  <2> HIDE DEF g
  <2>4. g \in Sums(f, {})
    BY <2>2, <2>3 DEF Sums
  <2>5. QED
    BY <2>4
<1>2. ASSUME NEW R \in SUBSET S, R # {}, \A x \in R : R \ {x} \in D
      PROVE  R \in D
  <2> PICK a \in R : TRUE
    BY <1>2
  <2> DEFINE T == R \ {a}
  <2>1. PICK g \in Sums(f, T) : TRUE
    BY <1>2
  <2>2. /\ g \in [SUBSET T -> Int] /\ g[{}] = 0
        /\ \A U \in SUBSET T : \A x \in U : g[U] = f[x] + g[U \ {x}]
    BY <2>1 DEF Sums
  <2> DEFINE h == [U \in SUBSET R |-> IF a \in U THEN f[a] + g[U \ {a}] ELSE g[U]]
  <2>3. \A U \in SUBSET R : U \ {a} \in SUBSET T /\ (a \notin U => U \in SUBSET T)
    OBVIOUS
  <2>4. f[a] \in Int /\ \A U \in SUBSET T : g[U] \in Int
    BY <2>2
  <2>5. h \in [SUBSET R -> Int]
    BY <2>3, <2>4
  <2>6. h[{}] = 0
    BY <2>2
  <2>7. ASSUME NEW U \in SUBSET R, NEW x \in U
        PROVE  h[U] = f[x] + h[U \ {x}]
    <3>1. U \ {x} \in SUBSET R /\ f[x] \in Int
      BY <1>2
    <3>2. CASE x = a
      BY <3>1, <3>2
    <3>3. CASE x # a /\ a \in U
      <4>1. (U \ {a}) \ {x} = (U \ {x}) \ {a}
        OBVIOUS
      <4>2. x \in U \ {a} /\ U \ {a} \in SUBSET T
        BY <3>3
      <4>3. g[U \ {a}] = f[x] + g[(U \ {x}) \ {a}]
        <5>1. g[U \ {a}] = f[x] + g[(U \ {a}) \ {x}]
          BY <2>2, <4>2
        <5>2. QED
          BY <4>1, <5>1
      <4>4. h[U] = f[a] + g[U \ {a}] /\ h[U \ {x}] = f[a] + g[(U \ {x}) \ {a}]
        BY <3>1, <3>3
      <4>5. g[(U \ {x}) \ {a}] \in Int
        BY <2>3, <2>4, <3>1
      <4> HIDE DEF h
      <4>6. QED
        BY <2>4, <3>1, <4>3, <4>4, <4>5
    <3>4. CASE a \notin U
      BY <2>2, <2>3, <3>1, <3>4
    <3>5. QED
      BY <3>2, <3>3, <3>4
  <2> HIDE DEF h
  <2>8. h \in Sums(f, R)
    BY <2>5, <2>6, <2>7 DEF Sums
  <2>9. QED
    BY <2>8
<1> HIDE DEF D
<1>3. S \in D
  BY <1>1, <1>2, FiniteInduction
<1>4. QED
  BY <1>3 DEF D

\* What the fold of the community modules computes.
LEMMA SumIsUnique ==
    ASSUME NEW S, NEW f, Summable(f, S), NEW g \in Sums(f, S)
    PROVE  SumFunctionOnSet(f, S) = g[S]
<1> DEFINE Some(T) == CHOOSE x \in T : TRUE
           iter[T \in SUBSET S] ==
               IF T = {} THEN 0
               ELSE f[CHOOSE x \in T : TRUE] + iter[T \ {CHOOSE x \in T : TRUE}]
<1>1. SumFunctionOnSet(f, S) = iter[S]
  BY DEF SumFunctionOnSet, FoldFunctionOnSet, MapThenFoldSet
<1>2. \A T \in SUBSET S : T # {} => Some(T) \in T
  OBVIOUS
<1>3. /\ g \in [SUBSET S -> Int] /\ g[{}] = 0
      /\ \A T \in SUBSET S : \A x \in T : g[T] = f[x] + g[T \ {x}]
  BY DEF Sums
<1>4. iter = [T \in SUBSET S |->
                 IF T = {} THEN 0 ELSE f[Some(T)] + iter[T \ {Some(T)}]]
  <2>1. g = [T \in SUBSET S |->
                IF T = {} THEN 0 ELSE f[Some(T)] + g[T \ {Some(T)}]]
    <3> HIDE DEF Some
    <3> QED
      BY <1>2, <1>3
  <2>2. QED
    BY <2>1
<1> HIDE DEF iter, Some
<1> DEFINE D == {T \in SUBSET S : iter[T] = g[T]}
<1>5. {} \in D
  BY <1>3, <1>4
<1>6. ASSUME NEW T \in SUBSET S, T # {}, \A x \in T : T \ {x} \in D
      PROVE  T \in D
  <2>1. iter[T] = f[Some(T)] + iter[T \ {Some(T)}]
    BY <1>4, <1>6
  <2>2. Some(T) \in T /\ iter[T \ {Some(T)}] = g[T \ {Some(T)}]
    BY <1>2, <1>6
  <2>3. QED
    BY <1>3, <2>1, <2>2
<1> HIDE DEF D
<1>7. S \in D
  BY <1>5, <1>6, FiniteInduction DEF Summable
<1>8. QED
  BY <1>1, <1>7 DEF D

LEMMA SummablePart ==
    ASSUME NEW S, NEW f, Summable(f, S), NEW T \in SUBSET S
    PROVE  Summable(f, T)
  BY FS_Subset DEF Summable

\* The sum over the empty set, and that any element can be summed first.
LEMMA SumFacts ==
    ASSUME NEW S, NEW f, Summable(f, S)
    PROVE  /\ SumFunctionOnSet(f, S) \in Int
           /\ SumFunctionOnSet(f, {}) = 0
           /\ \A a \in S :
                  /\ SumFunctionOnSet(f, S \ {a}) \in Int
                  /\ SumFunctionOnSet(f, S) = f[a] + SumFunctionOnSet(f, S \ {a})
<1>1. PICK g : g \in Sums(f, S)
  BY SumsExist DEF Summable
<1>2. /\ g \in [SUBSET S -> Int] /\ g[{}] = 0
      /\ \A T \in SUBSET S : \A x \in T : g[T] = f[x] + g[T \ {x}]
  BY <1>1 DEF Sums
<1>3. ASSUME NEW T \in SUBSET S
      PROVE  SumFunctionOnSet(f, T) = g[T]
  <2> DEFINE h == [U \in SUBSET T |-> g[U]]
  <2>1. /\ h \in [SUBSET T -> Int] /\ h[{}] = 0 /\ h[T] = g[T]
        /\ \A U \in SUBSET T : \A x \in U : h[U] = f[x] + h[U \ {x}]
    BY <1>2
  <2> HIDE DEF h
  <2>2. h \in Sums(f, T)
    BY <2>1 DEF Sums
  <2>3. Summable(f, T)
    BY SummablePart
  <2>4. QED
    BY <2>1, <2>2, <2>3, SumIsUnique
<1>4. QED
  BY <1>2, <1>3

\* A sum does not depend on what the summands are called.
LEMMA SumRenamed ==
    ASSUME NEW S, NEW f, Summable(f, S), NEW T, NEW m, Renaming(m, S, T),
           NEW g, \A x \in S : g[m[x]] = f[x]
    PROVE  Summable(g, T) /\ SumFunctionOnSet(g, T) = SumFunctionOnSet(f, S)
<1> DEFINE Image(U) == {m[x] : x \in U}
           D == {U \in SUBSET S : /\ IsFiniteSet(Image(U))
                                  /\ SumFunctionOnSet(g, Image(U)) = SumFunctionOnSet(f, U)}
<1>1. /\ IsFiniteSet(S) /\ \A x \in S : f[x] \in Int
      /\ \A x, y \in S : m[x] = m[y] => x = y
  BY DEF Summable, Renaming
<1>2. {} \in D
  <2>1. Image({}) = {}
    OBVIOUS
  <2>2. Summable(f, {}) /\ Summable(g, {})
    BY FS_EmptySet DEF Summable
  <2>3. SumFunctionOnSet(g, {}) = 0 /\ SumFunctionOnSet(f, {}) = 0
    BY <2>2, SumFacts
  <2> HIDE DEF Image
  <2>4. QED
    BY <2>1, <2>3, FS_EmptySet
<1>3. ASSUME NEW U \in SUBSET S, U # {}, \A x \in U : U \ {x} \in D
      PROVE  U \in D
  <2> PICK a \in U : TRUE
    BY <1>3
  <2> DEFINE V == Image(U)
             W == Image(U \ {a})
             b == m[a]
  <2>1. V = W \cup {b} /\ V \ {b} = W /\ b \in V
    BY <1>1
  <2>2. g[b] = f[a] /\ f[a] \in Int /\ \A y \in V : g[y] \in Int
    BY <1>1
  <2>3. IsFiniteSet(W) /\ SumFunctionOnSet(g, W) = SumFunctionOnSet(f, U \ {a})
    BY <1>3
  <2> HIDE DEF V, W, b
  <2>4. IsFiniteSet(V)
    BY <2>1, <2>3, FS_AddElement
  <2>5. Summable(g, V) /\ Summable(f, U)
    BY <2>2, <2>4, SummablePart DEF Summable
  <2>6. SumFunctionOnSet(g, V) = g[b] + SumFunctionOnSet(g, V \ {b})
    BY <2>1, <2>5, SumFacts
  <2>7. SumFunctionOnSet(f, U) = f[a] + SumFunctionOnSet(f, U \ {a})
    BY <2>5, SumFacts
  <2>8. SumFunctionOnSet(g, V) = SumFunctionOnSet(f, U)
    BY <2>1, <2>2, <2>3, <2>6, <2>7
  <2>9. QED
    BY <2>4, <2>8 DEF V
<1>4. \A y \in T : g[y] \in Int
  BY <1>1 DEF Renaming
<1>5. T = Image(S)
  BY DEF Renaming
<1> HIDE DEF D, Image
<1>6. S \in D
  BY <1>1, <1>2, <1>3, FiniteInduction
<1>7. QED
  BY <1>4, <1>5, <1>6 DEF D, Summable

LEMMA SumSame ==
    ASSUME NEW S, NEW f, Summable(f, S), NEW g, SameOn(S, f, g)
    PROVE  Summable(g, S) /\ SumFunctionOnSet(g, S) = SumFunctionOnSet(f, S)
<1> DEFINE m == [x \in S |-> x]
<1>1. \A x \in S : m[x] = x
  OBVIOUS
<1> HIDE DEF m
<1>2. Renaming(m, S, S)
  BY <1>1 DEF Renaming
<1>3. \A x \in S : g[m[x]] = f[x]
  BY <1>1 DEF SameOn
<1>4. QED
  BY <1>2, <1>3, SumRenamed

\* One more summand.
LEMMA SumMore ==
    ASSUME NEW S, NEW f, Summable(f, S), NEW a, a \notin S, NEW T, T = S \cup {a},
           NEW g, SameOn(S, f, g), g[a] \in Int
    PROVE  Summable(g, T) /\ SumFunctionOnSet(g, T) = SumFunctionOnSet(f, S) + g[a]
<1>1. Summable(g, T)
  BY FS_AddElement DEF Summable, SameOn
<1>2. T \ {a} = S /\ a \in T
  OBVIOUS
<1>3. SumFunctionOnSet(g, T) = g[a] + SumFunctionOnSet(g, T \ {a})
  BY <1>1, <1>2, SumFacts
<1>4. SumFunctionOnSet(g, S) = SumFunctionOnSet(f, S)
  BY SumSame
<1>5. SumFunctionOnSet(f, S) \in Int
  BY SumFacts
<1>6. SumFunctionOnSet(g, T \ {a}) = SumFunctionOnSet(g, S)
  BY <1>2, Zenon
<1>7. SumFunctionOnSet(g, T) = SumFunctionOnSet(f, S) + g[a]
  BY <1>3, <1>4, <1>5, <1>6
<1>8. QED
  BY <1>1, <1>7

\* One summand changed.
LEMMA SumChanged ==
    ASSUME NEW S, NEW f, Summable(f, S), NEW a \in S,
           NEW g, SameOn(S \ {a}, f, g), g[a] \in Int
    PROVE  /\ Summable(g, S)
           /\ SumFunctionOnSet(g, S) = SumFunctionOnSet(f, S) - f[a] + g[a]
<1>1. Summable(f, S \ {a})
  BY SummablePart
<1>2. SumFunctionOnSet(g, S \ {a}) = SumFunctionOnSet(f, S \ {a})
  BY <1>1, SumSame
<1>3. Summable(g, S)
  BY DEF Summable, SameOn
<1>4. /\ SumFunctionOnSet(f, S) = f[a] + SumFunctionOnSet(f, S \ {a})
      /\ SumFunctionOnSet(f, S \ {a}) \in Int /\ f[a] \in Int
  BY SumFacts DEF Summable
<1>5. SumFunctionOnSet(g, S) = g[a] + SumFunctionOnSet(g, S \ {a})
  BY <1>3, SumFacts
<1>6. QED
  BY <1>2, <1>3, <1>4, <1>5

\* Summands apart are summed apart.
LEMMA SumApart ==
    ASSUME NEW S, NEW f, Summable(f, S), NEW T \in SUBSET S
    PROVE  /\ Summable(f, T) /\ Summable(f, S \ T)
           /\ SumFunctionOnSet(f, T) \in Int /\ SumFunctionOnSet(f, S \ T) \in Int
           /\ SumFunctionOnSet(f, S)
                  = SumFunctionOnSet(f, T) + SumFunctionOnSet(f, S \ T)
<1> DEFINE D == {U \in SUBSET T :
                    SumFunctionOnSet(f, (S \ T) \cup U)
                        = SumFunctionOnSet(f, U) + SumFunctionOnSet(f, S \ T)}
<1>1. Summable(f, T) /\ Summable(f, S \ T)
  BY SummablePart
<1>2. SumFunctionOnSet(f, T) \in Int /\ SumFunctionOnSet(f, S \ T) \in Int
  BY <1>1, SumFacts
<1>3. {} \in D
  <2>1. SumFunctionOnSet(f, {}) = 0
    BY SumFacts
  <2>2. (S \ T) \cup {} = S \ T
    OBVIOUS
  <2>3. QED
    BY <1>2, <2>1, <2>2
<1>4. ASSUME NEW U \in SUBSET T, U # {}, \A x \in U : U \ {x} \in D
      PROVE  U \in D
  <2> PICK a \in U : TRUE
    BY <1>4
  <2> DEFINE V == (S \ T) \cup U
  <2>1. /\ V \in SUBSET S /\ U \in SUBSET S /\ a \in V
        /\ V \ {a} = (S \ T) \cup (U \ {a})
    OBVIOUS
  <2> HIDE DEF V
  <2>2. Summable(f, V) /\ Summable(f, U)
    BY <2>1, SummablePart
  <2>3. SumFunctionOnSet(f, V) = f[a] + SumFunctionOnSet(f, V \ {a})
    BY <2>1, <2>2, SumFacts
  <2>4. /\ SumFunctionOnSet(f, U) = f[a] + SumFunctionOnSet(f, U \ {a})
        /\ SumFunctionOnSet(f, U \ {a}) \in Int
    BY <2>1, <2>2, SumFacts
  <2>5. SumFunctionOnSet(f, V \ {a}) = SumFunctionOnSet(f, U \ {a}) + SumFunctionOnSet(f, S \ T)
    BY <1>4, <2>1
  <2>6. f[a] \in Int
    BY DEF Summable
  <2>7. QED
    BY <1>2, <2>3, <2>4, <2>5, <2>6 DEF V
<1> HIDE DEF D
<1>5. T \in D
  BY <1>1, <1>3, <1>4, FiniteInduction DEF Summable
<1>6. (S \ T) \cup T = S
  OBVIOUS
<1>7. QED
  BY <1>1, <1>2, <1>5, <1>6 DEF D

\* Nothing below zero: no summand exceeds the sum.
LEMMA SumOfNats ==
    ASSUME NEW S, IsFiniteSet(S), NEW f, \A x \in S : f[x] \in Nat
    PROVE  /\ SumFunctionOnSet(f, S) \in Nat
           /\ \A a \in S : f[a] <= SumFunctionOnSet(f, S)
<1> DEFINE D == {T \in SUBSET S : SumFunctionOnSet(f, T) \in Nat}
<1>1. Summable(f, S)
  BY DEF Summable
<1>2. {} \in D
  BY <1>1, SumFacts
<1>3. ASSUME NEW T \in SUBSET S, T # {}, \A x \in T : T \ {x} \in D
      PROVE  T \in D
  <2> PICK a \in T : TRUE
    BY <1>3
  <2>1. Summable(f, T)
    BY <1>1, SummablePart
  <2>2. SumFunctionOnSet(f, T) = f[a] + SumFunctionOnSet(f, T \ {a})
    BY <2>1, SumFacts
  <2>3. SumFunctionOnSet(f, T \ {a}) \in Nat /\ f[a] \in Nat
    BY <1>3
  <2>4. QED
    BY <2>2, <2>3
<1>4. \A T \in SUBSET S : T \in D
  <2>1. SUFFICES ASSUME NEW T \in SUBSET S PROVE T \in D
    OBVIOUS
  <2>2. IsFiniteSet(T)
    BY FS_Subset
  <2>3. \A U \in SUBSET T : U # {} /\ (\A x \in U : U \ {x} \in D) => U \in D
    BY <1>3
  <2> HIDE DEF D
  <2>4. QED
    BY <1>2, <2>2, <2>3, FiniteInduction
<1>5. ASSUME NEW a \in S PROVE f[a] <= SumFunctionOnSet(f, S)
  <2>1. SumFunctionOnSet(f, S) = f[a] + SumFunctionOnSet(f, S \ {a})
    BY <1>1, SumFacts
  <2>2. SumFunctionOnSet(f, S \ {a}) \in Nat /\ f[a] \in Nat
    BY <1>4
  <2>3. QED
    BY <2>1, <2>2
<1>6. QED
  BY <1>4, <1>5

\* Nothing summed.
LEMMA SumOfZeros ==
    ASSUME NEW S, IsFiniteSet(S), NEW f, \A x \in S : f[x] = 0
    PROVE  SumFunctionOnSet(f, S) = 0
<1> DEFINE D == {T \in SUBSET S : SumFunctionOnSet(f, T) = 0}
<1>1. Summable(f, S)
  BY DEF Summable
<1>2. {} \in D
  BY <1>1, SumFacts
<1>3. ASSUME NEW T \in SUBSET S, T # {}, \A x \in T : T \ {x} \in D
      PROVE  T \in D
  <2> PICK a \in T : TRUE
    BY <1>3
  <2>1. Summable(f, T)
    BY <1>1, SummablePart
  <2>2. SumFunctionOnSet(f, T) = f[a] + SumFunctionOnSet(f, T \ {a})
    BY <2>1, SumFacts
  <2>3. QED
    BY <1>3, <2>2
<1> HIDE DEF D
<1>4. S \in D
  BY <1>2, <1>3, FiniteInduction
<1>5. QED
  BY <1>4 DEF D

\* Summands that are no larger have a sum that is no larger.
LEMMA SumBelow ==
    ASSUME NEW S, NEW f, Summable(f, S), NEW g, Summable(g, S),
           \A x \in S : f[x] <= g[x]
    PROVE  SumFunctionOnSet(f, S) <= SumFunctionOnSet(g, S)
<1> DEFINE D == {T \in SUBSET S : SumFunctionOnSet(f, T) <= SumFunctionOnSet(g, T)}
<1>1. {} \in D
  <2>1. SumFunctionOnSet(f, {}) = 0 /\ SumFunctionOnSet(g, {}) = 0
    BY SumFacts
  <2>2. QED
    BY <2>1
<1>2. ASSUME NEW T \in SUBSET S, T # {}, \A x \in T : T \ {x} \in D
      PROVE  T \in D
  <2> PICK a \in T : TRUE
    BY <1>2
  <2>1. Summable(f, T) /\ Summable(g, T)
    BY SummablePart
  <2> DEFINE U == T \ {a}
  <2>2. /\ SumFunctionOnSet(f, T) = f[a] + SumFunctionOnSet(f, U)
        /\ SumFunctionOnSet(g, T) = g[a] + SumFunctionOnSet(g, U)
        /\ SumFunctionOnSet(f, U) \in Int /\ SumFunctionOnSet(g, U) \in Int
    BY <2>1, SumFacts
  <2>3. SumFunctionOnSet(f, U) <= SumFunctionOnSet(g, U)
    BY <1>2
  <2>4. f[a] \in Int /\ g[a] \in Int /\ f[a] <= g[a]
    BY DEF Summable
  <2> HIDE DEF U
  <2>5. SumFunctionOnSet(f, T) <= SumFunctionOnSet(g, T)
    BY <2>2, <2>3, <2>4
  <2>6. QED
    BY <2>5
<1> HIDE DEF D
<1>3. S \in D
  BY <1>1, <1>2, FiniteInduction DEF Summable
<1>4. QED
  BY <1>3 DEF D

----------------------------------------------------------------------------
\* Halves, and lengths.

LEMMA Even ==
    ASSUME NEW x \in Nat, NEW q \in Nat, x = 2 * q
    PROVE  x % 2 = 0 /\ x \div 2 = q
  OBVIOUS

LEMMA Odd ==
    ASSUME NEW x \in Nat, NEW q \in Nat, x = 2 * q + 1
    PROVE  x % 2 = 1 /\ x \div 2 = q
  OBVIOUS

LEMMA Halves ==
    ASSUME NEW x \in Nat
    PROVE  /\ x \div 2 \in Nat
           /\ \/ x % 2 = 0 /\ x = 2 * (x \div 2)
              \/ x % 2 = 1 /\ x = 2 * (x \div 2) + 1
<1>1. x \div 2 \in Nat /\ (x = 2 * (x \div 2) \/ x = 2 * (x \div 2) + 1)
  OBVIOUS
<1>2. QED
  BY <1>1, Even, Odd

\* Two numbers below a bound with the same half are the same if they have the
\* same parity, or if one is even and the last below the bound.
LEMMA SameHalf ==
    ASSUME NEW x \in Nat, NEW y \in Nat, NEW bound \in Nat, x < bound, y < bound,
           x \div 2 = y \div 2, y % 2 = x % 2 \/ (x % 2 = 0 /\ x + 1 = bound)
    PROVE  x = y
<1> DEFINE q == x \div 2
<1>1. /\ q \in Nat
      /\ (x % 2 = 0 /\ x = 2 * q) \/ (x % 2 = 1 /\ x = 2 * q + 1)
      /\ (y % 2 = 0 /\ y = 2 * q) \/ (y % 2 = 1 /\ y = 2 * q + 1)
  BY Halves
<1> HIDE DEF q
<1>2. QED
  BY <1>1

\* A function on 1..m is a sequence of length m.
LEMMA LengthOf ==
    ASSUME NEW m \in Nat, NEW s, s = [p \in 1..m |-> s[p]]
    PROVE  Len(s) = m /\ DOMAIN s = 1..m
<1> DEFINE S == {s[p] : p \in 1..m}
<1>1. s \in [1..m -> S]
  OBVIOUS
<1>2. s \in Seq(S)
  BY <1>1
<1>3. QED
  BY <1>1, <1>2

\* A half rounded up is less, unless it is one.
LEMMA RoundedUp ==
    ASSUME NEW x \in Nat \ {0}
    PROVE  /\ (x + 1) \div 2 \in Nat \ {0}
           /\ (x + 1) \div 2 = 1 \/ (x + 1) \div 2 <= x - 1
  OBVIOUS

=============================================================================
