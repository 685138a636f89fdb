--------------------------- MODULE FoldInduction ---------------------------
(***************************************************************************)
(* Induction over sequences, for the folds and sorts of the Rust models.   *)
(* The provers cannot instantiate a theorem over an operator, so the step  *)
(* and the claim are constants here: a module INSTANCEs this one with a    *)
(* step of its own and a claim about it, and cites FoldHolds.              *)
(***************************************************************************)
EXTENDS Integers, SequencesExt, FiniteSetTheorems, WellFoundedInduction, TLAPS

CONSTANTS
    Step(_, _, _),   \* from a value and an element to the next value
    Holds(_, _, _)   \* the claim, of a value after some number of elements

\* The least element of a set of numbers, from the order of finite sets.
LEMMA LeastNumber ==
    ASSUME NEW T, T \subseteq Nat, T # {}
    PROVE  \E x \in T : \A y \in T : x <= y
<1>. DEFINE Below == {0..m : m \in T}
            Order == StrictSubsetOrdering(Nat)
<1>1. IsWellFoundedOn(Order, FiniteSubsetsOf(Nat))
  BY FS_StrictSubsetOrderingWellFounded
<1>2. Below \subseteq FiniteSubsetsOf(Nat) /\ Below # {}
  <2>1. \A m \in T : 0..m \in SUBSET Nat /\ IsFiniteSet(0..m)
    BY FS_Interval
  <2>. QED
    BY <2>1 DEF FiniteSubsetsOf
<1>3. PICK X \in Below : \A Y \in Below : ~(<<Y, X>> \in Order)
  <2>. HIDE DEF Below, Order
  <2>. QED
    BY <1>1, <1>2, WFMin
<1>4. PICK x \in T : X = 0..x
  OBVIOUS
<1>5. ASSUME NEW y \in T, y < x PROVE FALSE
  <2>1. 0..y \in Below
    OBVIOUS
  <2>2. 0..y \subseteq 0..x /\ x \in 0..x /\ x \notin 0..y
    BY <1>5
  <2>3. <<0..y, X>> \in Order
    BY <1>4, <2>2 DEF StrictSubsetOrdering
  <2>. QED
    BY <1>3, <2>1, <2>3
<1>. QED
  BY <1>5

\* A set of numbers with 0 and with the successor of each is the set of all.
LEMMA SetInduction ==
    ASSUME NEW P \in SUBSET Nat, 0 \in P, \A n \in P : n+1 \in P
    PROVE  P = Nat
<1>1. SUFFICES ASSUME Nat \ P # {} PROVE FALSE
  OBVIOUS
<1>2. PICK x \in Nat \ P : \A y \in Nat \ P : x <= y
  BY <1>1, LeastNumber
<1>. QED
  BY <1>2, x # 0, x - 1 \in Nat, x-1 \in P

-----------------------------------------------------------------------------
(* Folds *)

\* The fold of a sequence by Step, with w as what the step is given besides.
Fold(base, seq, w) == FoldLeft(LAMBDA p, e : Step(p, e, w), base, seq)

\* f gives the value after the elements of every set of indices up to m, as the
\* recursive function inside FoldLeft does.
Rolls(f, base, seq, w, m) ==
    f = [s \in SUBSET (1..m) |->
           IF s = {} THEN base ELSE Step(f[s \ {Max(s)}], seq[Max(s)], w)]

\* There is such a function, so the CHOOSE that defines it finds one.
LEMMA RollsExists ==
    ASSUME NEW base, NEW seq, NEW w
    PROVE  \A m \in Nat : \E f : Rolls(f, base, seq, w, m)
<1>. DEFINE P == {m \in Nat : \E f : Rolls(f, base, seq, w, m)}
<1>1. 0 \in P
  <2>. DEFINE f == [s \in SUBSET (1..0) |-> base]
  <2>1. \A s \in SUBSET (1..0) : s = {}
    OBVIOUS
  <2>2. f = [s \in SUBSET (1..0) |->
          IF s = {} THEN base ELSE Step(f[s \ {Max(s)}], seq[Max(s)], w)]
    BY <2>1
  <2>. QED
    BY <2>2 DEF Rolls
<1>2. ASSUME NEW m \in P PROVE m + 1 \in P
  <2>1. PICK f : Rolls(f, base, seq, w, m)
    OBVIOUS
  <2>. DEFINE g == [s \in SUBSET (1..(m+1)) |->
                 IF m + 1 \in s THEN Step(f[s \ {m+1}], seq[m+1], w) ELSE f[s]]
  <2>2. \A s \in SUBSET (1..(m+1)) : m+1 \in s => Max(s) = m+1
    <3>. SUFFICES ASSUME NEW s \in SUBSET (1..(m+1)), m+1 \in s PROVE Max(s) = m+1
      OBVIOUS
    <3>1. \A y \in s : m + 1 >= y
      OBVIOUS
    <3>2. \A x \in s : (\A y \in s : x >= y) => x = m + 1
      OBVIOUS
    <3>. QED
      BY <3>1, <3>2 DEF Max
  <2>3. \A s \in SUBSET (1..(m+1)) : m+1 \in s => s \ {m+1} \in SUBSET (1..m) /\ m+1 \notin s \ {m+1} /\ s # {}
    OBVIOUS
  <2>4. \A s \in SUBSET (1..(m+1)) : m+1 \notin s => s \in SUBSET (1..m)
    OBVIOUS
  <2>5. \A s \in SUBSET (1..m) : s # {} => Max(s) \in s
    <3>. SUFFICES ASSUME NEW s \in SUBSET (1..m), s # {} PROVE \E x \in s : \A y \in s : x >= y
      BY DEF Max
    <3>. DEFINE T == {m - x : x \in s}
    <3>1. T \subseteq Nat /\ T # {}
      <4>1. \A x \in s : m - x \in Nat
        OBVIOUS
      <4>2. PICK x \in s : TRUE
        OBVIOUS
      <4>3. m - x \in T
        OBVIOUS
      <4>. QED
        BY <4>1, <4>3
    <3>2. PICK t \in T : \A u \in T : t <= u
      BY <3>1, LeastNumber
    <3>3. PICK x \in s : t = m - x
      OBVIOUS
    <3>4. \A y \in s : t <= m - y
      BY <3>2
    <3>5. \A y \in s : x >= y
      BY <3>3, <3>4
    <3>. QED
      BY <3>5
  <2>6. \A s \in SUBSET (1..(m+1)) : g[s] = IF s = {} THEN base ELSE Step(g[s \ {Max(s)}], seq[Max(s)], w)
    <3>. SUFFICES ASSUME NEW s \in SUBSET (1..(m+1)) PROVE g[s] = IF s = {} THEN base ELSE Step(g[s \ {Max(s)}], seq[Max(s)], w)
      OBVIOUS
    <3>1. CASE m + 1 \in s
      <4>1. g[s] = Step(f[s \ {m+1}], seq[m+1], w)
        BY <3>1
      <4>2. g[s \ {m+1}] = f[s \ {m+1}]
        BY <2>3, <3>1
      <4>. QED
        BY <4>1, <4>2, <2>2, <2>3, <3>1
    <3>2. CASE m + 1 \notin s
      <4>1. s \in SUBSET (1..m) /\ g[s] = f[s]
        BY <2>4, <3>2
      <4>2. CASE s = {}
        BY <4>1, <4>2, <2>1 DEF Rolls
      <4>3. CASE s # {}
        <5>1. s \ {Max(s)} \in SUBSET (1..m)
          BY <4>1
        <5>2. g[s \ {Max(s)}] = f[s \ {Max(s)}]
          BY <5>1, <3>2
        <5>3. f[s] = Step(f[s \ {Max(s)}], seq[Max(s)], w)
          BY <4>1, <4>3, <2>1 DEF Rolls
        <5>. QED
          BY <4>1, <4>3, <5>2, <5>3
      <4>. QED
        BY <4>2, <4>3
    <3>. QED
      BY <3>1, <3>2
  <2>7. DOMAIN g = SUBSET (1..(m+1)) /\ g = [s \in DOMAIN g |-> g[s]]
    OBVIOUS
  <2>. HIDE DEF g
  <2>8. Rolls(g, base, seq, w, m + 1)
    BY <2>6, <2>7 DEF Rolls
  <2>. QED
    BY <2>8
<1>. HIDE DEF P
<1>3. P \in SUBSET Nat
  BY DEF P
<1>4. P = Nat
  BY <1>1, <1>2, <1>3, SetInduction
<1>. QED
  BY <1>4 DEF P

\* trace gives the value after each number of elements.
Traces(trace, base, seq, w) ==
    /\ trace[0] = base
    /\ \A k \in 0..(Len(seq)-1) : trace[k+1] = Step(trace[k], seq[k+1], w)

\* A fold goes through a value after each number of elements.
LEMMA FoldTrace ==
    ASSUME NEW base, NEW S, NEW seq \in Seq(S), NEW w
    PROVE  \E trace : Traces(trace, base, seq, w) /\ trace[Len(seq)] = Fold(base, seq, w)
<1>. DEFINE n == Len(seq)
            R == CHOOSE f : Rolls(f, base, seq, w, n)
            trace == [k \in 0..n |-> R[1..k]]
<1>1. n \in Nat /\ DOMAIN seq = 1..n
  OBVIOUS
<1>2. Rolls(R, base, seq, w, n)
  BY <1>1, RollsExists
<1>3. Fold(base, seq, w) = R[1..n]
  BY <1>1 DEF Fold, FoldLeft, MapThenFoldSet, Rolls
<1>. HIDE DEF R, n
<1>4. R[{}] = base
  BY <1>1, <1>2 DEF Rolls
<1>5. ASSUME NEW k \in 1..n PROVE R[1..k] = Step(R[1..(k-1)], seq[k], w)
  <2>1. Max(1..k) = k
    <3>1. \A x \in 1..k : (\A y \in 1..k : x >= y) => x = k
      OBVIOUS
    <3>2. k \in 1..k /\ \A y \in 1..k : k >= y
      BY <1>1
    <3>. QED
      BY <3>1, <3>2 DEF Max
  <2>2. 1..k \in SUBSET (1..n) /\ 1..k # {} /\ (1..k) \ {k} = 1..(k-1)
    <3>1. 1..k \subseteq 1..n /\ k \in 1..k
      BY <1>1
    <3>2. \A x \in 1..k : x # k => x \in 1..(k-1)
      BY <1>1
    <3>3. \A x \in 1..(k-1) : x \in 1..k /\ x # k
      BY <1>1
    <3>4. (1..k) \ {k} = 1..(k-1)
      BY <3>2, <3>3
    <3>. QED
      BY <3>1, <3>4
  <2>. QED
    BY <1>2, <2>1, <2>2 DEF Rolls
<1>6. trace[0] = base
  BY <1>1, <1>4, 1..0 = {}
<1>7. ASSUME NEW k \in 0..(n-1) PROVE trace[k+1] = Step(trace[k], seq[k+1], w)
  <2>1. k + 1 \in 1..n /\ (k + 1) - 1 = k /\ k \in 0..n /\ k + 1 \in 0..n
    BY <1>1
  <2>2. R[1..(k+1)] = Step(R[1..((k+1)-1)], seq[k+1], w)
    BY <1>5, <2>1
  <2>. QED
    BY <2>1, <2>2
<1>8. trace[n] = R[1..n]
  BY <1>1
<1>. HIDE DEF trace
<1>. QED
  BY <1>3, <1>6, <1>7, <1>8 DEF n, Traces

\* One more element is one more step.
LEMMA FoldAppend ==
    ASSUME NEW base, NEW S, NEW seq \in Seq(S), NEW e \in S, NEW w
    PROVE  Fold(base, Append(seq, e), w) = Step(Fold(base, seq, w), e, w)
<1>. DEFINE n == Len(seq)
            more == Append(seq, e)
<1>1. /\ n \in Nat /\ more \in Seq(S) /\ Len(more) = n + 1
      /\ \A k \in 1..n : more[k] = seq[k]
      /\ more[n + 1] = e
  OBVIOUS
<1>2. PICK t : Traces(t, base, seq, w) /\ t[n] = Fold(base, seq, w)
  BY FoldTrace
<1>. HIDE DEF more
<1>3. PICK u : Traces(u, base, more, w) /\ u[Len(more)] = Fold(base, more, w)
  BY <1>1, FoldTrace
<1>. DEFINE P == {k \in Nat : k <= n => t[k] = u[k]}
<1>4. 0 \in P
  BY <1>2, <1>3 DEF Traces
<1>5. ASSUME NEW k \in P PROVE k + 1 \in P
  <2>1. CASE k + 1 <= n
    <3>1. k \in 0..(n-1) /\ k \in 0..n /\ k + 1 \in 1..n /\ t[k] = u[k]
      BY <1>1, <2>1
    <3>2. t[k+1] = Step(t[k], seq[k+1], w)
      BY <1>2, <3>1 DEF Traces
    <3>3. k \in 0..(Len(more)-1)
      BY <1>1, <3>1
    <3>4. u[k+1] = Step(u[k], more[k+1], w)
      BY <1>3, <3>3 DEF Traces
    <3>5. more[k+1] = seq[k+1]
      BY <1>1, <3>1
    <3>. QED
      BY <3>1, <3>2, <3>4, <3>5
  <2>2. CASE ~(k + 1 <= n)
    BY <2>2
  <2>. QED
    BY <2>1, <2>2
<1>. HIDE DEF P
<1>6. P = Nat
  <2>1. P \in SUBSET Nat
    BY DEF P
  <2>. QED
    BY <1>4, <1>5, <2>1, SetInduction
<1>7. t[n] = u[n]
  BY <1>1, <1>6 DEF P
<1>8. u[n+1] = Step(u[n], more[n+1], w)
  <2>1. n \in 0..(Len(more)-1)
    BY <1>1
  <2>. QED
    BY <1>3, <2>1 DEF Traces
<1>. QED
  BY <1>1, <1>2, <1>3, <1>7, <1>8 DEF more

\* A claim that holds before the first element, and that every step keeps, holds
\* of the fold.
THEOREM FoldHolds ==
    ASSUME NEW base, NEW S, NEW seq \in Seq(S), NEW w, NEW c,
           Holds(base, 0, c),
           \A k \in 0..(Len(seq)-1) : \A p :
              Holds(p, k, c) => Holds(Step(p, seq[k+1], w), k+1, c)
    PROVE  Holds(Fold(base, seq, w), Len(seq), c)
<1>. DEFINE n == Len(seq)
<1>1. n \in Nat
  OBVIOUS
<1>2. PICK trace : Traces(trace, base, seq, w) /\ trace[n] = Fold(base, seq, w)
  BY FoldTrace
<1>. DEFINE P == {k \in Nat : k <= n => Holds(trace[k], k, c)}
<1>3. 0 \in P
  BY <1>2 DEF Traces
<1>4. ASSUME NEW k \in P PROVE k + 1 \in P
  <2>1. CASE k + 1 <= n
    <3>1. k \in 0..(n-1) /\ k <= n
      BY <1>1, <2>1
    <3>2. Holds(trace[k], k, c)
      BY <3>1
    <3>3. Holds(Step(trace[k], seq[k+1], w), k+1, c)
      BY <3>1, <3>2
    <3>. QED
      BY <1>2, <3>1, <3>3 DEF Traces
  <2>2. CASE ~(k + 1 <= n)
    BY <2>2
  <2>. QED
    BY <2>1, <2>2
<1>. HIDE DEF P
<1>5. P \in SUBSET Nat
  BY DEF P
<1>6. P = Nat
  BY <1>3, <1>4, <1>5, SetInduction
<1>7. Holds(trace[n], n, c)
  BY <1>1, <1>6 DEF P
<1>. QED
  BY <1>2, <1>7
-----------------------------------------------------------------------------
(* Folds of sets *)

\* The fold of a finite set by Step, one element after another.
SetFold(base, S, w) ==
    MapThenFoldSet(LAMBDA e, p : Step(p, e, w), base, LAMBDA e : e,
                   LAMBDA s : CHOOSE e \in s : TRUE, S)

First(s) == CHOOSE e \in s : TRUE

\* f gives the value after the elements of every set of D, as the recursive
\* function inside MapThenFoldSet does.
SetRolls(f, base, D, w) ==
    f = [s \in D |->
           IF s = {} THEN base ELSE Step(f[s \ {First(s)}], First(s), w)]

SmallSets(S, m) == {s \in SUBSET S : Cardinality(s) <= m}

\* There is such a function, so the CHOOSE that defines the fold finds one.
LEMMA SetRollsExist ==
    ASSUME NEW base, NEW S, IsFiniteSet(S), NEW w
    PROVE  \A m \in Nat : \E f : SetRolls(f, base, SmallSets(S, m), w)
<1>. DEFINE P == {m \in Nat : \E f : SetRolls(f, base, SmallSets(S, m), w)}
<1>0. ASSUME NEW s \in SUBSET S
      PROVE  /\ IsFiniteSet(s) /\ Cardinality(s) \in Nat
             /\ Cardinality(s) = 0 <=> s = {}
             /\ s # {} => /\ First(s) \in s
                         /\ s \ {First(s)} \in SUBSET S
                         /\ Cardinality(s \ {First(s)}) = Cardinality(s) - 1
  <2>1. IsFiniteSet(s)
    BY FS_Subset
  <2>2. s # {} => First(s) \in s
    BY DEF First
  <2>. QED
    BY <2>1, <2>2, FS_CardinalityType, FS_EmptySet, FS_RemoveElement
<1>1. 0 \in P
  <2>. DEFINE f == [s \in SmallSets(S, 0) |-> base]
  <2>1. ASSUME NEW s \in SmallSets(S, 0) PROVE s = {}
    <3>1. s \in SUBSET S /\ Cardinality(s) <= 0
      BY DEF SmallSets
    <3>2. Cardinality(s) \in Nat /\ (Cardinality(s) = 0 <=> s = {})
      BY <1>0, <3>1
    <3>. QED
      BY <3>1, <3>2
  <2>2. f = [s \in SmallSets(S, 0) |->
               IF s = {} THEN base ELSE Step(f[s \ {First(s)}], First(s), w)]
    BY <2>1
  <2>. QED
    BY <2>2 DEF SetRolls
<1>2. ASSUME NEW m \in P PROVE m + 1 \in P
  <2>1. PICK f : SetRolls(f, base, SmallSets(S, m), w)
    OBVIOUS
  <2>. DEFINE D == SmallSets(S, m + 1)
              g == [s \in D |->
                     IF s = {} THEN base ELSE Step(f[s \ {First(s)}], First(s), w)]
  <2>2. \A s \in D : s # {} => s \ {First(s)} \in SmallSets(S, m)
    BY <1>0 DEF SmallSets
  <2>3. ASSUME NEW s \in SmallSets(S, m) PROVE s \in D
    <3>1. s \in SUBSET S /\ Cardinality(s) <= m
      BY DEF SmallSets
    <3>2. Cardinality(s) \in Nat
      BY <1>0, <3>1
    <3>. QED
      BY <3>1, <3>2 DEF SmallSets
  <2>4. \A s \in SmallSets(S, m) : g[s] = f[s]
    BY <2>1, <2>3 DEF SetRolls
  <2>5. g = [s \in D |->
               IF s = {} THEN base ELSE Step(g[s \ {First(s)}], First(s), w)]
    <3>1. \A s \in D : s # {} => g[s \ {First(s)}] = f[s \ {First(s)}]
      BY <2>2, <2>4
    <3>. QED
      BY <3>1
  <2>. HIDE DEF g, D
  <2>6. SetRolls(g, base, D, w)
    BY <2>5 DEF SetRolls
  <2>. QED
    BY <2>6 DEF D
<1>. HIDE DEF P
<1>3. P \in SUBSET Nat
  BY DEF P
<1>4. P = Nat
  BY <1>1, <1>2, <1>3, SetInduction
<1>. QED
  BY <1>4 DEF P

\* A claim about the elements met that holds of none, and that every step keeps,
\* holds of the fold.
THEOREM SetFoldHolds ==
    ASSUME NEW base, NEW S, IsFiniteSet(S), NEW w, NEW c,
           Holds(base, {}, c),
           \A T \in SUBSET S : \A e \in S \ T : \A p :
              Holds(p, T, c) => Holds(Step(p, e, w), T \cup {e}, c)
    PROVE  Holds(SetFold(base, S, w), S, c)
<1>. DEFINE R == CHOOSE f : SetRolls(f, base, SUBSET S, w)
            n == Cardinality(S)
<1>0. ASSUME NEW s \in SUBSET S
      PROVE  /\ IsFiniteSet(s) /\ Cardinality(s) \in Nat /\ Cardinality(s) <= n
             /\ Cardinality(s) = 0 <=> s = {}
             /\ s # {} => /\ First(s) \in s
                         /\ s \ {First(s)} \in SUBSET S
                         /\ Cardinality(s \ {First(s)}) = Cardinality(s) - 1
  <2>1. IsFiniteSet(s) /\ Cardinality(s) <= n
    BY FS_Subset
  <2>2. s # {} => First(s) \in s
    BY DEF First
  <2>. QED
    BY <2>1, <2>2, FS_CardinalityType, FS_EmptySet, FS_RemoveElement
<1>1. n \in Nat /\ SmallSets(S, n) = SUBSET S
  BY <1>0, FS_CardinalityType DEF SmallSets
<1>2. SetRolls(R, base, SUBSET S, w)
  <2>. HIDE DEF n
  <2>1. \E f : SetRolls(f, base, SUBSET S, w)
    BY <1>1, SetRollsExist
  <2>. QED
    BY <2>1
<1>3. SetFold(base, S, w) = R[S]
  BY DEF SetFold, MapThenFoldSet, SetRolls, First
<1>. HIDE DEF R
<1>. DEFINE P == {k \in Nat : \A s \in SUBSET S : Cardinality(s) <= k => Holds(R[s], s, c)}
<1>4. 0 \in P
  <2>1. R[{}] = base
    BY <1>2 DEF SetRolls
  <2>2. ASSUME NEW s \in SUBSET S, Cardinality(s) <= 0 PROVE Holds(R[s], s, c)
    <3>1. Cardinality(s) \in Nat /\ (Cardinality(s) = 0 <=> s = {})
      BY <1>0
    <3>2. s = {}
      BY <2>2, <3>1
    <3>. QED
      BY <2>1, <3>2
  <2>. QED
    BY <2>2
<1>5. ASSUME NEW k \in P PROVE k + 1 \in P
  <2>1. ASSUME NEW s \in SUBSET S, Cardinality(s) <= k + 1
        PROVE  Holds(R[s], s, c)
    <3>1. CASE s = {}
      BY <1>2, <3>1 DEF SetRolls
    <3>2. CASE s # {}
      <4>. DEFINE e == First(s)
                  T == s \ {e}
      <4>1. e \in s /\ T \in SUBSET S /\ Cardinality(T) = Cardinality(s) - 1
        BY <1>0, <3>2
      <4>2. Holds(R[T], T, c)
        BY <1>0, <2>1, <4>1
      <4>3. R[s] = Step(R[T], e, w)
        BY <1>2, <3>2 DEF SetRolls
      <4>4. e \in S \ T /\ T \cup {e} = s
        BY <4>1
      <4>. HIDE DEF e, T
      <4>. QED
        BY <4>1, <4>2, <4>3, <4>4
    <3>. QED
      BY <3>1, <3>2
  <2>. QED
    BY <2>1
<1>. HIDE DEF P
<1>6. P \in SUBSET Nat
  BY DEF P
<1>7. P = Nat
  BY <1>4, <1>5, <1>6, SetInduction
<1>8. Holds(R[S], S, c)
  BY <1>0, <1>1, <1>7 DEF P
<1>. QED
  BY <1>3, <1>8
-----------------------------------------------------------------------------
(* The places of a total order *)

\* A set of pairs orders the elements of D.
TotalOrder(R, D) ==
    /\ \A i \in D : <<i, i>> \in R
    /\ \A i, j \in D : i # j => (<<i, j>> \in R <=> <<j, i>> \notin R)
    /\ \A i, j, k \in D : <<i, j>> \in R /\ <<j, k>> \in R => <<i, k>> \in R

\* How many elements there are up to k: its place, from 1 on.
PlaceIn(R, D, k) == Cardinality({j \in D : <<j, k>> \in R})

\* In a finite set with a total order every place is that of one element.
LEMMA OrderedPlaces ==
    ASSUME NEW D, IsFiniteSet(D), NEW R, TotalOrder(R, D)
    PROVE  /\ \A m \in 1..Cardinality(D) : \E k \in D : PlaceIn(R, D, k) = m
           /\ \A k \in D : PlaceIn(R, D, k) \in 1..Cardinality(D)
           /\ \A i, k \in D : i # k => PlaceIn(R, D, i) # PlaceIn(R, D, k)
           /\ Cardinality(D) \in Nat
<1>. DEFINE Upto(k) == {j \in D : <<j, k>> \in R}
            n == Cardinality(D)
            f == [k \in D |-> Cardinality(Upto(k))]
<1>. USE DEF TotalOrder, PlaceIn
<1>1. n \in Nat /\ IsFiniteSet(1..n) /\ Cardinality(1..n) = n
  BY FS_CardinalityType, FS_Interval
<1>2. ASSUME NEW k \in D
      PROVE  IsFiniteSet(Upto(k)) /\ Cardinality(Upto(k)) \in 1..n /\ k \in Upto(k)
  <2>1. Upto(k) \in SUBSET D /\ k \in Upto(k)
    OBVIOUS
  <2>2. IsFiniteSet(Upto(k)) /\ Cardinality(Upto(k)) <= n
    BY <2>1, FS_Subset
  <2>. HIDE DEF Upto
  <2>3. Cardinality(Upto(k)) \in Nat /\ Cardinality(Upto(k)) # 0
    BY <2>1, <2>2, FS_CardinalityType, FS_EmptySet
  <2>. QED
    BY <1>1, <2>1, <2>2, <2>3
<1>3. ASSUME NEW i \in D, NEW k \in D, i # k, <<i, k>> \in R
      PROVE  Cardinality(Upto(i)) # Cardinality(Upto(k))
  <2>1. Upto(i) \in SUBSET Upto(k) /\ k \notin Upto(i)
    BY <1>3
  <2>2. k \in Upto(k) /\ IsFiniteSet(Upto(k))
    BY <1>2
  <2>. HIDE DEF Upto
  <2>3. Upto(k) # Upto(i)
    BY <2>1, <2>2
  <2>. QED
    BY <2>1, <2>2, <2>3, FS_Subset
<1>4. \A i, k \in D : i # k => Cardinality(Upto(i)) # Cardinality(Upto(k))
  <2>. SUFFICES ASSUME NEW i \in D, NEW k \in D, i # k
                PROVE  Cardinality(Upto(i)) # Cardinality(Upto(k))
    OBVIOUS
  <2>. HIDE DEF Upto
  <2>1. <<i, k>> \in R \/ <<k, i>> \in R
    OBVIOUS
  <2>. QED
    BY <1>3, <2>1
<1>5. f \in Injection(D, 1..n)
  <2>. HIDE DEF Upto
  <2>1. f \in [D -> 1..n]
    BY <1>2
  <2>2. \A i, k \in D : f[i] = f[k] => i = k
    BY <1>4
  <2>. HIDE DEF f
  <2>. QED
    BY <2>1, <2>2 DEF Injection, IsInjective
<1>6. f \in Surjection(D, 1..n)
  <2>. HIDE DEF f, n
  <2>1. n = Cardinality(D)
    BY DEF n
  <2>. QED
    BY <1>1, <1>5, <2>1, FS_Injection
<1>7. \A m \in 1..n : \E k \in D : f[k] = m
  <2>. HIDE DEF f
  <2>. QED
    BY <1>6 DEF Surjection
<1>. QED
  BY <1>1, <1>2, <1>4, <1>7

\* at picks the n elements of D by their places in R.
PicksByPlace(at, n, R, D) ==
    /\ IsFiniteSet(D) /\ n = Cardinality(D) /\ TotalOrder(R, D)
    /\ at = [m \in 1..n |-> CHOOSE k \in D : PlaceIn(R, D, k) = m]

\* Picking the elements of a finite set by their places takes each of them once,
\* in their order.
LEMMA OrderedPick ==
    ASSUME NEW D, NEW R, NEW n, NEW at, PicksByPlace(at, n, R, D)
    PROVE  /\ n \in Nat /\ at \in [1..n -> D]
           /\ \A k \in D : \E m \in 1..n : at[m] = k
           /\ \A m, l \in 1..n : m < l => <<at[m], at[l]>> \in R /\ at[m] # at[l]
<1>0. /\ IsFiniteSet(D) /\ n = Cardinality(D) /\ TotalOrder(R, D)
      /\ at = [m \in 1..n |-> CHOOSE k \in D : PlaceIn(R, D, k) = m]
  BY DEF PicksByPlace
<1>1. /\ \A m \in 1..n : \E k \in D : PlaceIn(R, D, k) = m
      /\ \A k \in D : PlaceIn(R, D, k) \in 1..n
      /\ \A i, k \in D : i # k => PlaceIn(R, D, i) # PlaceIn(R, D, k)
      /\ n \in Nat
  BY <1>0, OrderedPlaces
<1>2. ASSUME NEW i \in D, NEW k \in D, <<i, k>> \in R
      PROVE  PlaceIn(R, D, i) <= PlaceIn(R, D, k)
  <2>1. {j \in D : <<j, i>> \in R} \in SUBSET {j \in D : <<j, k>> \in R}
    BY <1>0, <1>2 DEF TotalOrder
  <2>2. IsFiniteSet({j \in D : <<j, k>> \in R})
    BY <1>0, FS_Subset
  <2>. QED
    BY <2>1, <2>2, FS_Subset DEF PlaceIn
<1>3. \A m \in 1..n : at[m] \in D /\ PlaceIn(R, D, at[m]) = m
  BY <1>0, <1>1
<1>4. \A k \in D : \E m \in 1..n : at[m] = k
  <2>. SUFFICES ASSUME NEW k \in D PROVE \E m \in 1..n : at[m] = k
    OBVIOUS
  <2>1. PlaceIn(R, D, k) \in 1..n
    BY <1>1
  <2>. QED
    BY <1>1, <1>3, <2>1
<1>5. ASSUME NEW m \in 1..n, NEW l \in 1..n, m < l
      PROVE  <<at[m], at[l]>> \in R /\ at[m] # at[l]
  <2>1. /\ at[m] \in D /\ PlaceIn(R, D, at[m]) = m
        /\ at[l] \in D /\ PlaceIn(R, D, at[l]) = l
    BY <1>3
  <2>2. ~(l <= m)
    BY <1>1, <1>5
  <2>3. at[m] # at[l] /\ <<at[l], at[m]>> \notin R
    BY <1>2, <1>5, <2>1, <2>2
  <2>. QED
    BY <1>0, <2>1, <2>3 DEF TotalOrder
<1>6. at \in [1..n -> D]
  BY <1>0, <1>3
<1>. QED
  BY <1>1, <1>4, <1>5, <1>6
=============================================================================
