-------------------------- MODULE SelectionsProofs --------------------------
(***************************************************************************)
(* Facts about Selected, and the two forms of induction they rest on. The  *)
(* induction theorems of the library take a predicate as a parameter; here *)
(* the predicate is a set, the set of numbers that have the property.      *)
(***************************************************************************)
EXTENDS Selections, Integers, NaturalsInduction, WellFoundedInduction, SequenceTheorems, TLAPS

-----------------------------------------------------------------------------
(* Induction.                                                              *)

\* Every set of naturals that is not empty has a least element.
LEMMA LeastElement ==
  ASSUME NEW T \in SUBSET Nat, T # {}
  PROVE  \E x \in T : \A y \in T : x <= y
<1>1. PICK x \in T : \A y \in T : ~(<<y, x>> \in OpToRel(<, Nat))
  BY NatLessThanWellFounded, WFMin
<1>2. \A y \in T : ~(y < x)
  BY <1>1 DEF OpToRel
<1> QED BY <1>2

\* What holds of 0 and is handed on from n - 1 to n holds up to N.
LEMMA UpToInduction ==
  ASSUME NEW N \in Nat, NEW G, 0 \in G,
         \A n \in 1 .. N : n - 1 \in G => n \in G
  PROVE  \A n \in 0 .. N : n \in G
<1> DEFINE T == {n \in 0 .. N : n \notin G}
<1> SUFFICES ASSUME T # {} PROVE FALSE
  OBVIOUS
<1>1. PICK x \in T : \A y \in T : x <= y
  <2>1. T \in SUBSET Nat
    OBVIOUS
  <2> QED BY <2>1, LeastElement
<1>2. x \in 1 .. N /\ x \notin G
  BY <1>1
<1>3. x - 1 \in 0 .. N /\ ~(x <= x - 1)
  BY <1>2
<1>4. x - 1 \in G
  BY <1>1, <1>3
<1> QED BY <1>2, <1>4

\* A set of naturals with a bound has a greatest element.
LEMMA GreatestElement ==
  ASSUME NEW N \in Nat, NEW T \in SUBSET (0 .. N), T # {}
  PROVE  \E x \in T : \A y \in T : x >= y
<1> DEFINE U == {N - x : x \in T}
<1>1. U \in SUBSET Nat /\ U # {}
  OBVIOUS
<1>2. PICK u \in U : \A v \in U : u <= v
  BY <1>1, LeastElement
<1>3. PICK x \in T : u = N - x
  BY <1>2
<1>4. ASSUME NEW y \in T PROVE x >= y
  <2>1. N - y \in U
    BY <1>4
  <2>2. N - x <= N - y
    BY <1>2, <1>3, <2>1
  <2> QED BY <2>2, <1>3, <1>4
<1> QED BY <1>4

-----------------------------------------------------------------------------
(* The loop of Selection.                                                  *)

\* There is a function that satisfies the recursive equation.
LEMMA SelectionExists ==
  ASSUME NEW s, Len(s) \in Nat, NEW places
  PROVE  \E f : f = [n \in 0 .. Len(s) |->
                       IF n = 0 THEN <<>>
                       ELSE IF n \in places THEN Append(f[n - 1], s[n]) ELSE f[n - 1]]
<1> DEFINE Fits(f, m) == f = [n \in 0 .. m |->
                                IF n = 0 THEN <<>>
                                ELSE IF n \in places THEN Append(f[n - 1], s[n]) ELSE f[n - 1]]
           G == {m \in 0 .. Len(s) : \E f : Fits(f, m)}
<1>1. 0 \in G
  <2>1. Fits([n \in 0 .. 0 |-> <<>>], 0)
    OBVIOUS
  <2>2. 0 \in 0 .. Len(s)
    OBVIOUS
  <2> HIDE DEF Fits
  <2> QED BY <2>1, <2>2
<1>2. ASSUME NEW m \in 1 .. Len(s), m - 1 \in G
      PROVE  m \in G
  <2>1. PICK f : Fits(f, m - 1)
    BY <1>2
  <2> DEFINE h == [n \in 0 .. m |->
                     IF n < m THEN f[n]
                     ELSE IF m \in places THEN Append(f[m - 1], s[m]) ELSE f[m - 1]]
  <2>2. ASSUME NEW n \in 0 .. m
        PROVE  h[n] = IF n = 0 THEN <<>>
                      ELSE IF n \in places THEN Append(h[n - 1], s[n]) ELSE h[n - 1]
    <3>1. CASE n = m
      <4>1. h[m - 1] = f[m - 1] /\ n # 0
        BY <3>1
      <4> QED BY <3>1, <4>1
    <3>2. CASE n # m
      <4>1. n \in 0 .. m - 1 /\ h[n] = f[n] /\ (n # 0 => h[n - 1] = f[n - 1])
        BY <3>2
      <4>2. f[n] = IF n = 0 THEN <<>>
                   ELSE IF n \in places THEN Append(f[n - 1], s[n]) ELSE f[n - 1]
        BY <2>1, <4>1
      <4> QED BY <4>1, <4>2
    <3> QED BY <3>1, <3>2
  <2>3. h = [n \in 0 .. m |-> h[n]]
    OBVIOUS
  <2>4. Fits(h, m)
    <3> HIDE DEF h
    <3> QED BY <2>2, <2>3
  <2>5. m \in 0 .. Len(s)
    OBVIOUS
  <2> HIDE DEF Fits, h
  <2> QED BY <2>4, <2>5
<1> HIDE DEF G
<1>3. \A m \in 0 .. Len(s) : m \in G
  BY <1>1, <1>2, UpToInduction
<1>4. Len(s) \in G
  BY <1>3
<1> QED BY <1>4 DEF G

\* So Selection satisfies it.
LEMMA SelectionDef ==
  ASSUME NEW s, Len(s) \in Nat, NEW places
  PROVE  /\ Selection(s, places)[0] = <<>>
         /\ \A n \in 1 .. Len(s) :
              Selection(s, places)[n] =
                IF n \in places THEN Append(Selection(s, places)[n - 1], s[n])
                                ELSE Selection(s, places)[n - 1]
<1> DEFINE Fits(f) == f = [n \in 0 .. Len(s) |->
                             IF n = 0 THEN <<>>
                             ELSE IF n \in places THEN Append(f[n - 1], s[n]) ELSE f[n - 1]]
           sel == Selection(s, places)
<1>1. sel = CHOOSE f : Fits(f)
  BY DEF Selection
<1>2. Fits(sel)
  <2>1. \E f : Fits(f)
    BY SelectionExists
  <2> HIDE DEF sel, Fits
  <2> QED BY <1>1, <2>1
<1> HIDE DEF sel
<1>3. 0 \in 0 .. Len(s) /\ \A n \in 1 .. Len(s) : n \in 0 .. Len(s) /\ n # 0
  OBVIOUS
<1>4. /\ sel[0] = <<>>
      /\ \A n \in 1 .. Len(s) :
           sel[n] = IF n \in places THEN Append(sel[n - 1], s[n]) ELSE sel[n - 1]
  BY <1>2, <1>3
<1> QED BY <1>4 DEF sel

LEMMA SelectionType ==
  ASSUME NEW S, NEW s \in Seq(S), NEW places
  PROVE  \A n \in 0 .. Len(s) : Selection(s, places)[n] \in Seq(S)
<1> DEFINE G == {n \in 0 .. Len(s) : Selection(s, places)[n] \in Seq(S)}
<1>1. Len(s) \in Nat /\ \A n \in 1 .. Len(s) : s[n] \in S
  OBVIOUS
<1>2. 0 \in G
  <2>1. Selection(s, places)[0] = <<>>
    BY <1>1, SelectionDef
  <2>2. 0 \in 0 .. Len(s) /\ <<>> \in Seq(S)
    BY <1>1
  <2> QED BY <2>1, <2>2
<1>3. ASSUME NEW n \in 1 .. Len(s), n - 1 \in G
      PROVE  n \in G
  <2>1. Selection(s, places)[n] =
          IF n \in places THEN Append(Selection(s, places)[n - 1], s[n])
                          ELSE Selection(s, places)[n - 1]
    BY <1>1, SelectionDef
  <2>2. n \in 0 .. Len(s) /\ s[n] \in S
    BY <1>1
  <2>3. \A q \in Seq(S) : Append(q, s[n]) \in Seq(S)
    BY <2>2
  <2> QED BY <1>3, <2>1, <2>2, <2>3
<1> HIDE DEF G
<1>4. \A n \in 0 .. Len(s) : n \in G
  BY <1>1, <1>2, <1>3, UpToInduction
<1> QED BY <1>4 DEF G

\* The result up to m depends on nothing but the elements selected up to m.
LEMMA SelectionAgrees ==
  ASSUME NEW S, NEW s \in Seq(S), NEW t \in Seq(S), NEW P, NEW Q,
         NEW m \in 0 .. Len(s), m <= Len(t),
         \A i \in 1 .. m : (i \in P <=> i \in Q) /\ (i \in P => s[i] = t[i])
  PROVE  Selection(s, P)[m] = Selection(t, Q)[m]
<1> DEFINE G == {n \in 0 .. m : Selection(s, P)[n] = Selection(t, Q)[n]}
<1>1. Len(s) \in Nat /\ Len(t) \in Nat /\ m \in Nat
  OBVIOUS
<1>2. 0 \in G
  BY <1>1, SelectionDef
<1>3. ASSUME NEW n \in 1 .. m, n - 1 \in G
      PROVE  n \in G
  <2>1. n \in 1 .. Len(s) /\ n \in 1 .. Len(t)
    BY <1>1
  <2>2. Selection(s, P)[n] =
          IF n \in P THEN Append(Selection(s, P)[n - 1], s[n]) ELSE Selection(s, P)[n - 1]
    BY <1>1, <2>1, SelectionDef
  <2>3. Selection(t, Q)[n] =
          IF n \in Q THEN Append(Selection(t, Q)[n - 1], t[n]) ELSE Selection(t, Q)[n - 1]
    BY <1>1, <2>1, SelectionDef
  <2> QED BY <1>3, <2>2, <2>3
<1> HIDE DEF G
<1>4. \A n \in 0 .. m : n \in G
  BY <1>1, <1>2, <1>3, UpToInduction
<1> QED BY <1>1, <1>4 DEF G

-----------------------------------------------------------------------------
(* The result.                                                             *)

LEMMA SelectedType ==
  ASSUME NEW S, NEW s \in Seq(S), NEW places
  PROVE  Selected(s, places) \in Seq(S)
<1>1. Len(s) \in 0 .. Len(s)
  OBVIOUS
<1> QED BY <1>1, SelectionType DEF Selected

\* A rest that is passed over changes nothing.
LEMMA SelectedPrefix ==
  ASSUME NEW S, NEW s \in Seq(S), NEW P, NEW m \in 0 .. Len(s),
         \A i \in m + 1 .. Len(s) : i \notin P
  PROVE  Selected(s, P) = Selection(s, P)[m]
<1> DEFINE N == Len(s) - m
           G == {n \in 0 .. N : Selection(s, P)[m + n] = Selection(s, P)[m]}
<1>1. Len(s) \in Nat /\ m \in Nat /\ N \in Nat
  OBVIOUS
<1>2. 0 \in G
  BY <1>1
<1>3. ASSUME NEW n \in 1 .. N, n - 1 \in G
      PROVE  n \in G
  <2>1. m + n \in 1 .. Len(s) /\ m + n \in m + 1 .. Len(s) /\ (m + n) - 1 = m + (n - 1)
    BY <1>1
  <2>2. Selection(s, P)[m + n] = Selection(s, P)[m + (n - 1)]
    BY <1>1, <2>1, SelectionDef
  <2> QED BY <1>3, <2>2
<1>4. \A n \in 0 .. N : n \in G
  <2> HIDE DEF G, N
  <2> QED BY <1>1, <1>2, <1>3, UpToInduction
<1>5. N \in G
  BY <1>1, <1>4
<1>6. m + N = Len(s)
  BY <1>1
<1> QED BY <1>5, <1>6 DEF Selected

\* The elements selected decide, and a rest that is passed over does not count.
LEMMA SelectedAgrees ==
  ASSUME NEW S, NEW s \in Seq(S), NEW t \in Seq(S), NEW U, NEW V, Len(t) <= Len(s),
         \A i \in 1 .. Len(t) : (i \in U <=> i \in V) /\ (i \in U => s[i] = t[i]),
         \A i \in Len(t) + 1 .. Len(s) : i \notin U
  PROVE  Selected(s, U) = Selected(t, V)
<1>1. Len(t) \in 0 .. Len(s) /\ Len(t) <= Len(t)
  OBVIOUS
<1>2. Selected(s, U) = Selection(s, U)[Len(t)]
  BY <1>1, SelectedPrefix
<1>3. ASSUME NEW m \in 0 .. Len(s), m <= Len(t),
             \A i \in 1 .. m : (i \in U <=> i \in V) /\ (i \in U => s[i] = t[i])
      PROVE  Selection(s, U)[m] = Selection(t, V)[m]
  BY <1>3, SelectionAgrees
<1>4. Selection(s, U)[Len(t)] = Selection(t, V)[Len(t)]
  BY <1>1, <1>3
<1> QED BY <1>2, <1>4 DEF Selected

\* c is a with b behind it.
Joins(c, a, b) ==
  /\ Len(c) = Len(a) + Len(b)
  /\ \A i \in 1 .. Len(a) : c[i] = a[i]
  /\ \A i \in 1 .. Len(b) : c[Len(a) + i] = b[i]

LEMMA JoinsConcat ==
  ASSUME NEW S, NEW a \in Seq(S), NEW b \in Seq(S)
  PROVE  Joins(a \o b, a, b)
BY DEF Joins

LEMMA JoinsUnique ==
  ASSUME NEW S, NEW a \in Seq(S), NEW b \in Seq(S), NEW c \in Seq(S), NEW d \in Seq(S),
         Joins(c, a, b), Joins(d, a, b)
  PROVE  c = d
<1>1. Len(a) \in Nat /\ Len(b) \in Nat
  OBVIOUS
<1>2. ASSUME NEW i \in 1 .. Len(c) PROVE c[i] = d[i]
  <2>1. CASE i <= Len(a)
    BY <1>1, <2>1 DEF Joins
  <2>2. CASE i > Len(a)
    <3>1. i - Len(a) \in 1 .. Len(b) /\ Len(a) + (i - Len(a)) = i
      BY <1>1, <2>2 DEF Joins
    <3> QED BY <3>1 DEF Joins
  <2> QED BY <1>1, <2>1, <2>2
<1>3. Len(c) = Len(d)
  BY DEF Joins
<1> QED BY <1>2, <1>3, SeqEqual

LEMMA JoinsAppend ==
  ASSUME NEW S, NEW a \in Seq(S), NEW b \in Seq(S), NEW c \in Seq(S), NEW x \in S,
         Joins(c, a, b)
  PROVE  Joins(Append(c, x), a, Append(b, x))
<1>1. Len(a) \in Nat /\ Len(b) \in Nat /\ Len(c) = Len(a) + Len(b)
  BY DEF Joins
<1>2. /\ Len(Append(c, x)) = Len(c) + 1 /\ Len(Append(b, x)) = Len(b) + 1
      /\ Append(c, x)[Len(c) + 1] = x /\ Append(b, x)[Len(b) + 1] = x
      /\ \A i \in 1 .. Len(c) : Append(c, x)[i] = c[i]
      /\ \A i \in 1 .. Len(b) : Append(b, x)[i] = b[i]
  OBVIOUS
<1>3. ASSUME NEW i \in 1 .. Len(b) + 1
      PROVE  Append(c, x)[Len(a) + i] = Append(b, x)[i]
  <2>1. CASE i = Len(b) + 1
    BY <1>1, <1>2, <2>1
  <2>2. CASE i # Len(b) + 1
    <3>1. i \in 1 .. Len(b) /\ Len(a) + i \in 1 .. Len(c)
      BY <1>1, <2>2
    <3> QED BY <1>2, <3>1 DEF Joins
  <2> QED BY <2>1, <2>2
<1>4. ASSUME NEW i \in 1 .. Len(a)
      PROVE  Append(c, x)[i] = a[i]
  <2>1. i \in 1 .. Len(c)
    BY <1>1
  <2> QED BY <1>2, <2>1 DEF Joins
<1> QED BY <1>1, <1>2, <1>3, <1>4 DEF Joins

\* Of two sequences put together, the results are put together.
LEMMA SelectedJoins ==
  ASSUME NEW S, NEW s \in Seq(S), NEW t \in Seq(S), NEW st \in Seq(S), NEW P, NEW Q, NEW R,
         Joins(st, s, t),
         \A i \in 1 .. Len(s) : i \in R <=> i \in P,
         \A i \in 1 .. Len(t) : Len(s) + i \in R <=> i \in Q
  PROVE  Joins(Selected(st, R), Selected(s, P), Selected(t, Q))
<1> DEFINE G == {n \in 0 .. Len(t) :
                   Joins(Selection(st, R)[Len(s) + n], Selected(s, P), Selection(t, Q)[n])}
<1>1. Len(s) \in Nat /\ Len(t) \in Nat /\ Len(st) \in Nat /\ Len(st) = Len(s) + Len(t)
  BY DEF Joins
<1>2. /\ Selected(s, P) \in Seq(S)
      /\ \A n \in 0 .. Len(t) : Selection(t, Q)[n] \in Seq(S)
      /\ \A n \in 0 .. Len(st) : Selection(st, R)[n] \in Seq(S)
  BY SelectedType, SelectionType
<1>3. 0 \in G
  <2>1. Selection(st, R)[Len(s)] = Selection(s, P)[Len(s)]
    <3>1. Len(s) \in 0 .. Len(st) /\ Len(s) <= Len(s)
      BY <1>1
    <3>2. \A i \in 1 .. Len(s) : (i \in R <=> i \in P) /\ (i \in R => st[i] = s[i])
      BY DEF Joins
    <3>3. \A m \in 0 .. Len(st) :
            /\ m <= Len(s)
            /\ \A i \in 1 .. m : (i \in R <=> i \in P) /\ (i \in R => st[i] = s[i])
            => Selection(st, R)[m] = Selection(s, P)[m]
      BY ONLY s \in Seq(S), st \in Seq(S), SelectionAgrees
    <3> QED BY <3>1, <3>2, <3>3
  <2>2. Selection(t, Q)[0] = <<>>
    BY <1>1, SelectionDef
  <2>3. Joins(Selected(s, P), Selected(s, P), <<>>)
    BY <1>2 DEF Joins
  <2>4. Len(s) + 0 = Len(s) /\ 0 \in 0 .. Len(t)
    BY <1>1
  <2> QED BY <2>1, <2>2, <2>3, <2>4 DEF Selected
<1>4. ASSUME NEW n \in 1 .. Len(t), n - 1 \in G
      PROVE  n \in G
  <2> DEFINE c == Selection(st, R)[Len(s) + (n - 1)]
             b == Selection(t, Q)[n - 1]
  <2>1. /\ Len(s) + n \in 1 .. Len(st) /\ (Len(s) + n) - 1 = Len(s) + (n - 1)
        /\ n \in 0 .. Len(t) /\ n - 1 \in 0 .. Len(t) /\ t[n] \in S
        /\ Len(s) + (n - 1) \in 0 .. Len(st)
    BY <1>1
  <2>2. Selection(st, R)[Len(s) + n] = IF Len(s) + n \in R THEN Append(c, st[Len(s) + n]) ELSE c
    <3>1. \A m \in 1 .. Len(st) :
            Selection(st, R)[m] = IF m \in R THEN Append(Selection(st, R)[m - 1], st[m])
                                             ELSE Selection(st, R)[m - 1]
      BY ONLY <1>1, SelectionDef, SMTT(60)
    <3> QED BY <2>1, <3>1
  <2>3. Selection(t, Q)[n] = IF n \in Q THEN Append(b, t[n]) ELSE b
    BY <1>1, SelectionDef
  <2>4. st[Len(s) + n] = t[n] /\ (Len(s) + n \in R <=> n \in Q)
    BY DEF Joins
  <2>5. Joins(c, Selected(s, P), b)
    BY <1>4
  <2>6. c \in Seq(S) /\ b \in Seq(S)
    BY <1>2, <2>1
  <2> HIDE DEF c, b
  <2>7. Joins(Append(c, t[n]), Selected(s, P), Append(b, t[n]))
    BY <1>2, <2>1, <2>5, <2>6, JoinsAppend
  <2> QED BY <2>1, <2>2, <2>3, <2>4, <2>5, <2>7
<1> HIDE DEF G
<1>5. \A n \in 0 .. Len(t) : n \in G
  BY <1>1, <1>3, <1>4, UpToInduction
<1>6. Len(t) \in G
  BY <1>1, <1>5
<1> QED BY <1>1, <1>6 DEF G, Selected

\* The elements of the result are selected elements, in their order.
LEMMA SelectedInOrder ==
  ASSUME NEW S, NEW s \in Seq(S), NEW P
  PROVE  \E e \in [1 .. Len(Selected(s, P)) -> 1 .. Len(s)] :
           /\ \A i \in 1 .. Len(Selected(s, P)) :
                e[i] \in P /\ Selected(s, P)[i] = s[e[i]]
           /\ \A i, j \in 1 .. Len(Selected(s, P)) : i < j => e[i] < e[j]
<1> DEFINE sel(n) == Selection(s, P)[n]
           Traces(e, n) == /\ e \in [1 .. Len(sel(n)) -> 1 .. n]
                           /\ \A i \in 1 .. Len(sel(n)) : e[i] \in P /\ sel(n)[i] = s[e[i]]
                           /\ \A i, j \in 1 .. Len(sel(n)) : i < j => e[i] < e[j]
           G == {n \in 0 .. Len(s) : \E e : Traces(e, n)}
<1>1. Len(s) \in Nat /\ \A n \in 0 .. Len(s) : sel(n) \in Seq(S) /\ Len(sel(n)) \in Nat
  BY SelectionType
<1>2. 0 \in G
  <2>1. sel(0) = <<>>
    BY <1>1, SelectionDef
  <2> HIDE DEF sel
  <2>2. Traces(<<>>, 0)
    BY <2>1
  <2> HIDE DEF Traces
  <2>3. 0 \in 0 .. Len(s)
    BY <1>1
  <2> QED BY <2>2, <2>3
<1>3. ASSUME NEW n \in 1 .. Len(s), n - 1 \in G
      PROVE  n \in G
  <2>1. sel(n) = IF n \in P THEN Append(sel(n - 1), s[n]) ELSE sel(n - 1)
    BY <1>1, SelectionDef
  <2>2. PICK e : Traces(e, n - 1)
    BY <1>3
  <2>3. n \in 0 .. Len(s) /\ n - 1 \in 0 .. Len(s) /\ s[n] \in S
    BY <1>1
  <2>4. sel(n - 1) \in Seq(S) /\ Len(sel(n - 1)) \in Nat
    BY <1>1, <2>3
  <2> HIDE DEF sel
  <2>5. \E f : Traces(f, n)
    <3>1. CASE n \in P
      <4> DEFINE L == Len(sel(n - 1))
                 f == [i \in 1 .. L + 1 |-> IF i = L + 1 THEN n ELSE e[i]]
      <4>1. /\ Len(sel(n)) = L + 1 /\ sel(n)[L + 1] = s[n]
            /\ \A i \in 1 .. L : sel(n)[i] = sel(n - 1)[i]
        BY <2>1, <2>3, <2>4, <3>1
      <4>2. /\ e \in [1 .. L -> 1 .. n - 1]
            /\ \A i \in 1 .. L : e[i] \in P /\ sel(n - 1)[i] = s[e[i]]
            /\ \A i, j \in 1 .. L : i < j => e[i] < e[j]
        BY <2>2
      <4> HIDE DEF L
      <4>3. L \in Nat /\ n \in Nat
        BY <2>4, <2>3 DEF L
      <4>4. f \in [1 .. L + 1 -> 1 .. n]
        BY <4>2, <4>3
      <4>5. \A i \in 1 .. L + 1 : f[i] \in P /\ sel(n)[i] = s[f[i]]
        BY <3>1, <4>1, <4>2, <4>3
      <4>6. \A i, j \in 1 .. L + 1 : i < j => f[i] < f[j]
        BY <4>2, <4>3
      <4>7. Traces(f, n)
        <5> HIDE DEF f
        <5> QED BY <4>1, <4>4, <4>5, <4>6
      <4> QED BY <4>7
    <3>2. CASE n \notin P
      <4>1. Traces(e, n)
        BY <2>1, <2>2, <2>3, <3>2
      <4> QED BY <4>1
    <3> QED BY <3>1, <3>2
  <2> HIDE DEF Traces
  <2> QED BY <2>3, <2>5
<1>4. \A n \in 0 .. Len(s) : n \in G
  <2> HIDE DEF G
  <2> QED BY <1>1, <1>2, <1>3, UpToInduction
<1>5. PICK e : Traces(e, Len(s))
  <2> Len(s) \in 0 .. Len(s)
    BY <1>1
  <2> HIDE DEF Traces
  <2> QED BY <1>4
<1> QED BY <1>5 DEF Selected
=============================================================================
