----------------------------- MODULE Induction -----------------------------
(***************************************************************************)
(* Induction over the natural numbers, for the proofs about loops, sums    *)
(* and positions.  The theorems of the library take the property as an     *)
(* operator, which the provers cannot instantiate; here it is a set: the   *)
(* numbers that have the property.                                         *)
(***************************************************************************)
EXTENDS Integers, Sequences, TLAPS, WellFoundedInduction

\* A set of natural numbers that is not empty has a least element.
LEMMA LeastOf ==
    ASSUME NEW S \in SUBSET Nat, S # {}
    PROVE  \E x \in S : \A y \in S : x <= y
<1> DEFINE R == {ss \in Nat \X Nat : ss[1] < ss[2]}
<1>1. IsWellFoundedOn(R, Nat)
    BY NatLessThanWellFounded DEF OpToRel
<1> HIDE DEF R
<1>2. PICK x \in S : \A y \in S : ~(<<y, x>> \in R)
    BY <1>1, WFMin
<1>3. \A y \in S : ~(y < x)
    BY <1>2 DEF R
<1> QED BY <1>3

\* A set of natural numbers that is not empty and has a bound has a greatest
\* element.
LEMMA GreatestOf ==
    ASSUME NEW S \in SUBSET Nat, S # {}, NEW b \in Nat, \A x \in S : x <= b
    PROVE  \E x \in S : \A y \in S : y <= x
<1> DEFINE T == {b - x : x \in S}
<1>1. T \in SUBSET Nat /\ T # {}
  <2>1. \A x \in S : b - x \in Nat
      OBVIOUS
  <2> QED BY <2>1
<1> HIDE DEF T
<1>2. PICK z \in T : \A y \in T : z <= y
    BY <1>1, LeastOf
<1>3. PICK x \in S : z = b - x
    BY <1>2 DEF T
<1>4. \A y \in S : b - x <= b - y
    BY <1>2, <1>3 DEF T
<1> QED BY <1>4

\* Induction: a set with 0 that has with every number the next one has all.
LEMMA SetInduction ==
    ASSUME NEW S, 0 \in S, \A m \in Nat : m \in S => m + 1 \in S
    PROVE  \A m \in Nat : m \in S
<1> SUFFICES ASSUME {m \in Nat : m \notin S} # {} PROVE FALSE
    OBVIOUS
<1>1. PICK x \in {m \in Nat : m \notin S} : \A y \in {m \in Nat : m \notin S} : x <= y
    BY LeastOf
<1>2. x # 0 /\ x - 1 \in Nat /\ x - 1 \in S
    BY <1>1
<1> QED BY <1>1, <1>2

\* Induction from a number other than 0 on.
LEMMA InductionFrom ==
    ASSUME NEW a \in Int, NEW S, a \in S, \A m \in Int : m >= a /\ m \in S => m + 1 \in S
    PROVE  \A m \in Int : m >= a => m \in S
<1> DEFINE T == {m \in Nat : a + m \in S}
<1>1. 0 \in T
    OBVIOUS
<1>2. \A m \in Nat : m \in T => m + 1 \in T
  <2> SUFFICES ASSUME NEW m \in Nat, a + m \in S PROVE a + (m + 1) \in S
      OBVIOUS
  <2>1. a + m \in Int /\ a + m >= a /\ a + (m + 1) = (a + m) + 1
      OBVIOUS
  <2> QED BY <2>1
<1> HIDE DEF T
<1>3. \A m \in Nat : m \in T
    BY <1>1, <1>2, SetInduction
<1> SUFFICES ASSUME NEW m \in Int, m >= a PROVE m \in S
    OBVIOUS
<1>4. m - a \in Nat /\ a + (m - a) = m
    OBVIOUS
<1> QED BY <1>3, <1>4 DEF T

-----------------------------------------------------------------------------
\* Texts that are put together from parts.  A recursive definition of what the
\* first n parts give has a solution.
LEMMA JoinExists ==
    ASSUME NEW N \in Nat, NEW P
    PROVE  \E u : u = [n \in 0 .. N |-> IF n = 0 THEN <<>> ELSE u[n - 1] \o P[n]]
<1> DEFINE S == {m \in Nat : \E u : u = [n \in 0 .. m |-> IF n = 0 THEN <<>> ELSE u[n - 1] \o P[n]]}
<1>1. 0 \in S
  <2> DEFINE h == [n \in 0 .. 0 |-> <<>>]
  <2>1. h = [n \in 0 .. 0 |-> IF n = 0 THEN <<>> ELSE h[n - 1] \o P[n]]
      OBVIOUS
  <2> HIDE DEF h
  <2> QED BY <2>1
<1>2. ASSUME NEW m \in Nat, m \in S PROVE m + 1 \in S
  <2>1. PICK u : u = [n \in 0 .. m |-> IF n = 0 THEN <<>> ELSE u[n - 1] \o P[n]]
      BY <1>2
  <2> DEFINE h == [n \in 0 .. m + 1 |-> IF n <= m THEN u[n] ELSE u[m] \o P[m + 1]]
  <2>2. \A n \in 0 .. m : u[n] = IF n = 0 THEN <<>> ELSE u[n - 1] \o P[n]
      BY <2>1
  <2>3. (\A n \in 0 .. m : h[n] = u[n]) /\ h[m + 1] = u[m] \o P[m + 1]
    <3>1. ~(m + 1 <= m) /\ m + 1 \in 0 .. m + 1 /\ \A n \in 0 .. m : n \in 0 .. m + 1 /\ n <= m
        OBVIOUS
    <3>2. \A n \in 0 .. m : h[n] = u[n]
        BY <3>1
    <3>3. h[m + 1] = u[m] \o P[m + 1]
        BY <3>1
    <3> QED BY <3>2, <3>3
  <2>4. h = [n \in 0 .. m + 1 |-> h[n]]
      OBVIOUS
  <2> HIDE DEF h
  <2>5. ASSUME NEW n \in 0 .. m + 1 PROVE h[n] = IF n = 0 THEN <<>> ELSE h[n - 1] \o P[n]
    <3>1. CASE n = m + 1
      <4>1. n # 0 /\ n - 1 = m /\ m \in 0 .. m
          BY <3>1
      <4> QED BY <2>3, <3>1, <4>1
    <3>2. CASE n = 0
      <4>1. n \in 0 .. m
          BY <3>2
      <4> QED BY <2>2, <2>3, <3>2, <4>1
    <3>3. CASE n # 0 /\ n # m + 1
      <4>1. n \in 0 .. m /\ n - 1 \in 0 .. m
          BY <3>3
      <4> QED BY <2>2, <2>3, <3>3, <4>1
    <3> QED BY <3>1, <3>2, <3>3
  <2>6. h = [n \in 0 .. m + 1 |-> IF n = 0 THEN <<>> ELSE h[n - 1] \o P[n]]
      BY <2>4, <2>5
  <2>7. m + 1 \in Nat
      OBVIOUS
  <2> QED BY <2>6, <2>7
<1> HIDE DEF S
<1>3. N \in S
    BY <1>1, <1>2, SetInduction
<1> QED BY <1>3 DEF S

\* Two texts one after the other.
LEMMA TwoTexts ==
    ASSUME NEW T, NEW a \in Seq(T), NEW c \in Seq(T)
    PROVE  /\ a \o c \in Seq(T)
           /\ Len(a \o c) = Len(a) + Len(c) /\ Len(a) \in Nat /\ Len(c) \in Nat
           /\ \A x \in 1 .. Len(a) : (a \o c)[x] = a[x]
           /\ \A x \in 1 .. Len(c) : (a \o c)[Len(a) + x] = c[x]
    OBVIOUS

\* u[n] is the text of the first n parts.
Joined(u, P, N) == u = [n \in 0 .. N |-> IF n = 0 THEN <<>> ELSE u[n - 1] \o P[n]]

\* Part n stands in the whole text behind the text of the parts before it.
InPlace(u, P, N, T) ==
    /\ \A n \in 0 .. N : u[n] \in Seq(T)
    /\ u[0] = <<>>
    /\ \A n \in 1 .. N : Len(u[n]) = Len(u[n - 1]) + Len(P[n])
    /\ \A n \in 1 .. N : \A y \in 1 .. Len(P[n]) :
          Len(u[n - 1]) + y <= Len(u[N]) /\ u[N][Len(u[n - 1]) + y] = P[n][y]

\* Every part stands in the text behind those before it.
LEMMA JoinParts ==
    ASSUME NEW T, NEW N \in Nat, NEW P \in [1 .. N -> Seq(T)],
           NEW u, Joined(u, P, N)
    PROVE  InPlace(u, P, N, T)
<1>1. u[0] = <<>> /\ \A n \in 1 .. N : u[n] = u[n - 1] \o P[n]
  <2>1. \A n \in 0 .. N : u[n] = IF n = 0 THEN <<>> ELSE u[n - 1] \o P[n]
      BY DEF Joined
  <2>2. 0 \in 0 .. N /\ \A n \in 1 .. N : n \in 0 .. N /\ n # 0
      OBVIOUS
  <2> QED BY <2>1, <2>2
<1>2. \A n \in 0 .. N : u[n] \in Seq(T)
  <2> DEFINE R == {m \in Nat : m <= N => u[m] \in Seq(T)}
  <2>1. 0 \in R
    <3>1. <<>> \in Seq(T)
        OBVIOUS
    <3>2. u[0] \in Seq(T)
        BY <1>1, <3>1
    <3> QED BY <3>2
  <2>2. ASSUME NEW m \in Nat, m \in R, m + 1 <= N PROVE u[m + 1] \in Seq(T)
    <3>1. m + 1 \in 1 .. N /\ (m + 1) - 1 = m /\ m <= N
        BY <2>2
    <3>2. u[m] \in Seq(T) /\ P[m + 1] \in Seq(T) /\ u[m + 1] = u[m] \o P[m + 1]
        BY <1>1, <2>2, <3>1
    <3> QED BY <3>2, TwoTexts
  <2>3. \A m \in Nat : m \in R => m + 1 \in R
    <3> SUFFICES ASSUME NEW m \in Nat, m \in R, m + 1 <= N PROVE u[m + 1] \in Seq(T)
        OBVIOUS
    <3> QED BY <2>2
  <2> HIDE DEF R
  <2>4. \A m \in Nat : m \in R
      BY <2>1, <2>3, SetInduction
  <2>5. \A n \in 0 .. N : n \in Nat /\ n <= N
      OBVIOUS
  <2> QED BY <2>4, <2>5 DEF R
<1>3. \A n \in 1 .. N : Len(u[n]) = Len(u[n - 1]) + Len(P[n])
  <2> TAKE n \in 1 .. N
  <2>1. n \in 0 .. N /\ n - 1 \in 0 .. N
      OBVIOUS
  <2>2. u[n] = u[n - 1] \o P[n] /\ u[n - 1] \in Seq(T) /\ P[n] \in Seq(T)
      BY <1>1, <1>2, <2>1
  <2> QED BY <2>2, TwoTexts
<1> DEFINE Stands(m) == \A n \in 1 .. m : \A y \in 1 .. Len(P[n]) :
                            Len(u[n - 1]) + y <= Len(u[m]) /\ u[m][Len(u[n - 1]) + y] = P[n][y]
           S == {m \in Nat : m <= N => Stands(m)}
<1>4. 0 \in S
  <2>1. \A n \in 1 .. 0 : FALSE
      OBVIOUS
  <2> QED BY <2>1
<1>5. ASSUME NEW m \in Nat, m + 1 <= N, Stands(m) PROVE Stands(m + 1)
  <2>1. m + 1 \in 1 .. N /\ (m + 1) - 1 = m /\ m \in 0 .. N
      BY <1>5
  <2>2. PICK a, c \in Seq(T) : a = u[m] /\ c = P[m + 1]
      BY <1>2, <2>1
  <2>3. u[m + 1] = a \o c
      BY <1>1, <2>1, <2>2
  <2>0. a \in Seq(T) /\ c \in Seq(T)
      BY <2>2
  <2> HIDE DEF Stands, S
  <2>a. Len(a \o c) = Len(a) + Len(c) /\ Len(a) \in Nat /\ Len(c) \in Nat
      BY <2>0, TwoTexts
  <2>b. \A x \in 1 .. Len(a) : (a \o c)[x] = a[x]
      BY <2>0, TwoTexts
  <2>c. \A x \in 1 .. Len(c) : (a \o c)[Len(a) + x] = c[x]
      BY <2>0, TwoTexts
  <2>4. /\ Len(a \o c) = Len(a) + Len(c) /\ Len(a) \in Nat /\ Len(c) \in Nat
        /\ \A x \in 1 .. Len(a) : (a \o c)[x] = a[x]
        /\ \A x \in 1 .. Len(c) : (a \o c)[Len(a) + x] = c[x]
      BY <2>a, <2>b, <2>c
  <2>5. ASSUME NEW n \in 1 .. m + 1, NEW y \in 1 .. Len(P[n])
        PROVE  Len(u[n - 1]) + y <= Len(u[m + 1]) /\ u[m + 1][Len(u[n - 1]) + y] = P[n][y]
    <3>1. CASE n = m + 1
      <4>1. u[n - 1] = a /\ P[n] = c
          BY <2>1, <2>2, <3>1
      <4>2. y \in 1 .. Len(c)
          BY <4>1
      <4>3. Len(a) + y <= Len(a) + Len(c)
          BY <2>4, <4>2
      <4> QED BY <2>3, <2>4, <4>1, <4>2, <4>3
    <3>2. CASE n # m + 1
      <4>1. n \in 1 .. m /\ n \in 1 .. N /\ n - 1 \in 0 .. N
          BY <2>1, <3>2
      <4>2. PICK d, e \in Seq(T) : d = u[n - 1] /\ e = P[n]
          BY <1>2, <4>1
      <4>3. Len(d) + y <= Len(a) /\ a[Len(d) + y] = e[y]
          BY <1>5, <2>2, <4>1, <4>2 DEF Stands
      <4>4. y \in 1 .. Len(e) /\ Len(e) \in Nat /\ Len(d) \in Nat
          BY <4>2, TwoTexts
      <4>5. Len(d) + y \in 1 .. Len(a) /\ Len(d) + y <= Len(a) + Len(c)
          BY <2>4, <4>3, <4>4
      <4> QED BY <2>3, <2>4, <4>2, <4>3, <4>5
    <3> QED BY <3>1, <3>2
  <2> QED BY <2>5 DEF Stands
<1> HIDE DEF Stands
<1>6. \A m \in Nat : m \in S => m + 1 \in S
  <2> SUFFICES ASSUME NEW m \in Nat, m \in S, m + 1 <= N PROVE Stands(m + 1)
      OBVIOUS
  <2>1. m <= N
      OBVIOUS
  <2> QED BY <1>5, <2>1
<1> HIDE DEF S
<1>7. \A m \in Nat : m \in S
    BY <1>4, <1>6, SetInduction
<1>8. Stands(N)
    BY <1>7 DEF S
<1> QED BY <1>1, <1>2, <1>3, <1>8 DEF Stands, InPlace

=============================================================================
