---------------------------- MODULE SequenceLemmas ----------------------------
(***************************************************************************)
(* Facts about numbers, about what is defined step by step, and about the  *)
(* elements of sequences, that the proofs of several components need.      *)
(* Induction is stated on sets, and recursive functions on step functions: *)
(* the provers cannot instantiate a theorem about an operator.             *)
(***************************************************************************)
EXTENDS Filters, SequencesExt, SequenceTheorems, WellFoundedInduction, TLAPS

-----------------------------------------------------------------------------
(* Numbers. *)

\* A set of numbers has a least one.
LEMMA LeastNumber ==
  ASSUME NEW T \in SUBSET Nat, T # {}
  PROVE  Min(T) \in T /\ \A n \in T : Min(T) <= n
  <1> DEFINE R == OpToRel(<, Nat)
  <1>1. IsWellFoundedOn(R, Nat)
    BY NatLessThanWellFounded
  <1>2. R = {ss \in Nat \X Nat : ss[1] < ss[2]}
    BY DEF OpToRel
  <1> HIDE DEF R
  <1>3. PICK m \in T : \A n \in T : ~ (<<n, m>> \in R)
    BY <1>1, WFMin, Zenon
  <1>4. ASSUME NEW n \in T PROVE m <= n
    <2>1. n \in Nat /\ m \in Nat
      OBVIOUS
    <2>2. ~(n < m)
      BY <2>1, <1>2, <1>3
    <2> QED
      BY <2>1, <2>2
  <1> QED
    BY <1>4 DEF Min

\* The largest of a set of numbers is its maximum.
LEMMA GreatestNumber ==
  ASSUME NEW T \in SUBSET Nat, NEW m \in T, \A n \in T : n <= m
  PROVE  Max(T) = m
  <1> DEFINE P(x) == x \in T /\ \A y \in T : x >= y
  <1>1. P(m)
    OBVIOUS
  <1>2. \A x : P(x) => x = m
    OBVIOUS
  <1>3. Max(T) = CHOOSE x : P(x)
    BY Zenon DEF Max
  <1> HIDE DEF P
  <1> QED
    BY <1>1, <1>2, <1>3, Zenon

\* Induction up to a number, on the set of the numbers that it is true of.
LEMMA InductionTo ==
  ASSUME NEW N \in Nat, NEW T, 0 \in T, \A n \in 1 .. N : n - 1 \in T => n \in T
  PROVE  \A n \in 0 .. N : n \in T
  <1> SUFFICES ASSUME NEW k \in 0 .. N, k \notin T PROVE FALSE
    OBVIOUS
  <1> DEFINE Rest == {n \in 0 .. N : n \notin T}
  <1>1. Rest \in SUBSET Nat /\ k \in Rest
    OBVIOUS
  <1>2. Min(Rest) \in Rest /\ \A n \in Rest : Min(Rest) <= n
    BY <1>1, LeastNumber
  <1>3. PICK m \in Rest : \A n \in Rest : m <= n
    BY <1>2
  <1>4. m \in 1 .. N
    BY <1>3
  <1>5. m - 1 \notin Rest
    BY <1>3, <1>4
  <1> QED
    BY <1>3, <1>4, <1>5

\* What is defined step by step up to a number, which exists.
Iterates(f, S, N, base, step) ==
    f \in [0 .. N -> S] /\ f[0] = base /\ \A n \in 1 .. N : f[n] = step[n][f[n - 1]]
LEMMA Iteration ==
  ASSUME NEW S, NEW N \in Nat, NEW base \in S, NEW step \in [1 .. N -> [S -> S]]
  PROVE  \E f : Iterates(f, S, N, base, step)
  <1> DEFINE T == {n \in 0 .. N : \E f \in [0 .. n -> S] :
                      f[0] = base /\ \A m \in 1 .. n : f[m] = step[m][f[m - 1]]}
  <1>1. 0 \in T
    <2>1. [m \in 0 .. 0 |-> base] \in [0 .. 0 -> S]
      OBVIOUS
    <2>2. 0 \in 0 .. N /\ \A m \in 1 .. 0 : FALSE
      OBVIOUS
    <2>3. [m \in 0 .. 0 |-> base][0] = base
      OBVIOUS
    <2> QED
      BY <2>1, <2>2, <2>3
  <1>2. ASSUME NEW n \in 1 .. N, n - 1 \in T PROVE n \in T
    <2>1. PICK g \in [0 .. n - 1 -> S] :
            g[0] = base /\ \A m \in 1 .. n - 1 : g[m] = step[m][g[m - 1]]
      BY <1>2
    <2> DEFINE f == [m \in 0 .. n |-> IF m = n THEN step[n][g[n - 1]] ELSE g[m]]
    <2>2. f \in [0 .. n -> S]
      <3>1. g[n - 1] \in S /\ step[n] \in [S -> S]
        OBVIOUS
      <3>2. step[n][g[n - 1]] \in S
        BY <3>1
      <3>3. ASSUME NEW m \in 0 .. n, m # n PROVE g[m] \in S
        BY <3>3
      <3> QED
        BY <3>2, <3>3
    <2>3. f[0] = base
      BY <2>1
    <2>4. ASSUME NEW m \in 1 .. n PROVE f[m] = step[m][f[m - 1]]
      <3>1. m - 1 \in 0 .. n /\ m - 1 # n /\ f[m - 1] = g[m - 1]
        OBVIOUS
      <3>2. CASE m = n
        BY <3>1, <3>2
      <3>3. CASE m # n
        BY <3>1, <3>3, <2>1
      <3> QED
        BY <3>2, <3>3
    <2> HIDE DEF f
    <2> QED
      BY <2>2, <2>3, <2>4
  <1> HIDE DEF T
  <1>3. \A n \in 0 .. N : n \in T
    BY <1>1, <1>2, InductionTo
  <1>4. N \in T
    BY <1>3
  <1> QED
    BY <1>4 DEF T, Iterates

-----------------------------------------------------------------------------
(* Elements. *)

\* The elements of two sequences put together.
LEMMA ElementsOfConcat ==
  ASSUME NEW S, NEW a \in Seq(S), NEW b \in Seq(S)
  PROVE  /\ a \o b \in Seq(S)
         /\ ToSet(a \o b) = ToSet(a) \cup ToSet(b)
  <1> DEFINE c == a \o b
  <1>1. c \in Seq(S) /\ Len(c) = Len(a) + Len(b)
    OBVIOUS
  <1>2. \A i \in 1 .. Len(a) : c[i] = a[i]
    OBVIOUS
  <1>3. \A i \in 1 .. Len(b) : c[Len(a) + i] = b[i]
    OBVIOUS
  <1>4. ToSet(c) \subseteq ToSet(a) \cup ToSet(b)
    <2> SUFFICES ASSUME NEW i \in 1 .. Len(c) PROVE c[i] \in ToSet(a) \cup ToSet(b)
      BY <1>1 DEF ToSet
    <2>1. CASE i <= Len(a)
      BY <2>1, <1>2 DEF ToSet
    <2>2. CASE i > Len(a)
      <3>1. i - Len(a) \in 1 .. Len(b) /\ i = Len(a) + (i - Len(a))
        BY <2>2, <1>1
      <3> QED
        BY <3>1, <1>3 DEF ToSet
    <2> QED
      BY <2>1, <2>2, <1>1
  <1>5. ToSet(a) \subseteq ToSet(c)
    BY <1>1, <1>2 DEF ToSet
  <1>6. ToSet(b) \subseteq ToSet(c)
    <2> HIDE DEF c
    <2> SUFFICES ASSUME NEW i \in 1 .. Len(b) PROVE b[i] \in ToSet(c)
      BY DEF ToSet
    <2>1. Len(a) + i \in 1 .. Len(c)
      BY <1>1
    <2>2. Len(a) + i \in DOMAIN c /\ c[Len(a) + i] = b[i]
      BY <2>1, <1>1, <1>3
    <2> QED
      BY <2>2, Zenon DEF ToSet
  <1> QED
    BY <1>1, <1>4, <1>5, <1>6

\* The elements of a sequence with one more.
LEMMA ElementsOfAppend ==
  ASSUME NEW S, NEW s \in Seq(S), NEW e \in S
  PROVE  Append(s, e) \in Seq(S) /\ ToSet(Append(s, e)) = ToSet(s) \cup {e}
  <1> DEFINE a == Append(s, e)
  <1>1. /\ a \in Seq(S) /\ Len(a) = Len(s) + 1 /\ a[Len(s) + 1] = e
        /\ \A i \in 1 .. Len(s) : a[i] = s[i]
    OBVIOUS
  <1>2. DOMAIN a = 1 .. Len(s) + 1 /\ DOMAIN s = 1 .. Len(s) /\ Len(s) \in Nat
    BY <1>1
  <1> HIDE DEF a
  <1>3. \A i \in 1 .. Len(s) + 1 : i \in 1 .. Len(s) \/ i = Len(s) + 1
    BY <1>2
  <1>4. \A i \in 1 .. Len(s) : i \in 1 .. Len(s) + 1
    BY <1>2
  <1>5. Len(s) + 1 \in 1 .. Len(s) + 1
    BY <1>2
  <1> QED
    BY <1>1, <1>2, <1>3, <1>4, <1>5 DEF ToSet, a

\* The elements of a sequence, its head apart.
LEMMA ElementsOfTail ==
  ASSUME NEW S, NEW s \in Seq(S), s # <<>>
  PROVE  Tail(s) \in Seq(S) /\ ToSet(s) = ToSet(Tail(s)) \cup {s[1]}
  <1> DEFINE r == Tail(s)
             L == Len(r)
  <1>1. /\ r \in Seq(S) /\ L \in Nat /\ DOMAIN r = 1 .. L /\ DOMAIN s = 1 .. L + 1
        /\ \A i \in 1 .. L : r[i] = s[i + 1]
    OBVIOUS
  <1> HIDE DEF r, L
  <1>2. ASSUME NEW i \in 1 .. L + 1 PROVE s[i] \in ToSet(r) \cup {s[1]}
    <2>1. CASE i = 1
      BY <2>1
    <2>2. CASE i # 1
      <3>1. i - 1 \in 1 .. L /\ (i - 1) + 1 = i
        BY <1>1, <2>2
      <3>2. i - 1 \in DOMAIN r /\ r[i - 1] = s[i]
        BY <3>1, <1>1
      <3> QED
        BY <3>2 DEF ToSet
    <2> QED
      BY <2>1, <2>2
  <1>3. ASSUME NEW i \in 1 .. L PROVE r[i] \in ToSet(s)
    <2>1. i + 1 \in DOMAIN s /\ r[i] = s[i + 1]
      BY <1>1
    <2> QED
      BY <2>1 DEF ToSet
  <1>4. 1 \in DOMAIN s
    BY <1>1
  <1>5. s[1] \in ToSet(s)
    BY <1>4 DEF ToSet
  <1>6. ToSet(s) \subseteq ToSet(r) \cup {s[1]}
    BY <1>1, <1>2, Zenon DEF ToSet
  <1>7. ToSet(r) \subseteq ToSet(s)
    BY <1>1, <1>3, Zenon DEF ToSet
  <1>8. ToSet(s) = ToSet(r) \cup {s[1]}
    BY <1>5, <1>6, <1>7
  <1> QED
    BY <1>1, <1>8 DEF r

\* The first n elements that are in the set, for each n, as Among gathers them.
Gathers(f, S, s, set) ==
    /\ f \in [0 .. Len(s) -> Seq(S)]
    /\ f[0] = <<>>
    /\ \A n \in 1 .. Len(s) : f[n] = IF s[n] \in set THEN Append(f[n - 1], s[n]) ELSE f[n - 1]
    /\ Among(s, set) = f[Len(s)]
LEMMA AmongGathers ==
  ASSUME NEW S, NEW s \in Seq(S), NEW set
  PROVE  \E f : Gathers(f, S, s, set)
  <1> DEFINE among == CHOOSE f : f = [n \in 0 .. Len(s) |->
                        IF n = 0 THEN <<>>
                        ELSE IF s[n] \in set THEN Append(f[n - 1], s[n]) ELSE f[n - 1]]
             step == [n \in 1 .. Len(s) |->
                        [x \in Seq(S) |-> IF s[n] \in set THEN Append(x, s[n]) ELSE x]]
  <1>1. Among(s, set) = among[Len(s)]
    BY Zenon DEF Among
  <1>2. among = [n \in 0 .. Len(s) |->
                   IF n = 0 THEN <<>>
                   ELSE IF s[n] \in set THEN Append(among[n - 1], s[n]) ELSE among[n - 1]]
    <2>1. step \in [1 .. Len(s) -> [Seq(S) -> Seq(S)]]
      OBVIOUS
    <2>2. <<>> \in Seq(S) /\ Len(s) \in Nat
      OBVIOUS
    <2>3. PICK f \in [0 .. Len(s) -> Seq(S)] :
            f[0] = <<>> /\ \A n \in 1 .. Len(s) : f[n] = step[n][f[n - 1]]
      <3> DEFINE none == <<>>
                 N == Len(s)
                 Q == Seq(S)
      <3>1. none \in Q /\ N \in Nat /\ step \in [1 .. N -> [Q -> Q]]
        BY <2>1, <2>2
      <3> HIDE DEF step, none, N, Q
      <3>2. PICK f : Iterates(f, Q, N, none, step)
        BY <3>1, Iteration, Zenon
      <3> QED
        BY <3>2 DEF none, N, Q, Iterates
    <2>4. ASSUME NEW n \in 1 .. Len(s)
          PROVE  f[n] = IF s[n] \in set THEN Append(f[n - 1], s[n]) ELSE f[n - 1]
      <3>1. f[n - 1] \in Seq(S)
        OBVIOUS
      <3> QED
        BY <2>3, <3>1
    <2>5. f = [n \in 0 .. Len(s) |->
                 IF n = 0 THEN <<>>
                 ELSE IF s[n] \in set THEN Append(f[n - 1], s[n]) ELSE f[n - 1]]
      <3>1. ASSUME NEW n \in 0 .. Len(s)
            PROVE  f[n] = IF n = 0 THEN <<>>
                          ELSE IF s[n] \in set THEN Append(f[n - 1], s[n]) ELSE f[n - 1]
        <4>1. n = 0 \/ n \in 1 .. Len(s)
          OBVIOUS
        <4>2. n \in 1 .. Len(s) => n # 0
          OBVIOUS
        <4> QED
          BY <4>1, <4>2, <2>3, <2>4, Zenon
      <3>2. f = [n \in 0 .. Len(s) |-> f[n]]
        OBVIOUS
      <3> QED
        BY <3>1, <3>2, Zenon
    <2> QED
      BY <2>5, Zenon
  <1> HIDE DEF among, step
  <1>3. among[0] = <<>>
    BY <1>2
  <1>4. ASSUME NEW n \in 1 .. Len(s)
        PROVE  among[n] = IF s[n] \in set THEN Append(among[n - 1], s[n]) ELSE among[n - 1]
    <2>1. n \in 0 .. Len(s) /\ n # 0
      OBVIOUS
    <2> QED
      BY <2>1, <1>2, Zenon
  <1>5. among \in [0 .. Len(s) -> Seq(S)]
    <2> DEFINE T == {n \in 0 .. Len(s) : among[n] \in Seq(S)}
    <2>1. 0 \in T
      <3>1. among[0] \in Seq(S) /\ 0 \in 0 .. Len(s)
        BY <1>3
      <3> QED
        BY <3>1
    <2>2. ASSUME NEW n \in 1 .. Len(s), n - 1 \in T PROVE n \in T
      <3>1. Append(among[n - 1], s[n]) \in Seq(S) /\ among[n - 1] \in Seq(S)
        BY <2>2
      <3>2. among[n] \in Seq(S)
        BY <1>4, <3>1
      <3> QED
        BY <3>2
    <2> HIDE DEF T
    <2>3. \A n \in 0 .. Len(s) : n \in T
      <3> DEFINE N == Len(s)
      <3>1. N \in Nat /\ \A n \in 1 .. N : n - 1 \in T => n \in T
        BY <2>2
      <3> HIDE DEF N
      <3>2. \A n \in 0 .. N : n \in T
        BY <2>1, <3>1, InductionTo, Zenon
      <3> QED
        BY <3>2 DEF N
    <2>4. \A n \in 0 .. Len(s) : among[n] \in Seq(S)
      BY <2>3 DEF T
    <2>5. DOMAIN among = 0 .. Len(s) /\ among = [n \in DOMAIN among |-> among[n]]
      BY <1>2, Zenon
    <2> QED
      BY <2>4, <2>5, Zenon
  <1>6. Gathers(among, S, s, set)
    BY <1>1, <1>3, <1>4, <1>5 DEF Gathers
  <1> QED
    BY <1>6

\* It keeps the elements that are in the set, each as often as it is there.
LEMMA AmongElements ==
  ASSUME NEW S, NEW s \in Seq(S), NEW set
  PROVE  Among(s, set) \in Seq(S) /\ ToSet(Among(s, set)) = ToSet(s) \cap set
  <1>1. PICK among : Gathers(among, S, s, set)
    BY AmongGathers
  <1>3. among[0] = <<>> /\ Among(s, set) = among[Len(s)]
    BY <1>1 DEF Gathers
  <1>4. ASSUME NEW n \in 1 .. Len(s)
        PROVE  among[n] = IF s[n] \in set THEN Append(among[n - 1], s[n]) ELSE among[n - 1]
    BY <1>1 DEF Gathers
  <1> DEFINE upTo(n) == {s[i] : i \in 1 .. n}
             T == {n \in 0 .. Len(s) : among[n] \in Seq(S) /\ ToSet(among[n]) = upTo(n) \cap set}
  <1>5. 0 \in T
    <2>1. ToSet(among[0]) = {} /\ upTo(0) = {} /\ among[0] \in Seq(S) /\ 0 \in 0 .. Len(s)
      BY <1>3 DEF ToSet
    <2> HIDE DEF upTo
    <2> QED
      BY <2>1
  <1>6. ASSUME NEW n \in 1 .. Len(s), n - 1 \in T PROVE n \in T
    <2>1. among[n - 1] \in Seq(S) /\ ToSet(among[n - 1]) = upTo(n - 1) \cap set
      BY <1>6
    <2>2. upTo(n) = upTo(n - 1) \cup {s[n]} /\ s[n] \in S
      OBVIOUS
    <2> HIDE DEF upTo
    <2>3. ASSUME s[n] \in set PROVE among[n] \in Seq(S) /\ ToSet(among[n]) = upTo(n) \cap set
      <3>1. among[n] = Append(among[n - 1], s[n])
        BY <1>4, <2>3
      <3>2. Append(among[n - 1], s[n]) \in Seq(S)
            /\ ToSet(Append(among[n - 1], s[n])) = ToSet(among[n - 1]) \cup {s[n]}
        BY <2>1, <2>2, ElementsOfAppend
      <3> QED
        BY <3>1, <3>2, <2>1, <2>2, <2>3
    <2>4. ASSUME s[n] \notin set PROVE among[n] \in Seq(S) /\ ToSet(among[n]) = upTo(n) \cap set
      BY <1>4, <2>1, <2>2, <2>4
    <2>5. n \in 0 .. Len(s)
      OBVIOUS
    <2> QED
      BY <2>3, <2>4, <2>5
  <1> HIDE DEF T
  <1>7. \A n \in 0 .. Len(s) : n \in T
    <2> DEFINE N == Len(s)
    <2>1. N \in Nat /\ \A n \in 1 .. N : n - 1 \in T => n \in T
      BY <1>6
    <2> HIDE DEF N
    <2>2. \A n \in 0 .. N : n \in T
      BY <1>5, <2>1, InductionTo, Zenon
    <2> QED
      BY <2>2 DEF N
  <1>8. upTo(Len(s)) = ToSet(s)
    BY DEF ToSet
  <1>9. among[Len(s)] \in Seq(S) /\ ToSet(among[Len(s)]) = upTo(Len(s)) \cap set
    <2> HIDE DEF upTo
    <2> QED
      BY <1>7 DEF T
  <1> QED
    BY <1>3, <1>8, <1>9

\* A first element that is in the set stays the first.
LEMMA AmongFirst ==
  ASSUME NEW S, NEW s \in Seq(S), s # <<>>, NEW set, s[1] \in set
  PROVE  1 \in DOMAIN Among(s, set) /\ Among(s, set)[1] = s[1]
  <1>1. PICK among : Gathers(among, S, s, set)
    BY AmongGathers
  <1> DEFINE N == Len(s)
             First(a) == Len(a) >= 1 /\ a[1] = s[1]
             T == {n \in 0 .. N : n = 0 \/ First(among[n])}
  <1>2. N \in Nat \ {0} /\ s[1] \in S
    OBVIOUS
  <1>3. /\ among \in [0 .. N -> Seq(S)] /\ among[0] = <<>> /\ Among(s, set) = among[N]
        /\ \A n \in 1 .. N : among[n] = IF s[n] \in set THEN Append(among[n - 1], s[n]) ELSE among[n - 1]
    BY <1>1 DEF Gathers
  <1>4. \A n \in 1 .. N : s[n] \in S
    OBVIOUS
  <1>5. 0 \in T
    BY <1>2
  <1>6. ASSUME NEW n \in 1 .. N, n - 1 \in T PROVE n \in T
    <2>0. n \in 0 .. N /\ n - 1 \in 0 .. N
      BY <1>2
    <2>1. n \in 0 .. N /\ n - 1 \in 0 .. N /\ among[n - 1] \in Seq(S)
      BY <1>3, <2>0
    <2>2. CASE n = 1
      <3>1. among[n - 1] = <<>> /\ s[n] = s[1]
        BY <1>3, <2>2
      <3>2. among[n] = Append(<<>>, s[1])
        BY <1>3, <3>1
      <3>3. First(Append(<<>>, s[1]))
        BY <1>2
      <3> QED
        BY <2>1, <3>2, <3>3, Zenon
    <2>3. CASE n # 1
      <3>1. First(among[n - 1])
        BY <1>6, <2>3
      <3>2. First(Append(among[n - 1], s[n]))
        BY <1>4, <2>1, <3>1
      <3>3. First(among[n])
        BY <1>3, <3>1, <3>2
      <3> QED
        BY <2>1, <3>3
    <2> QED
      BY <2>2, <2>3
  <1> HIDE DEF T
  <1>7. \A n \in 0 .. N : n \in T
    <2> HIDE DEF N
    <2> QED
      BY <1>2, <1>5, <1>6, InductionTo
  <1>8. First(among[N])
    <2>1. N \in T /\ N # 0
      BY <1>2, <1>7
    <2> QED
      BY <2>1 DEF T
  <1>9. among[N] \in Seq(S)
    BY <1>2, <1>3
  <1> QED
    BY <1>3, <1>8, <1>9

\* Of different elements it keeps different ones.
LEMMA AmongApart ==
  ASSUME NEW S, NEW s \in Seq(S), NEW set, \A i, j \in DOMAIN s : s[i] = s[j] => i = j
  PROVE  \A i, j \in DOMAIN Among(s, set) : Among(s, set)[i] = Among(s, set)[j] => i = j
  <1>1. PICK among : Gathers(among, S, s, set)
    BY AmongGathers
  <1> DEFINE Apart(f) == \A i, j \in DOMAIN f : f[i] = f[j] => i = j
             Known(n) == \A i \in DOMAIN among[n] : \E k \in 1 .. n : among[n][i] = s[k]
             T == {n \in 0 .. Len(s) : Apart(among[n]) /\ Known(n)}
  <1>2. 0 \in T
    <2>1. DOMAIN among[0] = {} /\ 0 \in 0 .. Len(s)
      BY <1>1 DEF Gathers
    <2> QED
      BY <2>1
  <1>3. ASSUME NEW n \in 1 .. Len(s), n - 1 \in T PROVE n \in T
    <2> DEFINE old == among[n - 1]
               new == Append(old, s[n])
    <2>1. old \in Seq(S) /\ s[n] \in S /\ n \in 0 .. Len(s) /\ n - 1 \in 0 .. Len(s)
      BY <1>1 DEF Gathers
    <2>2. Apart(old) /\ Known(n - 1)
      BY <1>3
    <2>3. among[n] = IF s[n] \in set THEN new ELSE old
      BY <1>1 DEF Gathers
    <2>4. \A k \in 1 .. n - 1 : k \in 1 .. n /\ s[k] # s[n]
      OBVIOUS
    <2> HIDE DEF old
    <2>5. CASE s[n] \in set
      <3>1. /\ DOMAIN new = 1 .. Len(old) + 1 /\ DOMAIN old = 1 .. Len(old) /\ Len(old) \in Nat
            /\ new[Len(old) + 1] = s[n] /\ \A i \in 1 .. Len(old) : new[i] = old[i]
        BY <2>1
      <3>2. among[n] = new
        BY <2>3, <2>5
      <3>3. \A i \in 1 .. Len(old) : \E k \in 1 .. n - 1 : old[i] = s[k]
        BY <2>2, <3>1 DEF old
      <3> HIDE DEF new
      <3>4. \A i \in 1 .. Len(old) : new[i] # s[n]
        BY <2>4, <3>1, <3>3
      <3>5. \A i \in DOMAIN new : i \in 1 .. Len(old) \/ i = Len(old) + 1
        BY <3>1
      <3>6. Apart(new)
        BY <2>2, <3>1, <3>4, <3>5
      <3>7. Known(n)
        BY <2>4, <3>1, <3>2, <3>3, <3>5
      <3> QED
        BY <2>1, <3>2, <3>6, <3>7
    <2>6. CASE s[n] \notin set
      <3>1. among[n] = old
        BY <2>3, <2>6
      <3>2. Known(n)
        BY <2>2, <2>4, <3>1 DEF old
      <3> QED
        BY <2>1, <2>2, <3>1, <3>2
    <2> QED
      BY <2>5, <2>6
  <1> DEFINE N == Len(s)
  <1>4. N \in Nat /\ \A n \in 1 .. N : n - 1 \in T => n \in T
    BY <1>3
  <1> HIDE DEF N, T
  <1>5. \A n \in 0 .. N : n \in T
    BY <1>2, <1>4, InductionTo, Zenon
  <1>6. N \in T
    BY <1>4, <1>5
  <1> QED
    BY <1>1, <1>6 DEF T, N, Gathers

\* Deleting an entry adds none.
LEMMA ElementsOfRemoval ==
  ASSUME NEW S, NEW s \in Seq(S), NEW i \in DOMAIN s
  PROVE  RemoveAt(s, i) \in Seq(S) /\ ToSet(RemoveAt(s, i)) \subseteq ToSet(s)
  <1> DEFINE a == SubSeq(s, 1, i - 1)
             b == SubSeq(s, i + 1, Len(s))
  <1>1. a \in Seq(S) /\ Len(a) = i - 1 /\ \A k \in 1 .. Len(a) : a[k] = s[k]
    OBVIOUS
  <1>2. b \in Seq(S) /\ Len(b) = Len(s) - i /\ \A k \in 1 .. Len(b) : b[k] = s[i + k]
    OBVIOUS
  <1> HIDE DEF a, b
  <1>3. ToSet(a) \subseteq ToSet(s)
    <2> SUFFICES ASSUME NEW k \in 1 .. Len(a) PROVE a[k] \in ToSet(s)
      BY <1>1 DEF ToSet
    <2>1. k \in 1 .. Len(s)
      BY <1>1
    <2> QED
      BY <1>1, <2>1 DEF ToSet
  <1>5. ToSet(b) \subseteq ToSet(s)
    <2> SUFFICES ASSUME NEW k \in 1 .. Len(b) PROVE b[k] \in ToSet(s)
      BY <1>2 DEF ToSet
    <2>1. i + k \in 1 .. Len(s)
      BY <1>2
    <2>2. i + k \in DOMAIN s /\ b[k] = s[i + k]
      BY <1>2, <2>1
    <2> QED
      BY <2>2, Zenon DEF ToSet
  <1>4. a \o b \in Seq(S) /\ ToSet(a \o b) = ToSet(a) \cup ToSet(b)
    BY <1>1, <1>2, ElementsOfConcat
  <1> QED
    BY <1>3, <1>4, <1>5 DEF RemoveAt, a, b

\* Deleting an entry keeps the others.
LEMMA ElementsLeft ==
  ASSUME NEW S, NEW s \in Seq(S), NEW n \in DOMAIN s
  PROVE  /\ RemoveAt(s, n) \in Seq(S)
         /\ ToSet(s) \ {s[n]} \subseteq ToSet(RemoveAt(s, n))
  <1> DEFINE a == SubSeq(s, 1, n - 1)
             b == SubSeq(s, n + 1, Len(s))
             c == a \o b
  <1>1. n \in 1 .. Len(s) /\ Len(s) \in Nat /\ DOMAIN s = 1 .. Len(s)
    OBVIOUS
  <1>0. \A k \in 1 .. Len(s) : s[k] \in S
    OBVIOUS
  <1>2. a \in Seq(S) /\ Len(a) = n - 1 /\ \A k \in 1 .. Len(a) : a[k] = s[k]
    BY <1>0, <1>1, SubSeqProperties
  <1>3. b \in Seq(S) /\ Len(b) = Len(s) - n /\ \A k \in 1 .. Len(b) : b[k] = s[n + k]
    BY <1>0, <1>1, SubSeqProperties
  <1> HIDE DEF a, b
  <1>4. /\ c \in Seq(S) /\ Len(c) = Len(a) + Len(b) /\ DOMAIN c = 1 .. Len(c)
        /\ \A k \in 1 .. Len(a) : c[k] = a[k]
        /\ \A k \in 1 .. Len(b) : c[Len(a) + k] = b[k]
    <2>1. a \in Seq(S) /\ b \in Seq(S)
      BY <1>2, <1>3
    <2> QED
      BY <2>1, ConcatProperties
  <1> HIDE DEF c
  <1>5. ASSUME NEW k \in 1 .. Len(s), k # n PROVE s[k] \in ToSet(c)
    <2>1. CASE k < n
      <3>1. k \in 1 .. Len(a) /\ k \in DOMAIN c
        BY <2>1, <1>1, <1>2, <1>3, <1>4
      <3> QED
        BY <3>1, <1>2, <1>4 DEF ToSet
    <2>2. CASE k > n
      <3> DEFINE i == k - n
      <3>1. i \in 1 .. Len(b) /\ Len(a) + i \in 1 .. Len(c) /\ n + i = k
        BY <2>2, <1>1, <1>2, <1>3, <1>4
      <3> HIDE DEF i
      <3>2. c[Len(a) + i] = s[k]
        BY <3>1, <1>3, <1>4
      <3> QED
        BY <3>1, <3>2, <1>4 DEF ToSet
    <2> QED
      BY <1>5, <2>1, <2>2, <1>1
  <1>6. ToSet(s) \ {s[n]} \subseteq ToSet(c)
    BY <1>1, <1>5 DEF ToSet
  <1> QED
    BY <1>4, <1>6 DEF RemoveAt, a, b, c
\* The first n parts joined, for each n, as FlattenSeq joins them.
Joins(f, S, parts) ==
    /\ f \in [0 .. Len(parts) -> Seq(S)]
    /\ f[0] = <<>>
    /\ \A n \in 1 .. Len(parts) : f[n] = f[n - 1] \o parts[n]
    /\ FlattenSeq(parts) = f[Len(parts)]
LEMMA FlattenJoins ==
  ASSUME NEW S, NEW parts \in Seq(Seq(S))
  PROVE  \E f : Joins(f, S, parts)
  <1> DEFINE N == Len(parts)
             Q == Seq(S)
             none == <<>>
             flatten == CHOOSE f : f = [i \in 1 .. N |->
                            IF i = 1 THEN parts[i] ELSE f[i - 1] \o parts[i]]
             step == [n \in 1 .. N |-> [x \in Q |-> x \o parts[n]]]
  <1>1. N \in Nat /\ none \in Q /\ (\A n \in 1 .. N : parts[n] \in Q) /\ \A x, y \in Q : x \o y \in Q
    OBVIOUS
  <1>2. PICK f : Iterates(f, Q, N, none, step)
    <2>1. step \in [1 .. N -> [Q -> Q]]
      <3> HIDE DEF Q, N
      <3> QED
        BY <1>1
    <2> HIDE DEF step, N, Q, none
    <2> QED
      BY <1>1, <2>1, Iteration, Zenon
  <1>3. f \in [0 .. N -> Q] /\ f[0] = <<>>
    BY <1>2 DEF Iterates
  <1>4. ASSUME NEW n \in 1 .. N PROVE n - 1 \in 0 .. N /\ n \in 0 .. N /\ f[n] = f[n - 1] \o parts[n]
    <2> HIDE DEF Q, N
    <2>1. n - 1 \in 0 .. N /\ n \in 0 .. N
      BY <1>1
    <2>2. f[n - 1] \in Q
      BY <1>3, <2>1
    <2>3. f[n] = step[n][f[n - 1]]
      BY <1>2 DEF Iterates
    <2> QED
      BY <2>1, <2>2, <2>3
  <1>5. CASE N = 0
    <2>1. parts = <<>>
      BY <1>5
    <2>2. FlattenSeq(parts) = parts
      BY <1>5 DEF FlattenSeq
    <2>3. FlattenSeq(parts) = f[N]
      BY <1>3, <1>5, <2>1, <2>2
    <2> QED
      BY <1>3, <1>4, <2>3 DEF Joins
  <1>6. CASE N # 0
    <2>1. FlattenSeq(parts) = flatten[N]
      BY <1>6, Zenon DEF FlattenSeq
    <2> DEFINE g == [n \in 1 .. N |-> f[n]]
    <2>2. f[1] = parts[1]
      <3>1. 1 \in 1 .. N /\ parts[1] \in Q
        BY <1>1, <1>6
      <3>2. f[1] = f[1 - 1] \o parts[1]
        <4> HIDE DEF N, Q
        <4> QED
          BY <1>4, <3>1, Zenon
      <3>3. f[1] = <<>> \o parts[1]
        <4>1. f[1 - 1] = <<>>
          BY <1>3
        <4> QED
          BY <3>2, <4>1, Zenon
      <3> QED
        BY <3>1, <3>3
    <2>3. g = [i \in 1 .. N |-> IF i = 1 THEN parts[i] ELSE g[i - 1] \o parts[i]]
      <3> HIDE DEF N
      <3>1. ASSUME NEW n \in 1 .. N
            PROVE  g[n] = (IF n = 1 THEN parts[n] ELSE g[n - 1] \o parts[n])
        <4>1. CASE n = 1
          BY <2>2, <4>1
        <4>2. CASE n # 1
          <5>1. n - 1 \in 1 .. N
            BY <1>1, <4>2
          <5>2. g[n - 1] = f[n - 1] /\ g[n] = f[n]
            BY <5>1
          <5> QED
            BY <1>4, <4>2, <5>2
        <4> QED
          BY <4>1, <4>2
      <3>2. g = [n \in 1 .. N |-> g[n]]
        OBVIOUS
      <3> HIDE DEF g
      <3> QED
        BY <3>1, <3>2, Zenon
    <2>4. flatten = [i \in 1 .. N |-> IF i = 1 THEN parts[i] ELSE flatten[i - 1] \o parts[i]]
      <3> HIDE DEF g, N
      <3> QED
        BY <2>3, Zenon
    <2> HIDE DEF flatten, g
    <2> DEFINE T == {n \in 0 .. N : n # 0 => flatten[n] = f[n]}
    <2>5. 0 \in T
      BY <1>1
    <2>6. ASSUME NEW n \in 1 .. N, n - 1 \in T PROVE n \in T
      <3> HIDE DEF N
      <3>1. flatten[n] = IF n = 1 THEN parts[n] ELSE flatten[n - 1] \o parts[n]
        BY <2>4, Zenon
      <3>2. n \in 0 .. N /\ n \in Nat /\ f[n] = f[n - 1] \o parts[n]
        <4>1. n \in 0 .. N /\ f[n] = f[n - 1] \o parts[n]
          BY <1>4, Zenon
        <4> QED
          BY <1>1, <4>1
      <3>3. CASE n = 1
        BY <2>2, <3>1, <3>2, <3>3
      <3>4. CASE n # 1
        <4>1. flatten[n - 1] = f[n - 1]
          BY <2>6, <3>2, <3>4
        <4> QED
          BY <3>1, <3>2, <3>4, <4>1
      <3> QED
        BY <3>3, <3>4
    <2> HIDE DEF T
    <2>7. \A n \in 0 .. N : n \in T
      <3> HIDE DEF N
      <3> QED
        BY <1>1, <2>5, <2>6, InductionTo, Zenon
    <2>8. N \in 0 .. N
      BY <1>1
    <2>9. flatten[N] = f[N]
      <3> HIDE DEF N
      <3> QED
        BY <2>7, <2>8, <1>6 DEF T
    <2> QED
      BY <1>3, <1>4, <2>1, <2>9 DEF Joins
  <1> QED
    BY <1>5, <1>6

\* What FlattenSeq puts together has the elements of the parts.
LEMMA ElementsOfFlattened ==
  ASSUME NEW S, NEW parts \in Seq(Seq(S))
  PROVE  /\ FlattenSeq(parts) \in Seq(S)
         /\ ToSet(FlattenSeq(parts)) = UNION {ToSet(parts[i]) : i \in 1 .. Len(parts)}
  <1> DEFINE N == Len(parts)
             upTo(n) == UNION {ToSet(parts[i]) : i \in 1 .. n}
  <1>1. PICK f : Joins(f, S, parts)
    BY FlattenJoins
  <1>2. /\ f \in [0 .. N -> Seq(S)] /\ f[0] = <<>> /\ FlattenSeq(parts) = f[N]
        /\ \A n \in 1 .. N : f[n] = f[n - 1] \o parts[n]
    BY <1>1, Zenon DEF Joins
  <1>20. N \in Nat /\ \A n \in 1 .. N : parts[n] \in Seq(S)
    OBVIOUS
  <1> DEFINE T == {n \in 0 .. N : ToSet(f[n]) = upTo(n)}
  <1> HIDE DEF N
  <1>3. 0 \in T
    <2>1. ToSet(f[0]) = {} /\ 0 \in 0 .. N /\ upTo(0) = {}
      BY <1>2, <1>20 DEF ToSet
    <2> QED
      BY <2>1
  <1>4. ASSUME NEW n \in 1 .. N, n - 1 \in T PROVE n \in T
    <2>1. n \in 0 .. N /\ n - 1 \in 0 .. N /\ ToSet(f[n - 1]) = upTo(n - 1)
      BY <1>2, <1>20, <1>4
    <2>2. ToSet(f[n]) = ToSet(f[n - 1]) \cup ToSet(parts[n])
      <3>1. f[n - 1] \in Seq(S) /\ parts[n] \in Seq(S) /\ f[n] = f[n - 1] \o parts[n]
        BY <1>2, <1>20, <2>1
      <3>2. ToSet(f[n - 1] \o parts[n]) = ToSet(f[n - 1]) \cup ToSet(parts[n])
        BY <3>1, ElementsOfConcat
      <3> QED
        BY <3>1, <3>2
    <2>3. \A i : i \in 1 .. n <=> i \in 1 .. n - 1 \/ i = n
      BY <1>20
    <2>4. upTo(n) = upTo(n - 1) \cup ToSet(parts[n])
      BY <2>3
    <2> HIDE DEF upTo
    <2> QED
      BY <2>1, <2>2, <2>4
  <1> HIDE DEF T
  <1>5. \A n \in 0 .. N : n \in T
    BY <1>20, <1>3, <1>4, InductionTo, Zenon
  <1>6. N \in 0 .. N
    BY <1>20
  <1>7. FlattenSeq(parts) \in Seq(S) /\ ToSet(FlattenSeq(parts)) = upTo(N)
    <2> HIDE DEF upTo
    <2> QED
      BY <1>2, <1>5, <1>6 DEF T
  <1> QED
    BY <1>7 DEF N

-----------------------------------------------------------------------------
(* Lists, of whatever elements. *)

\* Two lists joined.
LEMMA ListsJoined ==
  ASSUME NEW a, NEW b, IsSequence(a), IsSequence(b)
  PROVE  IsSequence(a \o b) /\ ToSet(a \o b) = ToSet(a) \cup ToSet(b)
  <1> DEFINE S == ToSet(a) \cup ToSet(b)
  <1>1. a \in Seq(ToSet(a)) /\ b \in Seq(ToSet(b))
    BY DEF IsSequence
  <1>2. ToSet(a) \subseteq S /\ ToSet(b) \subseteq S
    OBVIOUS
  <1>3. a \in Seq(S) /\ b \in Seq(S)
    <2> DEFINE A == ToSet(a)
               B == ToSet(b)
    <2> HIDE DEF A, B, S
    <2>1. A \subseteq S /\ B \subseteq S /\ a \in Seq(A) /\ b \in Seq(B)
      BY <1>1, <1>2 DEF A, B
    <2> QED
      BY <2>1, SeqMonotonic
  <1>4. a \o b \in Seq(S) /\ ToSet(a \o b) = S
    <2> HIDE DEF S
    <2>1. a \o b \in Seq(S) /\ ToSet(a \o b) = ToSet(a) \cup ToSet(b)
      BY <1>3, ElementsOfConcat
    <2> QED
      BY <2>1 DEF S
  <1> QED
    BY <1>4 DEF IsSequence

\* Lists put together.
LEMMA ListsFlattened ==
  ASSUME NEW N \in Nat, NEW parts, DOMAIN parts = 1 .. N, parts = [n \in 1 .. N |-> parts[n]],
         \A n \in 1 .. N : IsSequence(parts[n])
  PROVE  /\ IsSequence(FlattenSeq(parts))
         /\ ToSet(FlattenSeq(parts)) = UNION {ToSet(parts[n]) : n \in 1 .. N}
  <1> DEFINE S == UNION {ToSet(parts[n]) : n \in 1 .. N}
  <1>1. ASSUME NEW n \in 1 .. N PROVE parts[n] \in Seq(S)
    <2> DEFINE A == ToSet(parts[n])
    <2>1. A \subseteq S /\ parts[n] \in Seq(A)
      BY DEF IsSequence
    <2> HIDE DEF A, S
    <2> QED
      BY <2>1, SeqMonotonic
  <1> HIDE DEF S
  <1>2. parts \in [1 .. N -> Seq(S)]
    BY <1>1, Zenon
  <1>3. parts \in Seq(Seq(S)) /\ Len(parts) = N
    BY <1>2
  <1>4. FlattenSeq(parts) \in Seq(S) /\ ToSet(FlattenSeq(parts)) = S
    <2>1. /\ FlattenSeq(parts) \in Seq(S)
          /\ ToSet(FlattenSeq(parts)) = UNION {ToSet(parts[i]) : i \in 1 .. Len(parts)}
      BY <1>3, ElementsOfFlattened
    <2> QED
      BY <2>1, <1>3 DEF S
  <1> QED
    BY <1>4 DEF IsSequence, S

\* A list of results, one for each number.
LEMMA ListOfResults ==
  ASSUME NEW N \in Nat, NEW f, f = [n \in 1 .. N |-> f[n]]
  PROVE  IsSequence(f) /\ DOMAIN f = 1 .. N /\ Len(f) = N
  <1> DEFINE S == ToSet(f)
  <1>1. DOMAIN f = 1 .. N
    BY Zenon
  <1>2. \A n \in 1 .. N : f[n] \in S
    BY <1>1 DEF ToSet
  <1> HIDE DEF S
  <1>3. f \in [1 .. N -> S]
    BY <1>2, Zenon
  <1>4. f \in Seq(S) /\ Len(f) = N
    BY <1>1, <1>3
  <1> QED
    BY <1>1, <1>4 DEF IsSequence, S

LEMMA ListDomain ==
  ASSUME NEW s, IsSequence(s)
  PROVE  Len(s) \in Nat /\ DOMAIN s = 1 .. Len(s)
  BY DEF IsSequence

\* The comprehension of a list is a list.
LEMMA AmongLists ==
  ASSUME NEW s, IsSequence(s), NEW set
  PROVE  IsSequence(Among(s, set)) /\ ToSet(Among(s, set)) = ToSet(s) \cap set
  <1> DEFINE S == ToSet(s)
             a == Among(s, set)
             N == Len(a)
  <1>1. s \in Seq(S)
    BY DEF IsSequence
  <1>2. a \in Seq(S) /\ ToSet(a) = ToSet(s) \cap set
    <2> HIDE DEF S
    <2> QED
      BY <1>1, AmongElements
  <1> HIDE DEF a, S
  <1>3. N \in Nat /\ a = [n \in 1 .. N |-> a[n]]
    BY <1>2
  <1>4. IsSequence(a)
    <2> HIDE DEF N
    <2> QED
      BY <1>3, ListOfResults
  <1> QED
    BY <1>2, <1>4 DEF a
=============================================================================
