---------------------------- MODULE IntervalProofs ----------------------------
(* The facts behind every search for the first or the last position with     *)
(* some property: get and getType walk the scopes from the innermost, bison's *)
(* recovery unwinds the stack from its top, flex reads on up to the first    *)
(* character that cannot go on with a lexeme.                                *)
EXTENDS Naturals, WellFoundedInduction, TLAPS

LEMMA SmallestExists ==
  ASSUME NEW S \in SUBSET Nat, S # {}
  PROVE  \E i \in S : \A j \in S : i <= j
<1>1. PICK m \in S : \A t \in S : ~(<<t, m>> \in OpToRel(<, Nat))
  BY NatLessThanWellFounded, WFMin
<1>2. \A t \in S : ~(t < m)
  BY <1>1 DEF OpToRel
<1> QED
  BY <1>2

LEMMA LargestExists ==
  ASSUME NEW k \in Nat, NEW S \in SUBSET (1 .. k), S # {}
  PROVE  \E i \in S : \A j \in S : j <= i
<1> DEFINE T == {k - i : i \in S}
<1>1. \A i \in S : i \in 1 .. k /\ i \in Int /\ k - i \in Nat
  OBVIOUS
<1>2. T \subseteq Nat /\ T # {}
  BY <1>1
<1>3. PICK m \in T : \A t \in T : m <= t
  <2> HIDE DEF T
  <2> QED
    BY <1>2, SmallestExists
<1>4. PICK i \in S : m = k - i
  OBVIOUS
<1>5. ASSUME NEW j \in S PROVE j <= i
  <2>1. k - j \in T
    OBVIOUS
  <2>2. k - i <= k - j
    BY <1>3, <1>4, <2>1
  <2> QED
    BY <1>1, <2>2
<1> QED
  BY <1>5

(* What is defined from its value one position further down has a value: the *)
(* recursive definitions of Lexer and Compiler follow a text and a list from *)
(* their beginning.                                                          *)
UpTo(n, S, s, T) == {g \in [0 .. n -> S] : g[0] = s /\ \A i \in 1 .. n : g[i] = T[i][g[i - 1]]}

LEMMA UpToExists ==
  ASSUME NEW S, NEW s \in S, NEW T \in [Nat -> [S -> S]], NEW n \in Nat
  PROVE  UpTo(n, S, s, T) # {}
<1> DEFINE Bad == {m \in Nat : UpTo(m, S, s, T) = {}}
<1>1. SUFFICES ASSUME Bad # {} PROVE FALSE
  OBVIOUS
<1>2. PICK m \in Bad : \A k \in Bad : m <= k
  BY <1>1, SmallestExists
<1>3. CASE m = 0
  <2> DEFINE g == [i \in 0 .. 0 |-> s]
  <2>1. g \in UpTo(0, S, s, T)
    BY DEF UpTo
  <2> QED
    BY <1>2, <1>3, <2>1
<1>4. CASE m # 0
  <2>1. m \in Nat /\ m - 1 \in Nat /\ UpTo(m - 1, S, s, T) # {}
    <3>1. m \in Nat /\ m - 1 \in Nat /\ ~(m <= m - 1)
      BY <1>2, <1>4
    <3> QED
      BY <1>2, <3>1
  <2>2. PICK g : g \in UpTo(m - 1, S, s, T)
    BY <2>1
  <2> DEFINE h == [i \in 0 .. m |-> IF i < m THEN g[i] ELSE T[m][g[m - 1]]]
  <2>3. g \in [0 .. m - 1 -> S] /\ g[0] = s
        /\ \A i \in 1 .. m - 1 : g[i] = T[i][g[i - 1]]
    BY <2>2 DEF UpTo
  <2>4. h \in [0 .. m -> S]
    <3>1. T[m][g[m - 1]] \in S
      BY <2>1, <2>3
    <3> QED
      BY <2>1, <2>3, <3>1
  <2>5. h[0] = s
    BY <1>4, <2>1, <2>3
  <2>6. ASSUME NEW i \in 1 .. m PROVE h[i] = T[i][h[i - 1]]
    <3>1. i - 1 \in 0 .. m /\ i - 1 < m /\ i - 1 \in 0 .. m - 1
      BY <2>1
    <3>2. h[i - 1] = g[i - 1]
      BY <3>1
    <3>3. CASE i < m
      BY <2>1, <2>3, <3>2, <3>3
    <3>4. CASE i = m
      BY <2>1, <3>2, <3>4
    <3> QED
      BY <2>1, <3>3, <3>4
  <2> HIDE DEF h
  <2>7. h \in UpTo(m, S, s, T)
    BY <2>4, <2>5, <2>6 DEF UpTo
  <2> QED
    BY <1>2, <2>7
<1> QED
  BY <1>3, <1>4

LEMMA UpToUnique ==
  ASSUME NEW S, NEW s, NEW T, NEW n \in Nat, NEW m \in Nat,
         NEW g \in UpTo(n, S, s, T), NEW h \in UpTo(m, S, s, T), NEW i \in 0 .. n, i <= m
  PROVE  g[i] = h[i]
<1> DEFINE Bad == {k \in 0 .. n : k <= m /\ g[k] # h[k]}
<1>1. SUFFICES ASSUME Bad # {} PROVE FALSE
  OBVIOUS
<1>2. Bad \in SUBSET Nat
  OBVIOUS
<1>3. PICK k \in Bad : \A j \in Bad : k <= j
  <2> HIDE DEF Bad
  <2> QED
    BY <1>1, <1>2, SmallestExists
<1>4. k \in 0 .. n /\ k <= m /\ g[k] # h[k]
  OBVIOUS
<1>5. g[0] = h[0]
  BY DEF UpTo
<1>6. k \in 1 .. n /\ k \in 1 .. m /\ k - 1 \in 0 .. n /\ k - 1 <= m
  BY <1>4, <1>5
<1>7. g[k - 1] = h[k - 1]
  <2>1. ~(k <= k - 1)
    BY <1>6
  <2>2. k - 1 \notin Bad
    BY <1>3, <2>1
  <2> QED
    BY <1>6, <2>2
<1> QED
  BY <1>4, <1>6, <1>7 DEF UpTo

LEMMA RecursionExists ==
  ASSUME NEW S, NEW s \in S, NEW T \in [Nat -> [S -> S]]
  PROVE  \E f \in [Nat -> S] : f[0] = s /\ \A i \in Nat \ {0} : f[i] = T[i][f[i - 1]]
<1> DEFINE G(n) == CHOOSE g : g \in UpTo(n, S, s, T)
           F == [n \in Nat |-> G(n)[n]]
<1>1. \A n \in Nat : G(n) \in UpTo(n, S, s, T)
  BY UpToExists
<1> HIDE DEF G
<1>2. F \in [Nat -> S] /\ F[0] = s
  BY <1>1 DEF UpTo
<1>3. ASSUME NEW i \in Nat \ {0} PROVE F[i] = T[i][F[i - 1]]
  <2>1. i - 1 \in Nat /\ i - 1 \in 0 .. i /\ i \in 1 .. i /\ i - 1 <= i - 1 /\ i - 1 \in 0 .. i - 1
    OBVIOUS
  <2>2. G(i)[i] = T[i][G(i)[i - 1]]
    BY <1>1, <2>1 DEF UpTo
  <2>3. G(i)[i - 1] = G(i - 1)[i - 1]
    BY <1>1, <2>1, UpToUnique
  <2> QED
    BY <2>1, <2>2, <2>3
<1> HIDE DEF F
<1> QED
  BY <1>2, <1>3
=============================================================================
