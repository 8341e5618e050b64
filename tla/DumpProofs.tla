------------------------------ MODULE DumpProofs ------------------------------
(* Theorems about Dump, for trees of any size and depth and any number of    *)
(* them: what is written is the graph of what was dumped.                    *)
EXTENDS Dump, IntervalProofs, TLAPS

(* What is defined of a tree from its value for the children has a value.    *)
LEMMA TreeRecursion ==
  ASSUME NEW S, NEW s \in S, NEW F \in [Tree -> [[Tree -> S] -> S]],
         \A t \in Tree : \A g, h \in [Tree -> S] :
           (\A k \in DOMAIN t.kids : g[t.kids[k]] = h[t.kids[k]]) => F[t][g] = F[t][h]
  PROVE  \E f \in [Tree -> S] : \A t \in Tree : f[t] = F[t][f]
<1> DEFINE X == [Tree -> S]
           start == [t \in Tree |-> s]
           Down == [n \in Nat |-> [g \in X |-> [t \in Tree |-> F[t][g]]]]
           P(V, v, f) == \E g \in [Nat -> V] :
                           g[0] = v /\ \A i \in Nat \ {0} : g[i] = f[i][g[i - 1]]
<1>1. start \in X /\ Down \in [Nat -> [X -> X]]
  OBVIOUS
<1>2. \A V : \A v \in V : \A f \in [Nat -> [V -> V]] : P(V, v, f)
  BY RecursionExists
<1> HIDE DEF P
<1>3. P(X, start, Down)
  BY <1>1, <1>2
<1>4. PICK G \in [Nat -> X] : \A n \in Nat \ {0} : G[n] = Down[n][G[n - 1]]
  BY <1>3 DEF P
<1>a. \A g \in X, n \in Nat, t \in Tree : Down[n][g][t] = F[t][g]
  OBVIOUS
<1> HIDE DEF Down, start
<1>5. \A n \in Nat, t \in Tree : G[n + 1][t] = F[t][G[n]]
  <2> HIDE DEF X
  <2>1. ASSUME NEW n \in Nat, NEW t \in Tree PROVE G[n + 1][t] = F[t][G[n]]
    <3>1. n + 1 \in Nat \ {0} /\ n + 1 - 1 = n /\ G[n] \in X
      BY <1>4
    <3>2. G[n + 1] = Down[n + 1][G[n]]
      BY <1>4, <3>1
    <3> QED
      BY <1>a, <3>1, <3>2
  <2> QED
    BY <2>1
<1>6. /\ Height \in [Tree -> Nat]
      /\ \A t \in Tree : \A k \in DOMAIN t.kids : t.kids[k] \in Tree /\ Height[t.kids[k]] < Height[t]
  BY DumpAssumption
<1>7. \A n \in Nat, t \in Tree : Height[t] < n => G[n][t] = G[n + 1][t]
  <2> DEFINE Bad == {n \in Nat : \E t \in Tree : Height[t] < n /\ G[n][t] # G[n + 1][t]}
  <2>1. SUFFICES ASSUME Bad # {} PROVE FALSE
    OBVIOUS
  <2>2. PICK n \in Bad : \A m \in Bad : n <= m
    BY <2>1, SmallestExists
  <2>3. PICK t \in Tree : Height[t] < n /\ G[n][t] # G[n + 1][t]
    OBVIOUS
  <2>4. n \in Nat /\ n - 1 \in Nat /\ n - 1 + 1 = n /\ ~(n <= n - 1)
    BY <1>6, <2>2, <2>3
  <2> HIDE DEF Bad
  <2>5. ASSUME NEW k \in DOMAIN t.kids PROVE G[n - 1][t.kids[k]] = G[n][t.kids[k]]
    <3>1. t.kids[k] \in Tree /\ Height[t.kids[k]] < n - 1
      BY <1>6, <2>3, <2>4
    <3>2. n - 1 \notin Bad
      BY <2>2, <2>4
    <3> QED
      BY <2>4, <3>1, <3>2 DEF Bad
  <2>6. F[t][G[n - 1]] = F[t][G[n]]
    <3>1. G[n - 1] \in [Tree -> S] /\ G[n] \in [Tree -> S]
      BY <1>4, <2>4
    <3> QED
      BY <2>5, <3>1
  <2>7. G[n][t] = F[t][G[n - 1]] /\ G[n + 1][t] = F[t][G[n]]
    BY <1>5, <2>4
  <2> QED
    BY <2>3, <2>6, <2>7
<1>8. \A t \in Tree : \A n \in Nat : Height[t] < n => G[n][t] = G[Height[t] + 1][t]
  <2>1. SUFFICES ASSUME NEW t \in Tree
                 PROVE  \A n \in Nat : Height[t] < n => G[n][t] = G[Height[t] + 1][t]
    OBVIOUS
  <2> DEFINE Bad == {n \in Nat : Height[t] < n /\ G[n][t] # G[Height[t] + 1][t]}
  <2>2. SUFFICES ASSUME Bad # {} PROVE FALSE
    OBVIOUS
  <2>3. PICK n \in Bad : \A m \in Bad : n <= m
    BY <2>2, SmallestExists
  <2>4. n \in Nat /\ Height[t] \in Nat /\ Height[t] < n /\ n # Height[t] + 1
    BY <1>6, <2>3
  <2> HIDE DEF Bad
  <2>a. \A h, m \in Nat : h < m /\ m # h + 1 => m - 1 \in Nat /\ m - 1 + 1 = m /\ ~(m <= m - 1) /\ h < m - 1
    OBVIOUS
  <2>5. n - 1 \in Nat /\ n - 1 + 1 = n /\ ~(n <= n - 1) /\ Height[t] < n - 1
    BY <2>4, <2>a
  <2>6. G[n - 1][t] = G[Height[t] + 1][t]
    BY <2>3, <2>5 DEF Bad
  <2>7. G[n - 1][t] = G[n][t]
    BY <1>7, <2>5
  <2> QED
    BY <2>3, <2>6, <2>7 DEF Bad
<1> DEFINE f == [t \in Tree |-> G[Height[t] + 1][t]]
<1>9. f \in [Tree -> S]
  BY <1>4, <1>6
<1>10. ASSUME NEW t \in Tree PROVE f[t] = F[t][f]
  <2>1. f[t] = F[t][G[Height[t]]]
    BY <1>5, <1>6
  <2>2. ASSUME NEW k \in DOMAIN t.kids PROVE G[Height[t]][t.kids[k]] = f[t.kids[k]]
    BY <1>6, <1>8
  <2>3. G[Height[t]] \in [Tree -> S]
    BY <1>4, <1>6
  <2> HIDE DEF f
  <2> QED
    BY <1>9, <2>1, <2>2, <2>3
<1> HIDE DEF f
<1> QED
  BY <1>9, <1>10

(* Two such definitions that agree on a tree whenever they do on its         *)
(* children agree.                                                           *)
LEMMA TreeInduction ==
  ASSUME NEW f, NEW g,
         \A t \in Tree : (\A k \in DOMAIN t.kids : f[t.kids[k]] = g[t.kids[k]]) => f[t] = g[t]
  PROVE  \A t \in Tree : f[t] = g[t]
<1> DEFINE Bad == {n \in Nat : \E t \in Tree : Height[t] = n /\ f[t] # g[t]}
<1>1. /\ Height \in [Tree -> Nat]
      /\ \A t \in Tree : \A k \in DOMAIN t.kids : t.kids[k] \in Tree /\ Height[t.kids[k]] < Height[t]
  BY DumpAssumption
<1>2. CASE Bad = {}
  BY <1>1, <1>2
<1>3. CASE Bad # {}
  <2>1. PICK n \in Bad : \A m \in Bad : n <= m
    BY <1>3, SmallestExists
  <2>2. PICK t \in Tree : Height[t] = n /\ f[t] # g[t]
    OBVIOUS
  <2>3. ASSUME NEW k \in DOMAIN t.kids PROVE f[t.kids[k]] = g[t.kids[k]]
    <3>1. t.kids[k] \in Tree /\ Height[t.kids[k]] < n /\ Height[t.kids[k]] \in Nat /\ n \in Nat
      BY <1>1, <2>2
    <3>2. Height[t.kids[k]] \notin Bad
      BY <2>1, <3>1
    <3> QED
      BY <3>1, <3>2
  <2> QED
    BY <2>2, <2>3
<1> QED
  BY <1>2, <1>3
-----------------------------------------------------------------------------
(* Totals.                                                                   *)
LEMMA TotalIs ==
  ASSUME NEW sizes \in [Tree -> Nat], NEW trees \in Seq(Tree)
  PROVE  /\ Total(sizes, trees, 0) = 0
         /\ \A k \in 0 .. Len(trees) : Total(sizes, trees, k) \in Nat
         /\ \A k \in 1 .. Len(trees) :
              Total(sizes, trees, k) = Total(sizes, trees, k - 1) + sizes[trees[k]]
<1> DEFINE n == Len(trees)
           Add == [i \in Nat |-> [x \in Nat |->
                     IF i \in 1 .. n THEN x + sizes[trees[i]] ELSE x]]
           Body(g) == [j \in 0 .. n |-> IF j = 0 THEN 0 ELSE g[j - 1] + sizes[trees[j]]]
           W == CHOOSE g : g = Body(g)
<1>1. n \in Nat /\ \A i \in 1 .. n : trees[i] \in Tree /\ sizes[trees[i]] \in Nat
  OBVIOUS
<1>2. Add \in [Nat -> [Nat -> Nat]]
  BY <1>1
<1>3. PICK g : g \in UpTo(n, Nat, 0, Add)
  <2> HIDE DEF Add, n
  <2>1. UpTo(n, Nat, 0, Add) # {}
    BY <1>1, <1>2, UpToExists
  <2> QED
    BY <2>1
<1>4. g \in [0 .. n -> Nat] /\ g[0] = 0 /\ \A i \in 1 .. n : g[i] = g[i - 1] + sizes[trees[i]]
  <2>1. g \in [0 .. n -> Nat] /\ g[0] = 0 /\ \A i \in 1 .. n : g[i] = Add[i][g[i - 1]]
    BY <1>3 DEF UpTo
  <2>2. \A i \in 1 .. n : i \in Nat /\ i - 1 \in 0 .. n
    BY <1>1
  <2> QED
    BY <2>1, <2>2
<1>5. g = Body(g)
  BY <1>1, <1>4
<1>6. W = Body(W)
  BY <1>5
<1>7. \A k : Total(sizes, trees, k) = W[k]
  BY DEF Total
<1> HIDE DEF W
<1>8. W[0] = 0 /\ \A i \in 1 .. n : W[i] = W[i - 1] + sizes[trees[i]]
  <2>1. \A j \in 0 .. n : W[j] = IF j = 0 THEN 0 ELSE W[j - 1] + sizes[trees[j]]
    BY <1>6
  <2>2. 0 \in 0 .. n /\ \A i \in 1 .. n : i \in 0 .. n /\ i # 0
    BY <1>1
  <2> QED
    BY <2>1, <2>2
<1>9. \A k \in 0 .. n : W[k] \in Nat
  <2> DEFINE Bad == {k \in 0 .. n : W[k] \notin Nat}
  <2>1. SUFFICES ASSUME Bad # {} PROVE FALSE
    OBVIOUS
  <2>2. PICK k \in Bad : \A m \in Bad : k <= m
    <3>1. Bad \in SUBSET Nat
      BY <1>1
    <3> HIDE DEF Bad
    <3> QED
      BY <2>1, <3>1, SmallestExists
  <2>3. k \in 1 .. n /\ k - 1 \in 0 .. n /\ ~(k <= k - 1)
    BY <1>1, <1>8, <2>2
  <2>4. W[k - 1] \in Nat
    BY <2>2, <2>3
  <2> QED
    BY <1>1, <1>8, <2>2, <2>3, <2>4
<1> QED
  BY <1>7, <1>8, <1>9

LEMMA TotalSame ==
  ASSUME NEW f \in [Tree -> Nat], NEW s \in Seq(Tree), NEW u \in Seq(Tree),
         NEW n \in Nat, n <= Len(s), n <= Len(u), \A i \in 1 .. n : s[i] = u[i]
  PROVE  Total(f, s, n) = Total(f, u, n)
<1> DEFINE Bad == {k \in 0 .. n : Total(f, s, k) # Total(f, u, k)}
<1>1. SUFFICES ASSUME Bad # {} PROVE FALSE
  OBVIOUS
<1>2. PICK k \in Bad : \A m \in Bad : k <= m
  <2>1. Bad \in SUBSET Nat
    OBVIOUS
  <2> HIDE DEF Bad
  <2> QED
    BY <1>1, <2>1, SmallestExists
<1>3. k \in 0 .. n /\ Total(f, s, k) # Total(f, u, k)
  OBVIOUS
<1>4. k # 0
  BY <1>3, TotalIs
<1>5. k \in 1 .. Len(s) /\ k \in 1 .. Len(u) /\ k \in 1 .. n /\ k - 1 \in 0 .. n /\ ~(k <= k - 1)
  <2>1. \A a, b, i, m \in Nat : m <= a /\ m <= b /\ i \in 0 .. m /\ i # 0 =>
           i \in 1 .. a /\ i \in 1 .. b /\ i \in 1 .. m /\ i - 1 \in 0 .. m /\ ~(i <= i - 1)
    OBVIOUS
  <2>2. Len(s) \in Nat /\ Len(u) \in Nat /\ k \in Nat
    OBVIOUS
  <2> HIDE DEF Bad
  <2> QED
    BY <1>3, <1>4, <2>1, <2>2
<1>6. Total(f, s, k - 1) = Total(f, u, k - 1)
  BY <1>2, <1>5
<1> HIDE DEF Bad
<1>7. /\ Total(f, s, k) = Total(f, s, k - 1) + f[s[k]]
      /\ Total(f, u, k) = Total(f, u, k - 1) + f[u[k]]
  BY <1>5, TotalIs
<1> QED
  BY <1>3, <1>5, <1>6, <1>7

(* It depends on the sizes of these trees only.                              *)
LEMMA TotalOf ==
  ASSUME NEW f, NEW g, NEW s \in Seq(Tree), NEW k, \A i \in DOMAIN s : f[s[i]] = g[s[i]]
  PROVE  Total(f, s, k) = Total(g, s, k)
<1> DEFINE Body(h, sizes) == [j \in 0 .. Len(s) |-> IF j = 0 THEN 0 ELSE h[j - 1] + sizes[s[j]]]
<1>1. \A j \in 0 .. Len(s) : j # 0 => f[s[j]] = g[s[j]]
  <2>1. \A j \in 0 .. Len(s) : j # 0 => j \in DOMAIN s
    OBVIOUS
  <2> QED
    BY <2>1
<1>2. \A h : Body(h, f) = Body(h, g)
  BY <1>1
<1>3. (CHOOSE h : h = Body(h, f)) = (CHOOSE h : h = Body(h, g))
  BY <1>2
<1> QED
  BY <1>3 DEF Total

(* The sizes and graphs of trees.                                            *)
LEMMA SizeIs ==
  /\ Size \in [Tree -> Nat]
  /\ \A t \in Tree : Size[t] = 1 + Total(Size, t.kids, Len(t.kids))
<1> DEFINE F == [t \in Tree |-> [g \in [Tree -> Nat] |-> 1 + Total(g, t.kids, Len(t.kids))]]
           Body(g) == [t \in Tree |-> 1 + Total(g, t.kids, Len(t.kids))]
<1>1. \A t \in Tree : t.kids \in Seq(Tree) /\ Len(t.kids) \in Nat
  <2>1. \A t \in Tree : t.kids \in Seq(Tree)
    BY DumpAssumption
  <2>2. \A s \in Seq(Tree) : Len(s) \in Nat
    OBVIOUS
  <2> QED
    BY <2>1, <2>2
<1>2. ASSUME NEW t \in Tree, NEW g \in [Tree -> Nat] PROVE 1 + Total(g, t.kids, Len(t.kids)) \in Nat
  <2>1. t.kids \in Seq(Tree) /\ Len(t.kids) \in 0 .. Len(t.kids)
    BY <1>1
  <2>2. Total(g, t.kids, Len(t.kids)) \in Nat
    BY <2>1, TotalIs
  <2> QED
    BY <2>2
<1>3. F \in [Tree -> [[Tree -> Nat] -> Nat]]
  BY <1>2
<1>4. ASSUME NEW t \in Tree, NEW g \in [Tree -> Nat], NEW h \in [Tree -> Nat],
             \A k \in DOMAIN t.kids : g[t.kids[k]] = h[t.kids[k]]
      PROVE  F[t][g] = F[t][h]
  <2>2. Total(g, t.kids, Len(t.kids)) = Total(h, t.kids, Len(t.kids))
    BY <1>1, <1>4, TotalOf
  <2> QED
    BY <2>2
<1>5. \E f \in [Tree -> Nat] : \A t \in Tree : f[t] = F[t][f]
  <2> DEFINE P(S, f) == \E g \in [Tree -> S] : \A t \in Tree : g[t] = f[t][g]
             Good(S, f) == \A t \in Tree : \A g, h \in [Tree -> S] :
                (\A k \in DOMAIN t.kids : g[t.kids[k]] = h[t.kids[k]]) => f[t][g] = f[t][h]
  <2>1. \A S : \A s \in S : \A f \in [Tree -> [[Tree -> S] -> S]] : Good(S, f) => P(S, f)
    BY TreeRecursion
  <2>2. 0 \in Nat /\ Good(Nat, F)
    BY <1>4
  <2> HIDE DEF F, P, Good
  <2>3. P(Nat, F)
    BY <1>3, <2>1, <2>2
  <2> QED
    BY <2>3 DEF P
<1>6. PICK f \in [Tree -> Nat] : \A t \in Tree : f[t] = 1 + Total(f, t.kids, Len(t.kids))
  BY <1>5
<1>7. f = Body(f)
  BY <1>6
<1>8. Size = Body(Size)
  BY <1>7 DEF Size
<1>9. \A t \in Tree : Size[t] = 1 + Total(Size, t.kids, Len(t.kids))
  BY <1>8
<1>10. \A t \in Tree : f[t] = Size[t]
  <2>1. ASSUME NEW t \in Tree, \A k \in DOMAIN t.kids : f[t.kids[k]] = Size[t.kids[k]]
        PROVE  f[t] = Size[t]
    <3> DEFINE s == t.kids
    <3>1. s \in Seq(Tree) /\ \A k \in DOMAIN s : f[s[k]] = Size[s[k]]
      BY <1>1, <2>1
    <3>2. f[t] = 1 + Total(f, s, Len(s)) /\ Size[t] = 1 + Total(Size, s, Len(s))
      BY <1>6, <1>9
    <3> HIDE DEF s
    <3>3. Total(f, s, Len(s)) = Total(Size, s, Len(s))
      BY ONLY <3>1, TotalOf
    <3> QED
      BY <3>2, <3>3
  <2> QED
    BY <2>1, TreeInduction
<1>11. Size = [t \in Tree |-> Size[t]]
  BY <1>8
<1> QED
  BY <1>9, <1>10, <1>11

LEMMA OffsetIs ==
  ASSUME NEW t \in Tree
  PROVE  /\ t.kids \in Seq(Tree) /\ Len(t.kids) \in Nat
         /\ Offset(t, 1) = 1 /\ Offset(t, Len(t.kids) + 1) = Size[t]
         /\ \A k \in 1 .. Len(t.kids) + 1 : Offset(t, k) \in Nat \ {0}
         /\ \A k \in 1 .. Len(t.kids) :
              /\ t.kids[k] \in Tree /\ Size[t.kids[k]] \in Nat \ {0}
              /\ Offset(t, k + 1) = Offset(t, k) + Size[t.kids[k]]
<1>1. t.kids \in Seq(Tree) /\ Len(t.kids) \in Nat
  <2>1. t.kids \in Seq(Tree)
    BY DumpAssumption
  <2> QED
    BY <2>1
<1> DEFINE n == Len(t.kids)
           T(k) == Total(Size, t.kids, k)
<1>2. /\ T(0) = 0 /\ \A k \in 0 .. n : T(k) \in Nat
      /\ \A k \in 1 .. n : T(k) = T(k - 1) + Size[t.kids[k]]
  BY <1>1, SizeIs, TotalIs
<1>3. \A u \in Tree : Size[u] \in Nat \ {0}
  <2>1. ASSUME NEW u \in Tree PROVE Size[u] \in Nat \ {0}
    <3>1. u.kids \in Seq(Tree)
      BY DumpAssumption
    <3>2. Len(u.kids) \in 0 .. Len(u.kids)
      BY <3>1
    <3>3. Total(Size, u.kids, Len(u.kids)) \in Nat
      BY <3>1, <3>2, SizeIs, TotalIs
    <3> QED
      BY <3>3, SizeIs
  <2> QED
    BY <2>1
<1>4. \A k \in 1 .. n : t.kids[k] \in Tree
  BY <1>1
<1>5. \A k : Offset(t, k) = 1 + T(k - 1)
  BY DEF Offset
<1>6. Size[t] = 1 + T(n)
  BY SizeIs
<1> HIDE DEF T
<1>7. 1 - 1 = 0 /\ n + 1 - 1 = n /\ \A k \in 1 .. n : k + 1 - 1 = k /\ k \in 0 .. n
  BY <1>1
<1>8. \A k \in 1 .. n + 1 : k - 1 \in 0 .. n
  BY <1>1
<1>9. \A k \in 1 .. n : k - 1 \in 0 .. n
  BY <1>1
<1>10. Offset(t, 1) = 1 /\ Offset(t, n + 1) = Size[t]
  BY <1>2, <1>5, <1>6, <1>7
<1>11. \A k \in 1 .. n + 1 : Offset(t, k) \in Nat \ {0}
  <2>1. \A m \in Nat : 1 + m \in Nat \ {0}
    OBVIOUS
  <2> QED
    BY <1>2, <1>5, <1>8, <2>1
<1>12. \A k \in 1 .. n : Offset(t, k + 1) = Offset(t, k) + Size[t.kids[k]]
  <2>1. SUFFICES ASSUME NEW k \in 1 .. n PROVE Offset(t, k + 1) = Offset(t, k) + Size[t.kids[k]]
    OBVIOUS
  <2>2. Offset(t, k + 1) = 1 + (T(k - 1) + Size[t.kids[k]]) /\ Offset(t, k) = 1 + T(k - 1)
    BY <1>2, <1>5, <1>7
  <2>3. T(k - 1) \in Nat /\ Size[t.kids[k]] \in Nat
    BY <1>2, <1>3, <1>4, <1>9
  <2>4. \A a, b \in Nat : 1 + (a + b) = (1 + a) + b
    OBVIOUS
  <2> QED
    BY <2>2, <2>3, <2>4
<1> HIDE DEF n
<1> QED
  BY <1>1, <1>3, <1>4, <1>10, <1>11, <1>12 DEF n

Edge == Nat \X Int \X Nat
Kid(t, k, n) == {<<n, Place(t, k), n + Offset(t, k)>>} \cup Graph[t.kids[k]][n + Offset(t, k)]

LEMMA GraphIs ==
  ASSUME NEW t \in Tree, NEW n \in Nat
  PROVE  Graph[t][n] = UNION {Kid(t, k, n) : k \in DOMAIN t.kids}
<1> DEFINE Step(g, u) == [m \in Nat |->
             UNION {{<<m, Place(u, k), m + Offset(u, k)>>} \cup g[u.kids[k]][m + Offset(u, k)] :
                      k \in DOMAIN u.kids}]
           Body(g) == [u \in Tree |-> Step(g, u)]
           S == [Nat -> SUBSET Edge]
           F == [u \in Tree |-> [g \in [Tree -> S] |-> Step(g, u)]]
<1>1. \A u \in Tree : \A k \in DOMAIN u.kids : u.kids[k] \in Tree /\ Offset(u, k) \in Nat
                                                /\ Place(u, k) \in Int
  <2>1. ASSUME NEW u \in Tree, NEW k \in DOMAIN u.kids
        PROVE  u.kids[k] \in Tree /\ Offset(u, k) \in Nat /\ Place(u, k) \in Int
    <3>1. u.kids \in Seq(Tree) /\ DOMAIN u.kids = 1 .. Len(u.kids) /\ Len(u.kids) \in Nat
      BY OffsetIs
    <3>2. k \in 1 .. Len(u.kids) /\ k \in 1 .. Len(u.kids) + 1 /\ k \in Int
      BY <2>1, <3>1
    <3> QED
      BY <3>1, <3>2, OffsetIs DEF Place
  <2> QED
    BY <2>1
<1>2. F \in [Tree -> [[Tree -> S] -> S]]
  <2>1. ASSUME NEW u \in Tree, NEW g \in [Tree -> S] PROVE Step(g, u) \in S
    <3>1. ASSUME NEW m \in Nat, NEW k \in DOMAIN u.kids
          PROVE  {<<m, Place(u, k), m + Offset(u, k)>>} \cup g[u.kids[k]][m + Offset(u, k)]
                   \in SUBSET Edge
      <4>1. u.kids[k] \in Tree /\ m + Offset(u, k) \in Nat /\ Place(u, k) \in Int
        BY <1>1
      <4> QED
        BY <4>1 DEF Edge
    <3>2. \A m \in Nat : Step(g, u)[m] \in SUBSET Edge
      BY <3>1
    <3> QED
      BY <3>2
  <2> HIDE DEF Step, S
  <2> QED
    BY <2>1
<1>3. ASSUME NEW u \in Tree, NEW g, NEW h, \A k \in DOMAIN u.kids : g[u.kids[k]] = h[u.kids[k]]
      PROVE  Step(g, u) = Step(h, u)
  <2>1. \A m \in Nat : Step(g, u)[m] = Step(h, u)[m]
    BY <1>3
  <2> QED
    BY <2>1
<1>4. \E f \in [Tree -> S] : \A u \in Tree : f[u] = F[u][f]
  <2> DEFINE P(V, f) == \E g \in [Tree -> V] : \A u \in Tree : g[u] = f[u][g]
             Good(V, f) == \A u \in Tree : \A g, h \in [Tree -> V] :
                (\A k \in DOMAIN u.kids : g[u.kids[k]] = h[u.kids[k]]) => f[u][g] = f[u][h]
  <2>1. \A V : \A v \in V : \A f \in [Tree -> [[Tree -> V] -> V]] : Good(V, f) => P(V, f)
    BY TreeRecursion
  <2>2. [m \in Nat |-> {}] \in S
    OBVIOUS
  <2>3. Good(S, F)
    <3> HIDE DEF Step, S
    <3> QED
      BY <1>3
  <2> HIDE DEF F, P, Good, S
  <2>4. P(S, F)
    BY <1>2, <2>1, <2>2, <2>3
  <2> QED
    BY <2>4 DEF P
<1> HIDE DEF S, Step
<1>5. PICK f \in [Tree -> S] : \A u \in Tree : f[u] = Step(f, u)
  BY <1>4
<1>6. f = Body(f)
  BY <1>5
<1>7. Graph = Body(Graph)
  BY <1>6 DEF Graph, Step
<1>8. Graph[t] = Step(Graph, t)
  BY <1>7
<1>9. Graph[t][n] = UNION {{<<n, Place(t, k), n + Offset(t, k)>>}
                             \cup Graph[t.kids[k]][n + Offset(t, k)] : k \in DOMAIN t.kids}
  BY <1>8 DEF Step
<1> QED
  BY <1>9 DEF Kid
-----------------------------------------------------------------------------
(* What a dump does with a node.                                          *)
Steps == {"dump", "line"} \X Nat

LEMMA EachIs ==
  ASSUME NEW act \in {"dump", "line"}, NEW n \in Nat
  PROVE  Each(act, n) \in Seq(Steps) /\ Len(Each(act, n)) = n
         /\ \A k \in 1 .. n : Each(act, n)[k] = <<act, k>>
<1>1. Each(act, n) \in [1 .. n -> Steps]
  BY DEF Each, Steps
<1>2. \A k \in 1 .. n : Each(act, n)[k] = <<act, k>>
  BY DEF Each
<1> QED
  BY <1>1, <1>2

LEMMA ThenSteps ==
  ASSUME NEW s \in Seq(Steps), NEW u \in Seq(Steps)
  PROVE  /\ s \o u \in Seq(Steps) /\ Len(s \o u) = Len(s) + Len(u)
         /\ \A i \in 1 .. Len(s) : (s \o u)[i] = s[i]
         /\ \A i \in Len(s) + 1 .. Len(s) + Len(u) : (s \o u)[i] = u[i - Len(s)]
OBVIOUS

EachThen(m, n) == Each("dump", m) \o Each("line", n)
LEMMA Plain ==
  ASSUME NEW m \in Nat, NEW n \in Nat
  PROVE  LET s == EachThen(m, n) IN
         /\ s \in Seq(Steps) /\ Len(s) = m + n
         /\ \A i \in 1 .. m : s[i] = <<"dump", i>>
         /\ \A i \in m + 1 .. m + n : s[i] = <<"line", i - m>>
<1> USE DEF EachThen
<1> DEFINE d == Each("dump", m)
           l == Each("line", n)
           s == d \o l
<1>1. /\ d \in Seq(Steps) /\ Len(d) = m /\ \A k \in 1 .. m : d[k] = <<"dump", k>>
      /\ l \in Seq(Steps) /\ Len(l) = n /\ \A k \in 1 .. n : l[k] = <<"line", k>>
  <2>1. "dump" \in {"dump", "line"} /\ "line" \in {"dump", "line"}
    OBVIOUS
  <2> QED
    BY <2>1, EachIs
<1>2. \A i \in m + 1 .. m + n : i - m \in 1 .. n
  OBVIOUS
<1> HIDE DEF d, l
<1>3. /\ s \in Seq(Steps) /\ Len(s) = m + n
      /\ \A i \in 1 .. m : s[i] = d[i]
      /\ \A i \in m + 1 .. m + n : s[i] = l[i - m]
  BY <1>1, ThenSteps
<1> QED
  BY <1>1, <1>2, <1>3 DEF d, l

(* How many children the first i steps of a script have dumped, and whose    *)
(* lines they have drawn.                                                    *)
Long(t) == t.kind = "for" /\ Len(t.kids) = 4
Dumped(t, i) == IF t.kind = "call" THEN (i + 1) \div 2
                ELSE IF Long(t) THEN IF i <= 3 THEN i ELSE IF i <= 6 THEN 3 ELSE 4
                ELSE IF i <= Len(t.kids) THEN i ELSE Len(t.kids)
Lined(t, i) == {k \in 1 .. Len(t.kids) : \E j \in 1 .. i : Script(t)[j] = <<"line", k>>}
Goes(t, i) ==
  \/ /\ Script(t)[i + 1] = <<"dump", Dumped(t, i) + 1>>
     /\ Dumped(t, i + 1) = Dumped(t, i) + 1 /\ Dumped(t, i + 1) \in 1 .. Len(t.kids)
  \/ /\ \E k \in 1 .. Dumped(t, i) : Script(t)[i + 1] = <<"line", k>> /\ k \notin Lined(t, i)
     /\ Dumped(t, i + 1) = Dumped(t, i)
Right(t) ==
  LET n == Len(t.kids)
      m == Len(Script(t))
  IN  /\ m \in Nat /\ n \in Nat
      /\ Dumped(t, 0) = 0 /\ Dumped(t, m) = n /\ Lined(t, m) = 1 .. n
      /\ \A i \in 0 .. m : Dumped(t, i) \in 0 .. n
      /\ \A i \in 0 .. m - 1 : Goes(t, i)

LEMMA CallScript ==
  ASSUME NEW t \in Tree, t.kind = "call"
  PROVE  Right(t)
<1> DEFINE n == Len(t.kids)
           s == Script(t)
<1>1. n \in Nat
  BY OffsetIs
<1>2. s = [i \in 1 .. 2 * n |-> <<IF i % 2 = 1 THEN "dump" ELSE "line", (i + 1) \div 2>>]
  BY DEF Script
<1>3. \A i \in 1 .. 2 * n : /\ (i + 1) \div 2 \in 1 .. n
                           /\ s[i] = <<IF i % 2 = 1 THEN "dump" ELSE "line", (i + 1) \div 2>>
  BY <1>1, <1>2
<1>4. s \in [1 .. 2 * n -> Steps] /\ 2 * n \in Nat
  BY <1>1, <1>2, <1>3 DEF Steps
<1> HIDE DEF s, n
<1>5. Len(s) = 2 * n
  BY <1>4
<1>6. \A i : Dumped(t, i) = (i + 1) \div 2
  BY DEF Dumped
<1>7. ASSUME NEW k \in 1 .. n PROVE \E j \in 1 .. 2 * n : s[j] = <<"line", k>>
  <2>1. 2 * k \in 1 .. 2 * n /\ (2 * k) % 2 = 0 /\ (2 * k + 1) \div 2 = k
    BY <1>1
  <2> QED
    BY <1>3, <2>1
<1>8. ASSUME NEW i \in 0 .. 2 * n - 1 PROVE Goes(t, i)
  <2>1. i \in Nat /\ i + 1 \in 1 .. 2 * n /\ i + 1 + 1 = i + 2
    BY <1>1
  <2>2. CASE (i + 1) % 2 = 1
    <3>1. (i + 2) \div 2 = (i + 1) \div 2 + 1
      BY <2>1, <2>2
    <3>2. (i + 2) \div 2 \in 1 .. n /\ s[i + 1] = <<"dump", (i + 2) \div 2>>
      BY <1>3, <2>1, <2>2
    <3> QED
      BY <1>6, <2>1, <3>1, <3>2 DEF Goes, s, n
  <2>3. CASE (i + 1) % 2 # 1
    <3>1. (i + 2) \div 2 = (i + 1) \div 2
      BY <2>1, <2>3
    <3>2. (i + 2) \div 2 \in 1 .. n /\ s[i + 1] = <<"line", (i + 2) \div 2>>
      BY <1>3, <2>1, <2>3
    <3>3. (i + 2) \div 2 \notin Lined(t, i)
      <4>1. \A j \in 1 .. i : j \in 1 .. 2 * n /\ (j % 2 # 1 => (j + 1) \div 2 # (i + 2) \div 2)
        <5>1. ASSUME NEW x \in Nat, x % 2 # 1 PROVE \E b \in Nat : x = 2 * b
          BY <5>1
        <5>2. SUFFICES ASSUME NEW j \in 1 .. i
                       PROVE  /\ j \in 1 .. 2 * n
                              /\ j % 2 # 1 => (j + 1) \div 2 # (i + 2) \div 2
          OBVIOUS
        <5>3. /\ j \in Nat /\ j <= i /\ j \in 1 .. 2 * n
              /\ i + 1 \in Nat /\ j + 1 \in Nat /\ i + 2 \in Nat
          BY <1>1, <2>1
        <5>4. ASSUME j % 2 # 1 PROVE (j + 1) \div 2 # (i + 2) \div 2
          <6>1. PICK a \in Nat : i + 1 = 2 * a
            BY <2>1, <2>3, <5>1, <5>3
          <6>2. PICK b \in Nat : j = 2 * b
            BY <5>1, <5>3, <5>4
          <6>3. (j + 1) \div 2 = b
            BY <6>2
          <6>4. (i + 2) \div 2 = a
            <7>1. i + 2 = 2 * a + 1
              BY <2>1, <6>1
            <7> QED
              BY <7>1
          <6>5. b < a
            BY <2>1, <5>3, <6>1, <6>2
          <6> QED
            BY <6>3, <6>4, <6>5
        <5> QED
          BY <5>3, <5>4
      <4>2. \A j \in 1 .. i : s[j] # <<"line", (i + 2) \div 2>>
        BY <1>3, <4>1
      <4> QED
        BY <4>2 DEF Lined, s
    <3> QED
      BY <1>6, <2>1, <3>1, <3>2, <3>3 DEF Goes, s, n
  <2> QED
    BY <2>2, <2>3
<1>9. Lined(t, 2 * n) = 1 .. n
  BY <1>7 DEF Lined, s, n
<1>10. (0 + 1) \div 2 = 0 /\ (2 * n + 1) \div 2 = n /\ \A i \in 0 .. 2 * n : (i + 1) \div 2 \in 0 .. n
  BY <1>1
<1>11. /\ Dumped(t, 0) = 0 /\ Dumped(t, 2 * n) = n
       /\ \A i \in 0 .. 2 * n : Dumped(t, i) \in 0 .. n
  BY <1>6, <1>10
<1> HIDE DEF Goes, Dumped, Lined
<1>12. 2 * n \in Nat
  BY <1>1
<1> QED
  BY <1>1, <1>5, <1>8, <1>9, <1>11, <1>12 DEF Right, s, n

LEMMA ForScript ==
  ASSUME NEW t \in Tree, t.kind = "for", Len(t.kids) = 4
  PROVE  Right(t)
<1> DEFINE s == Script(t)
           a == EachThen(3, 3)
           b == <<<<"dump", 4>>, <<"line", 4>>>>
<1>1. s = a \o b
  BY DEF Script, EachThen
<1>2. /\ a \in Seq(Steps) /\ Len(a) = 6
      /\ \A i \in 1 .. 3 : a[i] = <<"dump", i>>
      /\ \A i \in 4 .. 6 : a[i] = <<"line", i - 3>>
  <2>1. /\ a \in Seq(Steps) /\ Len(a) = 3 + 3
        /\ \A i \in 1 .. 3 : a[i] = <<"dump", i>>
        /\ \A i \in 3 + 1 .. 3 + 3 : a[i] = <<"line", i - 3>>
    <3>1. 3 \in Nat
      OBVIOUS
    <3> QED
      BY <3>1, Plain
  <2>2. 3 + 3 = 6 /\ 3 + 1 = 4
    OBVIOUS
  <2> HIDE DEF a
  <2> QED
    BY <2>1, <2>2
<1>3. b \in Seq(Steps) /\ Len(b) = 2 /\ b[1] = <<"dump", 4>> /\ b[2] = <<"line", 4>>
  BY DEF Steps
<1> HIDE DEF a, b, s
<1>4. /\ Len(s) = 8
      /\ \A i \in 1 .. 6 : s[i] = a[i]
      /\ s[7] = b[1] /\ s[8] = b[2]
  <2>1. /\ Len(s) = Len(a) + Len(b) /\ \A i \in 1 .. Len(a) : s[i] = a[i]
        /\ \A i \in Len(a) + 1 .. Len(a) + Len(b) : s[i] = b[i - Len(a)]
    BY <1>1, <1>2, <1>3, ThenSteps
  <2>2. Len(s) = 6 + 2 /\ (\A i \in 1 .. 6 : s[i] = a[i]) /\ \A i \in 6 + 1 .. 6 + 2 : s[i] = b[i - 6]
    BY <1>2, <1>3, <2>1
  <2>3. 6 + 2 = 8 /\ 7 \in 6 + 1 .. 6 + 2 /\ 8 \in 6 + 1 .. 6 + 2 /\ 7 - 6 = 1 /\ 8 - 6 = 2
    OBVIOUS
  <2> QED
    BY <2>2, <2>3
<1>5. /\ s[1] = <<"dump", 1>> /\ s[2] = <<"dump", 2>> /\ s[3] = <<"dump", 3>>
      /\ s[4] = <<"line", 1>> /\ s[5] = <<"line", 2>> /\ s[6] = <<"line", 3>>
      /\ s[7] = <<"dump", 4>> /\ s[8] = <<"line", 4>>
  BY <1>2, <1>3, <1>4
<1>6. \A i : Dumped(t, i) = IF i <= 3 THEN i ELSE IF i <= 6 THEN 3 ELSE 4
  BY DEF Dumped, Long
<1>7. Lined(t, 8) = 1 .. 4
  <2>1. \A k \in 1 .. 4 : k = 1 \/ k = 2 \/ k = 3 \/ k = 4
    OBVIOUS
  <2>2. 4 \in 1 .. 8 /\ 5 \in 1 .. 8 /\ 6 \in 1 .. 8 /\ 8 \in 1 .. 8
    OBVIOUS
  <2>3. \A k \in 1 .. 4 : \E j \in 1 .. 8 : s[j] = <<"line", k>>
    BY <1>5, <2>1, <2>2
  <2> QED
    BY <2>3 DEF Lined, s
<1>8. \A i \in 0 .. 7 : Goes(t, i)
  <2>1. \A i \in 0 .. 7 : i = 0 \/ i = 1 \/ i = 2 \/ i = 3 \/ i = 4 \/ i = 5 \/ i = 6 \/ i = 7
    OBVIOUS
  <2>2. Goes(t, 0) /\ Goes(t, 1) /\ Goes(t, 2) /\ Goes(t, 6)
    BY <1>5, <1>6 DEF Goes, s
  <2>3. ASSUME NEW i \in {3, 4, 5, 7}, NEW k \in 1 .. 4, s[i + 1] = <<"line", k>>,
               \A j \in 1 .. i : s[j] # <<"line", k>>
        PROVE  s[i + 1] = <<"line", k>> /\ k \notin Lined(t, i)
    BY <2>3 DEF Lined, s
  <2>4. /\ \A j \in 1 .. 3 : j = 1 \/ j = 2 \/ j = 3
        /\ \A j \in 1 .. 4 : j = 1 \/ j = 2 \/ j = 3 \/ j = 4
        /\ \A j \in 1 .. 5 : j = 1 \/ j = 2 \/ j = 3 \/ j = 4 \/ j = 5
        /\ \A j \in 1 .. 7 : j = 1 \/ j = 2 \/ j = 3 \/ j = 4 \/ j = 5 \/ j = 6 \/ j = 7
    OBVIOUS
  <2>5. 1 \notin Lined(t, 3) /\ 2 \notin Lined(t, 4) /\ 3 \notin Lined(t, 5) /\ 4 \notin Lined(t, 7)
    BY <1>5, <2>4 DEF Lined, s
  <2>6. Goes(t, 3) /\ Goes(t, 4) /\ Goes(t, 5) /\ Goes(t, 7)
    BY <1>5, <1>6, <2>5 DEF Goes, s
  <2> QED
    BY <2>1, <2>2, <2>6
<1> QED
  BY <1>4, <1>6, <1>7, <1>8 DEF Right, s

LEMMA OtherScript ==
  ASSUME NEW t \in Tree, t.kind # "call", ~Long(t)
  PROVE  Right(t)
<1> DEFINE n == Len(t.kids)
           s == Script(t)
<1>1. n \in Nat
  BY OffsetIs
<1>2. s = EachThen(n, n)
  BY DEF Script, Long, EachThen
<1>3. /\ Len(s) = n + n
      /\ \A i \in 1 .. n : s[i] = <<"dump", i>>
      /\ \A i \in n + 1 .. n + n : s[i] = <<"line", i - n>>
  <2> HIDE DEF n, s
  <2> QED
    BY <1>1, <1>2, Plain
<1>4. \A i : Dumped(t, i) = IF i <= n THEN i ELSE n
  BY DEF Dumped
<1> HIDE DEF s, n
<1>5. Lined(t, n + n) = 1 .. n
  <2>1. ASSUME NEW k \in 1 .. n PROVE \E j \in 1 .. n + n : s[j] = <<"line", k>>
    <3>1. PICK j \in n + 1 .. n + n : j \in 1 .. n + n /\ j - n = k
      <4>1. n + k \in n + 1 .. n + n /\ n + k \in 1 .. n + n /\ n + k - n = k
        BY <1>1
      <4> QED
        BY <1>1, <4>1
    <3> QED
      BY <1>3, <3>1
  <2> QED
    BY <2>1 DEF Lined, s, n
<1>6. ASSUME NEW i \in 0 .. n + n - 1 PROVE Goes(t, i)
  <2>1. CASE i < n
    <3>1. i + 1 \in 1 .. n /\ i + 1 <= n /\ i <= n
      BY <1>1, <2>1
    <3>2. s[i + 1] = <<"dump", i + 1>> /\ Dumped(t, i) = i /\ Dumped(t, i + 1) = i + 1
      BY <1>3, <1>4, <3>1
    <3> QED
      BY <3>1, <3>2 DEF Goes, s, n
  <2>2. CASE ~(i < n)
    <3>1. /\ i + 1 \in n + 1 .. n + n /\ i + 1 - n \in 1 .. n
          /\ Dumped(t, i) = n /\ Dumped(t, i + 1) = n
      BY <1>1, <1>4, <2>2
    <3>2. \A j \in 1 .. i : s[j] # <<"line", i + 1 - n>>
      <4>1. \A j \in 1 .. i : j \in 1 .. n \/ (j \in n + 1 .. n + n /\ j - n # i + 1 - n)
        BY <1>1, <2>2
      <4> QED
        BY <1>3, <4>1
    <3>3. s[i + 1] = <<"line", i + 1 - n>>
      <4>1. PICK j \in n + 1 .. n + n : j = i + 1
        BY <3>1
      <4> QED
        BY <1>1, <1>3, <4>1
    <3>4. i + 1 - n \notin Lined(t, i)
      BY <3>2 DEF Lined, s
    <3> QED
      <4>1. \E k \in 1 .. Dumped(t, i) : s[i + 1] = <<"line", k>> /\ k \notin Lined(t, i)
        BY <3>1, <3>3, <3>4
      <4> QED
        BY <3>1, <4>1 DEF Goes, s
  <2> QED
    BY <2>1, <2>2
<1>7. /\ n + n \in Nat /\ Dumped(t, 0) = 0 /\ Dumped(t, n + n) = n
      /\ \A i \in 0 .. n + n : Dumped(t, i) \in 0 .. n
  BY <1>1, <1>4
<1> QED
  BY <1>1, <1>3, <1>5, <1>6, <1>7 DEF Right, s, n

LEMMA ScriptIs == \A t \in Tree : Right(t)
BY CallScript, ForScript, OtherScript DEF Long

(* Lines start where the child's place is, at a field there is.              *)
LEMMA PortIs ==
  ASSUME NEW t \in Tree, NEW k \in 1 .. Len(t.kids)
  PROVE  Port(t, k) = Place(t, k) /\ Port(t, k) \in -1 .. Fields(t) - 1
<1>1. t.kind \in Kind /\ t.args \in Nat /\ Len(t.kids) \in Arities(t.kind)
  BY DumpAssumption
<1>2. Len(t.kids) \in Nat
  BY OffsetIs
<1>3. CASE t.kind = "for"
  <2>0. Len(t.kids) \in {3, 4}
    BY <1>1, <1>3 DEF Arities
  <2>1. k = 1 \/ k = 2 \/ k = 3 \/ k = 4
    <3>1. PICK m \in {3, 4} : Len(t.kids) = m
      BY <2>0
    <3>2. k \in 1 .. m
      BY <3>1
    <3> QED
      BY <3>2
  <2> QED
    BY <1>3, <2>1 DEF Port, Place, Fields
<1>4. CASE t.kind = "binary"
  <2>0. Len(t.kids) = 2
    BY <1>1, <1>4 DEF Arities
  <2>1. k = 1 \/ k = 2
    BY <2>0
  <2> QED
    BY <1>4, <2>1 DEF Port, Place, Fields
<1>5. CASE t.kind \in {"ast", "call"}
  BY <1>2, <1>5 DEF Port, Place, Fields
<1>6. CASE t.kind \in {"number", "variable", "prototype", "while", "function", "if"}
  BY <1>1, <1>2, <1>6 DEF Arities, Port, Place, Fields
<1> QED
  BY <1>1, <1>3, <1>4, <1>5, <1>6 DEF Kind
-----------------------------------------------------------------------------
(* What holds of the calls under way: how far each is, that the one above    *)
(* it dumps its next child, and which number is given next.                  *)
Frame == [tree : Tree, number : Nat, done : Nat, kids : Seq(Nat)]
Entry == [is : {"node"}, number : Nat, fields : Nat]
           \cup [is : {"line"}, from : Nat, port : Int, to : Nat]
TypeInv == /\ session \in Seq(Tree) /\ drawn \in Seq(Tree)
           /\ frames \in Seq(Frame) /\ out \in Seq(Entry) /\ count \in Nat

AstFirst(t) == IF t.kind = "ast" THEN 1 ELSE 0
First == IF drawn # <<>> THEN AstFirst(drawn[1])
         ELSE IF frames # <<>> THEN AstFirst(frames[1].tree)
         ELSE AstFirst(session[1])
Start(i) == First + Total(Size, drawn, i - 1)
After(f) == f.number + Offset(f.tree, Len(f.kids) + 1)
Under(f) == /\ f.done <= Len(Script(f.tree))
            /\ Len(f.kids) = Dumped(f.tree, f.done)
            /\ \A k \in 1 .. Len(f.kids) : f.kids[k] = f.number + Offset(f.tree, k)
Dumps(f, g) == /\ f.done < Len(Script(f.tree))
               /\ Script(f.tree)[f.done + 1] = <<"dump", Len(f.kids) + 1>>
               /\ Len(f.kids) + 1 \in 1 .. Len(f.tree.kids)
               /\ g.tree = f.tree.kids[Len(f.kids) + 1] /\ g.number = After(f)
CallsInv == /\ \A i \in 1 .. Len(frames) : Under(frames[i])
            /\ \A i \in 1 .. Len(frames) - 1 : Dumps(frames[i], frames[i + 1])
            /\ frames # <<>> => frames[1].number = Start(Len(drawn) + 1)
            /\ count = IF frames = <<>> THEN Start(Len(drawn) + 1) ELSE After(Top)

(* What is written of them: the nodes up to the count, the lines of the      *)
(* trees and children dumped and those drawn to the children of a node whose *)
(* dump goes on, and none yet to where it did not draw one.                  *)
NodesInv ==
  /\ First <= count
  /\ {out[i].number : i \in Nodes} = First .. count - 1
  /\ \A i, j \in Nodes : out[i].number = out[j].number => i = j
  /\ \A i \in Nodes : \A k \in 1 .. Len(frames) :
       out[i].number = frames[k].number => out[i].fields = Fields(frames[k].tree)
Line(i) == <<out[i].from, out[i].port, out[i].to>>
LinesOf(f) ==
  {<<f.number, Place(f.tree, k), f.number + Offset(f.tree, k)>> : k \in Lined(f.tree, f.done)}
  \cup UNION {Graph[f.tree.kids[k]][f.number + Offset(f.tree, k)] : k \in 1 .. Len(f.kids)}
LinesInv ==
  /\ {Line(i) : i \in Lines} = (UNION {Graph[drawn[i]][Start(i)] : i \in 1 .. Len(drawn)})
                                 \cup UNION {LinesOf(frames[i]) : i \in 1 .. Len(frames)}
  /\ \A j \in Lines : out[j].from < count /\ out[j].to < count
  /\ \A i, j \in Lines : out[i].to = out[j].to => i = j
  /\ \A j \in Lines : \A i \in 1 .. Len(frames) :
       /\ out[j].to # frames[i].number
       /\ \A k \in 1 .. Len(frames[i].kids) :
            out[j].to = frames[i].number + Offset(frames[i].tree, k)
              => k \in Lined(frames[i].tree, frames[i].done)
  /\ \A i \in Nodes, j \in Lines :
       out[i].number = out[j].from => out[j].port \in -1 .. out[i].fields - 1
DumpInv == TypeInv /\ CallsInv /\ NodesInv /\ LinesInv

LEMMA OffsetGrows ==
  ASSUME NEW t \in Tree, NEW j \in 1 .. Len(t.kids) + 1, NEW k \in 1 .. Len(t.kids) + 1, j < k
  PROVE  Offset(t, j) < Offset(t, k)
<1> DEFINE n == Len(t.kids)
           Bad == {m \in 1 .. n + 1 : j < m /\ ~(Offset(t, j) < Offset(t, m))}
<1>1. /\ n \in Nat /\ \A i \in 1 .. n + 1 : Offset(t, i) \in Nat
      /\ \A i \in 1 .. n : Offset(t, i) < Offset(t, i + 1)
  <2>1. /\ n \in Nat /\ \A i \in 1 .. n + 1 : Offset(t, i) \in Nat \ {0}
        /\ \A i \in 1 .. n : /\ Size[t.kids[i]] \in Nat \ {0}
                             /\ Offset(t, i + 1) = Offset(t, i) + Size[t.kids[i]]
    BY OffsetIs
  <2> HIDE DEF n
  <2>2. ASSUME NEW i \in 1 .. n PROVE Offset(t, i) < Offset(t, i + 1)
    <3>1. i \in 1 .. n + 1
      BY <2>1
    <3>2. /\ Offset(t, i) \in Nat /\ Size[t.kids[i]] \in Nat \ {0}
          /\ Offset(t, i + 1) = Offset(t, i) + Size[t.kids[i]]
      BY <2>1, <3>1
    <3> QED
      BY <3>2
  <2> QED
    BY <2>1, <2>2
<1> HIDE DEF n
<1>2. SUFFICES ASSUME Bad # {} PROVE FALSE
  BY DEF n
<1>3. PICK m \in Bad : \A i \in Bad : m <= i
  <2>1. Bad \in SUBSET Nat
    BY <1>1
  <2> HIDE DEF Bad
  <2> QED
    BY <1>2, <2>1, SmallestExists
<1>4. m \in 1 .. n + 1 /\ j < m /\ ~(Offset(t, j) < Offset(t, m)) /\ j \in 1 .. n + 1
  BY DEF n
<1>5. m - 1 \in 1 .. n /\ m - 1 \in 1 .. n + 1 /\ m - 1 + 1 = m /\ ~(m <= m - 1) /\ (j = m - 1 \/ j < m - 1)
  BY <1>1, <1>4
<1>6. Offset(t, m - 1) < Offset(t, m)
  BY <1>1, <1>5
<1>7. m - 1 \notin Bad
  BY <1>3, <1>5
<1>8. Offset(t, j) \in Nat /\ Offset(t, m) \in Nat /\ Offset(t, m - 1) \in Nat
  BY <1>1, <1>4, <1>5
<1>9. j = m - 1 \/ Offset(t, j) < Offset(t, m - 1)
  BY <1>5, <1>7
<1> HIDE DEF Bad
<1> QED
  BY <1>4, <1>6, <1>8, <1>9

LEMMA UnderIs ==
  ASSUME NEW f \in Frame, Under(f)
  PROVE  /\ f.tree \in Tree /\ f.number \in Nat /\ f.done \in Nat /\ f.kids \in Seq(Nat)
         /\ Len(f.kids) \in Nat /\ Len(f.kids) <= Len(f.tree.kids) /\ Len(f.tree.kids) \in Nat
         /\ After(f) \in Nat /\ f.number < After(f)
         /\ \A k \in 1 .. Len(f.kids) :
              /\ f.tree.kids[k] \in Tree /\ f.number + Offset(f.tree, k) \in Nat
              /\ f.number < f.number + Offset(f.tree, k)
              /\ f.number + Offset(f.tree, k) < After(f)
         /\ \A j, k \in 1 .. Len(f.kids) :
              f.number + Offset(f.tree, j) = f.number + Offset(f.tree, k) => j = k
<1>1. f.tree \in Tree /\ f.number \in Nat /\ f.done \in Nat /\ f.kids \in Seq(Nat)
  BY DEF Frame
<1> DEFINE t == f.tree
           n == Len(t.kids)
           m == Len(f.kids)
<1>2. n \in Nat /\ m \in Nat /\ m <= n
  <2>1. Right(t) /\ f.done <= Len(Script(t)) /\ m = Dumped(t, f.done)
    BY <1>1, ScriptIs DEF Under
  <2>2. n \in Nat /\ \A i \in 0 .. Len(Script(t)) : Dumped(t, i) \in 0 .. n
    BY <2>1 DEF Right
  <2>3. Len(Script(t)) \in Nat
    BY <2>1 DEF Right
  <2> HIDE DEF m, n, t
  <2>4. f.done \in 0 .. Len(Script(t))
    BY <1>1, <2>1, <2>3
  <2>5. m \in 0 .. n
    BY <2>1, <2>2, <2>4
  <2> QED
    BY <2>2, <2>5
<1>3. /\ \A k \in 1 .. n + 1 : Offset(t, k) \in Nat \ {0}
      /\ \A k \in 1 .. n : t.kids[k] \in Tree
  BY <1>1, OffsetIs
<1>4. \A j, k \in 1 .. n + 1 : j < k => Offset(t, j) < Offset(t, k)
  BY <1>1, OffsetGrows
<1>5. After(f) = f.number + Offset(t, m + 1)
  BY DEF After
<1> HIDE DEF t, n, m
<1>6. m + 1 \in 1 .. n + 1 /\ \A k \in 1 .. m : k \in 1 .. n /\ k \in 1 .. n + 1 /\ k < m + 1
  BY <1>2
<1>7. Offset(t, m + 1) \in Nat \ {0}
  BY <1>3, <1>6
<1>8. After(f) \in Nat /\ f.number < After(f)
  BY <1>1, <1>5, <1>7
<1>9. ASSUME NEW k \in 1 .. m
      PROVE  /\ t.kids[k] \in Tree /\ f.number + Offset(t, k) \in Nat
             /\ f.number < f.number + Offset(t, k)
             /\ f.number + Offset(t, k) < After(f)
  <2>1. t.kids[k] \in Tree /\ Offset(t, k) \in Nat \ {0} /\ Offset(t, k) < Offset(t, m + 1)
    BY <1>3, <1>4, <1>6
  <2> QED
    BY <1>1, <1>5, <1>7, <2>1
<1>10. ASSUME NEW j \in 1 .. m, NEW k \in 1 .. m, f.number + Offset(t, j) = f.number + Offset(t, k)
       PROVE  j = k
  <2>1. /\ Offset(t, k) \in Nat /\ Offset(t, j) \in Nat
        /\ j < k => Offset(t, j) < Offset(t, k)
        /\ k < j => Offset(t, k) < Offset(t, j)
    BY <1>3, <1>4, <1>6
  <2>2. Offset(t, j) = Offset(t, k)
    BY <1>1, <1>10, <2>1
  <2> QED
    BY <2>1, <2>2
<1> QED
  BY <1>1, <1>2, <1>8, <1>9, <1>10 DEF t, n, m

LEMMA StartIs == ASSUME TypeInv
  PROVE  /\ First \in {0, 1}
         /\ Start(1) = First
         /\ \A i \in 1 .. Len(drawn) + 1 : Start(i) \in Nat
         /\ \A i \in 1 .. Len(drawn) : Start(i + 1) = Start(i) + Size[drawn[i]]
<1>1. First \in {0, 1}
  BY DEF First, AstFirst
<1> DEFINE n == Len(drawn)
<1>2. drawn \in Seq(Tree) /\ n \in Nat
  BY DEF TypeInv
<1>3. /\ Total(Size, drawn, 0) = 0
      /\ \A k \in 0 .. n : Total(Size, drawn, k) \in Nat
      /\ \A k \in 1 .. n : Total(Size, drawn, k) = Total(Size, drawn, k - 1) + Size[drawn[k]]
  BY <1>2, SizeIs, TotalIs
<1>4. \A i \in 1 .. n : drawn[i] \in Tree
  BY <1>2
<1>5. \A i \in 1 .. n : Size[drawn[i]] \in Nat
  BY <1>4, SizeIs
<1>6. \A i : Start(i) = First + Total(Size, drawn, i - 1)
  BY DEF Start
<1> HIDE DEF n, First
<1>7. Start(1) = First
  BY <1>1, <1>3, <1>6
<1>8. ASSUME NEW i \in 1 .. n + 1 PROVE Start(i) \in Nat
  <2>1. i - 1 \in 0 .. n
    BY <1>2
  <2>2. Total(Size, drawn, i - 1) \in Nat
    BY <1>3, <2>1
  <2> QED
    BY <1>1, <1>6, <2>2
<1>9. ASSUME NEW i \in 1 .. n PROVE Start(i + 1) = Start(i) + Size[drawn[i]]
  <2>1. i + 1 - 1 = i /\ i - 1 \in 0 .. n
    BY <1>2
  <2>2. Total(Size, drawn, i - 1) \in Nat /\ Size[drawn[i]] \in Nat
    BY <1>3, <1>5, <2>1
  <2> QED
    BY <1>1, <1>3, <1>6, <2>1, <2>2
<1> QED
  BY <1>1, <1>7, <1>8, <1>9 DEF n

(* The calls' numbers, and what each gave its children, go up.               *)
LEMMA NumbersGrow ==
  ASSUME TypeInv, CallsInv
  PROVE  /\ Len(frames) \in Nat
         /\ \A i \in 1 .. Len(frames) : /\ frames[i] \in Frame /\ Under(frames[i])
                                        /\ After(frames[i]) \in Nat /\ After(frames[i]) <= count
         /\ \A i, j \in 1 .. Len(frames) : i < j => After(frames[i]) <= frames[j].number
<1> DEFINE n == Len(frames)
<1>1. /\ n \in Nat /\ (frames = <<>> \/ n \in 1 .. n) /\ frames \in Seq(Frame)
      /\ \A i \in 1 .. n : frames[i] \in Frame
  BY DEF TypeInv
<1>2. /\ \A i \in 1 .. n : Under(frames[i])
      /\ \A i \in 1 .. n - 1 : Dumps(frames[i], frames[i + 1])
  BY DEF CallsInv
<1>3. \A i \in 1 .. n : /\ After(frames[i]) \in Nat /\ frames[i].number < After(frames[i])
                        /\ frames[i].number \in Nat
  BY <1>1, <1>2, UnderIs
<1>4. \A i \in 1 .. n - 1 : frames[i + 1].number = After(frames[i])
  BY <1>2 DEF Dumps
<1>a. frames # <<>> => count = After(frames[n])
  BY DEF CallsInv, Top
<1> DEFINE Bad == {j \in 1 .. n : \E i \in 1 .. n : i < j /\ ~(After(frames[i]) <= frames[j].number)}
<1> HIDE DEF n
<1>5. Bad = {}
  <2>1. SUFFICES ASSUME Bad # {} PROVE FALSE
    OBVIOUS
  <2>2. PICK j \in Bad : \A m \in Bad : j <= m
    <3>1. Bad \in SUBSET Nat
      BY <1>1
    <3> HIDE DEF Bad
    <3> QED
      BY <2>1, <3>1, SmallestExists
  <2>3. PICK i \in 1 .. n : i < j /\ ~(After(frames[i]) <= frames[j].number)
    OBVIOUS
  <2>4. /\ j \in 1 .. n /\ j - 1 \in 1 .. n - 1 /\ j - 1 \in 1 .. n /\ j - 1 + 1 = j
        /\ ~(j <= j - 1) /\ (i = j - 1 \/ i < j - 1)
    BY <1>1, <2>3
  <2>5. frames[j].number = After(frames[j - 1])
    BY <1>4, <2>4
  <2>6. i = j - 1 \/ After(frames[i]) <= frames[j - 1].number
    BY <2>2, <2>4
  <2>7. /\ After(frames[i]) \in Nat /\ After(frames[j - 1]) \in Nat
        /\ frames[j - 1].number \in Nat /\ frames[j - 1].number < After(frames[j - 1])
    BY <1>3, <2>4
  <2> HIDE DEF Bad
  <2> QED
    BY <2>3, <2>5, <2>6, <2>7
<1>6. \A i, j \in 1 .. n : i < j => After(frames[i]) <= frames[j].number
  BY <1>5
<1>7. ASSUME NEW i \in 1 .. n PROVE After(frames[i]) <= count
  <2>1. n \in 1 .. n /\ (i = n \/ i < n) /\ frames # <<>>
    BY <1>1 DEF n
  <2>2. i = n \/ After(frames[i]) <= frames[n].number
    BY <1>6, <2>1
  <2>3. /\ After(frames[i]) \in Nat /\ After(frames[n]) \in Nat
        /\ frames[n].number \in Nat /\ frames[n].number < After(frames[n])
    BY <1>3, <2>1
  <2> QED
    BY <1>a, <2>1, <2>2, <2>3
<1> HIDE DEF Bad
<1> QED
  BY <1>1, <1>2, <1>3, <1>6, <1>7 DEF n

LEMMA FieldsIs == \A t \in Tree : Fields(t) \in Nat /\ \A k \in 1 .. Len(t.kids) : Port(t, k) \in Int
<1>1. ASSUME NEW t \in Tree PROVE Fields(t) \in Nat
  <2>1. t.kind \in Kind /\ t.args \in Nat
    BY DumpAssumption
  <2>2. Len(t.kids) \in Nat
    BY OffsetIs
  <2> QED
    BY <2>1, <2>2 DEF Kind, Fields
<1>2. ASSUME NEW t \in Tree, NEW k \in 1 .. Len(t.kids) PROVE Port(t, k) \in Int
  <2>1. Port(t, k) \in -1 .. Fields(t) - 1 /\ Fields(t) \in Nat
    BY <1>1, PortIs
  <2> QED
    BY <2>1
<1> QED
  BY <1>1, <1>2

(* A new call gives its node the next number.                                *)
LEMMA NewCall ==
  ASSUME TypeInv, CallsInv, NEW t \in Tree, newNode(frames, t)
  PROVE  LET f == [tree |-> t, number |-> count, done |-> 0, kids |-> <<>>] IN
         /\ f \in Frame /\ Under(f) /\ After(f) = count + 1
         /\ frames' \in Seq(Frame) /\ Len(frames') = Len(frames) + 1 /\ frames' # <<>>
         /\ \A i \in 1 .. Len(frames) : frames'[i] = frames[i]
         /\ frames'[Len(frames) + 1] = f
         /\ count' = count + 1 /\ count' \in Nat /\ out' \in Seq(Entry)
<1> DEFINE f == [tree |-> t, number |-> count, done |-> 0, kids |-> <<>>]
           e == [is |-> "node", number |-> count, fields |-> Fields(t)]
<1>1. /\ frames' = Append(frames, f) /\ count' = count + 1 /\ out' = Append(out, e)
      /\ frames \in Seq(Frame) /\ count \in Nat /\ out \in Seq(Entry)
  BY DEF newNode, TypeInv
<1>2. f \in Frame
  BY <1>1 DEF Frame
<1>3. e \in Entry
  BY <1>1, FieldsIs DEF Entry
<1>4. /\ f.tree = t /\ f.number = count /\ f.done = 0 /\ f.kids = <<>> /\ Len(f.kids) = 0
  OBVIOUS
<1>5. Under(f)
  <2>1. Right(t)
    BY ScriptIs
  <2>2. Len(Script(t)) \in Nat /\ Dumped(t, 0) = 0
    BY <2>1 DEF Right
  <2> HIDE DEF f
  <2> QED
    BY <1>4, <2>2 DEF Under
<1>6. After(f) = count + 1
  <2>1. Offset(t, 1) = 1
    BY OffsetIs
  <2> HIDE DEF f
  <2> QED
    BY <1>4, <2>1 DEF After
<1> HIDE DEF f, e
<1>7. /\ frames' \in Seq(Frame) /\ Len(frames') = Len(frames) + 1 /\ frames' # <<>>
      /\ \A i \in 1 .. Len(frames) : frames'[i] = frames[i]
      /\ frames'[Len(frames) + 1] = f
  BY <1>1, <1>2
<1>8. out' \in Seq(Entry) /\ count' \in Nat
  BY <1>1, <1>3
<1> QED
  BY <1>1, <1>2, <1>5, <1>6, <1>7, <1>8 DEF f

LEMMA BeginCalls ==
  ASSUME TypeInv, CallsInv, Begin
  PROVE  /\ TypeInv' /\ CallsInv' /\ First' = First
         /\ drawn' = drawn /\ Head(session) \in Tree /\ newNode(frames, Head(session))
<1> DEFINE t == Head(session)
<1>1. /\ frames = <<>> /\ session # <<>> /\ newNode(frames, t) /\ session' = Tail(session)
      /\ drawn' = drawn /\ session \in Seq(Tree) /\ drawn \in Seq(Tree)
  BY DEF Begin, TypeInv
<1>2. t \in Tree /\ session' \in Seq(Tree) /\ t = session[1]
  BY <1>1
<1> HIDE DEF t
<1> DEFINE f == [tree |-> t, number |-> count, done |-> 0, kids |-> <<>>]
<1>3. /\ Under(f) /\ After(f) = count + 1
      /\ frames' \in Seq(Frame) /\ Len(frames') = Len(frames) + 1 /\ frames' # <<>>
      /\ frames'[Len(frames) + 1] = f
      /\ count' = count + 1 /\ count' \in Nat /\ out' \in Seq(Entry)
  BY <1>1, <1>2, NewCall
<1>4. f.tree = t /\ f.number = count
  OBVIOUS
<1> HIDE DEF f
<1>5. Len(frames') = 1 /\ frames'[1] = f
  BY <1>1, <1>3
<1>6. TypeInv'
  BY <1>1, <1>2, <1>3 DEF TypeInv
<1>7. First' = First
  BY <1>1, <1>2, <1>3, <1>4, <1>5 DEF First
<1>8. Start(Len(drawn) + 1)' = Start(Len(drawn) + 1)
  BY <1>1, <1>7 DEF Start
<1>9. count = Start(Len(drawn) + 1)
  BY <1>1 DEF CallsInv
<1>10. CallsInv'
  <2>1. \A i \in 1 .. Len(frames') : i = 1
    BY <1>5
  <2>2. \A i \in 1 .. Len(frames') - 1 : FALSE
    BY <1>5
  <2>3. Top' = f
    BY <1>5 DEF Top
  <2> QED
    BY <1>3, <1>4, <1>5, <1>8, <1>9, <2>1, <2>2, <2>3 DEF CallsInv
<1> QED
  BY <1>1, <1>2, <1>6, <1>7, <1>10 DEF t

(* What the top call is about to do.                                         *)
LEMMA TopIs ==
  ASSUME TypeInv, CallsInv, frames # <<>>
  PROVE  LET n == Len(frames) IN
         /\ n \in Nat \ {0} /\ n \in 1 .. n /\ Top = frames[n] /\ Top \in Frame /\ Under(Top)
         /\ Top.tree \in Tree /\ Right(Top.tree) /\ count = After(Top)
         /\ Top.done \in Nat /\ Len(Script(Top.tree)) \in Nat
         /\ Top.done < Len(Script(Top.tree)) => Goes(Top.tree, Top.done)
<1> DEFINE n == Len(frames)
<1>1. n \in Nat \ {0} /\ n \in 1 .. n /\ frames \in Seq(Frame) /\ Top = frames[n] /\ Top \in Frame
  BY DEF TypeInv, Top
<1>2. Under(Top) /\ count = After(Top)
  BY <1>1 DEF CallsInv
<1>3. Top.tree \in Tree /\ Top.done \in Nat
  BY <1>1 DEF Frame
<1>4. Right(Top.tree)
  BY <1>3, ScriptIs
<1> HIDE DEF n
<1> DEFINE m == Len(Script(Top.tree))
<1>5. m \in Nat /\ \A i \in 0 .. m - 1 : Goes(Top.tree, i)
  BY <1>4 DEF Right
<1> HIDE DEF m
<1>6. Top.done < m => Top.done \in 0 .. m - 1
  BY <1>3, <1>5
<1>7. Top.done < m => Goes(Top.tree, Top.done)
  BY <1>5, <1>6
<1> QED
  BY <1>1, <1>2, <1>3, <1>4, <1>5, <1>7 DEF n, m

LEMMA DumpChildCalls ==
  ASSUME TypeInv, CallsInv, DumpChild
  PROVE  /\ TypeInv' /\ CallsInv' /\ First' = First /\ drawn' = drawn
         /\ \E t \in Tree : newNode(frames, t)
<1> DEFINE n == Len(frames)
           t == Top.tree.kids[Current[2]]
           f == [tree |-> t, number |-> count, done |-> 0, kids |-> <<>>]
<1>1. /\ frames # <<>> /\ Top.done < Len(Script(Top.tree)) /\ Current[1] = "dump"
      /\ session' = session /\ drawn' = drawn /\ newNode(frames, t)
  BY DEF DumpChild, Visiting
<1>2. /\ n \in Nat \ {0} /\ n \in 1 .. n /\ Top = frames[n] /\ Top \in Frame /\ Under(Top)
      /\ Top.tree \in Tree /\ count = After(Top) /\ Goes(Top.tree, Top.done)
  BY <1>1, TopIs
<1>3. /\ Script(Top.tree)[Top.done + 1] = <<"dump", Len(Top.kids) + 1>>
      /\ Len(Top.kids) + 1 \in 1 .. Len(Top.tree.kids)
  <2>1. Script(Top.tree)[Top.done + 1][1] = "dump"
    BY <1>1 DEF Current
  <2>2. \A k : <<"line", k>>[1] # "dump"
    OBVIOUS
  <2>3. Len(Top.kids) = Dumped(Top.tree, Top.done)
    BY <1>2 DEF Under
  <2> QED
    BY <1>2, <2>1, <2>2, <2>3 DEF Goes
<1>4. Current[2] = Len(Top.kids) + 1
  BY <1>3 DEF Current
<1>5. t \in Tree /\ t = Top.tree.kids[Len(Top.kids) + 1]
  BY <1>2, <1>3, <1>4, OffsetIs
<1> HIDE DEF t
<1>6. /\ f \in Frame /\ Under(f) /\ After(f) = count + 1
      /\ frames' \in Seq(Frame) /\ Len(frames') = n + 1 /\ frames' # <<>>
      /\ \A i \in 1 .. n : frames'[i] = frames[i]
      /\ frames'[n + 1] = f
      /\ count' = count + 1 /\ count' \in Nat /\ out' \in Seq(Entry)
  BY <1>1, <1>5, NewCall
<1>7. f.tree = t /\ f.number = count
  OBVIOUS
<1> HIDE DEF f, n
<1>8. TypeInv'
  BY <1>1, <1>6 DEF TypeInv
<1>9. First' = First
  <2>1. 1 \in 1 .. n
    BY <1>2
  <2>2. frames'[1] = frames[1]
    BY <1>6, <2>1
  <2> QED
    BY <1>1, <1>6, <2>2 DEF First
<1>10. Start(Len(drawn) + 1)' = Start(Len(drawn) + 1)
  BY <1>1, <1>9 DEF Start
<1>11. CallsInv'
  <2>1. ASSUME NEW i \in 1 .. Len(frames') PROVE Under(frames'[i])
    <3>1. i \in 1 .. n \/ i = n + 1
      BY <1>2, <1>6
    <3> QED
      BY <1>6, <3>1 DEF CallsInv, n
  <2>2. ASSUME NEW i \in 1 .. Len(frames') - 1 PROVE Dumps(frames'[i], frames'[i + 1])
    <3>1. (i \in 1 .. n - 1 /\ i \in 1 .. n /\ i + 1 \in 1 .. n) \/ i = n
      BY <1>2, <1>6
    <3>2. CASE i = n
      <4>1. Dumps(Top, f)
        BY <1>1, <1>2, <1>3, <1>5, <1>7 DEF Dumps
      <4>2. frames'[i] = Top /\ frames'[i + 1] = f
        BY <1>2, <1>6, <3>2
      <4> QED
        BY <4>1, <4>2
    <3> QED
      BY <1>6, <3>1, <3>2 DEF CallsInv, n
  <2>3. frames'[1].number = Start(Len(drawn) + 1)'
    <3>1. 1 \in 1 .. n
      BY <1>2
    <3> QED
      BY <1>1, <1>6, <1>10, <3>1 DEF CallsInv
  <2>4. count' = After(Top')
    <3>1. Top' = f
      BY <1>6 DEF Top
    <3> QED
      BY <1>6, <3>1
  <2> QED
    BY <1>6, <2>1, <2>2, <2>3, <2>4 DEF CallsInv
<1> QED
  BY <1>1, <1>5, <1>8, <1>9, <1>11

LEMMA LinedIs ==
  ASSUME NEW t \in Tree, NEW i \in Nat
  PROVE  /\ \A k \in 1 .. Len(t.kids) :
              Script(t)[i + 1] = <<"line", k>> => Lined(t, i + 1) = Lined(t, i) \cup {k}
         /\ \A k : Script(t)[i + 1] = <<"dump", k>> => Lined(t, i + 1) = Lined(t, i)
<1>1. \A j : j \in 1 .. i + 1 <=> j \in 1 .. i \/ j = i + 1
  OBVIOUS
<1>2. \A k \in 1 .. Len(t.kids) :
        k \in Lined(t, i + 1) <=> k \in Lined(t, i) \/ Script(t)[i + 1] = <<"line", k>>
  BY <1>1 DEF Lined
<1>3. Lined(t, i + 1) \subseteq 1 .. Len(t.kids) /\ Lined(t, i) \subseteq 1 .. Len(t.kids)
  BY DEF Lined
<1>4. ASSUME NEW k \in 1 .. Len(t.kids), Script(t)[i + 1] = <<"line", k>>
      PROVE  Lined(t, i + 1) = Lined(t, i) \cup {k}
  <2>1. \A j : <<"line", k>> = <<"line", j>> => j = k
    OBVIOUS
  <2> HIDE DEF Lined
  <2> QED
    BY <1>2, <1>3, <1>4, <2>1
<1>5. ASSUME NEW k, Script(t)[i + 1] = <<"dump", k>>
      PROVE  Lined(t, i + 1) = Lined(t, i)
  <2>1. \A j : <<"dump", k>> # <<"line", j>>
    OBVIOUS
  <2> QED
    BY <1>2, <1>3, <1>5, <2>1
<1> QED
  BY <1>4, <1>5

LEMMA ReplaceIs ==
  ASSUME NEW V, NEW s \in Seq(V), NEW n \in 1 .. Len(s), NEW v \in V
  PROVE  /\ [s EXCEPT ![n] = v] \in Seq(V) /\ Len([s EXCEPT ![n] = v]) = Len(s)
         /\ \A i \in 1 .. Len(s) : i # n => [s EXCEPT ![n] = v][i] = s[i]
         /\ [s EXCEPT ![n] = v][n] = v
OBVIOUS

LEMMA DrawLineCalls ==
  ASSUME TypeInv, CallsInv, drawLine
  PROVE  /\ TypeInv' /\ CallsInv' /\ First' = First /\ drawn' = drawn /\ count' = count
         /\ LET n == Len(frames) IN
            /\ frames # <<>> /\ Len(frames') = n
            /\ \A i \in 1 .. n : i # n => frames'[i] = frames[i]
            /\ frames'[n].tree = Top.tree /\ frames'[n].number = Top.number
            /\ frames'[n].kids = Top.kids
            /\ \E k \in 1 .. Len(Top.kids) :
                 /\ k \notin Lined(Top.tree, Top.done)
                 /\ Lined(Top.tree, frames'[n].done) = Lined(Top.tree, Top.done) \cup {k}
                 /\ Place(Top.tree, k) \in -1 .. Fields(Top.tree) - 1
                 /\ out' = Append(out, [is |-> "line", from |-> Top.number,
                                        port |-> Place(Top.tree, k),
                                        to |-> Top.number + Offset(Top.tree, k)])
<1> DEFINE n == Len(frames)
           g == frames'[n]
<1>1. /\ frames # <<>> /\ Top.done < Len(Script(Top.tree)) /\ Current[1] = "line"
      /\ session' = session /\ drawn' = drawn /\ count' = count
      /\ out' = Append(out, [is |-> "line", from |-> Top.number,
                             port |-> Port(Top.tree, Current[2]),
                             to |-> (Top.kids \o <<0>>)[Current[2]]])
      /\ frames' = [frames EXCEPT ![Len(frames)].done = @ + 1]
  BY DEF drawLine, Visiting
<1>2. /\ n \in Nat \ {0} /\ n \in 1 .. n /\ Top = frames[n] /\ Top \in Frame /\ Under(Top)
      /\ Top.tree \in Tree /\ count = After(Top) /\ Goes(Top.tree, Top.done) /\ Top.done \in Nat
      /\ Len(Script(Top.tree)) \in Nat
  BY <1>1, TopIs
<1>3. /\ frames \in Seq(Frame) /\ count \in Nat /\ out \in Seq(Entry) /\ session \in Seq(Tree)
      /\ drawn \in Seq(Tree)
  BY DEF TypeInv
<1>4. /\ frames' \in Seq(Frame) /\ Len(frames') = n
      /\ \A i \in 1 .. n : i # n => frames'[i] = frames[i]
      /\ g \in Frame /\ g.tree = Top.tree /\ g.number = Top.number /\ g.kids = Top.kids
      /\ g.done = Top.done + 1
  <2>1. [Top EXCEPT !.done = @ + 1] \in Frame
    BY <1>2 DEF Frame
  <2>2. frames' = [frames EXCEPT ![n] = [Top EXCEPT !.done = @ + 1]]
    BY <1>1, <1>2
  <2>3. Top.done + 1 \in Nat /\ Top \in [tree : Tree, number : Nat, done : Nat, kids : Seq(Nat)]
    BY <1>2 DEF Frame
  <2>4. /\ frames' \in Seq(Frame) /\ Len(frames') = n
        /\ \A i \in 1 .. n : i # n => frames'[i] = frames[i]
        /\ frames'[n] = [Top EXCEPT !.done = @ + 1]
    <3> DEFINE h == [Top EXCEPT !.done = @ + 1]
    <3>1. h \in Frame /\ frames' = [frames EXCEPT ![n] = h] /\ n \in 1 .. Len(frames)
      BY <1>2, <2>1, <2>2
    <3> HIDE DEF h
    <3> QED
      BY <1>3, <3>1, ReplaceIs DEF h
  <2>5. /\ [Top EXCEPT !.done = @ + 1].tree = Top.tree
        /\ [Top EXCEPT !.done = @ + 1].number = Top.number
        /\ [Top EXCEPT !.done = @ + 1].kids = Top.kids
        /\ [Top EXCEPT !.done = @ + 1].done = Top.done + 1
    BY <2>3
  <2> QED
    BY <2>1, <2>4, <2>5
<1>5. PICK k \in 1 .. Len(Top.kids) :
        /\ Script(Top.tree)[Top.done + 1] = <<"line", k>> /\ k \notin Lined(Top.tree, Top.done)
        /\ Dumped(Top.tree, Top.done + 1) = Dumped(Top.tree, Top.done)
  <2>1. Script(Top.tree)[Top.done + 1][1] = "line"
    BY <1>1 DEF Current
  <2>2. \A k : <<"dump", k>>[1] # "line"
    OBVIOUS
  <2>3. Len(Top.kids) = Dumped(Top.tree, Top.done)
    BY <1>2 DEF Under
  <2> QED
    BY <1>2, <2>1, <2>2, <2>3 DEF Goes
<1>6. Current[2] = k
  BY <1>5 DEF Current
<1>7. /\ Top.number \in Nat /\ Top.kids \in Seq(Nat) /\ Len(Top.kids) <= Len(Top.tree.kids)
      /\ Len(Top.kids) \in Nat /\ Len(Top.tree.kids) \in Nat
      /\ Top.number + Offset(Top.tree, k) \in Nat
  BY <1>2, <1>5, UnderIs
<1>8. (Top.kids \o <<0>>)[k] = Top.number + Offset(Top.tree, k)
  <2>1. (Top.kids \o <<0>>)[k] = Top.kids[k]
    BY <1>7
  <2> QED
    BY <1>2, <2>1 DEF Under
<1>9. k \in 1 .. Len(Top.tree.kids)
  BY <1>7
<1>10. Port(Top.tree, k) = Place(Top.tree, k) /\ Port(Top.tree, k) \in -1 .. Fields(Top.tree) - 1
  BY <1>2, <1>9, PortIs
<1>11. Lined(Top.tree, g.done) = Lined(Top.tree, Top.done) \cup {k}
  <2>1. \A j \in 1 .. Len(Top.tree.kids) :
          Script(Top.tree)[Top.done + 1] = <<"line", j>>
            => Lined(Top.tree, Top.done + 1) = Lined(Top.tree, Top.done) \cup {j}
    BY <1>2, LinedIs
  <2> HIDE DEF g
  <2> QED
    BY <1>4, <1>5, <1>9, <2>1
<1> DEFINE e == [is |-> "line", from |-> Top.number, port |-> Place(Top.tree, k),
                 to |-> Top.number + Offset(Top.tree, k)]
<1>12. out' = Append(out, e)
  BY <1>1, <1>6, <1>8, <1>10
<1>13. e \in Entry
  <2>1. Place(Top.tree, k) \in Int
    BY <1>2, <1>9, <1>10, FieldsIs
  <2> QED
    BY <1>7, <2>1 DEF Entry
<1> HIDE DEF n
<1>14. TypeInv'
  <2> HIDE DEF e
  <2>1. out' \in Seq(Entry)
    BY <1>3, <1>12, <1>13
  <2> QED
    BY <1>1, <1>3, <1>4, <2>1 DEF TypeInv
<1>15. First' = First
  <2>1. frames'[1].tree = frames[1].tree /\ frames' # <<>>
    <3>1. 1 \in 1 .. n
      BY <1>2
    <3> QED
      BY <1>2, <1>4, <3>1
  <2> QED
    BY <1>1, <2>1 DEF First
<1>16. Under(g)
  <2>1. g.done <= Len(Script(g.tree))
    BY <1>1, <1>2, <1>4
  <2> HIDE DEF g
  <2> QED
    BY <1>2, <1>4, <1>5, <2>1 DEF Under
<1>17. After(g) = After(Top)
  <2> HIDE DEF g
  <2> QED
    BY <1>4 DEF After
<1>18. CallsInv'
  <2>1. ASSUME NEW i \in 1 .. Len(frames') PROVE Under(frames'[i])
    <3>1. i \in 1 .. n
      BY <1>4
    <3>2. CASE i = n
      BY <1>16, <3>2
    <3>3. CASE i # n
      BY <1>4, <3>1, <3>3 DEF CallsInv, n
    <3> QED
      BY <3>2, <3>3
  <2>2. ASSUME NEW i \in 1 .. Len(frames') - 1 PROVE Dumps(frames'[i], frames'[i + 1])
    <3>1. i \in 1 .. n - 1 /\ i \in 1 .. n /\ i # n /\ i + 1 \in 1 .. n
      BY <1>2, <1>4
    <3>2. Dumps(frames[i], frames[i + 1]) /\ frames'[i] = frames[i]
      BY <1>4, <3>1 DEF CallsInv, n
    <3>3. frames'[i + 1].tree = frames[i + 1].tree /\ frames'[i + 1].number = frames[i + 1].number
      BY <1>2, <1>4, <3>1
    <3> QED
      BY <3>2, <3>3 DEF Dumps
  <2>3. frames'[1].number = Start(Len(drawn) + 1)'
    <3>1. 1 \in 1 .. n
      BY <1>2
    <3>2. frames'[1].number = frames[1].number
      BY <1>2, <1>4, <3>1
    <3> QED
      BY <1>1, <1>15, <3>2 DEF CallsInv, Start
  <2>4. count' = After(Top') /\ frames' # <<>>
    <3>1. Top' = g
      BY <1>4 DEF Top
    <3> QED
      BY <1>1, <1>2, <1>4, <1>17, <3>1
  <2> QED
    BY <1>1, <2>1, <2>2, <2>3, <2>4 DEF CallsInv
<1> QED
  BY <1>1, <1>4, <1>5, <1>10, <1>11, <1>12, <1>14, <1>15, <1>18 DEF n

(* What a call that is done has dumped: its whole tree.                      *)
LEMMA WholeTree ==
  ASSUME NEW f \in Frame, Under(f), f.done = Len(Script(f.tree))
  PROVE  /\ After(f) = f.number + Size[f.tree]
         /\ LinesOf(f) = Graph[f.tree][f.number]
<1> DEFINE t == f.tree
           n == Len(t.kids)
<1>1. t \in Tree /\ f.number \in Nat
  BY DEF Frame
<1>2. Dumped(t, f.done) = n /\ Lined(t, f.done) = 1 .. n /\ Len(f.kids) = n
  BY <1>1, ScriptIs DEF Under, Right
<1>3. After(f) = f.number + Size[t]
  BY <1>1, <1>2, OffsetIs DEF After
<1>4. DOMAIN t.kids = 1 .. n
  BY <1>1, OffsetIs
<1>5. Graph[t][f.number] = UNION {Kid(t, k, f.number) : k \in 1 .. n}
  BY <1>1, <1>4, GraphIs
<1>6. LinesOf(f) = {<<f.number, Place(t, k), f.number + Offset(t, k)>> : k \in 1 .. n}
                     \cup UNION {Graph[t.kids[k]][f.number + Offset(t, k)] : k \in 1 .. n}
  BY <1>2 DEF LinesOf
<1> DEFINE E(k) == <<f.number, Place(t, k), f.number + Offset(t, k)>>
           G(k) == Graph[t.kids[k]][f.number + Offset(t, k)]
<1>7. \A k : Kid(t, k, f.number) = {E(k)} \cup G(k)
  BY DEF Kid
<1> HIDE DEF n, t, E, G
<1>8. UNION {Kid(t, k, f.number) : k \in 1 .. n} = {E(k) : k \in 1 .. n} \cup UNION {G(k) : k \in 1 .. n}
  BY <1>7
<1> QED
  BY <1>3, <1>5, <1>6, <1>8 DEF t, E, G

LEMMA FirstsIs ==
  ASSUME NEW V, NEW s \in Seq(V), NEW m \in 1 .. Len(s)
  PROVE  /\ SubSeq(s, 1, m) \in Seq(V) /\ Len(SubSeq(s, 1, m)) = m /\ SubSeq(s, 1, m) # <<>>
         /\ \A i \in 1 .. m : SubSeq(s, 1, m)[i] = s[i]
<1>1. Len(SubSeq(s, 1, m)) = m /\ \A i \in 1 .. m : SubSeq(s, 1, m)[i] = s[i]
  OBVIOUS
<1>2. SubSeq(s, 1, m) \in Seq(V)
  OBVIOUS
<1> QED
  BY <1>1, <1>2

(* A call that ends above another: that one has dumped one child more.       *)
LEMMA ReturnCalls ==
  ASSUME TypeInv, CallsInv, Return, Len(frames) > 1
  PROVE  /\ TypeInv' /\ CallsInv' /\ First' = First /\ drawn' = drawn /\ count' = count
         /\ out' = out /\ Top.done = Len(Script(Top.tree))
         /\ LET m == Len(frames) - 1 IN
            /\ m \in 1 .. Len(frames) /\ Len(frames') = m
            /\ \A i \in 1 .. m : i # m => frames'[i] = frames[i]
            /\ frames'[m].tree = frames[m].tree /\ frames'[m].number = frames[m].number
            /\ Len(frames'[m].kids) = Len(frames[m].kids) + 1
            /\ Lined(frames[m].tree, frames'[m].done) = Lined(frames[m].tree, frames[m].done)
            /\ Dumps(frames[m], Top)
<1> DEFINE n == Len(frames)
           m == Len(frames) - 1
           f == frames[m]
           g == frames'[m]
           below == SubSeq(frames, 1, Len(frames) - 1)
<1>1. frames # <<>> /\ n \in Nat /\ m \in Nat \ {0} /\ m \in 1 .. n /\ m + 1 = n /\ n \in 1 .. n
  <2>1. frames \in Seq(Frame)
    BY DEF TypeInv
  <2>2. n \in Nat /\ n > 1 /\ frames # <<>>
    BY <2>1
  <2>3. \A x \in Nat : x > 1 => /\ x - 1 \in Nat \ {0} /\ x - 1 \in 1 .. x
                                 /\ x - 1 + 1 = x /\ x \in 1 .. x
    OBVIOUS
  <2> QED
    BY <2>2, <2>3
<1>2. /\ n \in Nat \ {0} /\ n \in 1 .. n /\ Top = frames[n] /\ Top \in Frame /\ Under(Top)
      /\ Top.tree \in Tree /\ count = After(Top)
  BY <1>1, TopIs
<1>3. /\ frames \in Seq(Frame) /\ count \in Nat /\ out \in Seq(Entry) /\ session \in Seq(Tree)
      /\ drawn \in Seq(Tree)
  BY DEF TypeInv
<1>4. /\ below \in Seq(Frame) /\ Len(below) = m /\ below # <<>>
      /\ \A i \in 1 .. m : below[i] = frames[i]
  <2> HIDE DEF m
  <2>1. below = SubSeq(frames, 1, m) /\ m \in 1 .. Len(frames)
    BY <1>1 DEF m
  <2> HIDE DEF below
  <2> QED
    BY <1>3, <2>1, FirstsIs
<1>5. /\ Top.done = Len(Script(Top.tree)) /\ session' = session /\ count' = count /\ out' = out
      /\ drawn' = drawn
      /\ frames' = [below EXCEPT ![Len(below)].done = @ + 1,
                                 ![Len(below)].kids = Append(@, Top.number)]
  BY <1>4 DEF Return
<1> HIDE DEF below
<1>6. f \in Frame /\ Dumps(f, Top) /\ Under(f) /\ below[m] = f
  <2>1. m \in 1 .. n - 1 /\ frames[m + 1] = Top /\ m \in 1 .. m
    BY <1>1, <1>2
  <2>2. Under(f) /\ Dumps(f, Top)
    BY <1>1, <2>1 DEF CallsInv
  <2>3. below[m] = f
    BY <1>4, <2>1
  <2>4. f \in Frame
    <3> HIDE DEF m
    <3> QED
      BY <1>1, <1>3
  <2> HIDE DEF f
  <2> QED
    BY <2>2, <2>3, <2>4
<1>7. /\ f.tree \in Tree /\ f.number \in Nat /\ f.done \in Nat /\ f.kids \in Seq(Nat)
      /\ Len(f.kids) \in Nat /\ Top.number \in Nat
  BY <1>2, <1>6, UnderIs
<1>8. /\ frames' \in Seq(Frame) /\ Len(frames') = m
      /\ \A i \in 1 .. m : i # m => frames'[i] = frames[i]
      /\ g \in Frame /\ g.tree = f.tree /\ g.number = f.number /\ g.kids = Append(f.kids, Top.number)
      /\ g.done = f.done + 1
  <2> DEFINE h == [f EXCEPT !.done = f.done + 1, !.kids = Append(f.kids, Top.number)]
  <2>1. /\ h \in Frame /\ h.tree = f.tree /\ h.number = f.number /\ h.done = f.done + 1
        /\ h.kids = Append(f.kids, Top.number)
    <3>1. f \in [tree : Tree, number : Nat, done : Nat, kids : Seq(Nat)]
      BY <1>6 DEF Frame
    <3>2. f.done + 1 \in Nat /\ Append(f.kids, Top.number) \in Seq(Nat)
      BY <1>7
    <3> HIDE DEF f
    <3> QED
      BY <3>1, <3>2 DEF Frame
  <2>2. frames' = [below EXCEPT ![m] = h]
    <3>1. m \in DOMAIN below
      BY <1>1, <1>4
    <3>2. frames' = [[below EXCEPT ![m] = [below[m] EXCEPT !.done = f.done + 1]]
                       EXCEPT ![m] = [[below[m] EXCEPT !.done = f.done + 1]
                                        EXCEPT !.kids = Append(f.kids, Top.number)]]
      BY <1>4, <1>5, <1>6, <3>1
    <3> HIDE DEF f
    <3> QED
      BY <1>4, <1>6, <3>1, <3>2
  <2> HIDE DEF h, f, m
  <2>3. m \in 1 .. Len(below)
    BY <1>1, <1>4
  <2>4. /\ frames' \in Seq(Frame) /\ Len(frames') = m
        /\ \A i \in 1 .. m : i # m => frames'[i] = below[i]
        /\ frames'[m] = h
    BY <1>4, <2>1, <2>2, <2>3, ReplaceIs
  <2> QED
    BY <1>4, <2>1, <2>4
<1> HIDE DEF n, m, f, g
<1>9. TypeInv'
  BY <1>3, <1>5, <1>8 DEF TypeInv
<1>10. /\ 1 \in 1 .. m /\ frames' # <<>>
       /\ frames'[1].tree = frames[1].tree /\ frames'[1].number = frames[1].number
  <2>1. 1 \in 1 .. m
    BY <1>1
  <2>2. 1 = m \/ frames'[1] = frames[1]
    BY <1>8, <2>1
  <2>3. frames'[m].tree = frames[m].tree /\ frames'[m].number = frames[m].number
    BY <1>8 DEF f, g
  <2> QED
    BY <1>1, <1>8, <2>1, <2>2, <2>3
<1>11. First' = First
  BY <1>1, <1>5, <1>10 DEF First
<1>12. Goes(f.tree, f.done) /\ f.done + 1 <= Len(Script(f.tree)) /\ Len(Script(f.tree)) \in Nat
  <2>1. Right(f.tree) /\ f.done < Len(Script(f.tree))
    BY <1>6, <1>7, ScriptIs DEF Dumps
  <2> DEFINE l == Len(Script(f.tree))
  <2>2. l \in Nat /\ \A i \in 0 .. l - 1 : Goes(f.tree, i)
    BY <2>1 DEF Right
  <2> HIDE DEF l
  <2>3. f.done \in 0 .. l - 1 /\ f.done + 1 <= l
    BY <1>7, <2>1, <2>2 DEF l
  <2> QED
    BY <2>2, <2>3 DEF l
<1>13. Dumped(f.tree, f.done + 1) = Len(f.kids) + 1
  <2>1. Script(f.tree)[f.done + 1] = <<"dump", Len(f.kids) + 1>>
    BY <1>6 DEF Dumps
  <2>2. \A k, j : <<"dump", j>> # <<"line", k>>
    OBVIOUS
  <2>3. Len(f.kids) = Dumped(f.tree, f.done)
    BY <1>6 DEF Under
  <2> QED
    BY <1>12, <2>1, <2>2, <2>3 DEF Goes
<1>14. Lined(f.tree, g.done) = Lined(f.tree, f.done)
  <2>1. Script(f.tree)[f.done + 1] = <<"dump", Len(f.kids) + 1>>
    BY <1>6 DEF Dumps
  <2>2. \A k : Script(f.tree)[f.done + 1] = <<"dump", k>>
                 => Lined(f.tree, f.done + 1) = Lined(f.tree, f.done)
    BY <1>7, LinedIs
  <2> QED
    BY <1>8, <2>1, <2>2
<1>15. Len(g.kids) = Len(f.kids) + 1
  BY <1>7, <1>8
<1>16. /\ Top.number = f.number + Offset(f.tree, Len(f.kids) + 1)
       /\ Top.tree = f.tree.kids[Len(f.kids) + 1] /\ Len(f.kids) + 1 \in 1 .. Len(f.tree.kids)
  BY <1>6 DEF Dumps, After
<1>17. Under(g)
  <2>1. ASSUME NEW k \in 1 .. Len(f.kids) + 1 PROVE g.kids[k] = g.number + Offset(g.tree, k)
    <3>1. k \in 1 .. Len(f.kids) \/ k = Len(f.kids) + 1
      BY <1>7
    <3>2. CASE k \in 1 .. Len(f.kids)
      <4>1. g.kids[k] = f.kids[k]
        BY <1>7, <1>8, <3>2
      <4>2. f.kids[k] = f.number + Offset(f.tree, k)
        BY <1>6, <3>2 DEF Under
      <4> QED
        BY <1>8, <4>1, <4>2
    <3>3. CASE k = Len(f.kids) + 1
      <4>1. g.kids[k] = Top.number
        BY <1>7, <1>8, <3>3
      <4> QED
        BY <1>8, <1>16, <3>3, <4>1
    <3> QED
      BY <3>1, <3>2, <3>3
  <2>2. g.done <= Len(Script(g.tree)) /\ Len(g.kids) = Dumped(g.tree, g.done)
    BY <1>8, <1>12, <1>13, <1>15
  <2> QED
    BY <1>15, <2>1, <2>2 DEF Under
<1>18. After(g) = count
  <2>1. After(Top) = Top.number + Size[Top.tree]
    BY <1>2, <1>5, WholeTree
  <2> DEFINE k == Len(f.kids) + 1
  <2>2. /\ Offset(f.tree, k + 1) = Offset(f.tree, k) + Size[f.tree.kids[k]]
        /\ Size[f.tree.kids[k]] \in Nat
    BY <1>7, <1>16, OffsetIs
  <2>3. Offset(f.tree, k) \in Nat
    <3>1. \A j \in 1 .. Len(f.tree.kids) + 1 : Offset(f.tree, j) \in Nat
      BY <1>7, OffsetIs
    <3>2. Len(f.tree.kids) \in Nat
      BY <1>7, OffsetIs
    <3>3. k \in 1 .. Len(f.tree.kids) + 1
      BY <1>7, <1>16, <3>2
    <3> QED
      BY <3>1, <3>3
  <2>4. After(g) = f.number + Offset(f.tree, k + 1)
    BY <1>8, <1>15 DEF After
  <2>5. Top.number = f.number + Offset(f.tree, k) /\ Top.tree = f.tree.kids[k]
    BY <1>16
  <2> HIDE DEF k
  <2> QED
    BY <1>2, <1>7, <2>1, <2>2, <2>3, <2>4, <2>5
<1>19. CallsInv'
  <2>1. ASSUME NEW i \in 1 .. Len(frames') PROVE Under(frames'[i])
    <3>1. i \in 1 .. m /\ i \in 1 .. n
      BY <1>1, <1>8
    <3>2. CASE i = m
      BY <1>17, <3>2 DEF g
    <3>3. CASE i # m
      BY <1>8, <3>1, <3>3 DEF CallsInv, n
    <3> QED
      BY <3>2, <3>3
  <2>2. ASSUME NEW i \in 1 .. Len(frames') - 1 PROVE Dumps(frames'[i], frames'[i + 1])
    <3>1. i \in 1 .. n - 1 /\ i \in 1 .. m /\ i # m /\ i + 1 \in 1 .. m
      BY <1>1, <1>8
    <3>2. Dumps(frames[i], frames[i + 1]) /\ frames'[i] = frames[i]
      BY <1>8, <3>1 DEF CallsInv, n
    <3>3. frames'[i + 1].tree = frames[i + 1].tree /\ frames'[i + 1].number = frames[i + 1].number
      BY <1>8, <3>1 DEF f, g
    <3> QED
      BY <3>2, <3>3 DEF Dumps
  <2>3. frames'[1].number = Start(Len(drawn) + 1)'
    BY <1>1, <1>5, <1>10, <1>11 DEF CallsInv, Start
  <2>4. count' = After(Top') /\ frames' # <<>>
    <3>1. Top' = g
      BY <1>8 DEF Top, g
    <3> QED
      BY <1>5, <1>10, <1>18, <3>1
  <2> QED
    BY <2>1, <2>2, <2>3, <2>4 DEF CallsInv
<1> QED
  BY <1>1, <1>5, <1>6, <1>8, <1>9, <1>11, <1>14, <1>15, <1>19 DEF n, m, f, g

(* The outermost call ends: a tree is drawn.                                 *)
LEMMA DrawnCalls ==
  ASSUME TypeInv, CallsInv, Return, ~(Len(frames) > 1)
  PROVE  /\ TypeInv' /\ CallsInv' /\ First' = First /\ count' = count /\ out' = out
         /\ frames' = <<>> /\ Len(frames) = 1 /\ Top = frames[1]
         /\ Top.done = Len(Script(Top.tree)) /\ Top.number = Start(Len(drawn) + 1)
         /\ Len(drawn') = Len(drawn) + 1 /\ drawn'[Len(drawn) + 1] = Top.tree
         /\ \A i \in 1 .. Len(drawn) : drawn'[i] = drawn[i]
         /\ \A i \in 1 .. Len(drawn) + 1 : Start(i)' = Start(i)
<1> DEFINE l == Len(drawn)
<1>1. frames # <<>> /\ frames \in Seq(Frame) /\ Len(frames) = 1
  <2>1. frames \in Seq(Frame) /\ frames # <<>>
    BY DEF Return, TypeInv
  <2>2. Len(frames) \in Nat /\ Len(frames) # 0
    BY <2>1
  <2>3. \A x \in Nat : x # 0 /\ ~(x > 1) => x = 1
    OBVIOUS
  <2> QED
    BY <2>1, <2>2, <2>3
<1>2. Top = frames[1] /\ Top \in Frame /\ Under(Top) /\ Top.tree \in Tree /\ count = After(Top)
  BY <1>1, TopIs
<1>3. SubSeq(frames, 1, Len(frames) - 1) = <<>>
  BY <1>1
<1>4. /\ Top.done = Len(Script(Top.tree)) /\ session' = session /\ count' = count /\ out' = out
      /\ frames' = <<>> /\ drawn' = Append(drawn, Top.tree)
  BY <1>3 DEF Return
<1>5. drawn \in Seq(Tree) /\ l \in Nat
  BY DEF TypeInv
<1>6. /\ drawn' \in Seq(Tree) /\ Len(drawn') = l + 1 /\ drawn'[l + 1] = Top.tree
      /\ \A i \in 1 .. l : drawn'[i] = drawn[i]
  BY <1>2, <1>4, <1>5
<1>7. TypeInv'
  <2>1. frames' \in Seq(Frame)
    BY <1>4
  <2> QED
    BY <1>4, <1>6, <2>1 DEF TypeInv
<1>8. First' = First
  <2>1. CASE drawn = <<>>
    <3>1. l = 0 /\ drawn' # <<>> /\ drawn'[1] = Top.tree
      BY <1>4, <1>6, <2>1
    <3> QED
      BY <1>1, <1>2, <2>1, <3>1 DEF First
  <2>2. CASE drawn # <<>>
    <3>1. 1 \in 1 .. l /\ drawn' # <<>>
      BY <1>5, <1>6, <2>2
    <3>2. drawn'[1] = drawn[1]
      BY <1>6, <3>1
    <3> QED
      BY <2>2, <3>1, <3>2 DEF First
  <2> QED
    BY <2>1, <2>2
<1>9. ASSUME NEW i \in 1 .. l + 1 PROVE First' + Total(Size, drawn', i - 1) = Start(i)
  <2>1. i - 1 \in Nat /\ i - 1 <= l /\ i - 1 <= Len(drawn') /\ \A j \in 1 .. i - 1 : j \in 1 .. l
    BY <1>5, <1>6
  <2> DEFINE d == drawn'
  <2>2. d \in Seq(Tree) /\ i - 1 <= Len(d) /\ \A j \in 1 .. i - 1 : drawn[j] = d[j]
    BY <1>6, <2>1
  <2>3. Total(Size, drawn, i - 1) = Total(Size, d, i - 1)
    <3> HIDE DEF d
    <3> QED
      BY <1>5, <2>1, <2>2, SizeIs, TotalSame
  <2> QED
    BY <1>8, <2>3 DEF Start
<1>10. Top.number = Start(l + 1)
  BY <1>1, <1>2 DEF CallsInv
<1>11. count' = Start(Len(drawn) + 1)'
  <2>1. After(Top) = Top.number + Size[Top.tree]
    BY <1>2, <1>4, WholeTree
  <2> DEFINE d == drawn'
  <2>2. d \in Seq(Tree) /\ Len(d) = l + 1 /\ d[l + 1] = Top.tree
    BY <1>6
  <2> HIDE DEF d
  <2>3. Total(Size, d, l + 1) = Total(Size, d, l) + Size[Top.tree] /\ Total(Size, d, l) \in Nat
    <3>1. l + 1 \in 1 .. Len(d) /\ l + 1 - 1 = l /\ l \in 0 .. Len(d)
      BY <1>5, <2>2
    <3>2. /\ \A k \in 0 .. Len(d) : Total(Size, d, k) \in Nat
          /\ \A k \in 1 .. Len(d) : Total(Size, d, k) = Total(Size, d, k - 1) + Size[d[k]]
      BY <2>2, SizeIs, TotalIs
    <3> HIDE DEF l
    <3> QED
      BY <2>2, <3>1, <3>2
  <2>4. l + 1 \in 1 .. l + 1 /\ l + 1 - 1 = l /\ l + 1 + 1 - 1 = l + 1
    BY <1>5
  <2>5. First' + Total(Size, d, l + 1 - 1) = Start(l + 1)
    BY <1>9, <2>4 DEF d
  <2>6. First' \in Nat /\ Size[Top.tree] \in Nat
    BY <1>2, <1>8, SizeIs, StartIs
  <2>7. Start(Len(drawn) + 1)' = First' + Total(Size, d, Len(d) + 1 - 1)
    BY DEF Start, d
  <2> HIDE DEF l, First
  <2>8. count' = After(Top)
    BY <1>2, <1>4
  <2> QED
    BY <1>10, <2>1, <2>2, <2>3, <2>4, <2>5, <2>6, <2>7, <2>8
<1>12. CallsInv'
  BY <1>4, <1>11 DEF CallsInv
<1>13. \A i \in 1 .. l + 1 : Start(i)' = Start(i)
  BY <1>9 DEF Start
<1> QED
  BY <1>1, <1>2, <1>4, <1>6, <1>7, <1>8, <1>10, <1>12, <1>13

-----------------------------------------------------------------------------
(* What is written.                                                          *)
LEMMA EntriesAre ==
  ASSUME TypeInv
  PROVE  /\ Len(out) \in Nat /\ Nodes \subseteq 1 .. Len(out) /\ Lines \subseteq 1 .. Len(out)
         /\ \A i \in Nodes : out[i].number \in Nat /\ out[i].fields \in Nat
         /\ \A i \in Lines : out[i].from \in Nat /\ out[i].port \in Int /\ out[i].to \in Nat
<1>1. out \in Seq(Entry)
  BY DEF TypeInv
<1>2. Len(out) \in Nat /\ DOMAIN out = 1 .. Len(out) /\ \A i \in 1 .. Len(out) : out[i] \in Entry
  BY <1>1
<1>3. Nodes \subseteq 1 .. Len(out) /\ Lines \subseteq 1 .. Len(out)
  BY <1>2 DEF Nodes, Lines
<1>4. ASSUME NEW e \in Entry, e.is = "node" PROVE e.number \in Nat /\ e.fields \in Nat
  BY <1>4 DEF Entry
<1>5. ASSUME NEW e \in Entry, e.is = "line" PROVE e.from \in Nat /\ e.port \in Int /\ e.to \in Nat
  BY <1>5 DEF Entry
<1>6. (\A i \in Nodes : out[i].is = "node") /\ \A i \in Lines : out[i].is = "line"
  BY DEF Nodes, Lines
<1> QED
  BY <1>2, <1>3, <1>4, <1>5, <1>6

LEMMA EntryAdded ==
  ASSUME TypeInv, NEW e, out' = Append(out, e), out' \in Seq(Entry)
  PROVE  LET l == Len(out) + 1 IN
         /\ out'[l] = e /\ \A i \in 1 .. Len(out) : out'[i] = out[i]
         /\ l \notin 1 .. Len(out)
         /\ e.is = "node" => Nodes' = Nodes \cup {l} /\ Lines' = Lines
         /\ e.is = "line" => Nodes' = Nodes /\ Lines' = Lines \cup {l}
<1>1. out \in Seq(Entry)
  BY DEF TypeInv
<1>2. /\ Len(out') = Len(out) + 1 /\ out'[Len(out) + 1] = e
      /\ \A i \in 1 .. Len(out) : out'[i] = out[i]
      /\ Len(out) \in Nat
  BY <1>1
<1>3. DOMAIN out = 1 .. Len(out) /\ DOMAIN out' = 1 .. Len(out')
  BY <1>1
<1>4. /\ Nodes = {i \in 1 .. Len(out) : out[i].is = "node"}
      /\ Lines = {i \in 1 .. Len(out) : out[i].is = "line"}
      /\ Nodes' = {i \in 1 .. Len(out) + 1 : out'[i].is = "node"}
      /\ Lines' = {i \in 1 .. Len(out) + 1 : out'[i].is = "line"}
  BY <1>2, <1>3 DEF Nodes, Lines
<1> DEFINE l == Len(out)
<1>5. /\ l + 1 \notin 1 .. l /\ l + 1 \in 1 .. l + 1
      /\ \A i : i \in 1 .. l + 1 <=> i \in 1 .. l \/ i = l + 1
  BY <1>2
<1> HIDE DEF l
<1>6. ASSUME e.is = "node" PROVE Nodes' = Nodes \cup {l + 1} /\ Lines' = Lines
  BY <1>2, <1>4, <1>5, <1>6 DEF l
<1>7. ASSUME e.is = "line" PROVE Nodes' = Nodes /\ Lines' = Lines \cup {l + 1}
  BY <1>2, <1>4, <1>5, <1>7 DEF l
<1> QED
  BY <1>2, <1>5, <1>6, <1>7 DEF l

LEMMA NodeWritten ==
  ASSUME TypeInv, CallsInv, NodesInv, LinesInv, NEW t \in Tree, newNode(frames, t),
         drawn' = drawn, First' = First
  PROVE  NodesInv' /\ LinesInv'
<1> DEFINE n == Len(frames)
           l == Len(out) + 1
           f == [tree |-> t, number |-> count, done |-> 0, kids |-> <<>>]
           e == [is |-> "node", number |-> count, fields |-> Fields(t)]
<1>1. /\ Len(frames') = n + 1 /\ (\A i \in 1 .. n : frames'[i] = frames[i]) /\ frames'[n + 1] = f
      /\ count' = count + 1 /\ out' \in Seq(Entry) /\ n \in Nat /\ count \in Nat
  <2>1. n \in Nat /\ count \in Nat
    BY DEF TypeInv
  <2> QED
    BY <2>1, NewCall
<1>2. out' = Append(out, e) /\ e.is = "node" /\ e.number = count /\ e.fields = Fields(t)
  BY DEF newNode
<1> HIDE DEF e
<1>3. /\ out'[l] = e /\ \A i \in 1 .. Len(out) : out'[i] = out[i]
      /\ l \notin 1 .. Len(out) /\ Nodes' = Nodes \cup {l} /\ Lines' = Lines
  BY <1>1, <1>2, EntryAdded
<1>4. /\ Nodes \subseteq 1 .. Len(out) /\ Lines \subseteq 1 .. Len(out)
      /\ \A i \in Nodes : out[i].number \in Nat /\ out[i].fields \in Nat
      /\ \A i \in Lines : out[i].from \in Nat /\ out[i].port \in Int /\ out[i].to \in Nat
  BY EntriesAre
<1>5. f.tree = t /\ f.number = count /\ f.done = 0 /\ f.kids = <<>> /\ Len(f.kids) = 0
  OBVIOUS
<1> HIDE DEF f, n, l
<1>6. \A i \in 1 .. n + 1 : i \in 1 .. n \/ i = n + 1
  BY <1>1
<1>7. ASSUME NEW i \in 1 .. n
      PROVE  /\ frames[i].number \in Nat /\ frames[i].number < count
             /\ \A k \in 1 .. Len(frames[i].kids) : frames[i].number + Offset(frames[i].tree, k) < count
  <2>1. /\ frames[i] \in Frame /\ Under(frames[i]) /\ After(frames[i]) \in Nat
        /\ After(frames[i]) <= count
    BY NumbersGrow DEF n
  <2>2. /\ frames[i].number \in Nat /\ frames[i].number < After(frames[i])
        /\ \A k \in 1 .. Len(frames[i].kids) :
             /\ frames[i].number + Offset(frames[i].tree, k) \in Nat
             /\ frames[i].number + Offset(frames[i].tree, k) < After(frames[i])
    BY <2>1, UnderIs
  <2> QED
    BY <1>1, <2>1, <2>2
<1>8. /\ \A i \in Nodes : out'[i] = out[i]
      /\ \A i \in Lines : out'[i] = out[i]
      /\ \A i \in Nodes' : i \in Nodes \/ (i = l /\ out'[i] = e)
      /\ l \in Nodes' /\ l \notin Nodes
  BY <1>3, <1>4
<1>9. \A i \in Nodes : out[i].number < count /\ out[i].number # count
  <2>1. First \in {0, 1}
    BY StartIs
  <2>2. \A i \in Nodes : out[i].number \in First .. count - 1
    BY DEF NodesInv
  <2> QED
    BY <1>1, <2>1, <2>2
<1>10. NodesInv'
  <2>1. {out'[i].number : i \in Nodes'} = First' .. count' - 1 /\ First' <= count'
    <3>1. {out'[i].number : i \in Nodes'} = {out[i].number : i \in Nodes} \cup {count}
      <4>1. \A i \in Nodes' : (i \in Nodes /\ out'[i].number = out[i].number) \/ (i = l /\ out'[i].number = count)
        BY <1>2, <1>8
      <4>2. l \in Nodes' /\ l \notin Nodes /\ \A i \in Nodes : i \in Nodes'
        BY <1>3, <1>8
      <4> QED
        BY <4>1, <4>2
    <3>2. First \in {0, 1} /\ First <= count /\ {out[i].number : i \in Nodes} = First .. count - 1
      BY StartIs DEF NodesInv
    <3>3. First <= count + 1 /\ First .. count + 1 - 1 = (First .. count - 1) \cup {count}
      <4> HIDE DEF First
      <4> QED
        BY <1>1, <3>2
    <3>4. {out'[i].number : i \in Nodes'} = First .. count + 1 - 1
      BY <3>1, <3>2, <3>3
    <3> HIDE DEF First
    <3> QED
      BY <1>1, <3>3, <3>4
  <2>2. ASSUME NEW i \in Nodes', NEW j \in Nodes', out'[i].number = out'[j].number PROVE i = j
    <3>1. CASE i \in Nodes /\ j \in Nodes
      BY <1>8, <2>2, <3>1 DEF NodesInv
    <3>2. CASE i \notin Nodes \/ j \notin Nodes
      BY <1>2, <1>8, <1>9, <2>2, <3>2
    <3> QED
      BY <3>1, <3>2
  <2>3. ASSUME NEW i \in Nodes', NEW k \in 1 .. n + 1, out'[i].number = frames'[k].number
        PROVE  out'[i].fields = Fields(frames'[k].tree)
    <3>1. CASE i \in Nodes /\ k \in 1 .. n
      <4>1. out'[i] = out[i] /\ frames'[k] = frames[k]
        BY <1>1, <1>8, <3>1
      <4>2. out[i].number = frames[k].number => out[i].fields = Fields(frames[k].tree)
        BY <3>1 DEF NodesInv, n
      <4> QED
        BY <2>3, <4>1, <4>2
    <3>2. CASE i \in Nodes /\ k = n + 1
      BY <1>1, <1>5, <1>8, <1>9, <2>3, <3>2
    <3>3. CASE i = l /\ out'[i] = e /\ k \in 1 .. n
      BY <1>1, <1>2, <1>7, <2>3, <3>3
    <3>4. CASE i = l /\ out'[i] = e /\ k = n + 1
      BY <1>1, <1>2, <1>5, <3>4
    <3> QED
      BY <1>6, <1>8, <3>1, <3>2, <3>3, <3>4
  <2> QED
    BY <1>1, <2>1, <2>2, <2>3 DEF NodesInv
<1>11. LinesInv'
  <2>1. {Line(i)' : i \in Lines'}
          = (UNION {Graph[drawn'[i]][Start(i)'] : i \in 1 .. Len(drawn')})
              \cup UNION {LinesOf(frames'[i]) : i \in 1 .. n + 1}
    <3>1. {Line(i)' : i \in Lines'} = {Line(i) : i \in Lines}
      BY <1>3, <1>8 DEF Line
    <3>2. \A i : Start(i)' = Start(i)
      BY DEF Start
    <3>3. LinesOf(f) = {}
      <4>1. Lined(t, 0) = {} /\ 1 .. 0 = {}
        BY DEF Lined
      <4> QED
        BY <1>5, <4>1 DEF LinesOf
    <3>4. UNION {LinesOf(frames'[i]) : i \in 1 .. n + 1} = UNION {LinesOf(frames[i]) : i \in 1 .. n}
      <4>1. \A i \in 1 .. n : i \in 1 .. n + 1
        BY <1>1
      <4> QED
        BY <1>1, <1>6, <3>3, <4>1
    <3>5. {Line(i) : i \in Lines} = (UNION {Graph[drawn[i]][Start(i)] : i \in 1 .. Len(drawn)})
                                      \cup UNION {LinesOf(frames[i]) : i \in 1 .. n}
      BY DEF LinesInv, n
    <3> QED
      BY <3>1, <3>2, <3>4, <3>5
  <2>2. \A j \in Lines' : out'[j].from < count' /\ out'[j].to < count'
    <3>1. \A j \in Lines : out[j].from < count /\ out[j].to < count
      BY DEF LinesInv
    <3> QED
      BY <1>1, <1>3, <1>4, <1>8, <3>1
  <2>3. \A i, j \in Lines' : out'[i].to = out'[j].to => i = j
    BY <1>3, <1>8 DEF LinesInv
  <2>4. ASSUME NEW j \in Lines', NEW i \in 1 .. n + 1
        PROVE  /\ out'[j].to # frames'[i].number
               /\ \A k \in 1 .. Len(frames'[i].kids) :
                    out'[j].to = frames'[i].number + Offset(frames'[i].tree, k)
                      => k \in Lined(frames'[i].tree, frames'[i].done)
    <3>1. CASE i \in 1 .. n
      <4>1. out'[j] = out[j] /\ frames'[i] = frames[i] /\ j \in Lines
        BY <1>1, <1>3, <1>8, <3>1
      <4>2. /\ out[j].to # frames[i].number
            /\ \A k \in 1 .. Len(frames[i].kids) :
                 out[j].to = frames[i].number + Offset(frames[i].tree, k)
                   => k \in Lined(frames[i].tree, frames[i].done)
        BY <3>1, <4>1 DEF LinesInv, n
      <4> QED
        BY <4>1, <4>2
    <3>2. CASE i = n + 1
      <4>1. out'[j].to \in Nat /\ out'[j].to < count
        BY <1>3, <1>4, <1>8 DEF LinesInv
      <4>2. frames'[i].number = count /\ 1 .. Len(frames'[i].kids) = {}
        BY <1>1, <1>5, <3>2
      <4> QED
        BY <1>1, <4>1, <4>2
    <3> QED
      BY <1>6, <3>1, <3>2
  <2>5. ASSUME NEW i \in Nodes', NEW j \in Lines', out'[i].number = out'[j].from
        PROVE  out'[j].port \in -1 .. out'[i].fields - 1
    <3>1. CASE i \in Nodes
      BY <1>3, <1>8, <2>5, <3>1 DEF LinesInv
    <3>2. CASE i = l /\ out'[i] = e
      <4>1. out'[j].from \in Nat /\ out'[j].from < count
        BY <1>3, <1>4, <1>8 DEF LinesInv
      <4>2. out'[j].from = count
        BY <1>2, <2>5, <3>2
      <4>3. \A x \in Nat : x < count => x # count
        BY <1>1
      <4> QED
        BY <4>1, <4>2, <4>3
    <3> QED
      BY <1>8, <3>1, <3>2
  <2> QED
    BY <1>1, <2>1, <2>2, <2>3, <2>4, <2>5 DEF LinesInv
<1> QED
  BY <1>10, <1>11

LEMMA LineWritten ==
  ASSUME TypeInv, CallsInv, NodesInv, LinesInv, drawLine
  PROVE  NodesInv' /\ LinesInv'
<1> DEFINE n == Len(frames)
           l == Len(out) + 1
           top == Top
           g == frames'[n]
<1>1. /\ TypeInv' /\ First' = First /\ drawn' = drawn /\ count' = count
      /\ frames # <<>> /\ Len(frames') = n
      /\ \A i \in 1 .. n : i # n => frames'[i] = frames[i]
      /\ g.tree = top.tree /\ g.number = top.number /\ g.kids = top.kids
  BY DrawLineCalls
<1>2. PICK k \in 1 .. Len(top.kids) :
        /\ k \notin Lined(top.tree, top.done)
        /\ Lined(top.tree, g.done) = Lined(top.tree, top.done) \cup {k}
        /\ Place(top.tree, k) \in -1 .. Fields(top.tree) - 1
        /\ out' = Append(out, [is |-> "line", from |-> top.number, port |-> Place(top.tree, k),
                               to |-> top.number + Offset(top.tree, k)])
  BY DrawLineCalls
<1> DEFINE to == top.number + Offset(top.tree, k)
           e == [is |-> "line", from |-> top.number, port |-> Place(top.tree, k), to |-> to]
<1>3. /\ out' = Append(out, e) /\ e.is = "line"
      /\ e.from = top.number /\ e.port = Place(top.tree, k) /\ e.to = to
  BY <1>2
<1> HIDE DEF e
<1>4. out' \in Seq(Entry) /\ count \in Nat
  BY <1>1 DEF TypeInv
<1>5. /\ out'[l] = e /\ \A i \in 1 .. Len(out) : out'[i] = out[i]
      /\ l \notin 1 .. Len(out) /\ Nodes' = Nodes /\ Lines' = Lines \cup {l}
  BY <1>3, <1>4, EntryAdded
<1>6. /\ Nodes \subseteq 1 .. Len(out) /\ Lines \subseteq 1 .. Len(out)
      /\ \A i \in Nodes : out[i].number \in Nat /\ out[i].fields \in Nat
      /\ \A i \in Lines : out[i].from \in Nat /\ out[i].port \in Int /\ out[i].to \in Nat
  BY EntriesAre
<1>7. /\ n \in Nat \ {0} /\ n \in 1 .. n /\ top = frames[n] /\ top \in Frame /\ Under(top)
      /\ count = After(top)
  BY <1>1, TopIs
<1> HIDE DEF n, l, top, g
<1>8. /\ top.number \in Nat /\ top.number < count /\ top.number < to /\ to \in Nat /\ to < count
      /\ \A j \in 1 .. Len(top.kids) : top.number + Offset(top.tree, j) = to => j = k
  BY <1>2, <1>7, UnderIs
<1> HIDE DEF to
<1>9. ASSUME NEW i \in 1 .. n, i # n
      PROVE  /\ frames[i].number \in Nat /\ frames[i].number < to
             /\ \A j \in 1 .. Len(frames[i].kids) : frames[i].number + Offset(frames[i].tree, j) # to
  <2>1. /\ frames[i] \in Frame /\ Under(frames[i]) /\ After(frames[i]) \in Nat
        /\ After(frames[i]) <= top.number
    <3>1. i < n
      BY <1>7, <1>9
    <3> QED
      BY <1>7, <3>1, NumbersGrow DEF n
  <2>2. /\ frames[i].number \in Nat /\ frames[i].number < After(frames[i])
        /\ \A j \in 1 .. Len(frames[i].kids) :
             /\ frames[i].number + Offset(frames[i].tree, j) \in Nat
             /\ frames[i].number + Offset(frames[i].tree, j) < After(frames[i])
    BY <2>1, UnderIs
  <2>3. \A x \in Nat : x < After(frames[i]) => x < to /\ x # to
    BY <1>8, <2>1
  <2> QED
    BY <2>2, <2>3
<1>10. /\ \A i \in Nodes : out'[i] = out[i]
       /\ \A i \in Lines : out'[i] = out[i]
       /\ \A i \in Lines' : i \in Lines \/ (i = l /\ out'[i] = e)
       /\ l \in Lines' /\ l \notin Lines
  BY <1>5, <1>6
<1>11. \A i \in 1 .. n : /\ frames'[i].number = frames[i].number /\ frames'[i].tree = frames[i].tree
                         /\ frames'[i].kids = frames[i].kids
  BY <1>1, <1>7 DEF g
<1>12. NodesInv'
  <2>1. {out'[i].number : i \in Nodes'} = {out[i].number : i \in Nodes}
    BY <1>5, <1>10
  <2>2. {out[i].number : i \in Nodes} = First .. count - 1 /\ First <= count
    BY DEF NodesInv
  <2>3. {out'[i].number : i \in Nodes'} = First' .. count' - 1 /\ First' <= count'
    BY <1>1, <2>1, <2>2
  <2>4. \A i, j \in Nodes' : out'[i].number = out'[j].number => i = j
    BY <1>5, <1>10 DEF NodesInv
  <2>5. \A i \in Nodes' : \A j \in 1 .. Len(frames') :
          out'[i].number = frames'[j].number => out'[i].fields = Fields(frames'[j].tree)
    BY <1>1, <1>5, <1>10, <1>11 DEF NodesInv, n
  <2> QED
    BY <2>3, <2>4, <2>5 DEF NodesInv
<1>13. \A j \in Lines : out[j].to # to
  <2>1. \A j \in Lines : out[j].to = top.number + Offset(top.tree, k) => k \in Lined(top.tree, top.done)
    BY <1>2, <1>7 DEF LinesInv, n
  <2> QED
    BY <1>2, <2>1 DEF to
<1>14. LinesInv'
  <2>1. {Line(i)' : i \in Lines'}
          = (UNION {Graph[drawn'[i]][Start(i)'] : i \in 1 .. Len(drawn')})
              \cup UNION {LinesOf(frames'[i]) : i \in 1 .. n}
    <3> DEFINE new == <<top.number, Place(top.tree, k), to>>
    <3>1. {Line(i)' : i \in Lines'} = {Line(i) : i \in Lines} \cup {new}
      <4>1. \A i \in Lines' : (i \in Lines /\ Line(i)' = Line(i)) \/ (i = l /\ Line(i)' = new)
        BY <1>3, <1>10 DEF Line
      <4>2. l \in Lines' /\ l \notin Lines /\ \A i \in Lines : i \in Lines'
        BY <1>5, <1>10
      <4> HIDE DEF new, Line
      <4> QED
        BY <4>1, <4>2
    <3>2. \A i : Start(i)' = Start(i)
      BY <1>1 DEF Start
    <3>3. LinesOf(g) = LinesOf(top) \cup {new}
      <4>1. LinesOf(g) = {<<top.number, Place(top.tree, j), top.number + Offset(top.tree, j)>> :
                            j \in Lined(top.tree, top.done) \cup {k}}
                    \cup UNION {Graph[top.tree.kids[j]][top.number + Offset(top.tree, j)] : j \in 1 .. Len(top.kids)}
        BY <1>1, <1>2 DEF LinesOf
      <4>2. LinesOf(top) = {<<top.number, Place(top.tree, j), top.number + Offset(top.tree, j)>> :
                              j \in Lined(top.tree, top.done)}
                    \cup UNION {Graph[top.tree.kids[j]][top.number + Offset(top.tree, j)] : j \in 1 .. Len(top.kids)}
        BY DEF LinesOf
      <4>3. new = <<top.number, Place(top.tree, k), top.number + Offset(top.tree, k)>>
        BY DEF to
      <4> HIDE DEF new
      <4> QED
        BY <4>1, <4>2, <4>3
    <3> HIDE DEF new
    <3>4. UNION {LinesOf(frames'[i]) : i \in 1 .. n} = (UNION {LinesOf(frames[i]) : i \in 1 .. n}) \cup {new}
      <4>1. \A i \in 1 .. n : LinesOf(frames'[i]) = LinesOf(frames[i]) \/ i = n
        BY <1>1
      <4>2. LinesOf(frames'[n]) = LinesOf(frames[n]) \cup {new}
        BY <1>7, <3>3 DEF g
      <4> DEFINE A == 1 .. n
                 K(i) == LinesOf(frames'[i])
                 L(i) == LinesOf(frames[i])
      <4>3. n \in A /\ (\A i \in A : K(i) = L(i) \/ i = n) /\ K(n) = L(n) \cup {new}
        BY <1>7, <4>1, <4>2
      <4> HIDE DEF A, K, L
      <4>4. UNION {K(i) : i \in A} = (UNION {L(i) : i \in A}) \cup {new}
        BY <4>3
      <4> QED
        BY <4>4 DEF A, K, L
    <3>5. {Line(i) : i \in Lines} = (UNION {Graph[drawn[i]][Start(i)] : i \in 1 .. Len(drawn)})
                                      \cup UNION {LinesOf(frames[i]) : i \in 1 .. n}
      BY DEF LinesInv, n
    <3>6. UNION {Graph[drawn'[i]][Start(i)'] : i \in 1 .. Len(drawn')}
            = UNION {Graph[drawn[i]][Start(i)] : i \in 1 .. Len(drawn)}
      BY <1>1, <3>2
    <3> DEFINE D == UNION {Graph[drawn[i]][Start(i)] : i \in 1 .. Len(drawn)}
               O == UNION {LinesOf(frames[i]) : i \in 1 .. n}
               W == {Line(i) : i \in Lines}
    <3>7. W = D \cup O
      BY <3>5
    <3>8. {Line(i)' : i \in Lines'} = W \cup {new}
      BY <3>1
    <3>9. UNION {LinesOf(frames'[i]) : i \in 1 .. n} = O \cup {new}
      BY <3>4
    <3> HIDE DEF D, O, W
    <3>10. {Line(i)' : i \in Lines'} = D \cup (O \cup {new})
      BY <3>7, <3>8
    <3> QED
      BY <3>6, <3>9, <3>10 DEF D
  <2>2. \A j \in Lines' : out'[j].from < count' /\ out'[j].to < count'
    BY <1>1, <1>3, <1>8, <1>10 DEF LinesInv
  <2>3. \A i, j \in Lines' : out'[i].to = out'[j].to => i = j
    <3>1. \A i, j \in Lines : out[i].to = out[j].to => i = j
      BY DEF LinesInv
    <3>2. \A i \in Lines' : (i \in Lines /\ out'[i].to = out[i].to) \/ (i = l /\ out'[i].to = to)
      BY <1>3, <1>10
    <3> QED
      BY <1>13, <3>1, <3>2
  <2>4. ASSUME NEW j \in Lines', NEW i \in 1 .. n
        PROVE  /\ out'[j].to # frames'[i].number
               /\ \A m \in 1 .. Len(frames'[i].kids) :
                    out'[j].to = frames'[i].number + Offset(frames'[i].tree, m)
                      => m \in Lined(frames'[i].tree, frames'[i].done)
    <3>1. Lined(frames[i].tree, frames[i].done) \subseteq Lined(frames'[i].tree, frames'[i].done)
      <4>1. CASE i = n
        BY <1>1, <1>2, <1>7, <4>1 DEF g
      <4>2. CASE i # n
        BY <1>1, <4>2
      <4> QED
        BY <4>1, <4>2
    <3>2. CASE j \in Lines
      BY <1>10, <1>11, <3>1, <3>2 DEF LinesInv, n
    <3>3. CASE j = l /\ out'[j] = e
      <4>1. out'[j].to = to
        BY <1>3, <3>3
      <4>2. CASE i # n
        <5>1. /\ frames[i].number # to
              /\ \A m \in 1 .. Len(frames[i].kids) : frames[i].number + Offset(frames[i].tree, m) # to
          BY <1>8, <1>9, <4>2
        <5> QED
          BY <1>11, <4>1, <5>1
      <4>3. CASE i = n
        <5>1. top.number # to /\ k \in Lined(top.tree, g.done)
          BY <1>2, <1>8
        <5> QED
          BY <1>1, <1>8, <4>1, <4>3, <5>1 DEF g
      <4> QED
        BY <4>2, <4>3
    <3> QED
      BY <1>10, <3>2, <3>3
  <2>5. ASSUME NEW i \in Nodes', NEW j \in Lines', out'[i].number = out'[j].from
        PROVE  out'[j].port \in -1 .. out'[i].fields - 1
    <3>1. CASE j \in Lines
      BY <1>5, <1>10, <2>5, <3>1 DEF LinesInv
    <3>2. CASE j = l /\ out'[j] = e
      <4>1. out[i].number = top.number /\ i \in Nodes
        BY <1>3, <1>5, <1>10, <2>5, <3>2
      <4>2. out[i].fields = Fields(top.tree)
        BY <1>7, <4>1 DEF NodesInv, n
      <4> QED
        BY <1>2, <1>3, <1>10, <3>2, <4>1, <4>2
    <3> QED
      BY <1>10, <3>1, <3>2
  <2> QED
    BY <1>1, <2>1, <2>2, <2>3, <2>4, <2>5 DEF LinesInv
<1> QED
  BY <1>12, <1>14

LEMMA ReturnWritten ==
  ASSUME TypeInv, CallsInv, NodesInv, LinesInv, Return, Len(frames) > 1
  PROVE  NodesInv' /\ LinesInv'
<1> DEFINE n == Len(frames)
           m == Len(frames) - 1
           f == frames[m]
           g == frames'[m]
<1>1. /\ First' = First /\ drawn' = drawn /\ count' = count /\ out' = out
      /\ Top.done = Len(Script(Top.tree))
      /\ m \in 1 .. n /\ Len(frames') = m
      /\ \A i \in 1 .. m : i # m => frames'[i] = frames[i]
      /\ g.tree = f.tree /\ g.number = f.number
      /\ Len(g.kids) = Len(f.kids) + 1
      /\ Lined(f.tree, g.done) = Lined(f.tree, f.done)
      /\ Dumps(f, Top)
  BY ReturnCalls
<1>2. /\ n \in Nat /\ n \in 1 .. n /\ m \in Nat /\ m \in 1 .. m
      /\ \A i : i \in 1 .. n <=> i \in 1 .. m \/ i = n
  <2>1. n \in Nat
    BY DEF TypeInv
  <2> HIDE DEF n
  <2>2. n - 1 \in 1 .. n
    BY <1>1 DEF n
  <2>3. m = n - 1
    BY DEF n
  <2> HIDE DEF m
  <2> QED
    BY <2>1, <2>2, <2>3
<1>3. Top = frames[n] /\ Top \in Frame /\ Under(Top)
  <2>1. frames # <<>>
    BY <1>2
  <2> QED
    BY <2>1, TopIs
<1> HIDE DEF n, m, f, g
<1>4. Nodes' = Nodes /\ Lines' = Lines
  BY <1>1 DEF Nodes, Lines
<1>5. \A i \in 1 .. m : /\ frames'[i].number = frames[i].number /\ frames'[i].tree = frames[i].tree
                        /\ Lined(frames'[i].tree, frames'[i].done) = Lined(frames[i].tree, frames[i].done)
  BY <1>1 DEF f, g
<1>6. NodesInv'
  BY <1>1, <1>2, <1>4, <1>5 DEF NodesInv, n
<1>7. Len(f.kids) \in Nat
  <2>1. frames \in Seq(Frame)
    BY DEF TypeInv
  <2>2. f \in Frame
    BY <1>1, <2>1 DEF f, n
  <2> QED
    BY <2>2 DEF Frame
<1>8. LinesInv'
  <2>1. LinesOf(g) = LinesOf(f) \cup LinesOf(Top)
    <3>1. LinesOf(Top) = Graph[Top.tree][Top.number]
      BY <1>1, <1>3, WholeTree
    <3>2. Top.tree = f.tree.kids[Len(f.kids) + 1] /\ Top.number = f.number + Offset(f.tree, Len(f.kids) + 1)
      BY <1>1 DEF Dumps, After
    <3> DEFINE G(k) == Graph[f.tree.kids[k]][f.number + Offset(f.tree, k)]
               E == {<<f.number, Place(f.tree, k), f.number + Offset(f.tree, k)>> : k \in Lined(f.tree, f.done)}
    <3>3. /\ LinesOf(g) = E \cup UNION {G(k) : k \in 1 .. Len(f.kids) + 1}
          /\ LinesOf(f) = E \cup UNION {G(k) : k \in 1 .. Len(f.kids)}
      BY <1>1 DEF LinesOf
    <3>4. LinesOf(Top) = G(Len(f.kids) + 1)
      BY <3>1, <3>2
    <3>5. \A k : k \in 1 .. Len(f.kids) + 1 <=> k \in 1 .. Len(f.kids) \/ k = Len(f.kids) + 1
      BY <1>7
    <3> HIDE DEF E, G
    <3>6. UNION {G(k) : k \in 1 .. Len(f.kids) + 1}
            = (UNION {G(k) : k \in 1 .. Len(f.kids)}) \cup G(Len(f.kids) + 1)
      <4> DEFINE A == 1 .. Len(f.kids) + 1
                 B == 1 .. Len(f.kids)
                 c == Len(f.kids) + 1
      <4>1. \A k : k \in A <=> k \in B \/ k = c
        BY <3>5
      <4> HIDE DEF A, B, c
      <4>2. UNION {G(k) : k \in A} = (UNION {G(k) : k \in B}) \cup G(c)
        BY <4>1
      <4> QED
        BY <4>2 DEF A, B, c
    <3> QED
      BY <3>3, <3>4, <3>6
  <2>2. UNION {LinesOf(frames'[i]) : i \in 1 .. m} = UNION {LinesOf(frames[i]) : i \in 1 .. n}
    <3>1. \A i \in 1 .. m : LinesOf(frames'[i]) = LinesOf(frames[i]) \/ i = m
      BY <1>1
    <3>2. LinesOf(frames'[m]) = LinesOf(frames[m]) \cup LinesOf(frames[n])
      BY <1>3, <2>1 DEF f, g
    <3> HIDE DEF LinesOf
    <3> QED
      BY <1>2, <3>1, <3>2
  <2>3. (\A i : Start(i)' = Start(i)) /\ \A i : Line(i)' = Line(i)
    BY <1>1 DEF Start, Line
  <2>4. {Line(i)' : i \in Lines'}
          = (UNION {Graph[drawn'[i]][Start(i)'] : i \in 1 .. Len(drawn')})
              \cup UNION {LinesOf(frames'[i]) : i \in 1 .. m}
    <3>1. {Line(i)' : i \in Lines'} = {Line(i) : i \in Lines}
      BY <1>4, <2>3
    <3>2. {Line(i) : i \in Lines} = (UNION {Graph[drawn[i]][Start(i)] : i \in 1 .. Len(drawn)})
                                      \cup UNION {LinesOf(frames[i]) : i \in 1 .. n}
      BY DEF LinesInv, n
    <3>3. UNION {Graph[drawn'[i]][Start(i)'] : i \in 1 .. Len(drawn')}
            = UNION {Graph[drawn[i]][Start(i)] : i \in 1 .. Len(drawn)}
      BY <1>1, <2>3
    <3> QED
      BY <2>2, <3>1, <3>2, <3>3
  <2>5. ASSUME NEW j \in Lines', NEW i \in 1 .. m
        PROVE  /\ out'[j].to # frames'[i].number
               /\ \A k \in 1 .. Len(frames'[i].kids) :
                    out'[j].to = frames'[i].number + Offset(frames'[i].tree, k)
                      => k \in Lined(frames'[i].tree, frames'[i].done)
    <3>1. /\ i \in 1 .. n /\ j \in Lines /\ out'[j] = out[j]
      BY <1>1, <1>2, <1>4
    <3>2. CASE i # m
      BY <1>1, <3>1, <3>2 DEF LinesInv, n
    <3>3. CASE i = m
      <4>1. out[j].to # f.number /\ out[j].to # Top.number
        BY <1>2, <1>3, <3>1, <3>3 DEF LinesInv, n, f
      <4>2. \A k \in 1 .. Len(f.kids) : out[j].to = f.number + Offset(f.tree, k) => k \in Lined(f.tree, f.done)
        BY <3>1, <3>3 DEF LinesInv, n, f
      <4>3. Top.number = f.number + Offset(f.tree, Len(f.kids) + 1)
        BY <1>1 DEF Dumps, After
      <4>4. \A k \in 1 .. Len(g.kids) : k \in 1 .. Len(f.kids) \/ k = Len(f.kids) + 1
        BY <1>1, <1>7
      <4>5. \A k \in 1 .. Len(g.kids) : out[j].to = f.number + Offset(f.tree, k) => k \in Lined(f.tree, f.done)
        BY <4>1, <4>2, <4>3, <4>4
      <4> QED
        BY <1>1, <3>1, <3>3, <4>1, <4>5 DEF g
    <3> QED
      BY <3>2, <3>3
  <2>6. /\ \A j \in Lines' : out'[j].from < count' /\ out'[j].to < count'
        /\ \A i, j \in Lines' : out'[i].to = out'[j].to => i = j
        /\ \A i \in Nodes', j \in Lines' :
             out'[i].number = out'[j].from => out'[j].port \in -1 .. out'[i].fields - 1
    BY <1>1, <1>4 DEF LinesInv
  <2> QED
    BY <1>1, <2>4, <2>5, <2>6 DEF LinesInv
<1> QED
  BY <1>6, <1>8

LEMMA DrawnWritten ==
  ASSUME TypeInv, CallsInv, NodesInv, LinesInv, Return, ~(Len(frames) > 1)
  PROVE  NodesInv' /\ LinesInv'
<1> DEFINE l == Len(drawn)
<1>1. /\ First' = First /\ count' = count /\ out' = out
      /\ frames' = <<>> /\ Len(frames) = 1 /\ Top = frames[1]
      /\ Top.done = Len(Script(Top.tree)) /\ Top.number = Start(l + 1)
      /\ Len(drawn') = l + 1 /\ drawn'[l + 1] = Top.tree
      /\ \A i \in 1 .. l : drawn'[i] = drawn[i]
      /\ \A i \in 1 .. l + 1 : Start(i)' = Start(i)
  BY DrawnCalls
<1>2. Top \in Frame /\ Under(Top)
  <2>1. frames # <<>>
    BY DEF Return
  <2> QED
    BY <2>1, TopIs
<1>3. l \in Nat
  BY DEF TypeInv
<1> HIDE DEF l
<1>4. Nodes' = Nodes /\ Lines' = Lines
  BY <1>1 DEF Nodes, Lines
<1>5. \A i \in 1 .. Len(frames') : FALSE
  BY <1>1
<1>6. NodesInv'
  BY <1>1, <1>4, <1>5 DEF NodesInv
<1>7. LinesInv'
  <2>1. LinesOf(Top) = Graph[Top.tree][Top.number]
    BY <1>1, <1>2, WholeTree
  <2>2. UNION {LinesOf(frames[i]) : i \in 1 .. Len(frames)} = LinesOf(Top)
    <3>1. 1 .. Len(frames) = {1}
      BY <1>1
    <3> HIDE DEF LinesOf
    <3> QED
      BY <1>1, <3>1
  <2> DEFINE G(i) == Graph[drawn[i]][Start(i)]
             H(i) == Graph[drawn'[i]][Start(i)']
  <2>3. \A i : i \in 1 .. l + 1 <=> i \in 1 .. l \/ i = l + 1
    BY <1>3
  <2>4. (\A i \in 1 .. l : H(i) = G(i)) /\ H(l + 1) = LinesOf(Top)
    <3>1. \A i \in 1 .. l : i \in 1 .. l + 1
      BY <2>3
    <3>2. \A i \in 1 .. l + 1 : H(i) = Graph[drawn'[i]][Start(i)]
      BY <1>1
    <3>3. l + 1 \in 1 .. l + 1
      BY <2>3
    <3> HIDE DEF H
    <3>4. H(l + 1) = Graph[Top.tree][Start(l + 1)]
      BY <1>1, <3>2, <3>3
    <3> QED
      BY <1>1, <2>1, <3>1, <3>2, <3>4
  <2>5. {Line(i) : i \in Lines} = (UNION {G(i) : i \in 1 .. l}) \cup LinesOf(Top)
    BY <2>2 DEF LinesInv, l
  <2> HIDE DEF G, H
  <2>6. UNION {H(i) : i \in 1 .. l + 1} = (UNION {G(i) : i \in 1 .. l}) \cup LinesOf(Top)
    <3> DEFINE A == 1 .. l + 1
               B == 1 .. l
               c == l + 1
    <3>1. (\A i : i \in A <=> i \in B \/ i = c) /\ (\A i \in B : H(i) = G(i)) /\ H(c) = LinesOf(Top)
      BY <2>3, <2>4
    <3> HIDE DEF A, B, c
    <3>2. UNION {H(i) : i \in A} = (UNION {G(i) : i \in B}) \cup LinesOf(Top)
      BY <3>1
    <3> QED
      BY <3>2 DEF A, B, c
  <2>7. {Line(i)' : i \in Lines'} = {Line(i) : i \in Lines}
    BY <1>1, <1>4 DEF Line
  <2>8. {Line(i)' : i \in Lines'}
          = (UNION {Graph[drawn'[i]][Start(i)'] : i \in 1 .. Len(drawn')})
              \cup UNION {LinesOf(frames'[i]) : i \in 1 .. Len(frames')}
    <3>1. UNION {LinesOf(frames'[i]) : i \in 1 .. Len(frames')} = {}
      BY <1>5
    <3> QED
      BY <1>1, <2>5, <2>6, <2>7, <3>1 DEF H
  <2>9. /\ \A j \in Lines' : out'[j].from < count' /\ out'[j].to < count'
        /\ \A i, j \in Lines' : out'[i].to = out'[j].to => i = j
        /\ \A i \in Nodes', j \in Lines' :
             out'[i].number = out'[j].from => out'[j].port \in -1 .. out'[i].fields - 1
    BY <1>1, <1>4 DEF LinesInv
  <2> QED
    BY <1>5, <2>8, <2>9 DEF LinesInv
<1> QED
  BY <1>6, <1>7

-----------------------------------------------------------------------------
LEMMA DumpInit == Init => DumpInv
<1>1. SUFFICES ASSUME Init PROVE DumpInv
  OBVIOUS
<1>2. /\ session \in Sessions /\ frames = <<>> /\ out = <<>> /\ drawn = <<>>
      /\ count = AstFirst(session[1])
  BY <1>1 DEF Init, AstFirst
<1>3. TypeInv
  <2>1. session \in Seq(Tree)
    BY <1>2, DumpAssumption
  <2>2. frames \in Seq(Frame) /\ drawn \in Seq(Tree) /\ out \in Seq(Entry)
    BY <1>2
  <2>3. count \in Nat
    BY <1>2 DEF AstFirst
  <2> QED
    BY <2>1, <2>2, <2>3 DEF TypeInv
<1>4. First = count
  BY <1>2 DEF First
<1>5. Len(frames) = 0 /\ Len(drawn) = 0
  BY <1>2
<1>6. Nodes = {} /\ Lines = {}
  BY <1>2 DEF Nodes, Lines
<1>7. CallsInv
  <2>1. Start(1) = First
    BY <1>3, StartIs
  <2>2. 1 .. Len(frames) = {} /\ 1 .. Len(frames) - 1 = {} /\ Len(drawn) + 1 = 1
    BY <1>5
  <2> QED
    BY <1>2, <1>4, <2>1, <2>2 DEF CallsInv
<1>8. NodesInv
  <2>1. First .. count - 1 = {} /\ First <= count
    <3>1. count \in Nat
      BY <1>3 DEF TypeInv
    <3> QED
      BY <1>4, <3>1
  <2> QED
    BY <1>6, <2>1 DEF NodesInv
<1>9. LinesInv
  <2>1. 1 .. Len(frames) = {} /\ 1 .. Len(drawn) = {}
    BY <1>5
  <2> QED
    BY <1>6, <2>1 DEF LinesInv
<1> QED
  BY <1>3, <1>7, <1>8, <1>9 DEF DumpInv

LEMMA DumpStep == DumpInv /\ [Next]_vars => DumpInv'
<1> SUFFICES ASSUME DumpInv, [Next]_vars PROVE DumpInv'
  OBVIOUS
<1> USE DEF DumpInv
<1>1. CASE Begin
  <2>1. /\ TypeInv' /\ CallsInv' /\ First' = First /\ drawn' = drawn
        /\ Head(session) \in Tree /\ newNode(frames, Head(session))
    BY <1>1, BeginCalls
  <2> QED
    BY <2>1, NodeWritten
<1>2. CASE DumpChild
  <2>1. /\ TypeInv' /\ CallsInv' /\ First' = First /\ drawn' = drawn
        /\ \E t \in Tree : newNode(frames, t)
    BY <1>2, DumpChildCalls
  <2> QED
    BY <2>1, NodeWritten
<1>3. CASE drawLine
  BY <1>3, DrawLineCalls, LineWritten
<1>4. CASE Return
  <2>1. CASE Len(frames) > 1
    BY <1>4, <2>1, ReturnCalls, ReturnWritten
  <2>2. CASE ~(Len(frames) > 1)
    BY <1>4, <2>2, DrawnCalls, DrawnWritten
  <2> QED
    BY <2>1, <2>2
<1>5. CASE UNCHANGED <<session, frames, count, out, drawn>>
  <2>1. TypeInv'
    BY <1>5 DEF TypeInv
  <2>2. First' = First /\ Nodes' = Nodes /\ Lines' = Lines /\ Top' = Top
        /\ (\A i : Start(i)' = Start(i)) /\ \A i : Line(i)' = Line(i)
    BY <1>5 DEF First, Nodes, Lines, Top, Start, Line
  <2>3. Start(Len(drawn) + 1)' = Start(Len(drawn) + 1)
    BY <1>5, <2>2 DEF Start
  <2>4. CallsInv'
    BY <1>5, <2>2, <2>3 DEF CallsInv
  <2>5. NodesInv'
    BY <1>5, <2>2 DEF NodesInv
  <2>6. LinesInv'
    <3>1. {Line(i)' : i \in Lines'} = {Line(i) : i \in Lines}
      BY <2>2
    <3>2. UNION {Graph[drawn'[i]][Start(i)'] : i \in 1 .. Len(drawn')}
            = UNION {Graph[drawn[i]][Start(i)] : i \in 1 .. Len(drawn)}
      BY <1>5, <2>2
    <3>3. UNION {LinesOf(frames'[i]) : i \in 1 .. Len(frames')}
            = UNION {LinesOf(frames[i]) : i \in 1 .. Len(frames)}
      BY <1>5
    <3>4. {Line(i)' : i \in Lines'}
            = (UNION {Graph[drawn'[i]][Start(i)'] : i \in 1 .. Len(drawn')})
                \cup UNION {LinesOf(frames'[i]) : i \in 1 .. Len(frames')}
      BY <3>1, <3>2, <3>3 DEF LinesInv
    <3>5. /\ \A j \in Lines' : out'[j].from < count' /\ out'[j].to < count'
          /\ \A i, j \in Lines' : out'[i].to = out'[j].to => i = j
          /\ \A j \in Lines' : \A i \in 1 .. Len(frames') :
               /\ out'[j].to # frames'[i].number
               /\ \A k \in 1 .. Len(frames'[i].kids) :
                    out'[j].to = frames'[i].number + Offset(frames'[i].tree, k)
                      => k \in Lined(frames'[i].tree, frames'[i].done)
          /\ \A i \in Nodes', j \in Lines' :
               out'[i].number = out'[j].from => out'[j].port \in -1 .. out'[i].fields - 1
      BY <1>5, <2>2 DEF LinesInv
    <3> QED
      BY <3>4, <3>5 DEF LinesInv
  <2> QED
    BY <2>1, <2>4, <2>5, <2>6
<1> QED
  BY <1>1, <1>2, <1>3, <1>4, <1>5 DEF Next, end, Closed, vars

LEMMA DumpInvDraws == DumpInv => DrawsTheTrees
<1> SUFFICES ASSUME DumpInv, frames = <<>>, drawn # <<>>
             PROVE  LET first == IF drawn[1].kind = "ast" THEN 1 ELSE 0
                        St(i) == first + Total(Size, drawn, i - 1)
                    IN  /\ {out[i].number : i \in Nodes} = first .. St(Len(drawn) + 1) - 1
                        /\ \A i, j \in Nodes : out[i].number = out[j].number => i = j
                        /\ {<<out[i].from, out[i].port, out[i].to>> : i \in Lines}
                             = UNION {Graph[drawn[i]][St(i)] : i \in DOMAIN drawn}
                        /\ \A i, j \in Lines : out[i].to = out[j].to => i = j
                        /\ \A i \in Nodes, j \in Lines :
                             out[i].number = out[j].from => out[j].port \in -1 .. out[i].fields - 1
  BY DEF DrawsTheTrees
<1> USE DEF DumpInv
<1> DEFINE first == IF drawn[1].kind = "ast" THEN 1 ELSE 0
           St(i) == first + Total(Size, drawn, i - 1)
<1>1. first = First /\ \A i : St(i) = Start(i)
  BY DEF First, AstFirst, Start
<1>2. DOMAIN drawn = 1 .. Len(drawn)
  BY DEF TypeInv
<1> HIDE DEF first, St
<1>3. {out[i].number : i \in Nodes} = first .. St(Len(drawn) + 1) - 1
  BY <1>1 DEF NodesInv, CallsInv
<1>4. {<<out[i].from, out[i].port, out[i].to>> : i \in Lines}
        = UNION {Graph[drawn[i]][St(i)] : i \in DOMAIN drawn}
  <2>1. UNION {LinesOf(frames[i]) : i \in 1 .. Len(frames)} = {}
    <3>1. 1 .. Len(frames) = {}
      OBVIOUS
    <3> QED
      BY <3>1
  <2>2. {Line(i) : i \in Lines} = UNION {Graph[drawn[i]][Start(i)] : i \in 1 .. Len(drawn)}
    BY <2>1 DEF LinesInv
  <2> QED
    BY <1>1, <1>2, <2>2 DEF Line
<1>5. /\ \A i, j \in Nodes : out[i].number = out[j].number => i = j
      /\ \A i, j \in Lines : out[i].to = out[j].to => i = j
      /\ \A i \in Nodes, j \in Lines :
           out[i].number = out[j].from => out[j].port \in -1 .. out[i].fields - 1
  BY DEF NodesInv, LinesInv
<1> QED
  BY <1>3, <1>4, <1>5 DEF first, St

(* However deep the trees go and however many are dumped, what was written   *)
(* when a dump is over is the graph of what was dumped: DrawsTheTrees.       *)
THEOREM TreesAreDrawn == Spec => []DrawsTheTrees
<1>1. Spec => []DumpInv
  BY DumpInit, DumpStep, PTL DEF Spec
<1> QED
  BY <1>1, DumpInvDraws, PTL
=============================================================================
