--------------------------- MODULE StateFileProofs ---------------------------
(***************************************************************************)
(* What parse makes of what write_upload_status writes, for numbers, lines *)
(* and files of any length, and from it the properties of StateFile.       *)
(*                                                                         *)
(* These are inductions over data.  The induction theorems of the library  *)
(* take an operator as a parameter; what they say of sets does not, and    *)
(* is enough: that finite sets are well founded by inclusion gives the     *)
(* least number of a set, from which follow induction, with the set of the *)
(* numbers that a formula holds for, and that a recursive definition has   *)
(* the function it describes.                                              *)
(***************************************************************************)
EXTENDS StateFile, FiniteSetTheorems, SequenceTheorems, WellFoundedInduction, TLAPS

-----------------------------------------------------------------------------
\* Induction and recursion

LEMMA LeastNumber ==
    ASSUME NEW T \in SUBSET Nat, T # {}
    PROVE  \E x \in T : \A y \in T : x <= y
  <1> DEFINE Below(x) == 0..(x - 1)
             R == StrictSubsetOrdering(Nat)
             U == {Below(x) : x \in T}
  <1>1. IsWellFoundedOn(R, FiniteSubsetsOf(Nat))
    BY FS_StrictSubsetOrderingWellFounded
  <1>2. U \subseteq FiniteSubsetsOf(Nat)
    <2> SUFFICES ASSUME NEW x \in T
                 PROVE  Below(x) \in FiniteSubsetsOf(Nat)
      OBVIOUS
    <2>1. 0 \in Int /\ x - 1 \in Int
      OBVIOUS
    <2>2. IsFiniteSet(Below(x))
      BY <2>1, FS_Interval
    <2>3. Below(x) \in SUBSET Nat
      OBVIOUS
    <2> QED
      BY <2>2, <2>3 DEF FiniteSubsetsOf
  <1>3. U # {}
    OBVIOUS
  <1> HIDE DEF R
  <1>4. \E x \in U : \A y \in U : ~(<<y, x>> \in R)
    <2> HIDE DEF U
    <2> QED
      BY <1>1, <1>2, <1>3, WFMin
  <1>5. PICK x \in T : \A y \in T : ~(<<Below(y), Below(x)>> \in R)
    BY <1>4
  <1>6. \A y \in T : y < x => <<Below(y), Below(x)>> \in R
    <2> SUFFICES ASSUME NEW y \in T, y < x
                 PROVE  <<Below(y), Below(x)>> \in R
      OBVIOUS
    <2>1. Below(y) \subseteq Below(x) /\ x - 1 \in Below(x) /\ x - 1 \notin Below(y)
      OBVIOUS
    <2>2. Below(y) \in SUBSET Nat /\ Below(x) \in SUBSET Nat
      OBVIOUS
    <2> HIDE DEF Below
    <2> QED
      BY <2>1, <2>2 DEF R, StrictSubsetOrdering
  <1>7. \A y \in T : ~(y < x)
    BY <1>5, <1>6, Zenon
  <1> QED
    BY <1>7

LEMMA Induction ==
    ASSUME NEW S, 0 \in S, \A n \in Nat : n \in S => n + 1 \in S
    PROVE  \A n \in Nat : n \in S
  <1> SUFFICES ASSUME Nat \ S # {}
               PROVE  FALSE
    OBVIOUS
  <1>1. PICK x \in Nat \ S : \A y \in Nat \ S : x <= y
    BY LeastNumber
  <1> QED
    BY <1>1

LEMMA StrongInduction ==
    ASSUME NEW S, \A n \in Nat : (\A k \in Nat : k < n => k \in S) => n \in S
    PROVE  \A n \in Nat : n \in S
  <1> SUFFICES ASSUME Nat \ S # {}
               PROVE  FALSE
    OBVIOUS
  <1>1. PICK x \in Nat \ S : \A y \in Nat \ S : x <= y
    BY LeastNumber
  <1> QED
    BY <1>1

\* A recursion over a measure: what it says of an element depends only on what the
\* function is for the smaller ones.
Depends(G, m, D, V) ==
    \A g, h \in [D -> V], x \in D :
        (\A y \in D : m[y] < m[x] => g[y] = h[y]) => G[<<g, x>>] = G[<<h, x>>]

UpToMeasure(g, G, m, D, n) == \A x \in D : m[x] < n => g[x] = G[<<g, x>>]

LEMMA RecursionUnique ==
    ASSUME NEW D, NEW V, NEW m \in [D -> Nat], NEW G, Depends(G, m, D, V),
           NEW g \in [D -> V], NEW h \in [D -> V], NEW n \in Nat,
           UpToMeasure(g, G, m, D, n), UpToMeasure(h, G, m, D, n)
    PROVE  \A x \in D : m[x] < n => g[x] = h[x]
  <1> DEFINE S == {k \in Nat : \A x \in D : m[x] < n /\ m[x] = k => g[x] = h[x]}
  <1>1. ASSUME NEW k \in Nat, \A j \in Nat : j < k => j \in S
        PROVE  k \in S
    <2> SUFFICES ASSUME NEW x \in D, m[x] < n, m[x] = k
                 PROVE  g[x] = h[x]
      OBVIOUS
    <2>1. \A y \in D : m[y] < m[x] => g[y] = h[y]
      BY <1>1
    <2>2. G[<<g, x>>] = G[<<h, x>>]
      BY <2>1 DEF Depends
    <2> QED
      BY <2>2 DEF UpToMeasure
  <1>2. \A k \in Nat : k \in S
    <2> HIDE DEF S
    <2> QED
      BY <1>1, StrongInduction
  <1> QED
    BY <1>2

LEMMA RecursionUpTo ==
    ASSUME NEW D, NEW V, V # {}, NEW m \in [D -> Nat], NEW G \in [[D -> V] \X D -> V],
           Depends(G, m, D, V)
    PROVE  \A n \in Nat : \E g \in [D -> V] : UpToMeasure(g, G, m, D, n)
  <1> DEFINE S == {n \in Nat : \E g \in [D -> V] : UpToMeasure(g, G, m, D, n)}
  <1>1. 0 \in S
    <2>1. PICK v \in V : TRUE
      OBVIOUS
    <2>2. [x \in D |-> v] \in [D -> V]
      OBVIOUS
    <2>3. UpToMeasure([x \in D |-> v], G, m, D, 0)
      BY DEF UpToMeasure
    <2> QED
      BY <2>2, <2>3
  <1>2. ASSUME NEW n \in Nat, n \in S
        PROVE  n + 1 \in S
    <2>1. PICK g \in [D -> V] : UpToMeasure(g, G, m, D, n)
      BY <1>2
    <2> DEFINE h == [x \in D |-> IF m[x] < n THEN g[x] ELSE G[<<g, x>>]]
    <2>2. h \in [D -> V]
      OBVIOUS
    <2>3. ASSUME NEW x \in D, m[x] < n + 1
          PROVE  h[x] = G[<<h, x>>]
      <3>1. \A y \in D : m[y] < m[x] => g[y] = h[y]
        BY <2>3
      <3> HIDE DEF h
      <3>2. G[<<g, x>>] = G[<<h, x>>]
        BY <3>1, <2>2 DEF Depends
      <3>3. h[x] = IF m[x] < n THEN g[x] ELSE G[<<g, x>>]
        BY DEF h
      <3> QED
        BY <3>2, <3>3, <2>1 DEF UpToMeasure
    <2>4. UpToMeasure(h, G, m, D, n + 1)
      BY <2>3 DEF UpToMeasure
    <2> HIDE DEF h
    <2> QED
      BY <2>2, <2>4
  <1>3. \A n \in Nat : n \in S
    <2> HIDE DEF S
    <2> QED
      BY <1>1, <1>2, Induction
  <1> QED
    BY <1>3

Recursive(G, m, D, V) ==
    V # {} /\ m \in [D -> Nat] /\ G \in [[D -> V] \X D -> V] /\ Depends(G, m, D, V)

LEMMA Recursion ==
    ASSUME NEW D, NEW V, NEW m, NEW G, Recursive(G, m, D, V)
    PROVE  \E f \in [D -> V] : \A x \in D : f[x] = G[<<f, x>>]
  <1> USE DEF Recursive
  <1> DEFINE P(n, g) == g \in [D -> V] /\ UpToMeasure(g, G, m, D, n)
             F(n) == CHOOSE g : P(n, g)
             f == [x \in D |-> F(m[x] + 1)[x]]
  <1>1. \A n \in Nat : P(n, F(n))
    <2> SUFFICES ASSUME NEW n \in Nat
                 PROVE  P(n, F(n))
      OBVIOUS
    <2>1. \E g : P(n, g)
      BY RecursionUpTo
    <2> HIDE DEF P
    <2> QED
      BY <2>1
  <1> HIDE DEF F
  <1>2. f \in [D -> V]
    BY <1>1
  <1>3. ASSUME NEW x \in D
        PROVE  f[x] = G[<<f, x>>]
    <2> DEFINE n == m[x] + 1
               g == F(n)
    <2>1. n \in Nat /\ g \in [D -> V] /\ UpToMeasure(g, G, m, D, n)
      BY <1>1
    <2>2. g[x] = G[<<g, x>>]
      BY <2>1 DEF UpToMeasure
    <2>3. ASSUME NEW y \in D, m[y] < m[x]
          PROVE  f[y] = g[y]
      <3> DEFINE k == m[y] + 1
                 h == F(k)
      <3>1. k \in Nat /\ h \in [D -> V] /\ UpToMeasure(h, G, m, D, k)
        BY <1>1
      <3>2. UpToMeasure(g, G, m, D, k)
        <4>1. \A z \in D : m[z] < k => m[z] < n
          BY <2>3
        <4> HIDE DEF n, k, g
        <4> QED
          BY <4>1, <2>1 DEF UpToMeasure
      <3>3. m[y] < k
        OBVIOUS
      <3>4. f[y] = h[y]
        OBVIOUS
      <3> HIDE DEF f, g, h, k
      <3>5. g[y] = h[y]
        BY <2>1, <3>1, <3>2, <3>3, RecursionUnique
      <3> QED
        BY <3>4, <3>5
    <2>4. G[<<f, x>>] = G[<<g, x>>]
      <3> HIDE DEF f, g, n
      <3> QED
        BY <1>2, <2>1, <2>3 DEF Depends
    <2>5. f[x] = g[x]
      OBVIOUS
    <2> QED
      BY <2>2, <2>4, <2>5
  <1> HIDE DEF f
  <1> QED
    BY <1>2, <1>3

-----------------------------------------------------------------------------
\* FlattenSeq

LEMMA AppendDoes ==
    ASSUME NEW V, NEW s \in Seq(V), NEW e \in V
    PROVE  /\ Append(s, e) \in Seq(V) /\ Append(s, e) # <<>>
           /\ Len(Append(s, e)) = Len(s) + 1 /\ Len(s) \in Nat
           /\ Append(s, e)[Len(s) + 1] = e
           /\ \A i \in 1..Len(s) : Append(s, e)[i] = s[i]
  OBVIOUS

LEMMA FrontDoes ==
    ASSUME NEW V, NEW s \in Seq(V), s # <<>>
    PROVE  /\ Len(s) \in Nat \ {0} /\ s[Len(s)] \in V
           /\ Seqs!Front(s) \in Seq(V) /\ Len(Seqs!Front(s)) = Len(s) - 1
           /\ s = Append(Seqs!Front(s), s[Len(s)])
  <1>1. Len(s) \in Nat \ {0} /\ s[Len(s)] \in V
    OBVIOUS
  <1>2. PICK n \in Nat : Len(s) = n + 1
    <2>1. Len(s) - 1 \in Nat /\ Len(s) = (Len(s) - 1) + 1
      BY <1>1
    <2> QED
      BY <2>1
  <1>3. \A i \in 1..n : s[i] \in V
    BY <1>2
  <1>4. /\ SubSeq(s, 1, n) \in Seq(V)
        /\ Len(SubSeq(s, 1, n)) = IF 1 <= n THEN n - 1 + 1 ELSE 0
        /\ \A i \in 1..(n - 1 + 1) : SubSeq(s, 1, n)[i] = s[1 + i - 1]
    <2>1. 1 \in Int /\ n \in Int
      OBVIOUS
    <2> QED
      BY <1>3, <2>1, SubSeqProperties
  <1> DEFINE front == SubSeq(s, 1, n)
  <1> HIDE DEF front
  <1>5. front \in Seq(V) /\ Len(front) = n /\ \A i \in 1..n : front[i] = s[i]
    BY <1>4 DEF front
  <1>6. s = Append(front, s[n + 1])
    BY <1>1, <1>2, <1>5
  <1>7. Len(s) - 1 = n
    BY <1>2
  <1> QED
    BY <1>1, <1>2, <1>5, <1>6, <1>7 DEF front, Seqs!Front

Flattens(f, ws) == f = [i \in 1..Len(ws) |-> IF i = 1 THEN ws[i] ELSE f[i - 1] \o ws[i]]

LEMMA FlattenEquation ==
    ASSUME NEW S, NEW ws \in Seq(Seq(S)), ws # <<>>
    PROVE  \E f \in [1..Len(ws) -> Seq(S)] : Flattens(f, ws) /\ Seqs!FlattenSeq(ws) = f[Len(ws)]
  <1> DEFINE n == Len(ws)
             D == 1..n
             V == Seq(S)
             m == [i \in D |-> i]
             G == [p \in [D -> V] \X D |->
                      IF p[2] = 1 THEN ws[p[2]] ELSE p[1][p[2] - 1] \o ws[p[2]]]
  <1>1. n \in Nat \ {0} /\ \A i \in D : ws[i] \in V
    OBVIOUS
  <1>2. m \in [D -> Nat] /\ V # {}
    BY <1>1
  <1>3. G \in [[D -> V] \X D -> V]
    <2> SUFFICES ASSUME NEW g \in [D -> V], NEW i \in D
                 PROVE  (IF i = 1 THEN ws[i] ELSE g[i - 1] \o ws[i]) \in V
      OBVIOUS
    <2>1. ws[i] \in V /\ (i # 1 => i - 1 \in D)
      BY <1>1
    <2>2. i # 1 => g[i - 1] \in V
      BY <2>1
    <2> QED
      BY <2>1, <2>2
  <1>4. Depends(G, m, D, V)
    <2> SUFFICES ASSUME NEW g \in [D -> V], NEW h \in [D -> V], NEW i \in D,
                        \A j \in D : m[j] < m[i] => g[j] = h[j]
                 PROVE  G[<<g, i>>] = G[<<h, i>>]
      BY DEF Depends
    <2>1. i # 1 => i - 1 \in D /\ m[i - 1] < m[i]
      BY <1>1
    <2> QED
      BY <2>1
  <1>5. PICK f \in [D -> V] : \A i \in D : f[i] = G[<<f, i>>]
    <2> HIDE DEF G, m, D, V
    <2>1. Recursive(G, m, D, V)
      BY <1>2, <1>3, <1>4 DEF Recursive
    <2> QED
      BY <2>1, Recursion
  <1>6. Flattens(f, ws)
    <2>1. \A i \in D : f[i] = IF i = 1 THEN ws[i] ELSE f[i - 1] \o ws[i]
      BY <1>5
    <2> QED
      BY <2>1 DEF Flattens
  <1> DEFINE h == CHOOSE g : g = [i \in 1..Len(ws) |-> IF i = 1 THEN ws[i] ELSE g[i - 1] \o ws[i]]
  <1>7. Flattens(h, ws)
    BY <1>6, Zenon DEF Flattens
  <1>8. Seqs!FlattenSeq(ws) = h[Len(ws)]
    BY <1>1 DEF Seqs!FlattenSeq
  <1>9. h \in [D -> V]
    <2> HIDE DEF h
    <2>1. DOMAIN h = D /\ \A i \in D : h[i] = IF i = 1 THEN ws[i] ELSE h[i - 1] \o ws[i]
      BY <1>7 DEF Flattens
    <2>a. \A v, w \in V : v \o w \in V
      OBVIOUS
    <2> HIDE DEF V
    <2> DEFINE T == {k \in Nat : k \in D => h[k] \in V}
    <2>2. 0 \in T
      BY <1>1
    <2>3. ASSUME NEW k \in Nat, k \in T
          PROVE  k + 1 \in T
      <3> SUFFICES ASSUME k + 1 \in D
                   PROVE  h[k + 1] \in V
        OBVIOUS
      <3>1. h[k + 1] = IF k = 0 THEN ws[k + 1] ELSE h[k] \o ws[k + 1]
        <4>1. (k + 1) - 1 = k /\ (k + 1 = 1 <=> k = 0)
          OBVIOUS
        <4>2. h[k + 1] = IF k + 1 = 1 THEN ws[k + 1] ELSE h[(k + 1) - 1] \o ws[k + 1]
          BY <2>1, Zenon
        <4> QED
          BY <4>1, <4>2, Zenon
      <3>2. ws[k + 1] \in V /\ (k # 0 => h[k] \in V)
        BY <2>3, <1>1
      <3> QED
        BY <3>1, <3>2, <2>a
    <2>4. \A k \in Nat : k \in T
      <3> HIDE DEF T
      <3> QED
        BY <2>2, <2>3, Induction
    <2>5. \A i \in D : h[i] \in V
      BY <2>4
    <2>6. h = [i \in D |-> h[i]]
      BY <1>7, <2>1 DEF Flattens
    <2> QED
      BY <2>5, <2>6
  <1> HIDE DEF h, D, V
  <1> QED
    BY <1>7, <1>8, <1>9 DEF D, V

LEMMA FlattenEmpty ==
    Seqs!FlattenSeq(<<>>) = <<>>
  BY DEF Seqs!FlattenSeq

LEMMA FlattenType ==
    ASSUME NEW S, NEW ws \in Seq(Seq(S))
    PROVE  Seqs!FlattenSeq(ws) \in Seq(S)
  <1>1. CASE ws = <<>>
    <2>1. <<>> \in Seq(S)
      OBVIOUS
    <2> QED
      BY <1>1, <2>1, FlattenEmpty, Zenon
  <1>2. CASE ws # <<>>
    <2>1. PICK f \in [1..Len(ws) -> Seq(S)] : Seqs!FlattenSeq(ws) = f[Len(ws)]
      BY <1>2, FlattenEquation
    <2>2. Len(ws) \in 1..Len(ws)
      <3> DEFINE V == Seq(S)
      <3>1. ws \in Seq(V)
        OBVIOUS
      <3> HIDE DEF V
      <3> QED
        BY <1>2, <3>1
    <2> QED
      BY <2>1, <2>2
  <1> QED
    BY <1>1, <1>2

LEMMA FlattenAppend ==
    ASSUME NEW S, NEW ws \in Seq(Seq(S)), NEW w \in Seq(S)
    PROVE  Seqs!FlattenSeq(Append(ws, w)) = Seqs!FlattenSeq(ws) \o w
  <1> DEFINE xs == Append(ws, w)
             n == Len(ws)
  <1>1. /\ xs \in Seq(Seq(S)) /\ xs # <<>> /\ Len(xs) = n + 1 /\ n \in Nat
        /\ xs[n + 1] = w /\ \A i \in 1..n : xs[i] = ws[i]
    BY AppendDoes
  <1> HIDE DEF xs
  <1>2. PICK g \in [1..(n + 1) -> Seq(S)] : Flattens(g, xs) /\ Seqs!FlattenSeq(xs) = g[n + 1]
    BY <1>1, FlattenEquation
  <1>3. \A i \in 1..(n + 1) : g[i] = IF i = 1 THEN xs[i] ELSE g[i - 1] \o xs[i]
    BY <1>1, <1>2 DEF Flattens
  <1>4. CASE n = 0
    <2>1. ws = <<>>
      BY <1>4
    <2>2. Seqs!FlattenSeq(xs) = w
      BY <1>1, <1>2, <1>3, <1>4
    <2> QED
      BY <2>1, <2>2, FlattenEmpty DEF xs
  <1>5. CASE n # 0
    <2>1. PICK f \in [1..n -> Seq(S)] : Flattens(f, ws) /\ Seqs!FlattenSeq(ws) = f[n]
      BY <1>5, FlattenEquation
    <2>2. \A i \in 1..n : f[i] = IF i = 1 THEN ws[i] ELSE f[i - 1] \o ws[i]
      BY <2>1 DEF Flattens
    <2> HIDE DEF n
    <2> DEFINE T == {k \in Nat : k \in 1..n => f[k] = g[k]}
    <2>3. 0 \in T
      BY <1>1
    <2>4. ASSUME NEW k \in Nat, k \in T
          PROVE  k + 1 \in T
      <3> SUFFICES ASSUME k + 1 \in 1..n
                   PROVE  f[k + 1] = g[k + 1]
        OBVIOUS
      <3>1. k + 1 \in 1..(n + 1) /\ xs[k + 1] = ws[k + 1]
        BY <1>1
      <3>2. k # 0 => f[k] = g[k]
        BY <1>1, <2>4
      <3>3. (k + 1) - 1 = k /\ (k + 1 = 1 <=> k = 0)
        OBVIOUS
      <3>4. f[k + 1] = IF k + 1 = 1 THEN ws[k + 1] ELSE f[(k + 1) - 1] \o ws[k + 1]
        BY <2>2, Zenon
      <3>5. g[k + 1] = IF k + 1 = 1 THEN xs[k + 1] ELSE g[(k + 1) - 1] \o xs[k + 1]
        BY <1>3, <3>1, Zenon
      <3> QED
        BY <3>1, <3>2, <3>3, <3>4, <3>5, Zenon
    <2>5. \A k \in Nat : k \in T
      <3> HIDE DEF T
      <3> QED
        BY <2>3, <2>4, Induction
    <2>6. f[n] = g[n]
      <3>1. n \in 1..n /\ n \in Nat
        BY <1>1, <1>5
      <3> QED
        BY <3>1, <2>5
    <2>7. g[n + 1] = g[n] \o w
      <3>1. n + 1 \in 1..(n + 1) /\ n + 1 # 1 /\ (n + 1) - 1 = n
        BY <1>1, <1>5
      <3>2. g[n + 1] = g[(n + 1) - 1] \o xs[n + 1]
        BY <1>3, <3>1
      <3> QED
        BY <1>1, <3>1, <3>2
    <2> QED
      BY <1>2, <2>1, <2>6, <2>7 DEF xs
  <1> QED
    BY <1>4, <1>5

\* Induction from the end, for the sequences over a set.
LEMMA SeqInduction ==
    ASSUME NEW S, NEW T, <<>> \in T,
           \A s \in Seq(S), e \in S : s \in T => Append(s, e) \in T
    PROVE  \A s \in Seq(S) : s \in T
  <1> DEFINE N == {n \in Nat : \A s \in Seq(S) : Len(s) = n => s \in T}
  <1>1. 0 \in N
    <2>1. \A s \in Seq(S) : Len(s) = 0 => s = <<>>
      OBVIOUS
    <2> QED
      BY <2>1
  <1>2. ASSUME NEW n \in Nat, n \in N
        PROVE  n + 1 \in N
    <2> SUFFICES ASSUME NEW s \in Seq(S), Len(s) = n + 1
                 PROVE  s \in T
      OBVIOUS
    <2>1. s # <<>>
      OBVIOUS
    <2>2. /\ Seqs!Front(s) \in Seq(S) /\ Len(Seqs!Front(s)) = n /\ s[Len(s)] \in S
          /\ s = Append(Seqs!Front(s), s[Len(s)])
      BY <2>1, FrontDoes
    <2> QED
      BY <1>2, <2>2
  <1>3. \A n \in Nat : n \in N
    <2> HIDE DEF N
    <2> QED
      BY <1>1, <1>2, Induction
  <1> QED
    BY <1>3

LEMMA ConcatOfAppend ==
    ASSUME NEW V, NEW s \in Seq(V), NEW t \in Seq(V), NEW e \in V
    PROVE  s \o Append(t, e) = Append(s \o t, e) /\ s \o t \in Seq(V)
  OBVIOUS

LEMMA FlattenConcat ==
    ASSUME NEW S, NEW ws \in Seq(Seq(S)), NEW xs \in Seq(Seq(S))
    PROVE  Seqs!FlattenSeq(ws \o xs) = Seqs!FlattenSeq(ws) \o Seqs!FlattenSeq(xs)
  <1> DEFINE Flat(s) == Seqs!FlattenSeq(s)
             T == {s \in Seq(Seq(S)) : Flat(ws \o s) = Flat(ws) \o Flat(s)}
  <1>1. <<>> \in T
    <2>1. ws \o <<>> = ws /\ Flat(ws) \o <<>> = Flat(ws)
      BY FlattenType, ConcatEmptySeq
    <2>2. <<>> \in Seq(Seq(S)) /\ Flat(<<>>) = <<>>
      BY FlattenEmpty, EmptySeq
    <2> HIDE DEF Flat
    <2> QED
      BY <2>1, <2>2
  <1>2. ASSUME NEW s \in Seq(Seq(S)), NEW e \in Seq(S), s \in T
        PROVE  Append(s, e) \in T
    <2>1. ws \o Append(s, e) = Append(ws \o s, e) /\ ws \o s \in Seq(Seq(S))
      BY ConcatOfAppend
    <2>6. Append(s, e) \in Seq(Seq(S))
      BY AppendDoes
    <2>2. Flat(Append(ws \o s, e)) = Flat(ws \o s) \o e
      BY <2>1, FlattenAppend
    <2>3. Flat(Append(s, e)) = Flat(s) \o e
      BY FlattenAppend
    <2>4. Flat(ws) \in Seq(S) /\ Flat(s) \in Seq(S)
      BY FlattenType
    <2> HIDE DEF Flat
    <2>5. (Flat(ws) \o Flat(s)) \o e = Flat(ws) \o (Flat(s) \o e)
      BY <2>4, ConcatAssociative
    <2> QED
      BY <1>2, <2>1, <2>2, <2>3, <2>5, <2>6
  <1>3. \A s \in Seq(Seq(S)) : s \in T
    <2> HIDE DEF T
    <2> QED
      BY <1>1, <1>2, SeqInduction
  <1> QED
    BY <1>3

-----------------------------------------------------------------------------
\* Numbers

LEMMA BaseFacts ==
    ASSUME NEW n \in Nat
    PROVE  /\ n \div Base \in Nat /\ n % Base \in Digit
           /\ (n \div Base) * Base + (n % Base) = n
           /\ n >= Base => n \div Base < n
           /\ Base \in Nat /\ Base > 1
  <1>1. Base \in Nat /\ Base > 1
    BY StateFileAssumption
  <1> DEFINE q == n \div Base
             r == n % Base
  <1>2. q \in Int /\ r \in Int /\ n = Base * q + r /\ 0 <= r /\ r < Base
    BY <1>1
  <1> HIDE DEF q, r
  <1>3. q >= 0
    <2> SUFFICES ASSUME q <= -1
                 PROVE  FALSE
      BY <1>2
    <2>1. Base * q <= -Base
      BY <1>1, <1>2
    <2> QED
      BY <1>1, <1>2, <2>1
  <1>4. n >= Base => q < n
    <2> SUFFICES ASSUME n >= Base, q >= n
                 PROVE  FALSE
      BY <1>2
    <2>1. Base * q >= 2 * q
      BY <1>1, <1>2, <1>3
    <2> QED
      BY <1>1, <1>2, <2>1
  <1>5. q * Base = Base * q
    BY <1>1, <1>2
  <1> QED
    BY <1>1, <1>2, <1>3, <1>4, <1>5 DEF q, r, Digit

LEMMA DigitsEquation ==
    /\ Digits = [n \in Nat |-> IF n < Base THEN <<n>>
                               ELSE Append(Digits[n \div Base], n % Base)]
    /\ Digits \in [Nat -> Seq(Digit)]
  <1> DEFINE V == Seq(Digit)
             m == [n \in Nat |-> n]
             G == [p \in [Nat -> V] \X Nat |->
                      IF p[2] < Base THEN <<p[2]>>
                      ELSE Append(p[1][p[2] \div Base], p[2] % Base)]
             Equation(f) == f = [n \in Nat |-> IF n < Base THEN <<n>>
                                               ELSE Append(f[n \div Base], n % Base)]
  <1>1. m \in [Nat -> Nat] /\ V # {}
    <2>1. <<>> \in V
      OBVIOUS
    <2> QED
      BY <2>1
  <1>2. \A n \in Nat : n < Base => <<n>> \in V
    BY BaseFacts DEF Digit
  <1>3. \A v \in V, d \in Digit : Append(v, d) \in V
    OBVIOUS
  <1> HIDE DEF V
  <1>4. ASSUME NEW g \in [Nat -> V], NEW n \in Nat
        PROVE  /\ G[<<g, n>>] = IF n < Base THEN <<n>> ELSE Append(g[n \div Base], n % Base)
               /\ G[<<g, n>>] \in V
    <2>1. n \div Base \in Nat /\ n % Base \in Digit
      BY BaseFacts
    <2>2. <<g, n>> \in [Nat -> V] \X Nat
      OBVIOUS
    <2>3. G[<<g, n>>] = IF n < Base THEN <<n>> ELSE Append(g[n \div Base], n % Base)
      BY <2>2
    <2> HIDE DEF G
    <2> QED
      BY <1>2, <1>3, <2>1, <2>3
  <1>5. G \in [[Nat -> V] \X Nat -> V]
    <2>1. \A p \in [Nat -> V] \X Nat : G[p] \in V
      BY <1>4
    <2>2. G = [p \in [Nat -> V] \X Nat |-> G[p]]
      OBVIOUS
    <2> HIDE DEF G
    <2> QED
      BY <2>1, <2>2
  <1> HIDE DEF G
  <1>6. Depends(G, m, Nat, V)
    <2> SUFFICES ASSUME NEW g \in [Nat -> V], NEW h \in [Nat -> V], NEW n \in Nat,
                        \A k \in Nat : k < n => g[k] = h[k]
                 PROVE  G[<<g, n>>] = G[<<h, n>>]
      BY DEF Depends
    <2>1. ~(n < Base) => g[n \div Base] = h[n \div Base]
      <3>1. n \div Base \in Nat /\ (n >= Base => n \div Base < n) /\ Base \in Nat
        BY BaseFacts
      <3> QED
        BY <3>1
    <2> QED
      BY <1>4, <2>1
  <1>7. PICK f \in [Nat -> V] : \A n \in Nat : f[n] = G[<<f, n>>]
    <2>1. Recursive(G, m, Nat, V)
      BY <1>1, <1>5, <1>6 DEF Recursive
    <2> QED
      BY <2>1, Recursion
  <1>8. Equation(f)
    <2>1. \A n \in Nat : f[n] = IF n < Base THEN <<n>> ELSE Append(f[n \div Base], n % Base)
      BY <1>4, <1>7
    <2> QED
      BY <2>1
  <1>9. Equation(Digits)
    BY <1>8, Zenon DEF Digits
  <1>10. \A n \in Nat : Digits[n] = IF n < Base THEN <<n>>
                                    ELSE Append(Digits[n \div Base], n % Base)
    BY <1>9
  <1> DEFINE T == {n \in Nat : Digits[n] \in V}
  <1>11. ASSUME NEW n \in Nat, \A k \in Nat : k < n => k \in T
         PROVE  n \in T
    <2>1. n \div Base \in Nat /\ n % Base \in Digit /\ Base \in Nat
           /\ (n >= Base => n \div Base < n)
      BY BaseFacts
    <2>2. ~(n < Base) => Digits[n \div Base] \in V
      BY <1>11, <2>1
    <2> QED
      BY <1>2, <1>3, <1>10, <2>1, <2>2
  <1>12. \A n \in Nat : n \in T
    <2> HIDE DEF T
    <2> QED
      BY <1>11, StrongInduction
  <1> QED
    BY <1>9, <1>12 DEF V

LEMMA NumberEquation ==
    /\ Number[<<>>] = 0
    /\ \A s \in Seq(Digit), d \in Digit : Number[Append(s, d)] = Number[s] * Base + d
    /\ \A s \in Seq(Digit) : Number[s] \in Nat
  <1> DEFINE D == Seq(Digit)
             m == [s \in D |-> Len(s)]
             G == [p \in [D -> Nat] \X D |->
                      IF p[2] = <<>> THEN 0
                      ELSE p[1][Seqs!Front(p[2])] * Base + p[2][Len(p[2])]]
             Equation(f) == f = [s \in D |-> IF s = <<>> THEN 0
                                             ELSE f[Seqs!Front(s)] * Base + s[Len(s)]]
  <1>1. m \in [D -> Nat] /\ Nat # {}
    OBVIOUS
  <1>2. ASSUME NEW s \in D, s # <<>>
        PROVE  Seqs!Front(s) \in D /\ m[Seqs!Front(s)] < m[s] /\ s[Len(s)] \in Nat
    <2>1. /\ Seqs!Front(s) \in D /\ Len(Seqs!Front(s)) = Len(s) - 1
          /\ Len(s) \in Nat \ {0} /\ s[Len(s)] \in Digit
      BY <1>2, FrontDoes
    <2>2. s[Len(s)] \in Nat
      BY <2>1 DEF Digit
    <2> QED
      BY <2>1, <2>2
  <1>3. <<>> \in D
    OBVIOUS
  <1>4. \A s \in D, d \in Digit : /\ Append(s, d) \in D /\ Append(s, d) # <<>>
                                  /\ Seqs!Front(Append(s, d)) = s
                                  /\ Append(s, d)[Len(Append(s, d))] = d
    BY DEF Seqs!Front
  <1> HIDE DEF D, m
  <1>5. Base \in Nat
    BY BaseFacts
  <1>6. ASSUME NEW g \in [D -> Nat], NEW s \in D
        PROVE  /\ G[<<g, s>>] = IF s = <<>> THEN 0 ELSE g[Seqs!Front(s)] * Base + s[Len(s)]
               /\ G[<<g, s>>] \in Nat
    <2>1. <<g, s>> \in [D -> Nat] \X D
      OBVIOUS
    <2>2. G[<<g, s>>] = IF s = <<>> THEN 0 ELSE g[Seqs!Front(s)] * Base + s[Len(s)]
      BY <2>1
    <2> HIDE DEF G
    <2>3. s # <<>> => g[Seqs!Front(s)] \in Nat /\ s[Len(s)] \in Nat
      BY <1>2
    <2> QED
      BY <1>5, <2>2, <2>3
  <1>7. G \in [[D -> Nat] \X D -> Nat]
    <2>1. \A p \in [D -> Nat] \X D : G[p] \in Nat
      BY <1>6
    <2>2. G = [p \in [D -> Nat] \X D |-> G[p]]
      OBVIOUS
    <2> HIDE DEF G
    <2> QED
      BY <2>1, <2>2
  <1> HIDE DEF G
  <1>8. Depends(G, m, D, Nat)
    <2> SUFFICES ASSUME NEW g \in [D -> Nat], NEW h \in [D -> Nat], NEW s \in D,
                        \A t \in D : m[t] < m[s] => g[t] = h[t]
                 PROVE  G[<<g, s>>] = G[<<h, s>>]
      BY DEF Depends
    <2>1. s # <<>> => g[Seqs!Front(s)] = h[Seqs!Front(s)]
      BY <1>2
    <2> QED
      BY <1>6, <2>1
  <1>9. PICK f \in [D -> Nat] : \A s \in D : f[s] = G[<<f, s>>]
    <2>1. Recursive(G, m, D, Nat)
      BY <1>1, <1>7, <1>8 DEF Recursive
    <2> QED
      BY <2>1, Recursion
  <1>10. Equation(f)
    <2>1. \A s \in D : f[s] = IF s = <<>> THEN 0 ELSE f[Seqs!Front(s)] * Base + s[Len(s)]
      BY <1>6, <1>9
    <2> QED
      BY <2>1
  <1>11. Equation(Number)
    BY <1>10, Zenon DEF Number, D
  <1>12. \A s \in D : Number[s] = IF s = <<>> THEN 0
                                  ELSE Number[Seqs!Front(s)] * Base + s[Len(s)]
    BY <1>11
  <1>13. Number[<<>>] = 0
    BY <1>3, <1>12
  <1>14. \A s \in D, d \in Digit : Number[Append(s, d)] = Number[s] * Base + d
    <2> SUFFICES ASSUME NEW s \in D, NEW d \in Digit
                 PROVE  Number[Append(s, d)] = Number[s] * Base + d
      OBVIOUS
    <2> DEFINE t == Append(s, d)
    <2>1. t \in D /\ t # <<>> /\ Seqs!Front(t) = s /\ t[Len(t)] = d
      BY <1>4
    <2> HIDE DEF t
    <2>2. Number[t] = Number[s] * Base + d
      BY <1>12, <2>1
    <2> QED
      BY <2>2 DEF t
  <1> DEFINE T == {s \in D : Number[s] \in Nat}
  <1>15. <<>> \in T
    BY <1>3, <1>13
  <1>16. ASSUME NEW s \in D, NEW d \in Digit, s \in T
         PROVE  Append(s, d) \in T
    <2>1. d \in Nat /\ Number[s] \in Nat
      BY <1>5, <1>16 DEF Digit
    <2>2. Number[s] * Base + d \in Nat
      BY <1>5, <2>1
    <2>3. Number[Append(s, d)] \in Nat
      BY <1>14, <2>2
    <2> QED
      BY <1>4, <2>3
  <1>17. \A s \in D : s \in T
    <2> HIDE DEF T
    <2> QED
      BY <1>15, <1>16, SeqInduction DEF D
  <1> QED
    BY <1>13, <1>14, <1>17 DEF D

\* A number reads back as itself.
LEMMA NumberOfDigits ==
    ASSUME NEW n \in Nat
    PROVE  /\ Digits[n] \in Seq(Digit) /\ Digits[n] # <<>>
           /\ Number[Digits[n]] = n
  <1> DEFINE T == {k \in Nat : Digits[k] # <<>> /\ Number[Digits[k]] = k}
  <1>1. ASSUME NEW k \in Nat, \A j \in Nat : j < k => j \in T
        PROVE  k \in T
    <2>1. k \div Base \in Nat /\ k % Base \in Digit /\ Base \in Nat
           /\ (k \div Base) * Base + (k % Base) = k
           /\ (k >= Base => k \div Base < k)
      BY BaseFacts
    <2>2. Digits[k] = IF k < Base THEN <<k>> ELSE Append(Digits[k \div Base], k % Base)
      BY DigitsEquation
    <2>3. CASE k < Base
      <3>1. <<k>> = Append(<<>>, k) /\ <<>> \in Seq(Digit) /\ k \in Digit
        BY <2>1, <2>3 DEF Digit
      <3>2. Number[<<k>>] = 0 * Base + k
        BY <3>1, NumberEquation, Zenon
      <3>3. Number[<<k>>] = k
        BY <2>1, <3>2
      <3>4. Digits[k] = <<k>>
        BY <2>2, <2>3
      <3> QED
        BY <3>3, <3>4
    <2>4. CASE ~(k < Base)
      <3>1. Digits[k \div Base] \in Seq(Digit) /\ Number[Digits[k \div Base]] = k \div Base
        <4> DEFINE j == k \div Base
        <4>1. j \in Nat /\ j < k
          BY <2>1, <2>4
        <4> HIDE DEF j
        <4>2. Digits[j] \in Seq(Digit)
          BY <4>1, DigitsEquation
        <4>3. Number[Digits[j]] = j
          BY <1>1, <4>1
        <4> QED
          BY <4>2, <4>3 DEF j
      <3>2. Number[Append(Digits[k \div Base], k % Base)]
             = Number[Digits[k \div Base]] * Base + (k % Base)
        BY <2>1, <3>1, NumberEquation
      <3>3. Append(Digits[k \div Base], k % Base) # <<>>
        BY <2>1, <3>1, AppendDoes
      <3> QED
        BY <2>1, <2>2, <2>4, <3>1, <3>2, <3>3
    <2> QED
      BY <2>3, <2>4
  <1>2. \A k \in Nat : k \in T
    <2> HIDE DEF T
    <2> QED
      BY <1>1, StrongInduction
  <1> QED
    BY <1>2, DigitsEquation

-----------------------------------------------------------------------------
\* The pieces of a text

LEMMA SubSeqDoes ==
    ASSUME NEW V, NEW s \in Seq(V), NEW m \in Nat \ {0}, NEW n \in Nat, n <= Len(s), m <= n + 1
    PROVE  /\ SubSeq(s, m, n) \in Seq(V) /\ Len(SubSeq(s, m, n)) = n - m + 1
           /\ \A i \in 1..(n - m + 1) : SubSeq(s, m, n)[i] = s[m + i - 1]
  <1>1. \A i \in m..n : s[i] \in V
    OBVIOUS
  <1>2. m \in Int /\ n \in Int
    OBVIOUS
  <1>3. /\ SubSeq(s, m, n) \in Seq(V)
        /\ Len(SubSeq(s, m, n)) = IF m <= n THEN n - m + 1 ELSE 0
        /\ \A i \in 1..(n - m + 1) : SubSeq(s, m, n)[i] = s[m + i - 1]
    BY <1>1, <1>2, SubSeqProperties
  <1> DEFINE t == SubSeq(s, m, n)
  <1> HIDE DEF t
  <1>4. Len(t) = n - m + 1
    <2>1. Len(t) = IF m <= n THEN n - m + 1 ELSE 0
      BY <1>3 DEF t
    <2>2. ~(m <= n) => n - m + 1 = 0
      OBVIOUS
    <2> QED
      BY <2>1, <2>2
  <1> QED
    BY <1>3, <1>4 DEF t

LEMMA ConcatDoes ==
    ASSUME NEW V, NEW s \in Seq(V), NEW t \in Seq(V)
    PROVE  /\ s \o t \in Seq(V) /\ Len(s \o t) = Len(s) + Len(t)
           /\ \A i \in 1..Len(s) : (s \o t)[i] = s[i]
           /\ \A i \in 1..Len(t) : (s \o t)[Len(s) + i] = t[i]
           /\ Len(s) \in Nat /\ Len(t) \in Nat
  OBVIOUS

\* The same as predicates
Concats(V, r, s, t) ==
    /\ r \in Seq(V) /\ Len(r) = Len(s) + Len(t)
    /\ \A i \in 1..Len(s) : r[i] = s[i]
    /\ \A i \in 1..Len(t) : r[Len(s) + i] = t[i]
    /\ Len(s) \in Nat /\ Len(t) \in Nat

Begins(s, p) == Len(p) <= Len(s) /\ \A i \in 1..Len(p) : s[i] = p[i]

Extends(V, s, p) == \E rest \in Seq(V) : s = p \o rest

LEMMA ConcatIs ==
    ASSUME NEW V, NEW s \in Seq(V), NEW t \in Seq(V)
    PROVE  Concats(V, s \o t, s, t)
  BY ConcatDoes DEF Concats

\* Two sequences are equal if they have the same length and elements.
LEMMA SameSeq ==
    ASSUME NEW V, NEW s \in Seq(V), NEW t \in Seq(V), Len(s) = Len(t),
           \A i \in 1..Len(s) : s[i] = t[i]
    PROVE  s = t
  BY SeqEqual

LEMMA FirstAtDoes ==
    ASSUME NEW V, NEW cells \in Seq(V), NEW c
    PROVE  /\ FirstAt(cells, c) \in 1..(Len(cells) + 1)
           /\ FirstAt(cells, c) <= Len(cells) => cells[FirstAt(cells, c)] = c
           /\ \A j \in 1..(FirstAt(cells, c) - 1) : cells[j] # c
  <1> DEFINE P(i) == /\ i <= Len(cells) => cells[i] = c
                     /\ \A j \in 1..(i - 1) : cells[j] # c
             T == {i \in 1..(Len(cells) + 1) : i <= Len(cells) => cells[i] = c}
  <1>1. T \in SUBSET Nat /\ Len(cells) + 1 \in T
    OBVIOUS
  <1>2. PICK i \in T : \A y \in T : i <= y
    BY <1>1, LeastNumber
  <1>3. i \in 1..(Len(cells) + 1) /\ (i <= Len(cells) => cells[i] = c)
    BY <1>2
  <1>4. \A j \in 1..(i - 1) : cells[j] # c
    <2> SUFFICES ASSUME NEW j \in 1..(i - 1), cells[j] = c
                 PROVE  FALSE
      OBVIOUS
    <2>1. Len(cells) \in Nat /\ i \in Nat
      BY <1>3
    <2>2. j \in 1..(Len(cells) + 1) /\ j < i
      BY <1>3, <2>1
    <2>3. j \in T
      BY <2>2
    <2> HIDE DEF T
    <2> QED
      BY <1>2, <2>1, <2>2, <2>3
  <1>5. \E k \in 1..(Len(cells) + 1) : P(k)
    BY <1>3, <1>4
  <1>6. FirstAt(cells, c) = CHOOSE k \in 1..(Len(cells) + 1) : P(k)
    BY DEF FirstAt
  <1>7. FirstAt(cells, c) \in 1..(Len(cells) + 1) /\ P(FirstAt(cells, c))
    <2> HIDE DEF P
    <2> QED
      BY <1>5, <1>6, Zenon
  <1> QED
    BY <1>7

LEMMA PiecesType ==
    ASSUME NEW V, NEW cells \in Seq(V), NEW c
    PROVE  /\ UpTo(cells, c) \in Seq(V) /\ Behind(cells, c) \in Seq(V)
           /\ cells # <<>> => Len(Behind(cells, c)) < Len(cells)
           /\ Len(cells) \in Nat /\ Len(Behind(cells, c)) \in Nat
  <1> DEFINE i == FirstAt(cells, c)
             n == Len(cells)
  <1>1. n \in Nat /\ i \in 1..(n + 1) /\ (cells # <<>> => n > 0)
    BY FirstAtDoes
  <1>2. UpTo(cells, c) = SubSeq(cells, 1, i - 1) /\ Behind(cells, c) = SubSeq(cells, i + 1, n)
    BY DEF UpTo, Behind
  <1> HIDE DEF i
  <1>3. SubSeq(cells, 1, i - 1) \in Seq(V)
    <2>1. i - 1 \in Nat /\ 1 \in Nat \ {0} /\ i - 1 <= Len(cells) /\ 1 <= (i - 1) + 1
      BY <1>1
    <2> QED
      BY <2>1, SubSeqDoes
  <1>4. CASE i = n + 1
    <2>1. i + 1 \in Int /\ n \in Int /\ n < i + 1
      BY <1>1, <1>4
    <2>2. SubSeq(cells, i + 1, n) = <<>>
      BY <2>1, SubSeqEmpty
    <2>3. <<>> \in Seq(V) /\ Len(<<>>) = 0
      BY EmptySeq
    <2> QED
      BY <1>1, <1>2, <1>3, <2>2, <2>3
  <1>5. CASE i # n + 1
    <2>1. i + 1 \in Nat \ {0} /\ n \in Nat /\ n <= Len(cells) /\ i + 1 <= n + 1
      BY <1>1, <1>5
    <2>2. /\ SubSeq(cells, i + 1, n) \in Seq(V)
          /\ Len(SubSeq(cells, i + 1, n)) = n - (i + 1) + 1
      BY <2>1, SubSeqDoes
    <2> QED
      BY <1>1, <1>2, <1>3, <1>5, <2>2
  <1> QED
    BY <1>4, <1>5

\* Without a separator everything is before it.
LEMMA NoSeparator ==
    ASSUME NEW V, NEW a \in Seq(V), NEW c, \A i \in 1..Len(a) : a[i] # c
    PROVE  UpTo(a, c) = a /\ Behind(a, c) = <<>>
  <1> DEFINE i == FirstAt(a, c)
             n == Len(a)
  <1>1. n \in Nat /\ i \in 1..(n + 1) /\ (i <= n => a[i] = c)
    BY FirstAtDoes
  <1>2. UpTo(a, c) = SubSeq(a, 1, i - 1) /\ Behind(a, c) = SubSeq(a, i + 1, n)
    BY DEF UpTo, Behind
  <1> HIDE DEF i
  <1>3. i = n + 1
    BY <1>1
  <1>4. SubSeq(a, 1, n) = a
    BY SubSeqFull
  <1>5. SubSeq(a, n + 2, n) = <<>>
    <2>1. n + 2 \in Int /\ n \in Int /\ n < n + 2
      BY <1>1
    <2> QED
      BY <2>1, SubSeqEmpty
  <1>6. i - 1 = n /\ i + 1 = n + 2
    BY <1>1, <1>3
  <1> QED
    BY <1>2, <1>4, <1>5, <1>6

LEMMA AtSeparator ==
    ASSUME NEW V, NEW a \in Seq(V), NEW b \in Seq(V), NEW c \in V, \A i \in 1..Len(a) : a[i] # c
    PROVE  UpTo(a \o (<<c>> \o b), c) = a /\ Behind(a \o (<<c>> \o b), c) = b
  <1> DEFINE t == <<c>> \o b
             s == a \o t
             i == FirstAt(s, c)
             n == Len(a)
  <1>1. t \in Seq(V) /\ Len(t) = Len(b) + 1 /\ t[1] = c /\ \A k \in 1..Len(b) : t[k + 1] = b[k]
    OBVIOUS
  <1> HIDE DEF t
  <1>2. /\ s \in Seq(V) /\ Len(s) = n + Len(t) /\ n \in Nat /\ Len(b) \in Nat
        /\ \A k \in 1..n : s[k] = a[k]
        /\ \A k \in 1..Len(t) : s[n + k] = t[k]
    <2>1. Len(b) \in Nat
      OBVIOUS
    <2>2. /\ a \o t \in Seq(V) /\ Len(a \o t) = Len(a) + Len(t)
          /\ \A k \in 1..Len(a) : (a \o t)[k] = a[k]
          /\ \A k \in 1..Len(t) : (a \o t)[Len(a) + k] = t[k]
          /\ Len(a) \in Nat /\ Len(t) \in Nat
      BY <1>1, ConcatDoes
    <2> QED
      BY <2>1, <2>2
  <1> HIDE DEF s
  <1>3. /\ i \in 1..(Len(s) + 1) /\ (i <= Len(s) => s[i] = c)
        /\ \A j \in 1..(i - 1) : s[j] # c
    BY <1>2, FirstAtDoes
  <1>4. s[n + 1] = c
    BY <1>1, <1>2
  <1> HIDE DEF i, n
  <1>5. i = n + 1
    <2>1. ~(i > n + 1)
      <3> SUFFICES ASSUME i > n + 1
                   PROVE  FALSE
        OBVIOUS
      <3>1. n + 1 \in 1..(i - 1)
        BY <1>2, <1>3
      <3> QED
        BY <1>3, <1>4, <3>1
    <2>2. ~(i < n + 1)
      <3> SUFFICES ASSUME i < n + 1
                   PROVE  FALSE
        OBVIOUS
      <3>1. i \in 1..n /\ i <= Len(s)
        BY <1>1, <1>2, <1>3
      <3>2. s[i] = c /\ s[i] = a[i]
        BY <1>2, <1>3, <3>1
      <3> QED
        BY <3>1, <3>2 DEF n
    <2> QED
      BY <1>2, <1>3, <2>1, <2>2
  <1>6. UpTo(s, c) = SubSeq(s, 1, n) /\ Behind(s, c) = SubSeq(s, n + 2, Len(s))
    <2>1. i - 1 = n /\ i + 1 = n + 2
      BY <1>2, <1>5
    <2> QED
      BY <2>1 DEF UpTo, Behind, i
  <1>7. SubSeq(s, 1, n) = a
    <2>1. n <= Len(s) /\ 1 \in Nat \ {0} /\ 1 <= n + 1
      BY <1>1, <1>2
    <2>2. /\ SubSeq(s, 1, n) \in Seq(V) /\ Len(SubSeq(s, 1, n)) = n - 1 + 1
          /\ \A k \in 1..(n - 1 + 1) : SubSeq(s, 1, n)[k] = s[1 + k - 1]
      BY <1>2, <2>1, SubSeqDoes
    <2> DEFINE u == SubSeq(s, 1, n)
    <2> HIDE DEF u
    <2>3. Len(u) = n /\ \A k \in 1..n : u[k] = a[k]
      <3>1. n - 1 + 1 = n /\ \A k \in 1..n : 1 + k - 1 = k
        BY <1>2
      <3> QED
        BY <1>2, <2>2, <3>1 DEF u
    <2> QED
      BY <2>2, <2>3, SameSeq DEF u, n
  <1>8. SubSeq(s, n + 2, Len(s)) = b
    <2>1. n + 2 \in Nat \ {0} /\ Len(s) \in Nat /\ n + 2 <= Len(s) + 1
      BY <1>1, <1>2
    <2>2. /\ SubSeq(s, n + 2, Len(s)) \in Seq(V)
          /\ Len(SubSeq(s, n + 2, Len(s))) = Len(s) - (n + 2) + 1
          /\ \A k \in 1..(Len(s) - (n + 2) + 1) :
                 SubSeq(s, n + 2, Len(s))[k] = s[n + 2 + k - 1]
      <3> DEFINE p == Len(s)
                 q == n + 2
      <3>1. q \in Nat \ {0} /\ p \in Nat /\ p <= Len(s) /\ q <= p + 1
        BY <2>1
      <3> HIDE DEF p, q
      <3>2. /\ SubSeq(s, q, p) \in Seq(V) /\ Len(SubSeq(s, q, p)) = p - q + 1
            /\ \A k \in 1..(p - q + 1) : SubSeq(s, q, p)[k] = s[q + k - 1]
        BY <1>2, <3>1, SubSeqDoes
      <3> QED
        BY <3>2 DEF p, q
    <2> DEFINE u == SubSeq(s, n + 2, Len(s))
    <2> HIDE DEF u
    <2>3. Len(u) = Len(b)
      BY <1>1, <1>2, <2>2 DEF u
    <2>4. ASSUME NEW k \in 1..Len(b)
          PROVE  u[k] = b[k]
      <3>1. k \in 1..(Len(s) - (n + 2) + 1) /\ n + 2 + k - 1 = n + (k + 1) /\ k + 1 \in 1..Len(t)
        BY <1>1, <1>2
      <3> QED
        BY <1>1, <1>2, <2>2, <3>1 DEF u
    <2> QED
      BY <2>2, <2>3, <2>4, SameSeq DEF u
  <1> QED
    BY <1>6, <1>7, <1>8 DEF s, t

-----------------------------------------------------------------------------
\* Lines

LEMMA MinMax ==
    ASSUME NEW n \in Nat, NEW T \in SUBSET (1..n), T # {}
    PROVE  /\ Sets!Min(T) \in T /\ \A y \in T : Sets!Min(T) <= y
           /\ Sets!Max(T) \in T /\ \A y \in T : y <= Sets!Max(T)
  <1>1. \E x \in T : \A y \in T : x <= y
    <2>1. T \in SUBSET Nat
      OBVIOUS
    <2> QED
      BY <2>1, LeastNumber
  <1>2. Sets!Min(T) \in T /\ \A y \in T : Sets!Min(T) <= y
    BY <1>1, Zenon DEF Sets!Min
  <1>3. \E x \in T : \A y \in T : x >= y
    <2> DEFINE U == {n - x : x \in T}
    <2>1. U \in SUBSET Nat /\ U # {}
      <3>1. \A x \in T : n - x \in Nat
        OBVIOUS
      <3> QED
        BY <3>1
    <2>2. PICK u \in U : \A v \in U : u <= v
      BY <2>1, LeastNumber
    <2>3. PICK x \in T : u = n - x
      BY <2>2
    <2>4. ASSUME NEW y \in T
          PROVE  x >= y
      <3>1. n - x <= n - y
        BY <2>2, <2>3
      <3> QED
        BY <3>1
    <2> QED
      BY <2>4
  <1>4. Sets!Max(T) \in T /\ \A y \in T : Sets!Max(T) >= y
    BY <1>3, Zenon DEF Sets!Max
  <1>5. \A y \in T : y <= Sets!Max(T)
    BY <1>4
  <1> QED
    BY <1>2, <1>4, <1>5

LEMMA TrimZerosDoes ==
    ASSUME NEW V, NEW line \in Seq(V)
    PROVE  /\ TrimZeros(line) \in Seq(V)
           /\ (\A i \in 1..Len(line) : line[i] = Zero) => TrimZeros(line) = <<>>
           /\ (\A i \in 1..Len(line) : line[i] # Zero) => TrimZeros(line) = line
  <1> DEFINE kept == {i \in DOMAIN line : line[i] # Zero}
             n == Len(line)
             lo == Sets!Min(kept)
             hi == Sets!Max(kept)
  <1>1. n \in Nat /\ DOMAIN line = 1..n
    OBVIOUS
  <1>2. TrimZeros(line) = IF kept = {} THEN <<>> ELSE SubSeq(line, lo, hi)
    BY DEF TrimZeros
  <1>3. CASE kept = {}
    <2>1. \A i \in 1..n : line[i] = Zero
      BY <1>1, <1>3
    <2>2. TrimZeros(line) = <<>>
      BY <1>2, <1>3
    <2>3. (\A i \in 1..n : line[i] # Zero) => line = <<>>
      BY <1>1, <2>1
    <2>4. <<>> \in Seq(V)
      BY EmptySeq
    <2> QED
      BY <2>2, <2>3, <2>4
  <1>4. CASE kept # {}
    <2>1. kept \in SUBSET (1..n)
      BY <1>1
    <2>2. PICK i \in 1..n : i \in kept
      BY <1>4, <2>1
    <2>3. line[i] # Zero
      BY <2>2
    <2> HIDE DEF kept
    <2>4. /\ lo \in kept /\ \A y \in kept : lo <= y
          /\ hi \in kept /\ \A y \in kept : y <= hi
      BY <1>1, <1>4, <2>1, MinMax
    <2> HIDE DEF lo, hi
    <2>5. lo \in 1..n /\ hi \in 1..n /\ lo <= hi
      BY <2>1, <2>4
    <2>6. SubSeq(line, lo, hi) \in Seq(V)
      <3>1. lo \in Nat \ {0} /\ hi \in Nat /\ hi <= Len(line) /\ lo <= hi + 1
        BY <1>1, <2>5
      <3> QED
        BY <3>1, SubSeqDoes
    <2>7. TrimZeros(line) = SubSeq(line, lo, hi)
      BY <1>2, <1>4
    <2>8. (\A k \in 1..n : line[k] # Zero) => SubSeq(line, lo, hi) = line
      <3> SUFFICES ASSUME \A k \in 1..n : line[k] # Zero
                   PROVE  SubSeq(line, lo, hi) = line
        OBVIOUS
      <3>1. 1 \in kept /\ n \in kept
        BY <1>1, <2>5 DEF kept
      <3>2. lo <= 1 /\ n <= hi
        BY <2>4, <3>1
      <3> HIDE DEF n
      <3>3. lo = 1 /\ hi = n
        BY <1>1, <2>5, <3>2
      <3> QED
        BY <3>3, SubSeqFull DEF n
    <2> QED
      BY <2>2, <2>3, <2>6, <2>7, <2>8
  <1> QED
    BY <1>3, <1>4

LinesStep(f, cells) ==
    IF cells = <<>> THEN <<>>
    ELSE LET line == TrimZeros(UpTo(cells, NewLine))
         IN  (IF line = <<>> THEN <<>> ELSE <<line>>) \o f[Behind(cells, NewLine)]

LEMMA LinesEquation ==
    /\ \A cells \in Seq(Cells) : Lines[cells] = LinesStep(Lines, cells)
    /\ Lines \in [Seq(Cells) -> Seq(Seq(Cells))]
  <1> DEFINE D == Seq(Cells)
             V == Seq(D)
             m == [s \in D |-> Len(s)]
             G == [p \in [D -> V] \X D |-> LinesStep(p[1], p[2])]
             Equation(f) == f = [s \in D |-> LinesStep(f, s)]
  <1>1. m \in [D -> Nat] /\ V # {}
    <2>1. <<>> \in V
      BY EmptySeq
    <2>2. \A s \in D : Len(s) \in Nat
      OBVIOUS
    <2> HIDE DEF D, V
    <2> QED
      BY <2>1, <2>2
  <1>2. \A s \in D : s # <<>> => Behind(s, NewLine) \in D /\ m[Behind(s, NewLine)] < m[s]
    BY PiecesType
  <1>3. \A s \in D, v \in V :
            (IF TrimZeros(UpTo(s, NewLine)) = <<>> THEN <<>>
             ELSE <<TrimZeros(UpTo(s, NewLine))>>) \o v \in V
    <2> SUFFICES ASSUME NEW s \in D, NEW v \in V
                 PROVE  (IF TrimZeros(UpTo(s, NewLine)) = <<>> THEN <<>>
                         ELSE <<TrimZeros(UpTo(s, NewLine))>>) \o v \in V
      OBVIOUS
    <2>1. UpTo(s, NewLine) \in D
      BY PiecesType
    <2>2. TrimZeros(UpTo(s, NewLine)) \in D
      BY <2>1, TrimZerosDoes
    <2> HIDE DEF D
    <2>3. <<>> \in V /\ <<TrimZeros(UpTo(s, NewLine))>> \in V
      BY <2>2
    <2> HIDE DEF V
    <2>4. \A w \in V : w \o v \in V
      BY DEF V
    <2> QED
      BY <2>3, <2>4
  <1> HIDE DEF D, V, m
  <1>4. ASSUME NEW g \in [D -> V], NEW s \in D
        PROVE  LinesStep(g, s) \in V
    <2>1. CASE s = <<>>
      <3>1. <<>> \in V
        BY EmptySeq DEF V
      <3> QED
        BY <2>1, <3>1 DEF LinesStep
    <2>2. CASE s # <<>>
      <3>1. g[Behind(s, NewLine)] \in V
        BY <1>2, <2>2
      <3> QED
        BY <1>3, <2>2, <3>1, Zenon DEF LinesStep
    <2> QED
      BY <2>1, <2>2
  <1>5. \A g \in [D -> V], s \in D : G[<<g, s>>] = LinesStep(g, s)
    OBVIOUS
  <1>6. G \in [[D -> V] \X D -> V]
    <2>1. \A p \in [D -> V] \X D : LinesStep(p[1], p[2]) \in V
      BY <1>4
    <2> QED
      BY <2>1
  <1> HIDE DEF G
  <1>7. ASSUME NEW g \in [D -> V], NEW h \in [D -> V], NEW s \in D,
               \A t \in D : m[t] < m[s] => g[t] = h[t]
        PROVE  LinesStep(g, s) = LinesStep(h, s)
    <2>1. s # <<>> => g[Behind(s, NewLine)] = h[Behind(s, NewLine)]
      BY <1>2, <1>7
    <2> QED
      BY <2>1, Zenon DEF LinesStep
  <1>8. Depends(G, m, D, V)
    BY <1>5, <1>7 DEF Depends
  <1>9. PICK f \in [D -> V] : \A s \in D : f[s] = G[<<f, s>>]
    <2>1. Recursive(G, m, D, V)
      BY <1>1, <1>6, <1>8 DEF Recursive
    <2> QED
      BY <2>1, Recursion
  <1>10. Equation(f)
    BY <1>5, <1>9
  <1>11. Equation(Lines)
    BY <1>10, Zenon DEF Lines, LinesStep, D
  <1>12. \A s \in D : Lines[s] = LinesStep(Lines, s)
    BY <1>11
  <1> DEFINE T == {n \in Nat : \A s \in D : Len(s) = n => Lines[s] \in V}
  <1>13. ASSUME NEW n \in Nat, \A k \in Nat : k < n => k \in T
         PROVE  n \in T
    <2> SUFFICES ASSUME NEW s \in D, Len(s) = n
                 PROVE  Lines[s] \in V
      OBVIOUS
    <2>1. CASE s = <<>>
      <3>1. Lines[s] = <<>>
        BY <1>12, <2>1 DEF LinesStep
      <3> QED
        BY <3>1, EmptySeq DEF V
    <2>2. CASE s # <<>>
      <3> DEFINE t == Behind(s, NewLine)
      <3>1. t \in D /\ Len(t) \in Nat /\ Len(t) < n
        BY <2>2, PiecesType DEF D
      <3> HIDE DEF t
      <3>2. Lines[t] \in V
        BY <1>13, <3>1
      <3>3. Lines[s] = (IF TrimZeros(UpTo(s, NewLine)) = <<>> THEN <<>>
                        ELSE <<TrimZeros(UpTo(s, NewLine))>>) \o Lines[t]
        BY <1>12, <2>2, Zenon DEF LinesStep, t
      <3> QED
        BY <1>3, <3>2, <3>3
    <2> QED
      BY <2>1, <2>2
  <1>14. \A n \in Nat : n \in T
    <2> HIDE DEF T
    <2> QED
      BY <1>13, StrongInduction
  <1>15. \A s \in D : Lines[s] \in V
    <2>1. \A s \in D : Len(s) \in Nat
      BY DEF D
    <2> QED
      BY <1>14, <2>1
  <1>16. Lines \in [D -> V]
    BY <1>11, <1>12, <1>15
  <1> QED
    BY <1>12, <1>16 DEF D, V

-----------------------------------------------------------------------------
\* The writes of a line

Plain == Digit \cup {Comma, Query}

LEMMA CellFacts ==
    /\ Plain \subseteq Cells /\ Comma \in Plain /\ Query \in Plain /\ Digit \subseteq Plain
    /\ NewLine \in Cells /\ Zero \in Cells /\ NewLine \notin Plain /\ Zero \notin Plain
    /\ Comma \notin Digit /\ Query \notin Digit /\ Query # Comma /\ NewLine # Zero
    /\ Base \in Nat /\ Base > 1
  BY StateFileAssumption DEF Plain, Digit, Comma, Query, NewLine, Zero, Cells

LEMMA SeqOfSubset ==
    ASSUME NEW A, NEW B, A \subseteq B, NEW s \in Seq(A)
    PROVE  s \in Seq(B)
  OBVIOUS

Remote(e) == IF e.remote = NoRemote THEN <<Query>> ELSE Digits[e.remote]
Row(e) == Digits[e.local] \o (<<Comma>> \o (Remote(e) \o (<<Comma>> \o Digits[e.uploaded])))

\* These equations are predicates, which the provers match as they stand.
Associates(s, t, u) == (s \o t) \o u = s \o (t \o u)

AssociatesFive(a, b, c, d, e) == (((a \o b) \o c) \o d) \o e = a \o (b \o (c \o (d \o e)))

FlattensSix(a, b, c, d, e, f) ==
    Seqs!FlattenSeq(<<a, b, c, d, e, f>>) = (a \o (b \o (c \o (d \o e)))) \o f

LEMMA ConcatAssociates ==
    ASSUME NEW S, NEW s \in Seq(S), NEW t \in Seq(S), NEW u \in Seq(S)
    PROVE  Associates(s, t, u)
  BY ConcatAssociative DEF Associates

LEMMA ConcatFive ==
    ASSUME NEW S, NEW a \in Seq(S), NEW b \in Seq(S), NEW c \in Seq(S),
           NEW d \in Seq(S), NEW e \in Seq(S)
    PROVE  AssociatesFive(a, b, c, d, e)
  <1> DEFINE ab == a \o b
             cd == c \o d
             de == d \o e
  <1>1. ab \in Seq(S)
    BY ConcatProperties
  <1>2. cd \in Seq(S)
    BY ConcatProperties
  <1>3. de \in Seq(S)
    BY ConcatProperties
  <1>4. c \o de \in Seq(S)
    BY <1>3, ConcatProperties
  <1>5. Associates(ab, c, d)
    BY <1>1, ConcatAssociates
  <1>6. Associates(ab, cd, e)
    BY <1>1, <1>2, ConcatAssociates
  <1>7. Associates(c, d, e)
    BY ConcatAssociates
  <1>8. Associates(a, b, c \o de)
    BY <1>4, ConcatAssociates
  <1> HIDE DEF ab, cd, de
  <1> QED
    BY <1>5, <1>6, <1>7, <1>8, Zenon DEF Associates, AssociatesFive, ab, cd, de

LEMMA FlattenSix ==
    ASSUME NEW S, NEW a \in Seq(S), NEW b \in Seq(S), NEW c \in Seq(S),
           NEW d \in Seq(S), NEW e \in Seq(S), NEW f \in Seq(S)
    PROVE  FlattensSix(a, b, c, d, e, f)
  <1> DEFINE V == Seq(S)
             Flat(ws) == Seqs!FlattenSeq(ws)
  <1>1. \A ws \in Seq(V), w \in V : Flat(Append(ws, w)) = Flat(ws) \o w
    BY FlattenAppend
  <1>4. <<>> \o a = a
    OBVIOUS
  <1>5. Flat(<<>>) = <<>>
    BY FlattenEmpty
  <1> HIDE DEF V, Flat
  <1>6. /\ <<a>> = Append(<<>>, a) /\ <<a, b>> = Append(<<a>>, b)
        /\ <<a, b, c>> = Append(<<a, b>>, c) /\ <<a, b, c, d>> = Append(<<a, b, c>>, d)
        /\ <<a, b, c, d, e>> = Append(<<a, b, c, d>>, e)
        /\ <<a, b, c, d, e, f>> = Append(<<a, b, c, d, e>>, f)
    OBVIOUS
  <1>7. {a, b, c, d, e, f} \subseteq V
    BY DEF V
  <1>8. /\ <<>> \in Seq(V) /\ <<a>> \in Seq(V) /\ <<a, b>> \in Seq(V) /\ <<a, b, c>> \in Seq(V)
        /\ <<a, b, c, d>> \in Seq(V) /\ <<a, b, c, d, e>> \in Seq(V)
    BY <1>7
  <1>9. Flat(<<a>>) = a
    BY <1>1, <1>4, <1>5, <1>6, <1>7, <1>8
  <1>10. Flat(<<a, b>>) = a \o b
    BY <1>1, <1>6, <1>7, <1>8, <1>9
  <1>11. Flat(<<a, b, c>>) = (a \o b) \o c
    BY <1>1, <1>6, <1>7, <1>8, <1>10
  <1>12. Flat(<<a, b, c, d>>) = ((a \o b) \o c) \o d
    BY <1>1, <1>6, <1>7, <1>8, <1>11
  <1>13. Flat(<<a, b, c, d, e>>) = (((a \o b) \o c) \o d) \o e
    BY <1>1, <1>6, <1>7, <1>8, <1>12
  <1>14. Flat(<<a, b, c, d, e, f>>) = ((((a \o b) \o c) \o d) \o e) \o f
    BY <1>1, <1>6, <1>7, <1>8, <1>13
  <1>15. (((a \o b) \o c) \o d) \o e = a \o (b \o (c \o (d \o e)))
    <2>1. AssociatesFive(a, b, c, d, e)
      BY ConcatFive
    <2> QED
      BY <2>1, Zenon DEF AssociatesFive
  <1> QED
    BY <1>14, <1>15 DEF Flat, FlattensSix

\* An entry reads back from its line.
LEMMA RowReads ==
    ASSUME NEW e \in Entry
    PROVE  /\ Row(e) \in Seq(Plain) /\ Row(e) # <<>>
           /\ IsEntry(Row(e)) /\ EntryOf(Row(e)) = e
  <1> DEFINE a == Digits[e.local]
             r == Remote(e)
             u == Digits[e.uploaded]
             V == Seq(Plain)
  <1>1. /\ e.local \in Nat /\ e.uploaded \in Nat /\ e.remote \in Nat \cup {NoRemote}
        /\ e = [local |-> e.local, remote |-> e.remote, uploaded |-> e.uploaded]
    BY DEF Entry
  <1>2. a \in Seq(Digit) /\ a # <<>> /\ Number[a] = e.local
    BY <1>1, NumberOfDigits
  <1>3. u \in Seq(Digit) /\ u # <<>> /\ Number[u] = e.uploaded
    BY <1>1, NumberOfDigits
  <1>4. \/ e.remote = NoRemote /\ r = <<Query>>
        \/ r \in Seq(Digit) /\ r # <<>> /\ e.remote # NoRemote /\ Number[r] = e.remote
    <2>1. CASE e.remote = NoRemote
      BY <2>1 DEF Remote
    <2>2. CASE e.remote # NoRemote
      <3>1. e.remote \in Nat /\ r = Digits[e.remote]
        BY <1>1, <2>2 DEF Remote
      <3> QED
        BY <2>2, <3>1, NumberOfDigits
    <2> QED
      BY <2>1, <2>2
  <1> HIDE DEF a, r, u
  <1>5. a \in V /\ u \in V
    BY <1>2, <1>3, CellFacts, SeqOfSubset
  <1>6. r \in V
    <2>1. <<Query>> \in V
      BY CellFacts
    <2> QED
      BY <1>4, <2>1, CellFacts, SeqOfSubset
  <1>7. <<Comma>> \in V
    BY CellFacts
  <1>8. \A x, y \in V : x \o y \in V
    OBVIOUS
  <1> DEFINE t == r \o (<<Comma>> \o u)
  <1>9. Row(e) = a \o (<<Comma>> \o t)
    BY DEF Row, a, r, u
  <1>10. t \in V /\ <<Comma>> \o t \in V
    <2> HIDE DEF V
    <2> QED
      BY <1>5, <1>6, <1>7, <1>8
  <1>11. Row(e) \in V
    <2> HIDE DEF V, t
    <2> QED
      BY <1>5, <1>8, <1>9, <1>10
  <1>12. Comma \in Plain /\ Comma \notin Digit /\ Query # Comma /\ Query \notin Digit
    BY CellFacts
  <1>13. /\ \A i \in 1..Len(a) : a[i] # Comma
         /\ \A i \in 1..Len(u) : u[i] # Comma
    <2>1. (\A i \in 1..Len(a) : a[i] \in Digit) /\ \A i \in 1..Len(u) : u[i] \in Digit
      BY <1>2, <1>3
    <2> QED
      BY <1>12, <2>1
  <1>14. \A i \in 1..Len(r) : r[i] # Comma
    <2>1. CASE r = <<Query>>
      BY <1>12, <2>1
    <2>2. CASE r \in Seq(Digit)
      <3>1. \A i \in 1..Len(r) : r[i] \in Digit
        BY <2>2
      <3> QED
        BY <1>12, <3>1
    <2> QED
      BY <1>4, <2>1, <2>2
  <1> HIDE DEF t
  <1>15. UpTo(Row(e), Comma) = a /\ Behind(Row(e), Comma) = t
    <2>1. a \in Seq(Plain) /\ t \in Seq(Plain)
      BY <1>5, <1>10
    <2>2. /\ UpTo(a \o (<<Comma>> \o t), Comma) = a
          /\ Behind(a \o (<<Comma>> \o t), Comma) = t
      BY <2>1, <1>12, <1>13, AtSeparator
    <2> QED
      BY <2>2, <1>9
  <1>16. UpTo(t, Comma) = r /\ Behind(t, Comma) = u
    BY <1>5, <1>6, <1>12, <1>14, AtSeparator DEF V, t
  <1>17. UpTo(u, Comma) = u
    BY <1>5, <1>13, NoSeparator DEF V
  <1>18. Field1(Row(e)) = a /\ Field2(Row(e)) = r /\ Field3(Row(e)) = u
    BY <1>15, <1>16, <1>17 DEF Field1, Field2, Field3
  <1>19. IsEntry(Row(e))
    BY <1>2, <1>3, <1>4, <1>18 DEF IsEntry, IsNumber
  <1>20. EntryOf(Row(e)) = e
    <2>1. (IF r = <<Query>> THEN NoRemote ELSE Number[r]) = e.remote
      <3>1. CASE e.remote = NoRemote
        BY <1>4, <3>1
      <3>2. CASE e.remote # NoRemote
        <4>1. r \in Seq(Digit) /\ Number[r] = e.remote
          BY <1>4, <3>2
        <4>2. r # <<Query>>
          BY <1>12, <4>1
        <4> QED
          BY <4>1, <4>2
      <3> QED
        BY <3>1, <3>2
    <2> QED
      BY <1>1, <1>2, <1>3, <1>18, <2>1, Zenon DEF EntryOf
  <1>21. Row(e) # <<>>
    <2>1. Row(e) = a \o (<<Comma>> \o t) /\ a \in V /\ <<Comma>> \o t \in V
      BY <1>5, <1>9, <1>10
    <2> DEFINE w == <<Comma>> \o t
    <2> HIDE DEF w
    <2>2. Len(a) > 0 /\ Len(w) \in Nat /\ Len(a \o w) = Len(a) + Len(w)
      BY <1>2, <2>1 DEF w
    <2> QED
      BY <2>1, <2>2 DEF w
  <1> QED
    BY <1>11, <1>19, <1>20, <1>21

LEMMA LineWritesDoes ==
    ASSUME NEW e \in Entry
    PROVE  /\ LineWrites(e) \in Seq(Seq(Cells)) /\ Len(LineWrites(e)) = 6
           /\ Seqs!FlattenSeq(LineWrites(e)) = Row(e) \o <<NewLine>>
           /\ Row(e) \in Seq(Cells)
  <1> DEFINE a == Digits[e.local]
             r == Remote(e)
             u == Digits[e.uploaded]
             V == Seq(Cells)
  <1>1. a \in Seq(Digit) /\ u \in Seq(Digit)
    BY NumberOfDigits DEF Entry
  <1>2. r = <<Query>> \/ r \in Seq(Digit)
    BY NumberOfDigits DEF Entry, Remote
  <1>3. LineWrites(e) = <<a, <<Comma>>, r, <<Comma>>, u, <<NewLine>>>>
    BY DEF LineWrites, Remote
  <1> HIDE DEF a, r, u
  <1>4. Digit \subseteq Cells
    BY CellFacts
  <1>5. <<Query>> \in V /\ <<Comma>> \in V /\ <<NewLine>> \in V
    BY CellFacts
  <1>6. a \in V /\ u \in V /\ r \in V
    BY <1>1, <1>2, <1>4, <1>5, SeqOfSubset
  <1>7. Row(e) \in V
    BY RowReads, CellFacts, SeqOfSubset
  <1>8. Seqs!FlattenSeq(LineWrites(e)) = Row(e) \o <<NewLine>>
    <2>1. Row(e) = a \o (<<Comma>> \o (r \o (<<Comma>> \o u)))
      BY DEF Row, a, r, u
    <2>2. Seqs!FlattenSeq(<<a, <<Comma>>, r, <<Comma>>, u, <<NewLine>>>>)
           = (a \o (<<Comma>> \o (r \o (<<Comma>> \o u)))) \o <<NewLine>>
      <3>1. FlattensSix(a, <<Comma>>, r, <<Comma>>, u, <<NewLine>>)
        BY <1>5, <1>6, FlattenSix
      <3> QED
        BY <3>1 DEF FlattensSix
    <2> QED
      BY <1>3, <2>1, <2>2, Zenon
  <1> HIDE DEF V
  <1>9. LineWrites(e) \in Seq(V) /\ Len(LineWrites(e)) = 6
    BY <1>3, <1>5, <1>6
  <1> QED
    BY <1>7, <1>8, <1>9 DEF V

-----------------------------------------------------------------------------
\* Texts

\* The lines of a text, those behind the header
BodyWrites(s) == Seqs!FlattenSeq([i \in DOMAIN s |-> LineWrites(s[i])])
Body(s) == Seqs!FlattenSeq(BodyWrites(s))
RowsOf(s) == [i \in DOMAIN s |-> Row(s[i])]

LEMMA BodyWritesDoes ==
    /\ BodyWrites(<<>>) = <<>>
    /\ \A s \in Seq(Entry) : BodyWrites(s) \in Seq(Seq(Cells))
    /\ \A s \in Seq(Entry), e \in Entry :
           BodyWrites(Append(s, e)) = BodyWrites(s) \o LineWrites(e)
  <1> DEFINE W == Seq(Seq(Cells))
             Lw(s) == [i \in DOMAIN s |-> LineWrites(s[i])]
  <1>1. Lw(<<>>) = <<>>
    OBVIOUS
  <1>2. BodyWrites(<<>>) = <<>>
    BY <1>1, FlattenEmpty DEF BodyWrites
  <1>3. ASSUME NEW s \in Seq(Entry)
        PROVE  Lw(s) \in Seq(W)
    <2>1. \A i \in 1..Len(s) : LineWrites(s[i]) \in W
      BY LineWritesDoes
    <2>2. DOMAIN s = 1..Len(s) /\ Len(s) \in Nat
      OBVIOUS
    <2> HIDE DEF W
    <2> QED
      BY <2>1, <2>2
  <1>4. ASSUME NEW s \in Seq(Entry), NEW e \in Entry
        PROVE  Lw(Append(s, e)) = Append(Lw(s), LineWrites(e))
    <2> DEFINE t == Append(s, e)
               n == Len(s)
    <2>1. /\ DOMAIN t = 1..(n + 1) /\ t[n + 1] = e /\ n \in Nat /\ DOMAIN s = 1..n
          /\ \A i \in 1..n : t[i] = s[i]
      BY AppendDoes
    <2> HIDE DEF t, n
    <2>2. Lw(s) \in Seq(W) /\ LineWrites(e) \in W
      BY <1>3, LineWritesDoes
    <2>3. DOMAIN Lw(s) = 1..n
      BY <2>1
    <2>4. Len(Lw(s)) = n
      <3>1. n \in Nat /\ DOMAIN Lw(s) = 1..n
        BY <2>1
      <3> DEFINE l == Lw(s)
      <3> HIDE DEF l, W
      <3> QED
        BY <2>2, <3>1 DEF l
    <2> DEFINE l == Lw(s)
               x == LineWrites(e)
    <2>5. \A i \in 1..n : l[i] = LineWrites(s[i])
      BY <2>1
    <2> HIDE DEF l, x, W
    <2>6. /\ Append(l, x) \in Seq(W) /\ Len(Append(l, x)) = n + 1
          /\ Append(l, x)[n + 1] = x /\ \A i \in 1..n : Append(l, x)[i] = l[i]
      BY <2>2, <2>4, AppendDoes DEF l, x
    <2>7. Append(l, x) = [i \in 1..(n + 1) |-> LineWrites(t[i])]
      <3>1. \A i \in 1..(n + 1) : Append(l, x)[i] = LineWrites(t[i])
        <4> SUFFICES ASSUME NEW i \in 1..(n + 1)
                     PROVE  Append(l, x)[i] = LineWrites(t[i])
          OBVIOUS
        <4>1. CASE i = n + 1
          BY <2>1, <2>6, <4>1 DEF x
        <4>2. CASE i # n + 1
          <5>1. i \in 1..n
            BY <2>1, <4>2
          <5> QED
            BY <2>1, <2>5, <2>6, <5>1
        <4> QED
          BY <4>1, <4>2
      <3> DEFINE y == Append(l, x)
      <3> HIDE DEF y
      <3>2. y = [i \in 1..(n + 1) |-> y[i]]
        <4>1. y \in [1..Len(y) -> W] /\ Len(y) = n + 1
          BY <2>6, LenProperties DEF y
        <4> QED
          BY <4>1
      <3> QED
        BY <3>1, <3>2 DEF y
    <2> QED
      BY <2>1, <2>7 DEF t, l, x
  <1>5. ASSUME NEW s \in Seq(Entry), NEW e \in Entry
        PROVE  BodyWrites(Append(s, e)) = BodyWrites(s) \o LineWrites(e)
    <2>1. Lw(s) \in Seq(W) /\ LineWrites(e) \in W
      BY <1>3, LineWritesDoes
    <2> HIDE DEF Lw
    <2>2. Seqs!FlattenSeq(Append(Lw(s), LineWrites(e))) = Seqs!FlattenSeq(Lw(s)) \o LineWrites(e)
      BY <2>1, FlattenAppend
    <2> QED
      BY <1>4, <2>2, Zenon DEF BodyWrites, Lw
  <1>6. ASSUME NEW s \in Seq(Entry)
        PROVE  BodyWrites(s) \in W
    <2>1. Lw(s) \in Seq(W)
      BY <1>3
    <2> HIDE DEF Lw
    <2>2. Seqs!FlattenSeq(Lw(s)) \in W
      BY <2>1, FlattenType
    <2> QED
      BY <2>2 DEF BodyWrites, Lw
  <1> QED
    BY <1>2, <1>5, <1>6

LEMMA BodyDoes ==
    /\ Body(<<>>) = <<>>
    /\ \A s \in Seq(Entry) : Body(s) \in Seq(Cells)
    /\ \A s \in Seq(Entry), e \in Entry :
           Body(Append(s, e)) = Body(s) \o (Row(e) \o <<NewLine>>)
  <1>1. Body(<<>>) = <<>>
    BY BodyWritesDoes, FlattenEmpty DEF Body
  <1>2. ASSUME NEW s \in Seq(Entry)
        PROVE  Body(s) \in Seq(Cells)
    BY BodyWritesDoes, FlattenType DEF Body
  <1>3. ASSUME NEW s \in Seq(Entry), NEW e \in Entry
        PROVE  Body(Append(s, e)) = Body(s) \o (Row(e) \o <<NewLine>>)
    <2>1. BodyWrites(s) \in Seq(Seq(Cells)) /\ LineWrites(e) \in Seq(Seq(Cells))
      BY BodyWritesDoes, LineWritesDoes
    <2>2. Seqs!FlattenSeq(BodyWrites(s) \o LineWrites(e))
           = Seqs!FlattenSeq(BodyWrites(s)) \o Seqs!FlattenSeq(LineWrites(e))
      BY <2>1, FlattenConcat
    <2>3. BodyWrites(Append(s, e)) = BodyWrites(s) \o LineWrites(e)
      BY BodyWritesDoes
    <2>4. Seqs!FlattenSeq(LineWrites(e)) = Row(e) \o <<NewLine>>
      BY LineWritesDoes
    <2> QED
      BY <2>2, <2>3, <2>4, Zenon DEF Body
  <1> QED
    BY <1>1, <1>2, <1>3

LEMMA TextIs ==
    ASSUME NEW s \in Seq(Entry)
    PROVE  /\ TextWrites(s) = <<<<NewLine>>>> \o BodyWrites(s)
           /\ TextWrites(s) \in Seq(Seq(Cells))
           /\ Text(s) = <<NewLine>> \o Body(s)
           /\ Text(s) \in Seq(Cells) /\ Body(s) \in Seq(Cells)
  <1> DEFINE W == Seq(Cells)
             q == <<NewLine>>
  <1>1. BodyWrites(s) \in Seq(W)
    BY BodyWritesDoes
  <1>2. q \in W
    BY CellFacts
  <1> HIDE DEF W, q
  <1>3. <<q>> \in Seq(W) /\ <<q>> = Append(<<>>, q) /\ <<>> \in Seq(W)
    BY <1>2
  <1>4. TextWrites(s) = <<q>> \o BodyWrites(s)
    BY DEF TextWrites, BodyWrites, q
  <1>5. TextWrites(s) \in Seq(W)
    BY <1>1, <1>3, <1>4, ConcatDoes
  <1>6. Seqs!FlattenSeq(<<q>>) = q
    <2>1. Seqs!FlattenSeq(Append(<<>>, q)) = Seqs!FlattenSeq(<<>>) \o q
      BY <1>2, <1>3, FlattenAppend DEF W
    <2>2. <<>> \o q = q
      BY <1>2, ConcatEmptySeq DEF W
    <2> QED
      BY <1>3, <2>1, <2>2, FlattenEmpty, Zenon
  <1>7. Seqs!FlattenSeq(<<q>> \o BodyWrites(s)) = Seqs!FlattenSeq(<<q>>) \o Seqs!FlattenSeq(BodyWrites(s))
    BY <1>1, <1>3, FlattenConcat DEF W
  <1>8. Text(s) = q \o Body(s)
    BY <1>4, <1>6, <1>7, Zenon DEF Text, Body
  <1>9. Body(s) \in W
    BY BodyDoes DEF W
  <1>10. Text(s) \in W
    BY <1>2, <1>8, <1>9, ConcatDoes DEF W
  <1> QED
    BY <1>4, <1>5, <1>8, <1>9, <1>10 DEF W, q

\* A text followed by a line
LEMMA TextOfAppend ==
    ASSUME NEW s \in Seq(Entry), NEW e \in Entry
    PROVE  /\ Text(Append(s, e)) = Text(s) \o (Row(e) \o <<NewLine>>)
           /\ TextWrites(Append(s, e)) = TextWrites(s) \o LineWrites(e)
           /\ Append(s, e) \in Seq(Entry) /\ Row(e) \o <<NewLine>> \in Seq(Cells)
  <1> DEFINE h == <<NewLine>>
             l == Row(e) \o <<NewLine>>
             W == Seq(Cells)
  <1>1. Append(s, e) \in Seq(Entry)
    BY AppendDoes
  <1>2. h \in Seq(Cells)
    BY CellFacts
  <1>3. l \in Seq(Cells)
    <2> HIDE DEF h
    <2> QED
      BY <1>2, LineWritesDoes, ConcatDoes DEF h
  <1>4. Body(s) \in Seq(Cells)
    BY BodyDoes
  <1> HIDE DEF h, l
  <1>5. Associates(h, Body(s), l)
    BY <1>2, <1>3, <1>4, ConcatAssociates
  <1>6. Text(Append(s, e)) = Text(s) \o l
    <2>1. Text(Append(s, e)) = h \o Body(Append(s, e)) /\ Text(s) = h \o Body(s)
      BY <1>1, TextIs DEF h
    <2>2. Body(Append(s, e)) = Body(s) \o l
      BY BodyDoes DEF l
    <2> QED
      BY <1>5, <2>1, <2>2, Zenon DEF Associates
  <1> DEFINE g == <<<<NewLine>>>>
  <1>7. TextWrites(Append(s, e)) = TextWrites(s) \o LineWrites(e)
    <2>1. TextWrites(Append(s, e)) = g \o BodyWrites(Append(s, e))
      BY <1>1, TextIs
    <2>2. TextWrites(s) = g \o BodyWrites(s)
      BY TextIs
    <2>3. BodyWrites(Append(s, e)) = BodyWrites(s) \o LineWrites(e)
      BY BodyWritesDoes
    <2>4. Associates(g, BodyWrites(s), LineWrites(e))
      <3>1. BodyWrites(s) \in Seq(W) /\ LineWrites(e) \in Seq(W)
        BY BodyWritesDoes, LineWritesDoes
      <3>2. <<NewLine>> \in W
        BY <1>2 DEF h
      <3> HIDE DEF W
      <3>3. g \in Seq(W)
        BY <3>2
      <3> HIDE DEF g
      <3> QED
        BY <3>1, <3>3, ConcatAssociates
    <2> HIDE DEF g
    <2> QED
      BY <2>1, <2>2, <2>3, <2>4, Zenon DEF Associates
  <1> QED
    BY <1>1, <1>3, <1>6, <1>7 DEF l

\* The cells of a line are all kept, and those of one of zeros none.
LEMMA LinesOfLine ==
    ASSUME NEW r \in Seq(Plain), r # <<>>, NEW rest \in Seq(Cells)
    PROVE  Lines[r \o (<<NewLine>> \o rest)] = <<r>> \o Lines[rest]
  <1> DEFINE q == <<NewLine>>
             cells == r \o (q \o rest)
  <1>1. r \in Seq(Cells) /\ \A i \in 1..Len(r) : r[i] # NewLine /\ r[i] # Zero
    <2>1. \A i \in 1..Len(r) : r[i] \in Plain
      OBVIOUS
    <2>2. r \in Seq(Cells)
      BY CellFacts, SeqOfSubset
    <2> QED
      BY <2>1, <2>2, CellFacts
  <1>2. UpTo(cells, NewLine) = r /\ Behind(cells, NewLine) = rest
    BY <1>1, CellFacts, AtSeparator
  <1>3. TrimZeros(r) = r
    BY <1>1, TrimZerosDoes
  <1>4. q \in Seq(Cells)
    BY CellFacts
  <1> HIDE DEF q
  <1>5. q \o rest \in Seq(Cells)
    BY <1>4, ConcatDoes
  <1>6. cells \in Seq(Cells) /\ cells # <<>>
    <2> DEFINE t == q \o rest
    <2> HIDE DEF t
    <2>1. r \o t \in Seq(Cells) /\ Len(r \o t) = Len(r) + Len(t) /\ Len(t) \in Nat /\ Len(r) > 0
      BY <1>1, <1>5 DEF t
    <2>2. r \o t # <<>>
      BY <2>1
    <2> QED
      BY <2>1, <2>2 DEF t
  <1> HIDE DEF cells
  <1>7. Lines[cells] = LinesStep(Lines, cells)
    BY <1>6, LinesEquation
  <1>8. LinesStep(Lines, cells) = <<r>> \o Lines[rest]
    BY <1>2, <1>3, <1>6, Zenon DEF LinesStep
  <1> QED
    BY <1>7, <1>8 DEF cells, q

LEMMA LinesOfZeros ==
    ASSUME NEW zeros \in Seq({Zero})
    PROVE  Lines[zeros] = <<>> /\ zeros \in Seq(Cells)
  <1>1. zeros \in Seq(Cells) /\ \A i \in 1..Len(zeros) : zeros[i] = Zero
    BY CellFacts
  <1>2. \A i \in 1..Len(zeros) : zeros[i] # NewLine
    BY <1>1, CellFacts
  <1>3. UpTo(zeros, NewLine) = zeros /\ Behind(zeros, NewLine) = <<>>
    BY <1>1, <1>2, NoSeparator
  <1>4. TrimZeros(zeros) = <<>>
    BY <1>1, TrimZerosDoes
  <1>5. <<>> \in Seq(Cells) /\ <<>> \o <<>> = <<>>
    OBVIOUS
  <1>6. Lines[<<>>] = <<>>
    BY <1>5, LinesEquation, Zenon DEF LinesStep
  <1>7. Lines[zeros] = LinesStep(Lines, zeros)
    BY <1>1, LinesEquation
  <1>8. LinesStep(Lines, zeros) = <<>>
    BY <1>3, <1>4, <1>5, <1>6, Zenon DEF LinesStep
  <1> QED
    BY <1>1, <1>7, <1>8

LEMMA RowsOfDoes ==
    /\ RowsOf(<<>>) = <<>>
    /\ \A s \in Seq(Entry) : RowsOf(s) \in Seq(Seq(Cells)) /\ Len(RowsOf(s)) = Len(s)
    /\ \A s \in Seq(Entry), e \in Entry : RowsOf(Append(s, e)) = Append(RowsOf(s), Row(e))
  <1> DEFINE W == Seq(Cells)
  <1>1. \A e \in Entry : Row(e) \in W
    BY LineWritesDoes
  <1> HIDE DEF W
  <1>2. RowsOf(<<>>) = <<>>
    BY DEF RowsOf
  <1>3. ASSUME NEW s \in Seq(Entry)
        PROVE  RowsOf(s) \in Seq(W) /\ Len(RowsOf(s)) = Len(s)
    <2>1. DOMAIN s = 1..Len(s) /\ Len(s) \in Nat /\ \A i \in 1..Len(s) : s[i] \in Entry
      OBVIOUS
    <2>2. \A i \in 1..Len(s) : Row(s[i]) \in W
      BY <1>1, <2>1
    <2> QED
      BY <2>1, <2>2 DEF RowsOf
  <1>4. ASSUME NEW s \in Seq(Entry), NEW e \in Entry
        PROVE  RowsOf(Append(s, e)) = Append(RowsOf(s), Row(e))
    <2> DEFINE t == Append(s, e)
               n == Len(s)
               x == RowsOf(t)
               y == Append(RowsOf(s), Row(e))
    <2>1. /\ t \in Seq(Entry) /\ Len(t) = n + 1 /\ t[n + 1] = e /\ n \in Nat
          /\ \A i \in 1..n : t[i] = s[i]
      BY AppendDoes
    <2> HIDE DEF t
    <2>2. x \in Seq(W) /\ Len(x) = n + 1 /\ RowsOf(s) \in Seq(W) /\ Len(RowsOf(s)) = n
      BY <1>3, <2>1
    <2>3. /\ y \in Seq(W) /\ Len(y) = n + 1 /\ y[n + 1] = Row(e)
          /\ \A i \in 1..n : y[i] = RowsOf(s)[i]
      BY <1>1, <2>2, AppendDoes
    <2>4. (\A i \in 1..(n + 1) : x[i] = Row(t[i])) /\ \A i \in 1..n : RowsOf(s)[i] = Row(s[i])
      <3>1. DOMAIN t = 1..(n + 1) /\ DOMAIN s = 1..n
        BY <2>1
      <3> QED
        BY <3>1 DEF RowsOf
    <2> HIDE DEF x, y, n
    <2>5. \A i \in 1..(n + 1) : x[i] = y[i]
      <3> SUFFICES ASSUME NEW i \in 1..(n + 1)
                   PROVE  x[i] = y[i]
        OBVIOUS
      <3>1. CASE i = n + 1
        BY <2>1, <2>3, <2>4, <3>1
      <3>2. CASE i # n + 1
        <4>1. i \in 1..n
          BY <2>1, <3>2
        <4> QED
          BY <2>1, <2>3, <2>4, <4>1
      <3> QED
        BY <3>1, <3>2
    <2>6. x = y
      BY <2>2, <2>3, <2>5, SameSeq
    <2> QED
      BY <2>6 DEF x, y, t
  <1> QED
    BY <1>2, <1>3, <1>4 DEF W

\* What stands behind the text of a status does not change how its lines are read.
LEMMA LinesOfBody ==
    \A s \in Seq(Entry) : \A rest \in Seq(Cells) :
        Lines[Body(s) \o rest] = RowsOf(s) \o Lines[rest]
  <1> DEFINE T == {s \in Seq(Entry) : \A rest \in Seq(Cells) :
                       Lines[Body(s) \o rest] = RowsOf(s) \o Lines[rest]}
  <1>1. <<>> \in T
    <2>1. <<>> \in Seq(Entry)
      OBVIOUS
    <2>2. ASSUME NEW rest \in Seq(Cells)
          PROVE  Lines[Body(<<>>) \o rest] = RowsOf(<<>>) \o Lines[rest]
      <3>1. <<>> \o rest = rest
        BY ConcatEmptySeq
      <3>2. Lines[rest] \in Seq(Seq(Cells))
        BY LinesEquation
      <3>3. <<>> \o Lines[rest] = Lines[rest]
        BY <3>2, ConcatEmptySeq
      <3> QED
        BY <3>1, <3>3, BodyDoes, RowsOfDoes, Zenon
    <2> QED
      BY <2>1, <2>2
  <1>2. ASSUME NEW s \in Seq(Entry), NEW e \in Entry, s \in T
        PROVE  Append(s, e) \in T
    <2> SUFFICES ASSUME NEW rest \in Seq(Cells)
                 PROVE  Lines[Body(Append(s, e)) \o rest] = RowsOf(Append(s, e)) \o Lines[rest]
      BY AppendDoes
    <2> DEFINE r == Row(e)
               q == <<NewLine>>
               l == r \o q
               b == Body(s)
    <2>1. r \in Seq(Plain) /\ r # <<>> /\ r \in Seq(Cells)
      BY RowReads, LineWritesDoes
    <2>2. q \in Seq(Cells)
      BY CellFacts
    <2> HIDE DEF q, r
    <2>3. l \in Seq(Cells)
      BY <2>1, <2>2, ConcatDoes
    <2>4. b \in Seq(Cells)
      BY BodyDoes
    <2>5. Associates(r, q, rest)
      BY <2>1, <2>2, ConcatAssociates
    <2> HIDE DEF l, b
    <2>6. Associates(b, l, rest)
      BY <2>3, <2>4, ConcatAssociates
    <2>7. l \o rest \in Seq(Cells)
      BY <2>3, ConcatDoes
    <2>8. Body(Append(s, e)) = b \o l
      BY BodyDoes DEF b, l, r, q
    <2>9. Lines[b \o (l \o rest)] = RowsOf(s) \o Lines[l \o rest]
      BY <1>2, <2>7 DEF b
    <2>10. Lines[l \o rest] = <<r>> \o Lines[rest]
      <3>1. Lines[r \o (q \o rest)] = <<r>> \o Lines[rest]
        BY <2>1, LinesOfLine DEF q
      <3> QED
        BY <2>5, <3>1, Zenon DEF Associates, l
    <2> DEFINE W == Seq(Cells)
               one == <<r>>
    <2>11. /\ RowsOf(s) \in Seq(W) /\ Lines[rest] \in Seq(W) /\ r \in W
           /\ RowsOf(Append(s, e)) = Append(RowsOf(s), r)
      BY <2>1, RowsOfDoes, LinesEquation DEF r
    <2> HIDE DEF W
    <2>12. one \in Seq(W) /\ Append(RowsOf(s), r) = RowsOf(s) \o one
      BY <2>11
    <2> HIDE DEF one
    <2>13. Associates(RowsOf(s), one, Lines[rest])
      BY <2>11, <2>12, ConcatAssociates
    <2> QED
      BY <2>6, <2>8, <2>9, <2>10, <2>11, <2>12, <2>13, Zenon DEF Associates, one
  <1>3. \A s \in Seq(Entry) : s \in T
    <2> HIDE DEF T
    <2> QED
      BY <1>1, <1>2, SeqInduction
  <1> QED
    BY <1>3

LEMMA RowsOfText ==
    ASSUME NEW s \in Seq(Entry), NEW rest \in Seq(Cells)
    PROVE  Rows(Text(s) \o rest) = RowsOf(s) \o Lines[rest]
  <1> DEFINE h == <<NewLine>>
             b == Body(s)
             t == b \o rest
  <1>1. h \in Seq(Cells)
    BY CellFacts
  <1>2. b \in Seq(Cells)
    BY BodyDoes
  <1> HIDE DEF h, b
  <1>3. Associates(h, b, rest)
    BY <1>1, <1>2, ConcatAssociates
  <1>4. t \in Seq(Cells)
    BY <1>2, ConcatDoes
  <1>5. Text(s) \o rest = h \o t
    BY <1>3, TextIs, Zenon DEF Associates, h, b
  <1> HIDE DEF t
  <1>6. Behind(h \o t, NewLine) = t
    <2>1. /\ <<>> \in Seq(Cells) /\ NewLine \in Cells
          /\ \A i \in 1..Len(<<>>) : <<>>[i] # NewLine
      BY CellFacts
    <2>2. Behind(<<>> \o (<<NewLine>> \o t), NewLine) = t
      BY <1>4, <2>1, AtSeparator
    <2>3. h \o t \in Seq(Cells)
      BY <1>1, <1>4, ConcatDoes
    <2>4. <<>> \o (h \o t) = h \o t
      BY <2>3, ConcatEmptySeq
    <2> QED
      BY <2>2, <2>4 DEF h
  <1>7. Rows(Text(s) \o rest) = Lines[t]
    BY <1>5, <1>6 DEF Rows
  <1>8. Lines[t] = RowsOf(s) \o Lines[rest]
    BY LinesOfBody DEF t, b
  <1> QED
    BY <1>7, <1>8

-----------------------------------------------------------------------------
\* What parse reads

\* A text that write_upload_status has written, padded with zeros or not, is read as
\* the status it was made of.
THEOREM TextReads ==
    ASSUME NEW s \in Seq(Entry), NEW zeros \in Seq({Zero})
    PROVE  Readable(Text(s) \o zeros) /\ Parse(Text(s) \o zeros) = s
  <1> DEFINE cells == Text(s) \o zeros
  <1>1. Rows(cells) = RowsOf(s)
    <2>1. Rows(cells) = RowsOf(s) \o <<>>
      BY LinesOfZeros, RowsOfText
    <2>2. RowsOf(s) \o <<>> = RowsOf(s)
      BY RowsOfDoes, ConcatEmptySeq
    <2> QED
      BY <2>1, <2>2
  <1> HIDE DEF cells
  <1>2. \A i \in DOMAIN s : s[i] \in Entry
    OBVIOUS
  <1>3. DOMAIN RowsOf(s) = DOMAIN s /\ \A i \in DOMAIN s : RowsOf(s)[i] = Row(s[i])
    BY DEF RowsOf
  <1>4. Readable(cells)
    BY <1>1, <1>2, <1>3, RowReads DEF Readable
  <1>5. Parse(cells) = s
    <2>1. Parse(cells) = [i \in DOMAIN s |-> EntryOf(RowsOf(s)[i])]
      BY <1>1, <1>3 DEF Parse
    <2>2. \A i \in DOMAIN s : EntryOf(RowsOf(s)[i]) = s[i]
      BY <1>2, <1>3, RowReads
    <2>3. s = [i \in DOMAIN s |-> s[i]]
      OBVIOUS
    <2> QED
      BY <2>1, <2>2, <2>3, Zenon
  <1> QED
    BY <1>4, <1>5 DEF cells

\* Whatever stands behind them, the lines of a text are read first.
THEOREM TextReadsFirst ==
    ASSUME NEW s \in Seq(Entry), NEW rest \in Seq(Cells)
    PROVE  LET read == Parse(Text(s) \o rest)
           IN  \A n \in 1..Len(s) : n \in 1..Len(read) /\ read[n] = s[n]
  <1> DEFINE cells == Text(s) \o rest
             tail == Lines[rest]
             rows == Rows(cells)
             W == Seq(Cells)
  <1>1. rows = RowsOf(s) \o tail
    BY RowsOfText
  <1>2. tail \in Seq(W)
    BY LinesEquation
  <1>3. RowsOf(s) \in Seq(W) /\ Len(RowsOf(s)) = Len(s)
    BY RowsOfDoes
  <1> HIDE DEF cells, tail, rows, W
  <1>4. /\ rows \in Seq(W) /\ Len(rows) = Len(s) + Len(tail) /\ Len(tail) \in Nat
        /\ \A i \in 1..Len(s) : rows[i] = RowsOf(s)[i]
    <2>1. /\ RowsOf(s) \o tail \in Seq(W)
          /\ Len(RowsOf(s) \o tail) = Len(RowsOf(s)) + Len(tail) /\ Len(tail) \in Nat
          /\ \A i \in 1..Len(RowsOf(s)) : (RowsOf(s) \o tail)[i] = RowsOf(s)[i]
      BY <1>2, <1>3, ConcatDoes
    <2> QED
      BY <1>1, <1>3, <2>1
  <1>5. DOMAIN rows = 1..Len(rows)
    BY <1>4
  <1>6. Parse(cells) = [i \in 1..Len(rows) |-> EntryOf(rows[i])]
    BY <1>5 DEF Parse, rows
  <1>7. Len(Parse(cells)) = Len(rows)
    <2>1. Len(rows) \in Nat
      BY <1>4
    <2> QED
      BY <1>6, <2>1
  <1>8. ASSUME NEW n \in 1..Len(s)
        PROVE  n \in 1..Len(rows) /\ EntryOf(rows[n]) = s[n]
    <2>1. n \in 1..Len(rows) /\ n \in DOMAIN s /\ s[n] \in Entry
      BY <1>4
    <2>2. rows[n] = Row(s[n])
      BY <1>4, <2>1 DEF RowsOf
    <2> QED
      BY <2>1, <2>2, RowReads
  <1> QED
    BY <1>6, <1>7, <1>8 DEF cells

LEMMA EntryOfType ==
    ASSUME NEW row, IsEntry(row)
    PROVE  EntryOf(row) \in Entry
  BY NumberEquation DEF IsEntry, IsNumber, EntryOf, Entry

LEMMA ParseType ==
    ASSUME NEW cells \in Seq(Cells), Readable(cells)
    PROVE  Parse(cells) \in Seq(Entry)
  <1> DEFINE rows == Rows(cells)
             W == Seq(Cells)
  <1>1. rows \in Seq(W)
    BY PiecesType, LinesEquation DEF Rows
  <1>2. Parse(cells) = [i \in DOMAIN rows |-> EntryOf(rows[i])]
    BY DEF Parse
  <1>3. \A i \in DOMAIN rows : EntryOf(rows[i]) \in Entry
    BY EntryOfType DEF Readable
  <1> HIDE DEF rows, W
  <1>4. DOMAIN rows = 1..Len(rows) /\ Len(rows) \in Nat
    BY <1>1
  <1> QED
    BY <1>2, <1>3, <1>4

LEMMA AddSessionType ==
    ASSUME NEW s \in Seq(Entry), NEW id \in Nat
    PROVE  AddSession(s, id) \in Seq(Entry)
  BY DEF AddSession, Entry

LEMMA SetRemoteSessionIdType ==
    ASSUME NEW s \in Seq(Entry), NEW id, NEW remote \in RemoteIds
    PROVE  SetRemoteSessionId(s, id, remote) \in Seq(Entry)
  <1>1. remote \in Nat
    BY StateFileAssumption
  <1>2. \A e \in Entry : [e EXCEPT !.remote = remote] \in Entry
    BY <1>1 DEF Entry
  <1>3. DOMAIN s = 1..Len(s) /\ Len(s) \in Nat /\ \A i \in DOMAIN s : s[i] \in Entry
    OBVIOUS
  <1>4. \A i \in 1..Len(s) :
            (IF IsFirst(s, id, i) THEN [s[i] EXCEPT !.remote = remote] ELSE s[i]) \in Entry
    BY <1>2, <1>3
  <1> QED
    BY <1>3, <1>4 DEF SetRemoteSessionId

LEMMA AddUploadedType ==
    ASSUME NEW s \in Seq(Entry), NEW id, NEW n \in Nat
    PROVE  AddUploaded(s, id, n) \in Seq(Entry)
  <1>1. \A e \in Entry : [e EXCEPT !.uploaded = @ + n] \in Entry
    BY DEF Entry
  <1>2. DOMAIN s = 1..Len(s) /\ Len(s) \in Nat /\ \A i \in DOMAIN s : s[i] \in Entry
    OBVIOUS
  <1>3. \A i \in 1..Len(s) :
            (IF IsFirst(s, id, i) THEN [s[i] EXCEPT !.uploaded = @ + n] ELSE s[i]) \in Entry
    BY <1>1, <1>2
  <1> QED
    BY <1>2, <1>3 DEF AddUploaded

LEMMA RetainType ==
    ASSUME NEW s \in Seq(Entry), NEW id
    PROVE  Retain(s, id) \in Seq(Entry)
  <1> DEFINE W == Seq(Entry)
             ws == [i \in DOMAIN s |-> IF s[i].local = id THEN <<>> ELSE <<s[i]>>]
  <1>1. DOMAIN s = 1..Len(s) /\ Len(s) \in Nat /\ \A i \in DOMAIN s : s[i] \in Entry
    OBVIOUS
  <1>2. \A e \in Entry : <<>> \in W /\ <<e>> \in W
    OBVIOUS
  <1>3. ws \in Seq(W)
    <2>1. \A i \in 1..Len(s) : (IF s[i].local = id THEN <<>> ELSE <<s[i]>>) \in W
      <3> HIDE DEF W
      <3> QED
        BY <1>1, <1>2
    <2> HIDE DEF W
    <2> QED
      BY <1>1, <2>1
  <1> HIDE DEF ws
  <1>4. Seqs!FlattenSeq(ws) \in W
    BY <1>3, FlattenType
  <1> QED
    BY <1>4 DEF Retain, ws

-----------------------------------------------------------------------------
\* The writes of a save, and what a part of them leaves of the file

Flat(ws) == Seqs!FlattenSeq(ws)

LEMMA FlatDoes ==
    ASSUME NEW ws \in Seq(Seq(Cells)), NEW xs \in Seq(Seq(Cells))
    PROVE  /\ Flat(ws) \in Seq(Cells) /\ Len(Flat(ws)) \in Nat
           /\ ws \o xs \in Seq(Seq(Cells)) /\ Flat(ws \o xs) = Flat(ws) \o Flat(xs)
  <1>1. Flat(ws) \in Seq(Cells)
    BY FlattenType DEF Flat
  <1>2. Flat(ws \o xs) = Flat(ws) \o Flat(xs)
    BY FlattenConcat DEF Flat
  <1>3. Len(Flat(ws)) \in Nat
    BY <1>1
  <1>4. ws \o xs \in Seq(Seq(Cells))
    BY ConcatDoes
  <1> QED
    BY <1>1, <1>2, <1>3, <1>4

LEMMA FlatAppend ==
    ASSUME NEW ws \in Seq(Seq(Cells)), NEW w \in Seq(Cells)
    PROVE  Flat(Append(ws, w)) = Flat(ws) \o w /\ Append(ws, w) \in Seq(Seq(Cells))
  BY FlattenAppend, AppendDoes DEF Flat

\* A save writes the text and then zeros up to the length the file had.
LEMMA SaveWritesDoes ==
    ASSUME NEW s \in Seq(Entry), NEW old \in Nat
    PROVE  /\ SaveWrites(s, old) \in Seq(Seq(Cells))
           /\ \E zeros \in Seq({Zero}) :
                  /\ Flat(SaveWrites(s, old)) = Text(s) \o zeros
                  /\ Len(zeros) = IF old > Len(Text(s)) THEN old - Len(Text(s)) ELSE 0
  <1> DEFINE missing == old - Len(Text(s))
             zeros == [i \in 1..missing |-> Zero]
             V == Seq(Cells)
  <1>1. TextWrites(s) \in Seq(Seq(Cells)) /\ Text(s) \in Seq(Cells) /\ Text(s) = Flat(TextWrites(s))
    BY TextIs DEF Text, Flat
  <1>2. Len(Text(s)) \in Nat
    BY <1>1
  <1>3. CASE old > Len(Text(s))
    <2>1. missing \in Nat /\ missing > 0
      BY <1>2, <1>3
    <2> HIDE DEF missing
    <2>2. zeros \in Seq({Zero}) /\ Len(zeros) = missing
      BY <2>1
    <2> HIDE DEF zeros
    <2>3. zeros \in Seq(Cells)
      BY <2>2, LinesOfZeros
    <2>4. SaveWrites(s, old) = TextWrites(s) \o <<zeros>>
      BY <2>1, Zenon DEF SaveWrites, missing, zeros
    <2>5. TextWrites(s) \o <<zeros>> = Append(TextWrites(s), zeros)
      <3> HIDE DEF V
      <3>1. TextWrites(s) \in Seq(V) /\ zeros \in V
        BY <1>1, <2>3 DEF V
      <3> QED
        BY <3>1
    <2>6. /\ Flat(Append(TextWrites(s), zeros)) = Flat(TextWrites(s)) \o zeros
          /\ Append(TextWrites(s), zeros) \in Seq(Seq(Cells))
      BY <1>1, <2>3, FlatAppend
    <2>7. Flat(SaveWrites(s, old)) = Text(s) \o zeros /\ SaveWrites(s, old) \in Seq(Seq(Cells))
      BY <1>1, <2>4, <2>5, <2>6
    <2>8. Len(zeros) = IF old > Len(Text(s)) THEN old - Len(Text(s)) ELSE 0
      BY <1>3, <2>2 DEF missing
    <2> QED
      BY <2>2, <2>7, <2>8
  <1>4. CASE ~(old > Len(Text(s)))
    <2>1. ~(missing > 0)
      BY <1>2, <1>4
    <2>2. SaveWrites(s, old) = TextWrites(s) \o <<>>
      BY <2>1, Zenon DEF SaveWrites
    <2>3. TextWrites(s) \o <<>> = TextWrites(s) /\ Text(s) \o <<>> = Text(s)
      BY <1>1, ConcatEmptySeq
    <2>4. <<>> \in Seq({Zero}) /\ Len(<<>>) = 0
      OBVIOUS
    <2>5. Flat(SaveWrites(s, old)) = Text(s) \o <<>> /\ SaveWrites(s, old) \in Seq(Seq(Cells))
      BY <1>1, <2>2, <2>3
    <2>6. Len(<<>>) = IF old > Len(Text(s)) THEN old - Len(Text(s)) ELSE 0
      BY <1>4, <2>4
    <2> QED
      BY <2>4, <2>5, <2>6
  <1> QED
    BY <1>3, <1>4

LEMMA SubSeqOfAppend ==
    ASSUME NEW V, NEW s \in Seq(V), NEW e \in V, NEW n \in 0..Len(s)
    PROVE  SubSeq(Append(s, e), 1, n) = SubSeq(s, 1, n)
  <1> DEFINE t == Append(s, e)
             a == SubSeq(t, 1, n)
             b == SubSeq(s, 1, n)
  <1>1. /\ t \in Seq(V) /\ Len(t) = Len(s) + 1 /\ Len(s) \in Nat
        /\ \A i \in 1..Len(s) : t[i] = s[i]
    BY AppendDoes
  <1> HIDE DEF t
  <1>2. 1 \in Nat \ {0} /\ n \in Nat /\ n <= Len(s) /\ n <= Len(t) /\ 1 <= n + 1
    BY <1>1
  <1>3. a \in Seq(V) /\ Len(a) = n - 1 + 1 /\ \A i \in 1..(n - 1 + 1) : a[i] = t[1 + i - 1]
    BY <1>1, <1>2, SubSeqDoes
  <1>4. b \in Seq(V) /\ Len(b) = n - 1 + 1 /\ \A i \in 1..(n - 1 + 1) : b[i] = s[1 + i - 1]
    BY <1>2, SubSeqDoes
  <1> HIDE DEF a, b
  <1>5. n - 1 + 1 = n /\ \A i \in 1..n : 1 + i - 1 = i /\ i \in 1..Len(s)
    BY <1>1, <1>2
  <1>6. \A i \in 1..n : a[i] = b[i]
    BY <1>1, <1>3, <1>4, <1>5
  <1>7. a = b
    BY <1>3, <1>4, <1>5, <1>6, SameSeq
  <1> QED
    BY <1>7 DEF a, b, t

\* The text of the first entries is the beginning of that of all.
LEMMA TextSplits ==
    \A s \in Seq(Entry) : \A n \in 0..Len(s) :
        /\ SubSeq(s, 1, n) \in Seq(Entry)
        /\ \E rest \in Seq(Cells) : Text(s) = Text(SubSeq(s, 1, n)) \o rest
  <1> DEFINE Splits(s, n) == \E rest \in Seq(Cells) : Text(s) = Text(SubSeq(s, 1, n)) \o rest
             T == {s \in Seq(Entry) : \A n \in 0..Len(s) : Splits(s, n)}
  <1>0. ASSUME NEW s \in Seq(Entry), NEW n \in 0..Len(s)
        PROVE  SubSeq(s, 1, n) \in Seq(Entry)
    <2>1. 1 \in Nat \ {0} /\ n \in Nat /\ n <= Len(s) /\ 1 <= n + 1
      OBVIOUS
    <2> QED
      BY <2>1, SubSeqDoes
  <1>1. ASSUME NEW s \in Seq(Entry)
        PROVE  Splits(s, Len(s))
    <2>1. SubSeq(s, 1, Len(s)) = s
      BY SubSeqFull
    <2>2. Text(s) \o <<>> = Text(s) /\ <<>> \in Seq(Cells)
      BY TextIs, ConcatEmptySeq
    <2> QED
      BY <2>1, <2>2
  <1>2. <<>> \in T
    <2>1. <<>> \in Seq(Entry) /\ 0..Len(<<>>) = {0} /\ Len(<<>>) = 0
      OBVIOUS
    <2>2. Splits(<<>>, 0)
      BY <1>1, <2>1
    <2> HIDE DEF Splits
    <2> QED
      BY <2>1, <2>2
  <1>3. ASSUME NEW s \in Seq(Entry), NEW e \in Entry, s \in T
        PROVE  Append(s, e) \in T
    <2>1. Append(s, e) \in Seq(Entry) /\ Len(Append(s, e)) = Len(s) + 1 /\ Len(s) \in Nat
      BY AppendDoes
    <2>2. ASSUME NEW n \in 0..(Len(s) + 1)
          PROVE  Splits(Append(s, e), n)
      <3>1. CASE n = Len(s) + 1
        <4>1. Splits(Append(s, e), Len(Append(s, e)))
          BY <1>1, <2>1
        <4> HIDE DEF Splits
        <4> QED
          BY <2>1, <3>1, <4>1
      <3>2. CASE n # Len(s) + 1
        <4>1. n \in 0..Len(s)
          BY <2>1, <3>2
        <4> DEFINE l == Row(e) \o <<NewLine>>
                   p == Text(SubSeq(s, 1, n))
        <4>2. PICK rest \in Seq(Cells) : Text(s) = p \o rest
          BY <1>3, <4>1
        <4>3. l \in Seq(Cells) /\ Text(Append(s, e)) = Text(s) \o l
          BY TextOfAppend
        <4>4. p \in Seq(Cells)
          BY <1>0, <4>1, TextIs
        <4> HIDE DEF l, p
        <4>5. Associates(p, rest, l)
          BY <4>3, <4>4, ConcatAssociates
        <4>6. rest \o l \in Seq(Cells)
          BY <4>3, ConcatDoes
        <4>7. SubSeq(Append(s, e), 1, n) = SubSeq(s, 1, n)
          BY <4>1, SubSeqOfAppend
        <4>8. Text(Append(s, e)) = Text(SubSeq(Append(s, e), 1, n)) \o (rest \o l)
          BY <4>2, <4>3, <4>5, <4>7, Zenon DEF Associates, p
        <4> QED
          BY <4>6, <4>8
      <3> QED
        BY <3>1, <3>2
    <2> HIDE DEF Splits
    <2> QED
      BY <2>1, <2>2
  <1>4. \A s \in Seq(Entry) : s \in T
    <2> HIDE DEF T
    <2> QED
      BY <1>2, <1>3, SeqInduction
  <1> QED
    BY <1>0, <1>4

\* The cells of a file whose beginning `written` has been overwritten, on the card and
\* up to its old length
Torn(written, old) ==
    [i \in 1..(IF Len(written) > Len(old) THEN Len(written) ELSE Len(old)) |->
        IF i <= Len(written) THEN written[i] ELSE old[i]]

Kept(written, old) ==
    [i \in 1..Len(old) |-> IF i <= Len(written) THEN written[i] ELSE old[i]]

LEMMA TornDoes ==
    ASSUME NEW written \in Seq(Cells), NEW old \in Seq(Cells)
    PROVE  /\ Torn(written, old) \in Seq(Cells) /\ Kept(written, old) \in Seq(Cells)
           /\ Len(Torn(written, old)) = IF Len(written) > Len(old) THEN Len(written) ELSE Len(old)
           /\ Len(Kept(written, old)) = Len(old)
           /\ Len(written) >= Len(old) => Torn(written, old) = written
           /\ SubSeq(Torn(written, old), 1, Len(old)) = Kept(written, old)
  <1> DEFINE m == Len(written)
             n == Len(old)
             k == IF m > n THEN m ELSE n
             torn == Torn(written, old)
             kept == Kept(written, old)
  <1>1. m \in Nat /\ n \in Nat /\ (\A i \in 1..m : written[i] \in Cells) /\ \A i \in 1..n : old[i] \in Cells
    OBVIOUS
  <1> HIDE DEF m, n
  <1>2. k \in Nat /\ n <= k /\ m <= k /\ (k = m \/ k = n)
    BY <1>1
  <1>3. \A i \in 1..k : (IF i <= m THEN written[i] ELSE old[i]) \in Cells
    BY <1>1
  <1>4. torn = [i \in 1..k |-> IF i <= m THEN written[i] ELSE old[i]]
    BY DEF Torn, m, n
  <1>5. kept = [i \in 1..n |-> IF i <= m THEN written[i] ELSE old[i]]
    BY DEF Kept, m, n
  <1> HIDE DEF torn, kept
  <1>6. kept \in Seq(Cells) /\ Len(kept) = n
    BY <1>1, <1>5
  <1>9. k = IF m > n THEN m ELSE n
    OBVIOUS
  <1> HIDE DEF k
  <1>7. torn \in Seq(Cells) /\ Len(torn) = k
    BY <1>2, <1>3, <1>4
  <1>8. m >= n => torn = written
    <2> SUFFICES ASSUME m >= n
                 PROVE  torn = written
      OBVIOUS
    <2>1. k = m
      BY <1>1, <1>9
    <2>2. Len(torn) = Len(written) /\ \A i \in 1..Len(torn) : torn[i] = written[i]
      BY <1>1, <1>4, <1>7, <2>1 DEF m
    <2> QED
      BY <1>7, <2>2, SameSeq
  <1>10. SubSeq(torn, 1, n) = kept
    <2> DEFINE b == SubSeq(torn, 1, n)
    <2>1. 1 \in Nat \ {0} /\ n \in Nat /\ n <= Len(torn) /\ 1 <= n + 1
      BY <1>1, <1>2, <1>7
    <2>2. b \in Seq(Cells) /\ Len(b) = n - 1 + 1 /\ \A i \in 1..(n - 1 + 1) : b[i] = torn[1 + i - 1]
      BY <1>7, <2>1, SubSeqDoes
    <2> HIDE DEF b
    <2>3. n - 1 + 1 = n /\ \A i \in 1..n : 1 + i - 1 = i
      BY <1>1
    <2>4. Len(b) = Len(kept) /\ \A i \in 1..Len(b) : b[i] = kept[i]
      <3>1. \A i \in 1..n : b[i] = torn[i]
        BY <2>2, <2>3
      <3>2. \A i \in 1..n : torn[i] = kept[i]
        BY <1>1, <1>2, <1>4, <1>5
      <3> QED
        BY <1>6, <2>2, <2>3, <3>1, <3>2
    <2>5. b = kept
      BY <1>6, <2>2, <2>4, SameSeq
    <2> QED
      BY <2>5 DEF b
  <1> QED
    BY <1>6, <1>7, <1>8, <1>9, <1>10 DEF torn, kept, m, n

LEMMA OverwriteDoes ==
    ASSUME NEW a \in Seq(Cells), NEW old \in Seq(Cells), NEW w \in Seq(Cells),
           file = Torn(a, old), offset = Len(a)
    PROVE  Overwrite(w) = Torn(a \o w, old)
  <1> DEFINE m == Len(a)
             n == Len(old)
             l == Len(w)
             k == IF m > n THEN m ELSE n
             b == a \o w
             torn == Torn(a, old)
  <1>1. m \in Nat /\ n \in Nat /\ l \in Nat
    OBVIOUS
  <1>2. Len(b) = m + l /\ (\A i \in 1..m : b[i] = a[i]) /\ \A i \in 1..l : b[m + i] = w[i]
    BY ConcatDoes
  <1>3. Len(torn) = k
    BY TornDoes
  <1>4. torn = [i \in 1..k |-> IF i <= m THEN a[i] ELSE old[i]]
    BY DEF Torn
  <1> HIDE DEF b, torn
  <1>5. Overwrite(w) = [i \in 1..(IF m + l > k THEN m + l ELSE k) |->
                           IF i \in (m + 1)..(m + l) THEN w[i - m] ELSE torn[i]]
    BY <1>3 DEF Overwrite, torn
  <1>6. Torn(b, old) = [i \in 1..(IF m + l > n THEN m + l ELSE n) |->
                           IF i <= m + l THEN b[i] ELSE old[i]]
    BY <1>2 DEF Torn
  <1> HIDE DEF m, n, l
  <1>7. (IF m + l > k THEN m + l ELSE k) = IF m + l > n THEN m + l ELSE n
    BY <1>1
  <1>8. ASSUME NEW i \in 1..(IF m + l > n THEN m + l ELSE n)
        PROVE  (IF i \in (m + 1)..(m + l) THEN w[i - m] ELSE torn[i])
                = IF i <= m + l THEN b[i] ELSE old[i]
    <2>1. CASE i <= m
      <3>1. i \in 1..m /\ i \in 1..k /\ i <= m + l /\ ~(i \in (m + 1)..(m + l))
        BY <1>1, <2>1
      <3> HIDE DEF k
      <3>2. torn[i] = a[i] /\ b[i] = a[i]
        BY <1>2, <1>4, <2>1, <3>1
      <3> QED
        BY <3>1, <3>2
    <2>2. CASE ~(i <= m) /\ i <= m + l
      <3> DEFINE j == i - m
      <3>1. j \in 1..l /\ i = m + j /\ i \in (m + 1)..(m + l)
        BY <1>1, <2>2
      <3>2. b[m + j] = w[j]
        BY <1>2, <3>1
      <3> QED
        BY <2>2, <3>1, <3>2
    <2>3. CASE ~(i <= m + l)
      <3>1. ~(i <= m) /\ ~(i \in (m + 1)..(m + l)) /\ i \in 1..k
        BY <1>1, <2>3
      <3> HIDE DEF k
      <3>2. torn[i] = old[i]
        BY <1>4, <3>1
      <3> QED
        BY <2>3, <3>1, <3>2
    <2> QED
      BY <2>1, <2>2, <2>3
  <1> DEFINE top == IF m + l > n THEN m + l ELSE n
             P(i) == IF i \in (m + 1)..(m + l) THEN w[i - m] ELSE torn[i]
             Q(i) == IF i <= m + l THEN b[i] ELSE old[i]
  <1>9. Overwrite(w) = [i \in 1..top |-> P(i)]
    BY <1>5, <1>7, Zenon
  <1>10. Torn(b, old) = [i \in 1..top |-> Q(i)]
    BY <1>6
  <1>11. \A i \in 1..top : P(i) = Q(i)
    BY <1>8
  <1> HIDE DEF k, top, P, Q
  <1> QED
    BY <1>9, <1>10, <1>11 DEF b

-----------------------------------------------------------------------------
\* The inductive invariant

\* `old` is what the file held when the save under way began, and what the boot before
\* it had read or the last save had written is in it, if nothing was cut since.
Holds(cells, s) ==
    \/ cells = <<>> /\ s = <<>>
    \/ \E zeros \in Seq({Zero}) : cells = Text(s) \o zeros

UnderWay(done, old) ==
    /\ done \in Seq(Seq(Cells)) /\ old \in Seq(Cells) /\ Len(old) = length
    /\ SaveWrites(status, length) = done \o pending
    /\ offset = Len(Flat(done))

IsRead == Readable(file) /\ Parse(file) = saved /\ status = saved

IsWritten(done, old) ==
    UnderWay(done, old) /\ file = Torn(Flat(done), old) /\ (cut = "none" => Holds(old, saved))

IsCut(done, old) == UnderWay(done, old) /\ file = Kept(Flat(done), old) /\ Holds(old, saved)

IInv ==
    /\ TypeOK
    /\ phase = "save" => \E done, old : IsWritten(done, old)
    /\ phase = "run" => IsRead
    /\ phase \in {"run", "off"} /\ cut = "none" => Holds(file, saved)
    /\ phase \in {"off", "panic"} /\ cut = "one" => IsRead \/ \E done, old : IsCut(done, old)
    /\ phase = "panic" => cut # "none"

LEMMA HoldsReads ==
    ASSUME NEW s \in Seq(Entry), NEW cells, Holds(cells, s)
    PROVE  Readable(cells) /\ Parse(cells) = s /\ cells \in Seq(Cells)
  <1>1. CASE cells = <<>> /\ s = <<>>
    <2>1. <<>> \in Seq({Zero}) /\ <<>> \in Seq(Cells)
      OBVIOUS
    <2>2. Lines[<<>>] = <<>>
      BY <2>1, LinesOfZeros
    <2>3. Behind(<<>>, NewLine) = <<>>
      <3>1. \A i \in 1..Len(<<>>) : <<>>[i] # NewLine
        OBVIOUS
      <3> QED
        BY <2>1, <3>1, NoSeparator
    <2>4. Rows(cells) = <<>>
      BY <1>1, <2>2, <2>3 DEF Rows
    <2> QED
      BY <1>1, <2>1, <2>4 DEF Readable, Parse
  <1>2. CASE \E zeros \in Seq({Zero}) : cells = Text(s) \o zeros
    <2>1. PICK zeros \in Seq({Zero}) : cells = Text(s) \o zeros
      BY <1>2
    <2>2. zeros \in Seq(Cells) /\ Text(s) \in Seq(Cells)
      BY LinesOfZeros, TextIs
    <2>3. cells \in Seq(Cells)
      BY <2>1, <2>2, ConcatDoes
    <2> QED
      BY <2>1, <2>3, TextReads
  <1> QED
    BY <1>1, <1>2 DEF Holds

LEMMA BeginSaveDoes ==
    ASSUME TypeOK, NEW entries \in Seq(Entry), BeginSave(entries),
           UNCHANGED <<file, length, saved, cut>>,
           phase # "save", cut = "none" => Holds(file, saved)
    PROVE  /\ phase' = "save" /\ status' \in Seq(Entry)
           /\ pending' \in Seq(Seq(Cells)) /\ offset' \in Nat
           /\ (\E done, old : IsWritten(done, old))'
  <1>1. file \in Seq(Cells) /\ length = Len(file) /\ length \in Nat
    BY DEF TypeOK
  <1>2. /\ status' = entries /\ pending' = SaveWrites(entries, length) /\ offset' = 0
        /\ phase' = "save"
    BY DEF BeginSave
  <1>3. SaveWrites(entries, length) \in Seq(Seq(Cells))
    BY <1>1, SaveWritesDoes
  <1>4. <<>> \o pending' = pending'
    BY <1>2, <1>3, ConcatEmptySeq
  <1>5. Flat(<<>>) = <<>> /\ <<>> \in Seq(Seq(Cells)) /\ Len(<<>>) = 0 /\ <<>> \in Seq(Cells)
    BY FlattenEmpty, EmptySeq DEF Flat
  <1>6. Torn(<<>>, file) = file
    <2> DEFINE torn == Torn(<<>>, file)
    <2>1. torn \in Seq(Cells) /\ Len(torn) = Len(file)
      <3>1. /\ torn \in Seq(Cells)
            /\ Len(torn) = IF Len(<<>>) > Len(file) THEN Len(<<>>) ELSE Len(file)
        BY <1>1, <1>5, TornDoes
      <3> QED
        BY <1>1, <1>5, <3>1
    <2>2. \A i \in 1..Len(file) : torn[i] = file[i]
      BY <1>1, <1>5 DEF Torn
    <2> HIDE DEF torn
    <2>3. torn = file
      BY <1>1, <2>1, <2>2, SameSeq
    <2> QED
      BY <2>3 DEF torn
  <1>7. IsWritten(<<>>, file)'
    BY <1>1, <1>2, <1>3, <1>4, <1>5, <1>6 DEF IsWritten, UnderWay
  <1>8. (\E done, old : IsWritten(done, old))'
    BY <1>7
  <1> QED
    BY <1>1, <1>2, <1>3, <1>8

LEMMA FlushHolds ==
    ASSUME TypeOK, NEW done, NEW old, IsWritten(done, old), pending = <<>>
    PROVE  Holds(file, status)
  <1>1. /\ done \in Seq(Seq(Cells)) /\ old \in Seq(Cells) /\ Len(old) = length
        /\ SaveWrites(status, length) = done \o pending /\ file = Torn(Flat(done), old)
        /\ status \in Seq(Entry) /\ length \in Nat
    BY DEF IsWritten, UnderWay, TypeOK
  <1>2. SaveWrites(status, length) = done
    <2>1. done \o <<>> = done
      BY <1>1, ConcatEmptySeq
    <2> QED
      BY <1>1, <2>1
  <1>3. PICK zeros \in Seq({Zero}) :
            /\ Flat(done) = Text(status) \o zeros
            /\ Len(zeros) = IF length > Len(Text(status)) THEN length - Len(Text(status)) ELSE 0
    BY <1>1, <1>2, SaveWritesDoes
  <1>4. Text(status) \in Seq(Cells) /\ zeros \in Seq(Cells)
    BY <1>1, TextIs, LinesOfZeros
  <1>5. /\ Text(status) \o zeros \in Seq(Cells) /\ Len(Text(status)) \in Nat
        /\ Len(Text(status) \o zeros) = Len(Text(status)) + Len(zeros)
    BY <1>4, ConcatDoes
  <1>6. Len(Text(status) \o zeros) >= length
    BY <1>1, <1>3, <1>5
  <1>7. Torn(Text(status) \o zeros, old) = Text(status) \o zeros
    BY <1>1, <1>5, <1>6, TornDoes
  <1> QED
    BY <1>1, <1>3, <1>7 DEF Holds

LEMMA InitInv ==
    ASSUME Init
    PROVE  IInv
  <1>1. TypeOK
    <2>1. /\ <<>> \in Seq(Cells) /\ <<>> \in Seq(Entry) /\ <<>> \in Seq(Seq(Cells))
          /\ Len(<<>>) = 0
      BY EmptySeq
    <2>2. OldSessions \in OldSessions..MaxBoots /\ 0 \in 0..MaxSaves
      BY StateFileAssumption
    <2>3. /\ file = <<>> /\ length = 0 /\ boots = OldSessions /\ joined = FALSE /\ status = <<>>
          /\ pending = <<>> /\ offset = 0 /\ phase = "off" /\ saves = 0
          /\ saved = <<>> /\ cut = "none"
      BY DEF Init
    <2>4. file \in Seq(Cells) /\ length \in 0..Len(file) /\ length = Len(file)
      BY <2>1, <2>3
    <2>5. status \in Seq(Entry) /\ saved \in Seq(Entry)
      BY <2>1, <2>3
    <2>6. pending \in Seq(Seq(Cells))
      BY <2>1, <2>3
    <2>7. offset \in Nat /\ boots \in OldSessions..MaxBoots /\ saves \in 0..MaxSaves
      BY <2>2, <2>3
    <2>8. phase \in Phases /\ joined \in BOOLEAN /\ cut \in {"none", "one", "more"}
      BY <2>3 DEF Phases
    <2> QED
      BY <2>4, <2>5, <2>6, <2>7, <2>8 DEF TypeOK
  <1>2. Holds(file, saved)
    BY DEF Init, Holds
  <1> QED
    BY <1>1, <1>2 DEF Init, IInv

LEMMA WriteNextInv ==
    ASSUME IInv, WriteNext
    PROVE  IInv'
  <1>0. PICK w : w = Head(pending)
    OBVIOUS
  <1>1. PICK done, old : IsWritten(done, old)
    BY DEF WriteNext, IInv
  <1>2. /\ phase = "save" /\ pending # <<>>
        /\ file' = Overwrite(w) /\ offset' = offset + Len(w) /\ pending' = Tail(pending)
        /\ UNCHANGED <<length, boots, joined, status, phase, saves, saved, cut>>
    BY <1>0 DEF WriteNext
  <1>3. /\ done \in Seq(Seq(Cells)) /\ old \in Seq(Cells) /\ Len(old) = length
        /\ SaveWrites(status, length) = done \o pending /\ offset = Len(Flat(done))
        /\ file = Torn(Flat(done), old) /\ (cut = "none" => Holds(old, saved))
    BY <1>1 DEF IsWritten, UnderWay
  <1>4. pending \in Seq(Seq(Cells)) /\ length \in Nat
    BY DEF IInv, TypeOK
  <1>5. w \in Seq(Cells) /\ pending' \in Seq(Seq(Cells)) /\ done \o pending = Append(done, w) \o pending'
    <2> DEFINE V == Seq(Cells)
    <2>1. pending \in Seq(V) /\ done \in Seq(V) /\ pending # <<>>
      BY <1>2, <1>3, <1>4
    <2> HIDE DEF V
    <2>2. Head(pending) \in V /\ Tail(pending) \in Seq(V) /\ pending = <<Head(pending)>> \o Tail(pending)
      BY <2>1
    <2> DEFINE one == <<Head(pending)>>
    <2>3. one \in Seq(V) /\ done \o one = Append(done, Head(pending))
      BY <2>1, <2>2
    <2> HIDE DEF one
    <2>4. Associates(done, one, Tail(pending))
      BY <2>1, <2>2, <2>3, ConcatAssociates
    <2>5. done \o pending = Append(done, Head(pending)) \o Tail(pending)
      BY <2>2, <2>3, <2>4, Zenon DEF one, Associates
    <2> QED
      BY <1>0, <1>2, <2>2, <2>5 DEF V
  <1>6. /\ Append(done, w) \in Seq(Seq(Cells)) /\ Flat(Append(done, w)) = Flat(done) \o w
        /\ Flat(done) \in Seq(Cells)
    BY <1>3, <1>5, FlatAppend, FlatDoes
  <1>7. /\ Flat(done) \o w \in Seq(Cells) /\ Len(Flat(done) \o w) = Len(Flat(done)) + Len(w)
        /\ Len(Flat(done)) \in Nat /\ Len(w) \in Nat
    BY <1>5, <1>6, ConcatDoes
  <1>8. file' = Torn(Flat(done) \o w, old)
    BY <1>2, <1>3, <1>5, <1>6, OverwriteDoes
  <1>9. IsWritten(Append(done, w), old)'
    BY <1>2, <1>3, <1>5, <1>6, <1>7, <1>8 DEF IsWritten, UnderWay
  <1>10. file' \in Seq(Cells) /\ length \in 0..Len(file')
    <2>1. PICK a \in Seq(Cells) : a = Flat(done) \o w
      BY <1>7
    <2>2. /\ Torn(a, old) \in Seq(Cells)
          /\ Len(Torn(a, old)) = IF Len(a) > Len(old) THEN Len(a) ELSE Len(old)
      BY <1>3, TornDoes
    <2>3. Len(a) \in Nat
      OBVIOUS
    <2> QED
      BY <1>3, <1>4, <1>8, <2>1, <2>2, <2>3
  <1>11. TypeOK'
    BY <1>2, <1>5, <1>7, <1>10, <1>3 DEF IInv, TypeOK
  <1> QED
    BY <1>2, <1>9, <1>11 DEF IInv

LEMMA FlushInv ==
    ASSUME IInv, Flush
    PROVE  IInv'
  <1>1. PICK done, old : IsWritten(done, old)
    BY DEF Flush, IInv
  <1>2. Holds(file, status)
    BY <1>1, FlushHolds DEF Flush, IInv
  <1>3. status \in Seq(Entry) /\ file \in Seq(Cells) /\ Len(file) \in Nat
    BY DEF IInv, TypeOK
  <1>4. Readable(file) /\ Parse(file) = status
    BY <1>2, <1>3, HoldsReads
  <1>5. /\ length' = Len(file) /\ phase' = "run" /\ saved' = status /\ cut' = "none"
        /\ UNCHANGED <<file, boots, joined, status, pending, offset, saves>>
    BY DEF Flush
  <1>6. TypeOK'
    BY <1>3, <1>5 DEF IInv, TypeOK, Phases
  <1>7. (Holds(file, saved))' /\ IsRead'
    BY <1>2, <1>4, <1>5 DEF Holds, IsRead, Readable, Parse
  <1> QED
    BY <1>5, <1>6, <1>7 DEF IInv

LEMMA BootInv ==
    ASSUME IInv, Boot
    PROVE  IInv'
  <1>1. /\ phase = "off" /\ boots < MaxBoots /\ boots' = boots + 1 /\ joined' = FALSE
        /\ UNCHANGED <<file, length, saves, cut>>
    BY DEF Boot
  <1>2. /\ TypeOK /\ file \in Seq(Cells) /\ saved \in Seq(Entry) /\ status \in Seq(Entry)
        /\ boots \in OldSessions..MaxBoots
    BY DEF IInv, TypeOK
  <1>3. boots' \in OldSessions..MaxBoots
    BY <1>1, <1>2, StateFileAssumption
  <1>4. cut = "none" => Holds(file, saved) /\ Readable(file) /\ Parse(file) = saved
    BY <1>1, <1>2, HoldsReads DEF IInv
  <1>5. CASE file = <<>>
    <2>1. BeginSave(<<>>) /\ saved' = saved
      BY <1>5 DEF Boot
    <2>2. <<>> \in Seq(Entry)
      OBVIOUS
    <2>3. /\ phase' = "save" /\ status' \in Seq(Entry) /\ pending' \in Seq(Seq(Cells))
          /\ offset' \in Nat /\ (\E done, old : IsWritten(done, old))'
      BY <1>1, <1>2, <1>4, <2>1, <2>2, BeginSaveDoes
    <2>4. TypeOK'
      BY <1>1, <1>2, <1>3, <2>1, <2>3 DEF TypeOK, Phases
    <2> QED
      BY <2>3, <2>4 DEF IInv
  <1>6. CASE file # <<>> /\ Readable(file)
    <2>1. /\ phase' = "run" /\ status' = Parse(file) /\ saved' = status'
          /\ UNCHANGED <<pending, offset>>
      BY <1>6 DEF Boot
    <2>2. Parse(file) \in Seq(Entry)
      BY <1>2, <1>6, ParseType
    <2>3. TypeOK'
      BY <1>1, <1>2, <1>3, <2>1, <2>2 DEF TypeOK, Phases
    <2>4. IsRead'
      BY <1>1, <1>6, <2>1 DEF IsRead, Readable, Parse
    <2>5. cut = "none" => Holds(file, saved)'
      BY <1>1, <1>4, <2>1 DEF Holds
    <2> QED
      BY <1>1, <2>1, <2>3, <2>4, <2>5 DEF IInv
  <1>7. CASE file # <<>> /\ ~Readable(file)
    <2>1. phase' = "panic" /\ UNCHANGED <<status, saved, pending, offset>>
      BY <1>7 DEF Boot
    <2>2. TypeOK'
      BY <1>1, <1>2, <1>3, <2>1 DEF TypeOK, Phases
    <2>3. cut # "none"
      BY <1>4, <1>7
    <2>4. cut = "one" => (\E done, old : IsCut(done, old))'
      <3> SUFFICES ASSUME cut = "one"
                   PROVE  (\E done, old : IsCut(done, old))'
        OBVIOUS
      <3>1. PICK done, old : IsCut(done, old)
        BY <1>1, <1>7 DEF IInv, IsRead
      <3>2. IsCut(done, old)'
        BY <1>1, <2>1, <3>1 DEF IsCut, UnderWay, Holds
      <3> QED
        BY <3>2
    <2> QED
      BY <1>1, <2>1, <2>2, <2>3, <2>4 DEF IInv
  <1> QED
    BY <1>5, <1>6, <1>7

LEMMA SaveInv ==
    ASSUME IInv, NEW entries \in Seq(Entry), Save(entries), joined' \in BOOLEAN
    PROVE  IInv'
  <1>1. /\ phase = "run" /\ saves < MaxSaves /\ saves' = saves + 1 /\ BeginSave(entries)
        /\ UNCHANGED <<file, length, boots, saved, cut>>
    BY DEF Save
  <1>2. TypeOK /\ (cut = "none" => Holds(file, saved)) /\ saves \in 0..MaxSaves
    BY <1>1 DEF IInv, TypeOK
  <1>3. saves' \in 0..MaxSaves
    BY <1>1, <1>2, StateFileAssumption
  <1>4. /\ phase' = "save" /\ status' \in Seq(Entry) /\ pending' \in Seq(Seq(Cells))
        /\ offset' \in Nat /\ (\E done, old : IsWritten(done, old))'
    BY <1>1, <1>2, BeginSaveDoes
  <1>5. TypeOK'
    BY <1>1, <1>2, <1>3, <1>4 DEF TypeOK, Phases
  <1> QED
    BY <1>4, <1>5 DEF IInv

LEMMA SaveChangeInv ==
    ASSUME IInv, NEW entries \in Seq(Entry), SaveChange(entries)
    PROVE  IInv'
  <1>1. boots \in Nat /\ joined \in BOOLEAN
    BY StateFileAssumption DEF IInv, TypeOK
  <1>2. CASE Save(entries) /\ UNCHANGED joined
    BY <1>1, <1>2, SaveInv
  <1>3. CASE ~joined /\ Save(AddSession(entries, boots)) /\ joined' = TRUE
    <2>1. AddSession(entries, boots) \in Seq(Entry)
      BY <1>1, AddSessionType
    <2> QED
      BY <1>3, <2>1, SaveInv
  <1> QED
    BY <1>2, <1>3 DEF SaveChange

LEMMA PowerLossInv ==
    ASSUME IInv, PowerLoss
    PROVE  IInv'
  <1>1. /\ phase # "off" /\ phase' = "off" /\ file' = SubSeq(file, 1, length)
        /\ cut' = IF phase # "save" THEN cut ELSE IF cut = "none" THEN "one" ELSE "more"
        /\ UNCHANGED <<length, boots, joined, status, pending, offset, saves, saved>>
    BY DEF PowerLoss
  <1>2. file \in Seq(Cells) /\ length \in Nat /\ length <= Len(file) /\ Len(file) \in Nat
    BY DEF IInv, TypeOK
  <1>3. file' \in Seq(Cells) /\ Len(file') = length
    <2>1. 1 \in Nat \ {0} /\ 1 <= length + 1 /\ length - 1 + 1 = length
      BY <1>2
    <2>2. SubSeq(file, 1, length) \in Seq(Cells) /\ Len(SubSeq(file, 1, length)) = length - 1 + 1
      BY <1>2, <2>1, SubSeqDoes
    <2> QED
      BY <1>1, <2>1, <2>2
  <1>4. cut' \in {"none", "one", "more"}
    BY <1>1 DEF IInv, TypeOK
  <1>5. TypeOK'
    BY <1>1, <1>2, <1>3, <1>4 DEF IInv, TypeOK, Phases
  <1>6. CASE phase = "save"
    <2>1. PICK done, old : IsWritten(done, old)
      BY <1>6 DEF IInv
    <2>2. UnderWay(done, old) /\ file = Torn(Flat(done), old) /\ (cut = "none" => Holds(old, saved))
      BY <2>1 DEF IsWritten
    <2>3. Flat(done) \in Seq(Cells) /\ old \in Seq(Cells) /\ Len(old) = length
      BY <2>2, FlatDoes DEF UnderWay
    <2>4. file' = Kept(Flat(done), old)
      BY <1>1, <2>2, <2>3, TornDoes
    <2>5. cut' = "one" => IsCut(done, old)'
      BY <1>1, <1>6, <2>2, <2>4 DEF IsCut, UnderWay, Holds
    <2>6. cut' # "none"
      BY <1>1, <1>6
    <2>7. cut' = "one" => (\E d, o : IsCut(d, o))'
      BY <2>5
    <2> QED
      BY <1>1, <1>5, <2>6, <2>7 DEF IInv
  <1>7. CASE phase # "save"
    <2>1. phase \in {"run", "panic"} /\ length = Len(file)
      BY <1>1, <1>7 DEF IInv, TypeOK, Phases
    <2>2. file' = file /\ cut' = cut
      BY <1>1, <1>2, <1>7, <2>1, SubSeqFull
    <2>3. CASE phase = "run"
      <3>1. IsRead' /\ (cut = "none" => Holds(file, saved))
        BY <1>1, <2>2, <2>3 DEF IInv, IsRead, Readable, Parse
      <3>2. cut = "none" => Holds(file, saved)'
        BY <1>1, <2>2, <3>1 DEF Holds
      <3> QED
        BY <1>1, <1>5, <2>2, <3>1, <3>2 DEF IInv
    <2>4. CASE phase = "panic"
      <3>1. cut # "none" /\ (cut = "one" => IsRead \/ \E done, old : IsCut(done, old))
        BY <2>4 DEF IInv
      <3>2. IsRead => IsRead'
        BY <1>1, <2>2 DEF IsRead, Readable, Parse
      <3>3. ASSUME NEW done, NEW old, IsCut(done, old)
            PROVE  IsCut(done, old)'
        BY <1>1, <2>2, <3>3 DEF IsCut, UnderWay, Holds
      <3>4. cut = "one" => IsRead' \/ (\E done, old : IsCut(done, old))'
        BY <3>1, <3>2, <3>3
      <3> QED
        BY <1>1, <1>5, <2>2, <3>1, <3>4 DEF IInv
    <2> QED
      BY <2>1, <2>3, <2>4
  <1> QED
    BY <1>6, <1>7

LEMMA StutterInv ==
    ASSUME IInv, UNCHANGED vars
    PROVE  IInv'
  BY DEF IInv, TypeOK, IsWritten, IsCut, IsRead, UnderWay, Holds, Readable, Parse, vars

LEMMA NextInv ==
    ASSUME IInv, [Next]_vars
    PROVE  IInv'
  <1>1. /\ status \in Seq(Entry) /\ boots \in Nat
        /\ Counts \subseteq Nat
    BY StateFileAssumption DEF IInv, TypeOK
  <1>2. CASE Boot
    BY <1>2, BootInv
  <1>3. CASE Join
    <2>1. AddSession(status, boots) \in Seq(Entry)
      BY <1>1, AddSessionType
    <2> QED
      BY <1>3, <2>1, SaveInv DEF Join
  <1>4. CASE WriteNext
    BY <1>4, WriteNextInv
  <1>5. CASE Flush
    BY <1>5, FlushInv
  <1>6. CASE PowerLoss
    BY <1>6, PowerLossInv
  <1>7. ASSUME NEW i \in DOMAIN status, Finish(i)
        PROVE  IInv'
    <2>1. Retain(status, status[i].local) \in Seq(Entry)
      BY <1>1, RetainType
    <2> QED
      BY <1>7, <2>1, SaveChangeInv DEF Finish
  <1>8. ASSUME NEW i \in DOMAIN status, NEW remote \in RemoteIds, Name(i, remote)
        PROVE  IInv'
    <2>1. SetRemoteSessionId(status, status[i].local, remote) \in Seq(Entry)
      BY <1>1, SetRemoteSessionIdType
    <2> QED
      BY <1>8, <2>1, SaveChangeInv DEF Name
  <1>9. ASSUME NEW i \in DOMAIN status, NEW n \in Counts, Count(i, n)
        PROVE  IInv'
    <2>1. AddUploaded(status, status[i].local, n) \in Seq(Entry)
      BY <1>1, AddUploadedType
    <2> QED
      BY <1>9, <2>1, SaveChangeInv DEF Count
  <1>10. CASE UNCHANGED vars
    BY <1>10, StutterInv
  <1> QED
    BY <1>2, <1>3, <1>4, <1>5, <1>6, <1>7, <1>8, <1>9, <1>10 DEF Next

\* In every reachable state: during a save the card holds what is written so far before
\* the rest of the old text, and after a cut as much of that as the file is long.
THEOREM Inductive == Spec => []IInv
  <1>1. Init => IInv
    BY InitInv
  <1>2. IInv /\ [Next]_vars => IInv'
    BY NextInv
  <1> QED
    BY <1>1, <1>2, PTL DEF Spec

-----------------------------------------------------------------------------
\* The properties

\* Every variable keeps its type, whatever the card was left with: what a boot reads of
\* a torn file are entries again.
THEOREM TypeCorrect == Spec => []TypeOK
  BY Inductive, PTL DEF IInv

\* A boot after a completed save reads what was saved, though the file is never
\* truncated, and also when an earlier save was cut.
THEOREM SavedIsReadAlways == Spec => []SavedIsRead
  <1>1. IInv => SavedIsRead
    <2> SUFFICES ASSUME IInv, phase = "off", cut = "none"
                 PROVE  Readable(file) /\ Parse(file) = saved
      BY DEF SavedIsRead
    <2>1. saved \in Seq(Entry) /\ Holds(file, saved)
      BY DEF IInv, TypeOK
    <2> QED
      BY <2>1, HoldsReads
  <1> QED
    BY <1>1, Inductive, PTL

\* All the writes of a save make a text padded with zeros, and what has been written of
\* it is its beginning.
LEMMA WrittenPart ==
    ASSUME TypeOK, NEW done, NEW old, UnderWay(done, old)
    PROVE  /\ Flat(done) \in Seq(Cells) /\ Flat(pending) \in Seq(Cells)
           /\ Text(status) \in Seq(Cells)
           /\ \E zeros \in Seq({Zero}) :
                  /\ Flat(done) \o Flat(pending) = Text(status) \o zeros
                  /\ Len(zeros) = IF length > Len(Text(status)) THEN length - Len(Text(status)) ELSE 0
  <1>1. /\ done \in Seq(Seq(Cells)) /\ pending \in Seq(Seq(Cells)) /\ status \in Seq(Entry)
        /\ length \in Nat /\ SaveWrites(status, length) = done \o pending
    BY DEF TypeOK, UnderWay
  <1>2. Flat(done) \in Seq(Cells) /\ Flat(pending) \in Seq(Cells)
    BY <1>1, FlatDoes
  <1>3. Flat(done \o pending) = Flat(done) \o Flat(pending)
    BY <1>1, FlatDoes
  <1>4. Text(status) \in Seq(Cells)
    BY <1>1, TextIs
  <1>5. PICK zeros \in Seq({Zero}) :
            /\ Flat(SaveWrites(status, length)) = Text(status) \o zeros
            /\ Len(zeros) = IF length > Len(Text(status)) THEN length - Len(Text(status)) ELSE 0
    BY <1>1, SaveWritesDoes
  <1>6. Flat(done) \o Flat(pending) = Text(status) \o zeros
    BY <1>1, <1>3, <1>5, Zenon
  <1> QED
    BY <1>2, <1>4, <1>5, <1>6

\* The beginning of a concatenation
LEMMA SamePrefix ==
    ASSUME NEW V, NEW a \in Seq(V), NEW b \in Seq(V), NEW c \in Seq(V), NEW d \in Seq(V),
           a \o b = c \o d
    PROVE  \A i \in 1..Len(a) : i <= Len(c) => a[i] = c[i]
  <1>1. /\ \A i \in 1..Len(a) : (a \o b)[i] = a[i]
        /\ \A i \in 1..Len(c) : (c \o d)[i] = c[i]
        /\ Len(a) \in Nat /\ Len(c) \in Nat
    BY ConcatDoes
  <1> SUFFICES ASSUME NEW i \in 1..Len(a), i <= Len(c)
               PROVE  a[i] = c[i]
    OBVIOUS
  <1>2. i \in 1..Len(c)
    BY <1>1
  <1>3. (a \o b)[i] = a[i]
    BY <1>1
  <1>4. (c \o d)[i] = c[i]
    BY <1>1, <1>2
  <1> QED
    BY <1>3, <1>4

LEMMA ShiftByOne ==
    ASSUME NEW m \in Nat, NEW n \in Nat
    PROVE  /\ n - (m + 1) + 1 = n - m
           /\ \A i \in 1..(n - m) : (m + 1) + i - 1 = m + i
  <1>1. n - (m + 1) + 1 = n - m
    OBVIOUS
  <1>2. ASSUME NEW i \in 1..(n - m)
        PROVE  (m + 1) + i - 1 = m + i
    <2>1. i \in Int
      OBVIOUS
    <2> QED
      BY <2>1
  <1> QED
    BY <1>1, <1>2

LEMMA BeginsWith ==
    ASSUME NEW V, NEW s \in Seq(V), NEW p \in Seq(V), Begins(s, p)
    PROVE  Extends(V, s, p)
  <1> USE DEF Begins, Extends
  <1> DEFINE m == Len(p)
             n == Len(s)
             rest == SubSeq(s, m + 1, n)
  <1>1. m \in Nat /\ n \in Nat /\ m + 1 \in Nat \ {0} /\ n <= Len(s) /\ m + 1 <= n + 1
    OBVIOUS
  <1> DEFINE k == m + 1
  <1> HIDE DEF m, n, k
  <1>2. /\ SubSeq(s, k, n) \in Seq(V) /\ Len(SubSeq(s, k, n)) = n - k + 1
        /\ \A i \in 1..(n - k + 1) : SubSeq(s, k, n)[i] = s[k + i - 1]
    BY <1>1, SubSeqDoes DEF k
  <1> DEFINE r == SubSeq(s, k, n)
  <1> HIDE DEF r
  <1>3. r \in Seq(V) /\ Len(r) = n - m /\ \A i \in 1..(n - m) : r[i] = s[m + i]
    <2>1. n - k + 1 = n - m /\ \A i \in 1..(n - m) : k + i - 1 = m + i
      BY <1>1, ShiftByOne DEF k
    <2> QED
      BY <1>2, <2>1 DEF r
  <1> DEFINE t == p \o r
  <1>4. /\ t \in Seq(V) /\ Len(t) = Len(p) + Len(r)
        /\ (\A i \in 1..Len(p) : t[i] = p[i]) /\ \A i \in 1..Len(r) : t[Len(p) + i] = r[i]
    BY <1>3, ConcatDoes
  <1> HIDE DEF t
  <1>5. Len(t) = n
    BY <1>1, <1>3, <1>4 DEF m
  <1>6. ASSUME NEW i \in 1..n
        PROVE  s[i] = t[i]
    <2>1. CASE i <= m
      <3>1. i \in 1..Len(p)
        BY <1>1, <2>1 DEF m
      <3> QED
        BY <1>4, <3>1
    <2>2. CASE ~(i <= m)
      <3> DEFINE j == i - m
      <3>1. j \in 1..(n - m) /\ i = m + j
        BY <1>1, <2>2
      <3> HIDE DEF j
      <3>2. t[m + j] = r[j] /\ r[j] = s[m + j]
        BY <1>3, <1>4, <3>1 DEF m
      <3> QED
        BY <3>1, <3>2
    <2> QED
      BY <2>1, <2>2
  <1>7. s = t
    BY <1>4, <1>5, <1>6, SameSeq DEF n
  <1> QED
    BY <1>3, <1>7 DEF t

LEMMA MinOfTwo ==
    ASSUME NEW x \in Nat, NEW y \in Nat
    PROVE  Sets!Min({x, y}) <= x /\ Sets!Min({x, y}) <= y /\ Sets!Min({x, y}) \in Nat
  <1>1. \E z \in {x, y} : \A u \in {x, y} : z <= u
    OBVIOUS
  <1>2. Sets!Min({x, y}) \in {x, y} /\ \A u \in {x, y} : Sets!Min({x, y}) <= u
    BY <1>1, Zenon DEF Sets!Min
  <1> QED
    BY <1>2

\* If a boot can read what a cut save left, the lines the save had written before the
\* cut are there first, as they were to be saved.
THEOREM WrittenLinesAreReadAlways == Spec => []WrittenLinesAreRead
  <1>1. IInv => WrittenLinesAreRead
    <2> SUFFICES ASSUME IInv, phase = "off", cut = "one", NEW n \in 1..Len(status),
                        Len(Text(SubSeq(status, 1, n))) <= Sets!Min({offset, length})
                 PROVE  n <= Len(Parse(file)) /\ Parse(file)[n] = status[n]
      BY DEF WrittenLinesAreRead
    <2>1. status \in Seq(Entry) /\ offset \in Nat /\ length \in Nat /\ TypeOK
      BY DEF IInv, TypeOK
    <2>2. CASE IsRead
      BY <2>1, <2>2 DEF IsRead
    <2>3. ASSUME NEW done, NEW old, IsCut(done, old)
          PROVE  n <= Len(Parse(file)) /\ Parse(file)[n] = status[n]
      <3> DEFINE first == SubSeq(status, 1, n)
                 p == Text(first)
                 a == Flat(done)
      <3>1. /\ UnderWay(done, old) /\ file = Kept(a, old)
            /\ old \in Seq(Cells) /\ Len(old) = length /\ offset = Len(a)
        BY <2>3 DEF IsCut, UnderWay
      <3>2. /\ a \in Seq(Cells) /\ Flat(pending) \in Seq(Cells) /\ Text(status) \in Seq(Cells)
            /\ \E zeros \in Seq({Zero}) : a \o Flat(pending) = Text(status) \o zeros
        BY <2>1, <3>1, WrittenPart
      <3>3. PICK zeros \in Seq({Zero}) : a \o Flat(pending) = Text(status) \o zeros
        BY <3>2
      <3>4. n \in 0..Len(status) /\ Len(status) \in Nat
        BY <2>1
      <3>5. first \in Seq(Entry) /\ \E rest \in Seq(Cells) : Text(status) = p \o rest
        BY <2>1, <3>4, TextSplits
      <3>6. Len(first) = n /\ first[n] = status[n]
        <4>1. 1 \in Nat \ {0} /\ n \in Nat /\ n <= Len(status) /\ 1 <= n + 1 /\ n >= 1
          BY <3>4
        <4>2. /\ Len(SubSeq(status, 1, n)) = n - 1 + 1
              /\ \A i \in 1..(n - 1 + 1) : SubSeq(status, 1, n)[i] = status[1 + i - 1]
          BY <2>1, <4>1, SubSeqDoes
        <4>3. n - 1 + 1 = n /\ 1 + n - 1 = n /\ n \in 1..n
          BY <4>1
        <4> HIDE DEF first
        <4> QED
          BY <4>2, <4>3 DEF first
      <3>7. Len(p) <= Len(a) /\ Len(p) <= length
        <4>1. Len(p) \in Nat
          BY <3>5, TextIs
        <4>2. Len(p) <= Sets!Min({offset, length})
          OBVIOUS
        <4> HIDE DEF p, a
        <4> QED
          BY <2>1, <3>1, <4>1, <4>2, MinOfTwo
      <3> HIDE DEF first
      <3>8. p \in Seq(Cells) /\ Len(p) \in Nat
        BY <3>5, TextIs
      <3> HIDE DEF p, a
      <3>9. \A i \in 1..Len(p) : a[i] = p[i]
        <4>1. PICK rest \in Seq(Cells) : Text(status) = p \o rest
          BY <3>5
        <4>2. zeros \in Seq(Cells)
          BY LinesOfZeros
        <4>3. rest \o zeros \in Seq(Cells)
          BY <4>2, ConcatDoes
        <4>4. Associates(p, rest, zeros)
          BY <3>8, <4>2, ConcatAssociates
        <4>5. a \o Flat(pending) = p \o (rest \o zeros)
          BY <3>3, <4>1, <4>4, Zenon DEF Associates
        <4> DEFINE tail == rest \o zeros
        <4> HIDE DEF tail
        <4>6. \A i \in 1..Len(a) : i <= Len(p) => a[i] = p[i]
          BY <3>2, <3>8, <4>3, <4>5, SamePrefix DEF tail
        <4>7. \A i \in 1..Len(p) : i \in 1..Len(a) /\ i <= Len(p)
          BY <3>2, <3>7, <3>8
        <4> QED
          BY <4>6, <4>7
      <3>10. file \in Seq(Cells) /\ Len(file) = length
        BY <3>1, <3>2, TornDoes
      <3>11. \A i \in 1..Len(p) : file[i] = p[i]
        <4>1. \A i \in 1..Len(p) : i \in 1..Len(old) /\ i <= Len(a)
          BY <2>1, <3>1, <3>2, <3>7, <3>8
        <4>2. \A i \in 1..Len(p) : Kept(a, old)[i] = a[i]
          BY <4>1 DEF Kept
        <4> QED
          BY <3>1, <3>9, <4>2
      <3>12. \E rest \in Seq(Cells) : file = p \o rest
        <4>1. Len(p) <= Len(file)
          BY <3>7, <3>10
        <4>2. PICK cells \in Seq(Cells) : cells = file
          BY <3>10
        <4>3. Begins(cells, p)
          BY <3>11, <4>1, <4>2 DEF Begins
        <4>4. Extends(Cells, cells, p)
          BY <3>8, <4>3, BeginsWith
        <4> QED
          BY <4>2, <4>4 DEF Extends
      <3>13. PICK rest \in Seq(Cells) : file = Text(first) \o rest
        BY <3>12 DEF p
      <3>14. n \in 1..Len(first)
        BY <3>4, <3>6
      <3>15. n \in 1..Len(Parse(Text(first) \o rest)) /\ Parse(Text(first) \o rest)[n] = first[n]
        BY <3>5, <3>14, TextReadsFirst
      <3> QED
        BY <3>6, <3>13, <3>15
    <2> QED
      BY <2>2, <2>3 DEF IInv
  <1> QED
    BY <1>1, Inductive, PTL

-----------------------------------------------------------------------------
\* Atomicity

LEMMA FlatGrows ==
    ASSUME NEW p \in Seq(Seq(Cells)), NEW q \in Seq(Seq(Cells)), NEW r \in Seq(Seq(Cells)),
           NEW t \in Seq(Seq(Cells)), p \o q = r \o t, Len(p) <= Len(r)
    PROVE  Len(Flat(p)) <= Len(Flat(r))
  <1> DEFINE V == Seq(Cells)
  <1>1. \E x \in Seq(V) : r = p \o x
    <2>1. p \in Seq(V) /\ q \in Seq(V) /\ r \in Seq(V) /\ t \in Seq(V)
      OBVIOUS
    <2> HIDE DEF V
    <2>2. \A i \in 1..Len(p) : i <= Len(r) => p[i] = r[i]
      BY <2>1, SamePrefix
    <2>3. Len(p) \in Nat /\ Len(r) \in Nat
      BY <2>1
    <2>6. \A i \in 1..Len(p) : r[i] = p[i]
      <3> SUFFICES ASSUME NEW i \in 1..Len(p)
                   PROVE  r[i] = p[i]
        OBVIOUS
      <3>1. i <= Len(r)
        BY <2>3
      <3> QED
        BY <2>2, <3>1
    <2>4. Begins(r, p)
      BY <2>6 DEF Begins
    <2>5. Extends(V, r, p)
      BY <2>1, <2>4, BeginsWith
    <2> QED
      BY <2>5 DEF Extends
  <1>2. PICK x \in Seq(Seq(Cells)) : r = p \o x
    BY <1>1
  <1>3. Flat(r) = Flat(p) \o Flat(x) /\ Flat(p) \in Seq(Cells) /\ Flat(x) \in Seq(Cells)
    BY <1>2, FlatDoes
  <1>4. /\ Len(Flat(p) \o Flat(x)) = Len(Flat(p)) + Len(Flat(x))
        /\ Len(Flat(p)) \in Nat /\ Len(Flat(x)) \in Nat
    BY <1>3, ConcatDoes
  <1> QED
    BY <1>3, <1>4

\* Two sequences that differ in one element
DifferAt(s, t, k) ==
    k \in DOMAIN s /\ DOMAIN t = DOMAIN s /\ \A j \in DOMAIN s \ {k} : t[j] = s[j]

SplitAt(V, s, t, k) ==
    \E x, y \in Seq(V) : s = Append(x, s[k]) \o y /\ t = Append(x, t[k]) \o y

LEMMA OneDiffers ==
    ASSUME NEW V, NEW s \in Seq(V), NEW t \in Seq(V), NEW k, DifferAt(s, t, k)
    PROVE  SplitAt(V, s, t, k)
  <1> USE DEF DifferAt, SplitAt
  <1> DEFINE n == Len(s)
  <1>1. n \in Nat /\ k \in 1..n /\ Len(t) = n /\ s[k] \in V /\ t[k] \in V
    OBVIOUS
  <1>2. \A j \in 1..n : j # k => t[j] = s[j]
    OBVIOUS
  <1> HIDE DEF n
  <1>3. PICK l \in Nat : k = l + 1
    <2>1. k - 1 \in Nat /\ k = (k - 1) + 1
      BY <1>1
    <2> QED
      BY <2>1
  <1> DEFINE x == SubSeq(s, 1, l)
             a == Append(x, s[k])
             b == Append(x, t[k])
  <1>4. x \in Seq(V) /\ Len(x) = l /\ \A i \in 1..l : x[i] = s[i]
    <2>1. 1 \in Nat \ {0} /\ l \in Nat /\ l <= Len(s) /\ 1 <= l + 1
      BY <1>1, <1>3 DEF n
    <2>2. x \in Seq(V) /\ Len(x) = l - 1 + 1 /\ \A i \in 1..(l - 1 + 1) : x[i] = s[1 + i - 1]
      BY <2>1, SubSeqDoes
    <2>3. l - 1 + 1 = l /\ \A i \in 1..l : 1 + i - 1 = i
      OBVIOUS
    <2> HIDE DEF x
    <2> QED
      BY <2>2, <2>3
  <1> HIDE DEF x
  <1>5. a \in Seq(V) /\ Len(a) = k /\ \A i \in 1..k : a[i] = s[i]
    <2>1. /\ a \in Seq(V) /\ Len(a) = l + 1 /\ a[l + 1] = s[k] /\ \A i \in 1..l : a[i] = x[i]
      BY <1>1, <1>4, AppendDoes
    <2> HIDE DEF a
    <2>2. \A i \in 1..k : i = l + 1 \/ i \in 1..l
      BY <1>3
    <2> QED
      BY <1>3, <1>4, <2>1, <2>2
  <1>6. b \in Seq(V) /\ Len(b) = k /\ \A i \in 1..k : b[i] = t[i]
    <2>1. /\ b \in Seq(V) /\ Len(b) = l + 1 /\ b[l + 1] = t[k] /\ \A i \in 1..l : b[i] = x[i]
      BY <1>1, <1>4, AppendDoes
    <2> HIDE DEF b
    <2>2. \A i \in 1..l : i \in 1..n /\ i # k
      BY <1>1, <1>3
    <2>3. \A i \in 1..k : i = l + 1 \/ i \in 1..l
      BY <1>3
    <2> QED
      BY <1>2, <1>3, <1>4, <2>1, <2>2, <2>3
  <1> HIDE DEF a, b
  <1>7. PICK y \in Seq(V) : s = a \o y
    <2>1. Begins(s, a)
      BY <1>1, <1>5 DEF n, Begins
    <2>2. Extends(V, s, a)
      BY <1>5, <2>1, BeginsWith
    <2> QED
      BY <2>2 DEF Extends
  <1>8. t = b \o y
    <2> DEFINE r == b \o y
    <2>6. Concats(V, a \o y, a, y)
      BY <1>5, ConcatIs
    <2>7. Concats(V, r, b, y)
      BY <1>6, ConcatIs
    <2>1. /\ Len(s) = Len(a) + Len(y) /\ \A i \in 1..Len(y) : s[Len(a) + i] = y[i]
      BY <1>7, <2>6 DEF Concats
    <2> HIDE DEF r
    <2>2. /\ r \in Seq(V) /\ Len(r) = Len(b) + Len(y) /\ Len(y) \in Nat
          /\ (\A i \in 1..Len(b) : r[i] = b[i]) /\ \A i \in 1..Len(y) : r[Len(b) + i] = y[i]
      BY <2>7 DEF Concats
    <2>3. Len(r) = Len(t)
      BY <1>1, <1>5, <1>6, <2>1, <2>2 DEF n
    <2>4. ASSUME NEW i \in 1..n
          PROVE  t[i] = r[i]
      <3>1. CASE i <= k
        <4>1. i \in 1..k
          BY <1>1, <3>1
        <4> QED
          BY <1>6, <2>2, <4>1
      <3>2. CASE ~(i <= k)
        <4> DEFINE j == i - k
        <4>1. j \in 1..Len(y) /\ i = k + j /\ i # k
          BY <1>1, <1>5, <2>1, <2>2, <3>2 DEF n
        <4> HIDE DEF j
        <4>2. r[k + j] = y[j] /\ s[k + j] = y[j]
          BY <1>5, <1>6, <2>1, <2>2, <4>1
        <4>3. t[i] = s[i]
          BY <1>2, <4>1
        <4> QED
          BY <4>1, <4>2, <4>3
      <3> QED
        BY <3>1, <3>2
    <2>5. \A i \in 1..Len(t) : t[i] = r[i]
      BY <1>1, <2>4
    <2>8. t = r
      BY <2>2, <2>3, <2>5, SameSeq
    <2> QED
      BY <2>8 DEF r
  <1> QED
    BY <1>4, <1>7, <1>8 DEF a, b

\* Texts that differ between two positions only
SameBut(s, t, first, last) ==
    /\ Len(s) = Len(t)
    /\ \A i \in 1..Len(s) : i <= first \/ i > last => s[i] = t[i]

LEMMA SameOutside ==
    ASSUME NEW V, NEW u \in Seq(V), NEW a \in Seq(V), NEW b \in Seq(V), NEW w \in Seq(V),
           Len(a) = Len(b)
    PROVE  SameBut((u \o a) \o w, (u \o b) \o w, Len(u), Len(u) + Len(a))
  <1> USE DEF SameBut
  <1> DEFINE p == u \o a
             q == u \o b
             s == p \o w
             t == q \o w
             m == Len(u)
             l == Len(a)
  <1>0. p \in Seq(V) /\ q \in Seq(V)
    BY ConcatDoes
  <1>1. Concats(V, p, u, a)
    BY ConcatIs
  <1>2. Concats(V, q, u, b)
    BY ConcatIs
  <1> HIDE DEF p, q
  <1>3. Concats(V, s, p, w)
    BY <1>0, ConcatIs
  <1>4. Concats(V, t, q, w)
    BY <1>0, ConcatIs
  <1> HIDE DEF s, t
  <1>6. /\ Len(p) = m + l /\ m \in Nat /\ l \in Nat /\ \A i \in 1..m : p[i] = u[i]
    BY <1>1 DEF Concats
  <1>7. Len(q) = m + l /\ \A i \in 1..m : q[i] = u[i]
    BY <1>2 DEF Concats
  <1>8. /\ Len(s) = Len(p) + Len(w) /\ Len(w) \in Nat
        /\ (\A i \in 1..Len(p) : s[i] = p[i]) /\ \A i \in 1..Len(w) : s[Len(p) + i] = w[i]
    BY <1>3 DEF Concats
  <1>9. /\ Len(t) = Len(q) + Len(w)
        /\ (\A i \in 1..Len(q) : t[i] = q[i]) /\ \A i \in 1..Len(w) : t[Len(q) + i] = w[i]
    BY <1>4 DEF Concats
  <1> HIDE DEF m, l
  <1>5. ASSUME NEW i \in 1..Len(s), i <= m \/ i > m + l
        PROVE  s[i] = t[i]
    <2>1. CASE i <= m
      <3>1. i \in 1..m /\ i \in 1..Len(p) /\ i \in 1..Len(q)
        BY <1>6, <1>7, <1>8, <2>1
      <3> QED
        BY <1>6, <1>7, <1>8, <1>9, <3>1
    <2>2. CASE i > m + l
      <3> DEFINE j == i - (m + l)
      <3>1. j \in 1..Len(w) /\ i = (m + l) + j
        BY <1>6, <1>8, <2>2
      <3> HIDE DEF j
      <3>2. s[(m + l) + j] = w[j] /\ t[(m + l) + j] = w[j]
        BY <1>6, <1>7, <1>8, <1>9, <3>1
      <3> QED
        BY <3>1, <3>2
    <2> QED
      BY <1>5, <2>1, <2>2
  <1> QED
    BY <1>5, <1>6, <1>7, <1>8, <1>9 DEF s, t, p, q, m, l

LEMMA SaveWritesStart ==
    ASSUME NEW s \in Seq(Entry), NEW old \in Nat
    PROVE  \E pad \in Seq(Seq(Cells)) : SaveWrites(s, old) = TextWrites(s) \o pad
  <1> DEFINE missing == old - Len(Text(s))
             zeros == [i \in 1..missing |-> Zero]
             V == Seq(Cells)
  <1>1. Len(Text(s)) \in Nat
    BY TextIs
  <1>2. <<>> \in Seq(V)
    BY EmptySeq
  <1>3. missing \in Int
    BY <1>1
  <1> HIDE DEF missing
  <1>4. missing > 0 => zeros \in V
    BY <1>3, CellFacts
  <1> HIDE DEF zeros, V
  <1>5. missing > 0 => <<zeros>> \in Seq(V)
    BY <1>4
  <1>6. SaveWrites(s, old) = TextWrites(s) \o IF missing > 0 THEN <<zeros>> ELSE <<>>
    BY DEF SaveWrites, missing, zeros
  <1> QED
    BY <1>2, <1>5, <1>6 DEF V

\* Until the one write that differs the old file is still there, and from then on the
\* new one: the zeros behind it are as many.
LEMMA OneWriteIsAtomic ==
    ASSUME TypeOK, NEW done, NEW old, IsCut(done, old), OneWriteDiffers
    PROVE  Holds(file, saved) \/ Holds(file, status)
  <1> DEFINE d == Flat(done)
             A == TextWrites(saved)
             B == TextWrites(status)
  <1>1. /\ UnderWay(done, old) /\ file = Kept(d, old) /\ Holds(old, saved)
        /\ done \in Seq(Seq(Cells)) /\ old \in Seq(Cells) /\ Len(old) = length
        /\ SaveWrites(status, length) = done \o pending
    BY DEF IsCut, UnderWay
  <1>2. /\ status \in Seq(Entry) /\ saved \in Seq(Entry) /\ length \in Nat
        /\ pending \in Seq(Seq(Cells))
    BY DEF TypeOK
  <1>3. CASE old = <<>> /\ saved = <<>>
    <2>1. file \in Seq(Cells) /\ Len(file) = Len(old)
      BY <1>1, FlatDoes, TornDoes
    <2>2. Len(old) = 0
      BY <1>3
    <2>3. file = <<>>
      BY <2>1, <2>2
    <2> QED
      BY <1>3, <2>3 DEF Holds
  <1>4. ASSUME NEW zs \in Seq({Zero}), old = Text(saved) \o zs
        PROVE  Holds(file, saved) \/ Holds(file, status)
    <2>1. PICK k \in DOMAIN A :
              /\ DOMAIN B = DOMAIN A /\ Len(B[k]) = Len(A[k])
              /\ \A j \in DOMAIN A \ {k} : B[j] = A[j]
      BY DEF OneWriteDiffers
    <2>2. A \in Seq(Seq(Cells)) /\ B \in Seq(Seq(Cells))
      BY <1>2, TextIs
    <2>3. Text(saved) = Flat(A) /\ Text(status) = Flat(B)
      BY DEF Text, Flat
    <2> HIDE DEF A, B
    <2>4. PICK x \in Seq(Seq(Cells)), y \in Seq(Seq(Cells)) :
              A = Append(x, A[k]) \o y /\ B = Append(x, B[k]) \o y
      <3> DEFINE V == Seq(Cells)
      <3>1. A \in Seq(V) /\ B \in Seq(V)
        BY <2>2
      <3> HIDE DEF V
      <3>2. DifferAt(A, B, k)
        BY <2>1 DEF DifferAt
      <3>3. SplitAt(V, A, B, k)
        BY <3>1, <3>2, OneDiffers
      <3> QED
        BY <3>3 DEF V, SplitAt
    <2>5. PICK a \in Seq(Cells), b \in Seq(Cells) : a = A[k] /\ b = B[k] /\ Len(a) = Len(b)
      <3>1. k \in DOMAIN B
        BY <2>1
      <3> DEFINE V == Seq(Cells)
      <3>2. A \in Seq(V) /\ B \in Seq(V)
        BY <2>2
      <3> HIDE DEF V
      <3>3. A[k] \in V /\ B[k] \in V
        BY <3>1, <3>2
      <3> QED
        BY <2>1, <3>3 DEF V
    <2> DEFINE u == Flat(x)
               v == Flat(y)
    <2>6. u \in Seq(Cells) /\ v \in Seq(Cells) /\ Len(u) \in Nat
      BY FlatDoes
    <2>7. /\ Append(x, a) \in Seq(Seq(Cells)) /\ Flat(Append(x, a)) = u \o a
          /\ Append(x, b) \in Seq(Seq(Cells)) /\ Flat(Append(x, b)) = u \o b
      BY FlatAppend
    <2>8. Text(saved) = (u \o a) \o v /\ Text(status) = (u \o b) \o v
      <3>1. Flat(Append(x, a) \o y) = Flat(Append(x, a)) \o v
        BY <2>7, FlatDoes
      <3>2. Flat(Append(x, b) \o y) = Flat(Append(x, b)) \o v
        BY <2>7, FlatDoes
      <3> QED
        BY <2>3, <2>4, <2>5, <2>7, <3>1, <3>2
    <2>9. u \o a \in Seq(Cells) /\ u \o b \in Seq(Cells) /\ zs \in Seq(Cells)
      BY <2>6, ConcatDoes, LinesOfZeros
    <2> HIDE DEF d, u, v
    <2> DEFINE w == v \o zs
               full == Text(status) \o zs
    <2>10. w \in Seq(Cells)
      BY <2>6, <2>9, ConcatDoes
    <2>11. old = (u \o a) \o w /\ full = (u \o b) \o w
      <3>1. Associates(u \o a, v, zs)
        BY <2>6, <2>9, ConcatAssociates
      <3>2. Associates(u \o b, v, zs)
        BY <2>6, <2>9, ConcatAssociates
      <3> QED
        BY <1>4, <2>8, <3>1, <3>2, Zenon DEF Associates
    <2> HIDE DEF w
    <2>12. /\ Len(old) = Len(full)
           /\ \A i \in 1..Len(old) : i <= Len(u) \/ i > Len(u) + Len(a) => old[i] = full[i]
      <3>1. SameBut((u \o a) \o w, (u \o b) \o w, Len(u), Len(u) + Len(a))
        BY <2>5, <2>6, <2>10, SameOutside
      <3> HIDE DEF full
      <3> QED
        BY <2>11, <3>1 DEF SameBut
    <2>13. Text(status) \in Seq(Cells) /\ full \in Seq(Cells)
           /\ Len(full) = Len(Text(status)) + Len(zs) /\ Len(Text(status)) \in Nat /\ Len(zs) \in Nat
      <3>1. Text(status) \in Seq(Cells)
        BY <1>2, TextIs
      <3>2. Concats(Cells, full, Text(status), zs)
        BY <2>9, <3>1, ConcatIs
      <3> HIDE DEF full
      <3> QED
        BY <3>1, <3>2 DEF Concats
    <2>14. PICK zeros \in Seq({Zero}) :
               /\ d \o Flat(pending) = Text(status) \o zeros
               /\ Len(zeros) = IF length > Len(Text(status)) THEN length - Len(Text(status)) ELSE 0
      BY <1>1, WrittenPart DEF d
    <2>15. zeros = zs
      <3>1. Len(full) = length
        BY <1>1, <2>12
      <3> HIDE DEF full
      <3>2. Len(zeros) = Len(zs)
        BY <2>13, <2>14, <3>1
      <3>3. \A i \in 1..Len(zeros) : zeros[i] = zs[i]
        BY <3>2
      <3> QED
        BY <3>2, <3>3, SameSeq
    <2>16. d \o Flat(pending) = full
      BY <2>14, <2>15
    <2> HIDE DEF full
    <2>17. d \in Seq(Cells) /\ Flat(pending) \in Seq(Cells)
      BY <1>1, WrittenPart DEF d
    <2>18. (\A i \in 1..Len(d) : full[i] = d[i]) /\ Len(d) \in Nat
      <3>1. Concats(Cells, d \o Flat(pending), d, Flat(pending))
        BY <2>17, ConcatIs
      <3> QED
        BY <2>16, <3>1 DEF Concats
    <2>19. file \in Seq(Cells) /\ Len(file) = Len(old)
      BY <1>1, <2>17, TornDoes
    <2>20. \A i \in 1..Len(old) : file[i] = IF i <= Len(d) THEN full[i] ELSE old[i]
      <3>1. \A i \in 1..Len(old) : file[i] = IF i <= Len(d) THEN d[i] ELSE old[i]
        BY <1>1 DEF Kept
      <3> QED
        BY <2>18, <3>1
    <2>21. PICK pad \in Seq(Seq(Cells)) : SaveWrites(status, length) = B \o pad
      BY <1>2, SaveWritesStart DEF B
    <2> DEFINE l == Append(x, b)
    <2>22. done \o pending = l \o (y \o pad) /\ y \o pad \in Seq(Seq(Cells))
      <3>1. l \in Seq(Seq(Cells)) /\ y \o pad \in Seq(Seq(Cells))
        BY <2>7, FlatDoes
      <3> HIDE DEF l
      <3>2. Associates(l, y, pad)
        BY <3>1, ConcatAssociates
      <3>3. B = l \o y
        BY <2>4, <2>5 DEF l
      <3> QED
        BY <1>1, <2>21, <3>1, <3>2, <3>3, Zenon DEF Associates
    <2>23. CASE Len(done) <= Len(x)
      <3> DEFINE V == Seq(Cells)
                 one == <<b>>
                 r == y \o pad
      <3>1. r \in Seq(V) /\ done \o pending = l \o r
        BY <2>22
      <3>2. x \in Seq(V) /\ b \in V
        BY <2>5
      <3> HIDE DEF V, r
      <3>3. one \in Seq(V) /\ l = x \o one
        BY <3>2
      <3> HIDE DEF one, l
      <3>4. Associates(x, one, r)
        BY <3>1, <3>2, <3>3, ConcatAssociates
      <3>5. one \o r \in Seq(V)
        BY <3>1, <3>3, ConcatDoes
      <3>6. done \o pending = x \o (one \o r)
        BY <3>1, <3>3, <3>4, Zenon DEF Associates
      <3> DEFINE t == one \o r
      <3> HIDE DEF t
      <3>7. t \in Seq(Seq(Cells)) /\ done \o pending = x \o t
        BY <3>5, <3>6 DEF t, V
      <3>8. Len(Flat(done)) <= Len(Flat(x))
        BY <1>1, <1>2, <2>23, <3>7, FlatGrows
      <3>9. Len(d) <= Len(u)
        BY <3>8 DEF d, u
      <3>10. \A i \in 1..Len(old) : file[i] = old[i]
        BY <2>6, <2>12, <2>18, <2>20, <3>9
      <3>11. file = old
        BY <1>1, <2>19, <3>10, SameSeq
      <3> QED
        BY <1>1, <3>11
    <2>24. CASE ~(Len(done) <= Len(x))
      <3>1. Len(l) <= Len(done)
        <4> DEFINE V == Seq(Cells)
        <4>1. x \in Seq(V) /\ b \in V /\ done \in Seq(V)
          BY <1>1, <2>5
        <4> HIDE DEF V
        <4> QED
          BY <2>24, <4>1
      <3> HIDE DEF l
      <3> DEFINE r == y \o pad
      <3>2. r \in Seq(Seq(Cells)) /\ l \o r = done \o pending /\ l \in Seq(Seq(Cells))
        BY <2>7, <2>22 DEF l
      <3> HIDE DEF r
      <3>3. Len(Flat(l)) <= Len(Flat(done))
        BY <1>1, <1>2, <3>1, <3>2, FlatGrows
      <3>4. Len(Flat(l)) = Len(u) + Len(a) /\ Len(a) \in Nat
        <4>1. Concats(Cells, u \o b, u, b)
          BY <2>6, ConcatIs
        <4> QED
          BY <2>5, <2>7, <4>1 DEF Concats, l
      <3>5. Len(u) + Len(a) <= Len(d)
        BY <3>3, <3>4 DEF d
      <3>6. \A i \in 1..Len(old) : file[i] = full[i]
        BY <2>6, <2>12, <2>18, <2>20, <3>4, <3>5
      <3>7. file = full
        BY <2>12, <2>13, <2>19, <3>6, SameSeq
      <3> QED
        BY <3>7 DEF Holds, full
    <2> QED
      BY <2>23, <2>24
  <1> QED
    BY <1>1, <1>3, <1>4 DEF Holds

\* Lines that are only added stand behind the length of the directory entry, and are
\* lost with the cut.
LEMMA AddingIsAtomic ==
    ASSUME TypeOK, NEW done, NEW old, IsCut(done, old), OnlyAdds
    PROVE  Holds(file, saved)
  <1> DEFINE d == Flat(done)
             p == Text(saved)
             n == Len(saved)
  <1>1. /\ UnderWay(done, old) /\ file = Kept(d, old) /\ Holds(old, saved)
        /\ old \in Seq(Cells) /\ Len(old) = length
    BY DEF IsCut, UnderWay
  <1>2. status \in Seq(Entry) /\ saved \in Seq(Entry) /\ length \in Nat /\ n \in Nat
    BY DEF TypeOK
  <1>3. n <= Len(status) /\ saved = SubSeq(status, 1, n) /\ length = Len(p)
    <2>1. SubSeq(saved, 1, Len(saved)) = saved
      BY <1>2, SubSeqFull
    <2> QED
      BY <2>1 DEF OnlyAdds, Seqs!IsPrefix
  <1>4. p \in Seq(Cells) /\ Text(status) \in Seq(Cells)
    BY <1>2, TextIs
  <1>5. PICK rest \in Seq(Cells) : Text(status) = p \o rest
    <2>1. n \in 0..Len(status)
      BY <1>2, <1>3
    <2>2. \E rest \in Seq(Cells) : Text(status) = Text(SubSeq(status, 1, n)) \o rest
      BY <1>2, <2>1, TextSplits
    <2> QED
      BY <1>3, <2>2
  <1>6. PICK zeros \in Seq({Zero}) : d \o Flat(pending) = Text(status) \o zeros
    BY <1>1, WrittenPart
  <1>7. d \in Seq(Cells) /\ Flat(pending) \in Seq(Cells) /\ Len(d) \in Nat
    BY <1>1, WrittenPart, FlatDoes DEF UnderWay
  <1> HIDE DEF d, n, p
  <1>8. \A i \in 1..Len(d) : i <= Len(p) => d[i] = p[i]
    <2>1. zeros \in Seq(Cells)
      BY LinesOfZeros
    <2>2. Associates(p, rest, zeros)
      BY <1>4, <2>1, ConcatAssociates
    <2>3. rest \o zeros \in Seq(Cells)
      BY <2>1, ConcatDoes
    <2> DEFINE tail == rest \o zeros
    <2>4. d \o Flat(pending) = p \o tail
      BY <1>5, <1>6, <2>2, Zenon DEF Associates
    <2> HIDE DEF tail
    <2> QED
      BY <1>4, <1>7, <2>3, <2>4, SamePrefix DEF tail
  <1>9. file \in Seq(Cells) /\ Len(file) = length
    BY <1>1, <1>7, TornDoes
  <1>10. CASE old = <<>> /\ saved = <<>>
    <2>1. Len(old) = 0
      BY <1>10
    <2>2. file = <<>>
      BY <1>1, <1>9, <2>1
    <2> QED
      BY <1>10, <2>2 DEF Holds
  <1>11. ASSUME NEW zs \in Seq({Zero}), old = p \o zs
         PROVE  Holds(file, saved)
    <2>1. zs \in Seq(Cells)
      BY LinesOfZeros
    <2>2. Concats(Cells, old, p, zs)
      BY <1>4, <1>11, <2>1, ConcatIs
    <2>3. /\ Len(old) = Len(p) /\ Len(p) \in Nat
          /\ \A i \in 1..Len(p) : old[i] = p[i]
      BY <1>1, <1>3, <2>2 DEF Concats
    <2>4. \A i \in 1..Len(old) : file[i] = IF i <= Len(d) THEN d[i] ELSE old[i]
      BY <1>1 DEF Kept
    <2>5. \A i \in 1..Len(old) : file[i] = old[i]
      BY <1>7, <1>8, <2>3, <2>4
    <2>6. file = old
      BY <1>1, <1>9, <2>5, SameSeq
    <2> QED
      BY <1>1, <2>6
  <1> QED
    BY <1>1, <1>10, <1>11 DEF Holds, p

\* A save that changes one field into one as long, or only adds a line to a file that
\* is not padded, is atomic under power loss: the next boot reads the status before it or
\* the one after.
THEOREM AtomicUnlessShiftedAlways == Spec => []AtomicUnlessShifted
  <1>1. IInv => AtomicUnlessShifted
    <2> SUFFICES ASSUME IInv, phase = "off", cut = "one", OneWriteDiffers \/ OnlyAdds
                 PROVE  Readable(file) /\ Parse(file) \in {saved, status}
      BY DEF AtomicUnlessShifted
    <2>1. TypeOK /\ saved \in Seq(Entry) /\ status \in Seq(Entry)
      BY DEF IInv, TypeOK
    <2>2. CASE IsRead
      BY <2>2 DEF IsRead
    <2>3. ASSUME NEW done, NEW old, IsCut(done, old)
          PROVE  Readable(file) /\ Parse(file) \in {saved, status}
      <3>1. Holds(file, saved) \/ Holds(file, status)
        BY <2>1, <2>3, OneWriteIsAtomic, AddingIsAtomic
      <3> QED
        BY <2>1, <3>1, HoldsReads
    <2> QED
      BY <2>2, <2>3 DEF IInv
  <1> QED
    BY <1>1, Inductive, PTL
=============================================================================
