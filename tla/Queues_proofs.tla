--------------------------- MODULE Queues_proofs ----------------------------
(***************************************************************************)
(* What is true of every queue: of its head and its tail, of one more at   *)
(* its end, and of what is kept of it.                                     *)
(***************************************************************************)
EXTENDS Queues, Integers, SequenceTheorems, WellFoundedInduction, TLAPS

\* Induction for a set of numbers.
LEMMA Counting ==
  ASSUME NEW P, 0 \in P, \A n \in Nat : n \in P => n + 1 \in P
  PROVE  \A n \in Nat : n \in P
<1> SUFFICES ASSUME NEW k \in Nat, k \notin P PROVE FALSE
  OBVIOUS
<1> DEFINE T == {n \in Nat : n \notin P}
<1>1. PICK m \in T : \A y \in T : ~(<<y, m>> \in OpToRel(<, Nat))
  <2>1. T \subseteq Nat /\ T # {}
    OBVIOUS
  <2> HIDE DEF T
  <2> QED BY <2>1, NatLessThanWellFounded, WFMin
<1>2. m \in Nat /\ m \notin P
  BY <1>1
<1>3. m # 0
  BY <1>2
<1>4. m - 1 \in Nat /\ m - 1 < m /\ m = (m - 1) + 1
  BY <1>2, <1>3
<1>5. <<m - 1, m>> \in OpToRel(<, Nat)
  BY <1>2, <1>4 DEF OpToRel
<1>6. m - 1 \in P
  BY <1>1, <1>4, <1>5
<1> DEFINE p == m - 1
<1>7. p \in Nat /\ p \in P /\ m = p + 1
  BY <1>4, <1>6
<1> HIDE DEF p
<1>8. p + 1 \in P
  BY <1>7
<1> QED BY <1>2, <1>7, <1>8

\* What is left of a queue when its head is taken.
LEMMA TailIs ==
  ASSUME NEW S, NEW q \in Seq(S), q # <<>>
  PROVE  /\ Len(q) \in Nat /\ Len(q) >= 1 /\ 1 \in 1..Len(q) /\ DOMAIN q = 1..Len(q)
         /\ Head(q) = q[1] /\ Head(q) \in S
         /\ Tail(q) \in Seq(S) /\ Len(Tail(q)) = Len(q) - 1
         /\ DOMAIN Tail(q) = 1..(Len(q) - 1)
         /\ \A i \in 1..(Len(q) - 1) : Tail(q)[i] = q[i + 1]
         /\ Tail(q) = <<>> <=> Len(q) = 1
<1>1. Len(q) \in Nat /\ Len(q) # 0 /\ DOMAIN q = 1..Len(q)
  <2>1. q # <<>>
    OBVIOUS
  <2>2. Len(q) \in Nat \ {0}
    BY <2>1, EmptySeq, Zenon
  <2> QED BY <2>2, LenProperties
<1>2. /\ Head(q) \in S /\ Tail(q) \in Seq(S)
      /\ Len(Tail(q)) = Len(q) - 1
      /\ \A i \in 1..Len(Tail(q)) : Tail(q)[i] = q[i + 1]
  <2>1. q # <<>>
    OBVIOUS
  <2> QED BY <2>1, HeadTailProperties, Zenon
<1>3. Head(q) = q[1]
  BY <1>1
<1>4. DOMAIN Tail(q) = 1..Len(Tail(q))
  BY <1>2, LenProperties, Zenon
<1>a. Len(Tail(q)) = 0 => Len(q) = 1
  <2>1. \A m, n \in Int : m = n - 1 /\ m = 0 => n = 1
    OBVIOUS
  <2>2. Len(q) \in Int /\ Len(Tail(q)) \in Int
    BY <1>1, <1>2
  <2> QED BY <1>2, <2>1, <2>2, Zenon
<1>5. ASSUME Tail(q) = <<>> PROVE Len(q) = 1
  <2>1. Len(Tail(q)) = 0
    BY <1>2, <1>5, EmptySeq, Zenon
  <2> QED BY <1>a, <2>1, Zenon
<1>6. ASSUME Len(q) = 1 PROVE Tail(q) = <<>>
  <2>1. Len(Tail(q)) = 0
    BY <1>2, <1>6
  <2>2. Len(Tail(q)) \notin Nat \ {0}
    BY <2>1
  <2>3. \A seq \in Seq(S) : (seq # <<>>) => (Len(seq) \in Nat \ {0})
    BY EmptySeq, Zenon
  <2> QED BY <1>2, <2>2, <2>3
<1> QED BY <1>1, <1>2, <1>3, <1>4, <1>5, <1>6

\* What a queue is with one more at its end.
LEMMA AppendIs ==
  ASSUME NEW S, NEW q \in Seq(S), NEW x \in S
  PROVE  /\ Len(q) \in Nat /\ Append(q, x) \in Seq(S) /\ Len(Append(q, x)) = Len(q) + 1
         /\ Append(q, x) # <<>> /\ DOMAIN q = 1..Len(q)
         /\ DOMAIN Append(q, x) = 1..(Len(q) + 1)
         /\ \A i \in 1..Len(q) : Append(q, x)[i] = q[i]
         /\ Append(q, x)[Len(q) + 1] = x
<1>1. Len(q) \in Nat /\ DOMAIN q = 1..Len(q)
  BY LenProperties
<1>2. /\ Append(q, x) \in Seq(S) /\ Append(q, x) # <<>>
      /\ Len(Append(q, x)) = Len(q) + 1
      /\ \A i \in 1..Len(q) : Append(q, x)[i] = q[i]
      /\ Append(q, x)[Len(q) + 1] = x
  BY <1>1, AppendProperties
<1>3. DOMAIN Append(q, x) = 1..Len(Append(q, x))
  BY <1>2, LenProperties, Zenon
<1>4. DOMAIN Append(q, x) = 1..(Len(q) + 1)
  BY <1>2, <1>3, Zenon
<1> QED BY <1>1, <1>2, <1>4, Zenon

\* A queue of one
LEMMA OneIs ==
  ASSUME NEW S, NEW x \in S
  PROVE  <<x>> \in Seq(S) /\ Len(<<x>>) = 1 /\ <<x>>[1] = x /\ <<x>> # <<>>
<1>1. <<x>> \in Seq(S) /\ Len(<<x>>) = 1 /\ <<x>>[1] = x
  OBVIOUS
<1>2. <<x>> # <<>>
  BY <1>1, EmptySeq
<1> QED BY <1>1, <1>2

\* A queue of one is its only element's.
LEMMA OnlyOneIs ==
  ASSUME NEW S, NEW q \in Seq(S), Len(q) = 1
  PROVE  q = <<q[1]>>
<1>1. q \in [1..1 -> S]
  BY LenProperties
<1>2. <<q[1]>> \in [1..1 -> S]
  BY <1>1
<1>3. \A i \in 1..1 : q[i] = <<q[1]>>[i]
  OBVIOUS
<1> QED BY <1>1, <1>2, <1>3

\* A queue of two
LEMMA TwoIs ==
  ASSUME NEW S, NEW x \in S, NEW y \in S
  PROVE  <<x, y>> \in Seq(S) /\ Len(<<x, y>>) = 2 /\ <<x, y>>[1] = x /\ <<x, y>>[2] = y
         /\ <<x, y>> # <<>>
<1>1. <<x, y>> \in Seq(S) /\ Len(<<x, y>>) = 2 /\ <<x, y>>[1] = x /\ <<x, y>>[2] = y
  OBVIOUS
<1>2. <<x, y>> # <<>>
  BY <1>1, EmptySeq
<1> QED BY <1>1, <1>2

---------------------------------------------------------------------------
(* What is kept *)

\* What is kept of the first N elements, as Keeping counts them
KeptFrom(f, q, S, N) ==
  f = [n \in 0..N |-> IF n = 0 THEN <<>>
                      ELSE IF q[n] \in S THEN Append(f[n - 1], q[n])
                      ELSE f[n - 1]]

\* What is kept of the first elements can be said for any number of them.
LEMMA KeptExists ==
  ASSUME NEW q, NEW S
  PROVE  \A N \in Nat : \E f : KeptFrom(f, q, S, N)
<1> DEFINE P == {N \in Nat : \E f : KeptFrom(f, q, S, N)}
<1>1. 0 \in P
  <2>1. KeptFrom([n \in 0..0 |-> <<>>], q, S, 0)
    BY DEF KeptFrom
  <2> QED BY <2>1
<1>2. ASSUME NEW N \in Nat, N \in P PROVE N + 1 \in P
  <2>1. PICK f : KeptFrom(f, q, S, N)
    BY <1>2
  <2> DEFINE last == IF q[N + 1] \in S THEN Append(f[N], q[N + 1]) ELSE f[N]
             g == [n \in 0..(N + 1) |-> IF n = N + 1 THEN last ELSE f[n]]
  <2>2. ASSUME NEW n \in 0..(N + 1)
        PROVE  g[n] = IF n = 0 THEN <<>>
                      ELSE IF q[n] \in S THEN Append(g[n - 1], q[n])
                      ELSE g[n - 1]
    <3>1. CASE n = N + 1
      <4>1. g[n] = last /\ g[n - 1] = f[N] /\ n # 0
        BY <3>1
      <4> QED BY <3>1, <4>1
    <3>2. CASE n # N + 1
      <4>1. n \in 0..N /\ g[n] = f[n] /\ (n # 0 => g[n - 1] = f[n - 1])
        BY <3>2
      <4> QED BY <2>1, <4>1 DEF KeptFrom
    <3> QED BY <3>1, <3>2
  <2>3. KeptFrom(g, q, S, N + 1)
    BY <2>2 DEF KeptFrom
  <2> QED BY <2>3
<1> HIDE DEF P
<1>3. \A N \in Nat : N \in P
  BY <1>1, <1>2, Counting
<1> QED BY <1>3 DEF P

\* r is what is kept of the first n elements of q: the members of S among them, each
\* two in the order of two places of q.
KeptSoFar(r, q, S, n) ==
  /\ Len(r) <= n
  /\ \A i \in 1..Len(r) : r[i] \in S /\ \E k \in 1..n : r[i] = q[k]
  /\ \A k \in 1..n : q[k] \in S => \E i \in 1..Len(r) : r[i] = q[k]
  /\ \A i, j \in 1..Len(r) : i < j => \E k, l \in 1..n : k < l /\ r[i] = q[k] /\ r[j] = q[l]

\* One element more: kept
LEMMA KeepsOne ==
  ASSUME NEW T, NEW q \in Seq(T), NEW S, NEW n \in Nat, n + 1 <= Len(q),
         NEW r \in Seq(T), KeptSoFar(r, q, S, n), q[n + 1] \in S
  PROVE  Append(r, q[n + 1]) \in Seq(T) /\ KeptSoFar(Append(r, q[n + 1]), q, S, n + 1)
<1> DEFINE x == q[n + 1]
           a == Append(r, x)
           m == Len(r)
<1>1. n + 1 \in 1..Len(q) /\ x \in T
  BY LenProperties
<1>2. /\ m \in Nat /\ a \in Seq(T) /\ Len(a) = m + 1
      /\ \A i \in 1..m : a[i] = r[i]
      /\ a[m + 1] = x
  BY <1>1, AppendIs
<1>3. x = q[n + 1] /\ x \in S
  OBVIOUS
<1>4. /\ m <= n
      /\ \A i \in 1..m : r[i] \in S /\ \E k \in 1..n : r[i] = q[k]
      /\ \A k \in 1..n : q[k] \in S => \E i \in 1..m : r[i] = q[k]
      /\ \A i, j \in 1..m : i < j => \E k, l \in 1..n : k < l /\ r[i] = q[k] /\ r[j] = q[l]
  BY DEF KeptSoFar
<1> HIDE DEF x, a, m
<1>5. \A i \in 1..(m + 1) : i \in 1..m \/ i = m + 1
  BY <1>2
<1>6. \A k \in 1..(n + 1) : k \in 1..n \/ k = n + 1
  OBVIOUS
<1>7. 1..n \subseteq 1..(n + 1) /\ n + 1 \in 1..(n + 1)
      /\ 1..m \subseteq 1..(m + 1) /\ m + 1 \in 1..(m + 1)
  BY <1>2
<1>8. m + 1 <= n + 1
  BY <1>2, <1>4
<1>9. ASSUME NEW i \in 1..(m + 1)
      PROVE  a[i] \in S /\ \E k \in 1..(n + 1) : a[i] = q[k]
  <2>1. CASE i \in 1..m
    <3>1. a[i] = r[i] /\ r[i] \in S
      BY <1>2, <1>4, <2>1
    <3>2. PICK k \in 1..n : r[i] = q[k]
      BY <1>4, <2>1
    <3>3. k \in 1..(n + 1)
      BY <1>7
    <3> QED BY <3>1, <3>2, <3>3
  <2>2. CASE i = m + 1
    BY <1>2, <1>3, <1>7, <2>2
  <2> QED BY <1>5, <2>1, <2>2
<1>10. ASSUME NEW k \in 1..(n + 1), q[k] \in S
       PROVE  \E i \in 1..(m + 1) : a[i] = q[k]
  <2>1. CASE k \in 1..n
    <3>1. PICK i \in 1..m : r[i] = q[k]
      BY <1>4, <1>10, <2>1
    <3>2. a[i] = q[k] /\ i \in 1..(m + 1)
      BY <1>2, <1>7, <3>1
    <3> QED BY <3>2
  <2>2. CASE k = n + 1
    <3>1. a[m + 1] = q[k]
      BY <1>2, <1>3, <2>2
    <3> QED BY <1>7, <3>1
  <2> QED BY <1>6, <2>1, <2>2
<1>11. ASSUME NEW i \in 1..(m + 1), NEW j \in 1..(m + 1), i < j
       PROVE  \E k, l \in 1..(n + 1) : k < l /\ a[i] = q[k] /\ a[j] = q[l]
  <2>1. i \in 1..m
    BY <1>2, <1>11
  <2>2. CASE j \in 1..m
    <3>1. PICK k \in 1..n, l \in 1..n : k < l /\ r[i] = q[k] /\ r[j] = q[l]
      BY <1>4, <1>11, <2>1, <2>2
    <3>2. a[i] = r[i] /\ a[j] = r[j]
      BY <1>2, <2>1, <2>2
    <3>3. k \in 1..(n + 1) /\ l \in 1..(n + 1)
      BY <1>7
    <3> QED BY <3>1, <3>2, <3>3
  <2>3. CASE j = m + 1
    <3>1. PICK k \in 1..n : r[i] = q[k]
      BY <1>4, <2>1
    <3>2. k < n + 1 /\ k \in 1..(n + 1)
      OBVIOUS
    <3> QED BY <1>2, <1>3, <1>7, <2>1, <2>3, <3>1, <3>2
  <2> QED BY <1>5, <2>2, <2>3
<1>12. KeptSoFar(a, q, S, n + 1)
  <2>1. Len(a) = m + 1
    BY <1>2
  <2>2. Len(a) <= n + 1
    BY <1>8, <2>1
  <2>3. \A i \in 1..Len(a) : a[i] \in S /\ \E k \in 1..(n + 1) : a[i] = q[k]
    BY <1>9, <2>1
  <2>4. \A k \in 1..(n + 1) : q[k] \in S => \E i \in 1..Len(a) : a[i] = q[k]
    BY <1>10, <2>1
  <2>5. \A i, j \in 1..Len(a) : i < j =>
          \E k, l \in 1..(n + 1) : k < l /\ a[i] = q[k] /\ a[j] = q[l]
    BY <1>11, <2>1
  <2> QED BY <2>2, <2>3, <2>4, <2>5, Zenon DEF KeptSoFar
<1> QED BY <1>2, <1>12 DEF a, x

\* One element more: not kept
LEMMA PassesOne ==
  ASSUME NEW q, NEW S, NEW n \in Nat, NEW r, Len(r) \in Nat,
         KeptSoFar(r, q, S, n), q[n + 1] \notin S
  PROVE  KeptSoFar(r, q, S, n + 1)
<1>1. \A k \in 1..(n + 1) : k \in 1..n \/ k = n + 1
  OBVIOUS
<1>2. 1..n \subseteq 1..(n + 1)
  OBVIOUS
<1>3. Len(r) <= n + 1
  BY DEF KeptSoFar
<1>4. \A i \in 1..Len(r) : r[i] \in S /\ \E k \in 1..(n + 1) : r[i] = q[k]
  BY <1>2 DEF KeptSoFar
<1>5. \A k \in 1..(n + 1) : q[k] \in S => \E i \in 1..Len(r) : r[i] = q[k]
  BY <1>1 DEF KeptSoFar
<1>6. ASSUME NEW i \in 1..Len(r), NEW j \in 1..Len(r), i < j
      PROVE  \E k, l \in 1..(n + 1) : k < l /\ r[i] = q[k] /\ r[j] = q[l]
  <2>1. PICK k \in 1..n, l \in 1..n : k < l /\ r[i] = q[k] /\ r[j] = q[l]
    BY <1>6 DEF KeptSoFar
  <2>2. k \in 1..(n + 1) /\ l \in 1..(n + 1)
    BY <1>2
  <2> QED BY <2>1, <2>2
<1> QED BY <1>3, <1>4, <1>5, <1>6 DEF KeptSoFar

\* What is kept of a queue are the members of S in it, in its order.
LEMMA KeptIs ==
  ASSUME NEW T, NEW q \in Seq(T), NEW S
  PROVE  Keeping(q, S) \in Seq(T) /\ KeptSoFar(Keeping(q, S), q, S, Len(q))
<1> DEFINE N == Len(q)
           f == CHOOSE g : KeptFrom(g, q, S, N)
<1>1. N \in Nat
  OBVIOUS
<1>2. Keeping(q, S) = f[N]
  BY DEF Keeping, KeptFrom
<1>3. KeptFrom(f, q, S, N)
  BY <1>1, KeptExists
<1> HIDE DEF f
<1> DEFINE P == {n \in Nat : n <= N => f[n] \in Seq(T) /\ KeptSoFar(f[n], q, S, n)}
<1>4. 0 \in P
  <2>1. f[0] = <<>>
    BY <1>1, <1>3 DEF KeptFrom
  <2>2. KeptSoFar(<<>>, q, S, 0)
    BY DEF KeptSoFar
  <2>3. <<>> \in Seq(T)
    OBVIOUS
  <2>4. f[0] \in Seq(T) /\ KeptSoFar(f[0], q, S, 0)
    BY <2>1, <2>2, <2>3, Zenon
  <2> QED BY <2>4
<1>5. ASSUME NEW n \in Nat, n \in P PROVE n + 1 \in P
  <2> SUFFICES ASSUME n + 1 <= N
               PROVE  f[n + 1] \in Seq(T) /\ KeptSoFar(f[n + 1], q, S, n + 1)
    OBVIOUS
  <2>1. f[n] \in Seq(T) /\ KeptSoFar(f[n], q, S, n) /\ n + 1 \in 0..N
    BY <1>1, <1>5
  <2>2. f[n + 1] = IF q[n + 1] \in S THEN Append(f[n], q[n + 1]) ELSE f[n]
    <3>1. \A k \in 0..N : f[k] = IF k = 0 THEN <<>>
            ELSE IF q[k] \in S THEN Append(f[k - 1], q[k])
            ELSE f[k - 1]
      BY <1>3 DEF KeptFrom
    <3>2. n + 1 # 0 /\ (n + 1) - 1 = n
      OBVIOUS
    <3> QED BY <2>1, <3>1, <3>2
  <2> DEFINE s == f[n]
  <2>3. s \in Seq(T) /\ KeptSoFar(s, q, S, n)
    BY <2>1
  <2>4. f[n + 1] = IF q[n + 1] \in S THEN Append(s, q[n + 1]) ELSE s
    BY <2>2
  <2> HIDE DEF s
  <2>5. CASE q[n + 1] \in S
    BY <2>3, <2>4, <2>5, KeepsOne
  <2>6. CASE q[n + 1] \notin S
    <3>1. Len(s) \in Nat
      BY <2>3
    <3>2. KeptSoFar(s, q, S, n + 1)
      BY <2>3, <2>6, <3>1, PassesOne
    <3> QED BY <2>3, <2>4, <2>6, <3>2
  <2> QED BY <2>5, <2>6
<1> HIDE DEF P
<1>6. N \in P
  BY <1>1, <1>4, <1>5, Counting
<1> QED BY <1>1, <1>2, <1>6 DEF P, N

---------------------------------------------------------------------------
(* Lists that name nothing twice *)

Elements(q) == {q[i] : i \in DOMAIN q}

\* No element is twice in q.
Once(q) == \A i, j \in 1..Len(q) : i < j => q[i] # q[j]

\* The same, place by place
LEMMA OnceIsInjective ==
  ASSUME NEW T, NEW q \in Seq(T)
  PROVE  Once(q) <=> \A i, j \in DOMAIN q : q[i] = q[j] => i = j
<1>1. DOMAIN q = 1..Len(q) /\ Len(q) \in Nat
  BY LenProperties
<1> QED BY <1>1 DEF Once

\* Of a list, what is kept are its elements in S; nothing is kept twice of a list that has
\* nothing twice.
LEMMA KeptKeeps ==
  ASSUME NEW T, NEW q \in Seq(T), NEW S
  PROVE  /\ Keeping(q, S) \in Seq(T)
         /\ Elements(Keeping(q, S)) = Elements(q) \cap S
         /\ Once(q) => Once(Keeping(q, S))
<1> DEFINE r == Keeping(q, S)
<1>1. r \in Seq(T) /\ KeptSoFar(r, q, S, Len(q))
  BY KeptIs
<1> HIDE DEF r
<1>2. Len(r) \in Nat /\ DOMAIN r = 1..Len(r) /\ DOMAIN q = 1..Len(q) /\ Len(q) \in Nat
  BY <1>1, LenProperties
<1>3. Elements(r) = Elements(q) \cap S
  <2>1. ASSUME NEW i \in 1..Len(r) PROVE r[i] \in Elements(q) \cap S
    BY <1>1, <1>2 DEF KeptSoFar, Elements
  <2>2. ASSUME NEW k \in 1..Len(q), q[k] \in S PROVE q[k] \in Elements(r)
    BY <1>1, <1>2, <2>2 DEF KeptSoFar, Elements
  <2> QED BY <1>2, <2>1, <2>2 DEF Elements
<1>4. Once(q) => Once(r)
  BY <1>1, <1>2 DEF KeptSoFar, Once
<1> QED BY <1>1, <1>3, <1>4 DEF r

\* A list sorted by its numbers stays sorted.
LEMMA KeptIsSorted ==
  ASSUME NEW q \in Seq(Nat), NEW S, \A i, j \in 1..Len(q) : i < j => q[i] < q[j]
  PROVE  \A i, j \in 1..Len(Keeping(q, S)) : i < j => Keeping(q, S)[i] < Keeping(q, S)[j]
BY KeptIs DEF KeptSoFar

\* The same of what is not dropped
LEMMA DroppedKeeps ==
  ASSUME NEW T, NEW q \in Seq(T), NEW S
  PROVE  /\ Without(q, S) \in Seq(T)
         /\ Elements(Without(q, S)) = Elements(q) \ S
         /\ Once(q) => Once(Without(q, S))
<1> DEFINE U == Elements(q) \ S
<1>1. Elements(q) \ S = Elements(q) \cap U
  OBVIOUS
<1>2. Without(q, S) = Keeping(q, U)
  BY DEF Without, Elements
<1> HIDE DEF U
<1> QED BY <1>1, <1>2, KeptKeeps

LEMMA DroppedIsSorted ==
  ASSUME NEW q \in Seq(Nat), NEW S, \A i, j \in 1..Len(q) : i < j => q[i] < q[j]
  PROVE  \A i, j \in 1..Len(Without(q, S)) : i < j => Without(q, S)[i] < Without(q, S)[j]
BY KeptIsSorted DEF Without

\* The elements of a list are members of its set.
LEMMA ElementsAre ==
  ASSUME NEW T, NEW q \in Seq(T)
  PROVE  /\ Elements(q) \subseteq T /\ DOMAIN q = 1..Len(q) /\ Len(q) \in Nat
         /\ \A i \in 1..Len(q) : q[i] \in Elements(q)
         /\ \A x \in Elements(q) : \E i \in 1..Len(q) : x = q[i]
         /\ q = <<>> <=> Elements(q) = {}
<1>1. DOMAIN q = 1..Len(q) /\ Len(q) \in Nat /\ \A i \in 1..Len(q) : q[i] \in T
  BY LenProperties
<1>2. q # <<>> => Len(q) \in Nat \ {0}
  BY EmptySeq, Zenon
<1>3. q = <<>> => Elements(q) = {}
  BY DEF Elements
<1>4. q # <<>> => q[1] \in Elements(q)
  BY <1>1, <1>2 DEF Elements
<1> QED BY <1>1, <1>3, <1>4 DEF Elements

\* Two lists end to end
LEMMA ConcatKeeps ==
  ASSUME NEW T, NEW p \in Seq(T), NEW q \in Seq(T)
  PROVE  /\ p \o q \in Seq(T)
         /\ Elements(p \o q) = Elements(p) \cup Elements(q)
         /\ Once(p) /\ Once(q) /\ Elements(p) \cap Elements(q) = {} => Once(p \o q)
<1> DEFINE r == p \o q
           m == Len(p)
           n == Len(q)
<1>1. /\ r \in Seq(T) /\ Len(r) = m + n
      /\ \A i \in 1..(m + n) : r[i] = IF i <= m THEN p[i] ELSE q[i - m]
  BY ConcatProperties
<1>2. /\ DOMAIN p = 1..m /\ m \in Nat
      /\ DOMAIN q = 1..n /\ n \in Nat
      /\ DOMAIN r = 1..Len(r)
  BY <1>1, LenProperties
<1> HIDE DEF r, m, n
<1>3. \A i \in 1..(m + n) : IF i <= m THEN i \in 1..m /\ r[i] = p[i]
                            ELSE i - m \in 1..n /\ r[i] = q[i - m]
  BY <1>1, <1>2
<1>4. \A i \in 1..m : i \in 1..(m + n) /\ r[i] = p[i]
  BY <1>1, <1>2
<1>5. \A i \in 1..n : i + m \in 1..(m + n) /\ r[i + m] = q[i]
  <2> SUFFICES ASSUME NEW i \in 1..n PROVE i + m \in 1..(m + n) /\ r[i + m] = q[i]
    OBVIOUS
  <2>1. i + m \in 1..(m + n) /\ ~(i + m <= m) /\ (i + m) - m = i
    BY <1>2
  <2> QED BY <1>1, <2>1
<1>6. Elements(r) = Elements(p) \cup Elements(q)
  <2>1. ASSUME NEW i \in 1..(m + n) PROVE r[i] \in Elements(p) \cup Elements(q)
    BY <1>2, <1>3 DEF Elements
  <2>2. ASSUME NEW i \in 1..m PROVE p[i] \in Elements(r)
    BY <1>1, <1>2, <1>4 DEF Elements
  <2>3. ASSUME NEW i \in 1..n PROVE q[i] \in Elements(r)
    BY <1>1, <1>2, <1>5 DEF Elements
  <2> QED BY <1>1, <1>2, <2>1, <2>2, <2>3 DEF Elements
<1>7. ASSUME Once(p), Once(q), Elements(p) \cap Elements(q) = {},
             NEW i \in 1..(m + n), NEW j \in 1..(m + n), i < j
      PROVE  r[i] # r[j]
  <2>1. CASE j <= m
    <3>1. i <= m
      BY <1>2, <1>7, <2>1
    <3> QED BY <1>3, <1>7, <2>1, <3>1 DEF Once, m
  <2>2. CASE i <= m /\ ~(j <= m)
    <3>1. r[i] \in Elements(p) /\ r[j] \in Elements(q)
      BY <1>2, <1>3, <2>2 DEF Elements
    <3> QED BY <1>7, <3>1
  <2>3. CASE ~(i <= m) /\ ~(j <= m)
    <3>1. i - m \in 1..n /\ j - m \in 1..n /\ r[i] = q[i - m] /\ r[j] = q[j - m]
      BY <1>3, <2>3
    <3>2. i - m < j - m
      BY <1>2, <1>7
    <3> QED BY <1>7, <3>1, <3>2 DEF Once, n
  <2> QED BY <2>1, <2>2, <2>3
<1>8. Once(p) /\ Once(q) /\ Elements(p) \cap Elements(q) = {} => Once(r)
  BY <1>1, <1>7 DEF Once
<1> QED BY <1>1, <1>6, <1>8 DEF r

\* One element
LEMMA OneKeeps ==
  ASSUME NEW T, NEW x \in T
  PROVE  <<x>> \in Seq(T) /\ Elements(<<x>>) = {x} /\ Once(<<x>>)
<1>1. <<x>> \in Seq(T) /\ Len(<<x>>) = 1 /\ <<x>>[1] = x /\ DOMAIN <<x>> = 1..1
  OBVIOUS
<1>2. Elements(<<x>>) = {x}
  BY <1>1 DEF Elements
<1>3. Once(<<x>>)
  BY <1>1 DEF Once
<1> QED BY <1>1, <1>2, <1>3

\* One element more, in front
LEMMA PushKeeps ==
  ASSUME NEW T, NEW q \in Seq(T), NEW x \in T
  PROVE  /\ <<x>> \o q \in Seq(T) /\ Elements(<<x>> \o q) = Elements(q) \cup {x}
         /\ Once(q) /\ x \notin Elements(q) => Once(<<x>> \o q)
<1>1. <<x>> \in Seq(T) /\ Elements(<<x>>) = {x} /\ Once(<<x>>)
  BY OneKeeps
<1>2. /\ <<x>> \o q \in Seq(T)
      /\ Elements(<<x>> \o q) = Elements(<<x>>) \cup Elements(q)
      /\ Once(<<x>>) /\ Once(q) /\ Elements(<<x>>) \cap Elements(q) = {} => Once(<<x>> \o q)
  BY <1>1, ConcatKeeps
<1> QED BY <1>1, <1>2

\* One element more, at the end
LEMMA AppendKeeps ==
  ASSUME NEW T, NEW q \in Seq(T), NEW x \in T
  PROVE  /\ Append(q, x) \in Seq(T) /\ Elements(Append(q, x)) = Elements(q) \cup {x}
         /\ Once(q) /\ x \notin Elements(q) => Once(Append(q, x))
<1> DEFINE a == Append(q, x)
           m == Len(q)
<1>1. /\ m \in Nat /\ a \in Seq(T) /\ Len(a) = m + 1 /\ DOMAIN q = 1..m
      /\ DOMAIN a = 1..(m + 1) /\ a[m + 1] = x
      /\ \A i \in 1..m : a[i] = q[i]
  BY AppendIs
<1> HIDE DEF a, m
<1>2. \A i \in 1..(m + 1) : i \in 1..m \/ i = m + 1
  BY <1>1
<1>3. 1..m \subseteq 1..(m + 1) /\ m + 1 \in 1..(m + 1)
  BY <1>1
<1>4. Elements(a) = Elements(q) \cup {x}
  BY <1>1, <1>2, <1>3 DEF Elements
<1>5. ASSUME Once(q), x \notin Elements(q), NEW i \in 1..(m + 1), NEW j \in 1..(m + 1), i < j
      PROVE  a[i] # a[j]
  <2>1. i \in 1..m
    BY <1>1, <1>5
  <2>2. a[i] = q[i] /\ q[i] \in Elements(q)
    BY <1>1, <2>1 DEF Elements
  <2>3. CASE j \in 1..m
    BY <1>1, <1>5, <2>1, <2>2, <2>3 DEF Once, m
  <2>4. CASE j = m + 1
    BY <1>1, <1>5, <2>2, <2>4
  <2> QED BY <1>2, <2>3, <2>4
<1> QED BY <1>1, <1>4, <1>5 DEF Once, a

\* The places from a to b
LEMMA SliceIs ==
  ASSUME NEW T, NEW q, NEW a \in Int, NEW b \in Int, a <= b + 1,
         \A k \in a..b : q[k] \in T
  PROVE  /\ SubSeq(q, a, b) \in Seq(T) /\ Len(SubSeq(q, a, b)) = b + 1 - a
         /\ \A k \in 1..(b + 1 - a) : SubSeq(q, a, b)[k] = q[k + a - 1]
<1> DEFINE r == SubSeq(q, a, b)
<1>1. /\ r \in Seq(T)
      /\ Len(r) = IF a <= b THEN b - a + 1 ELSE 0
      /\ \A k \in 1..(b - a + 1) : r[k] = q[a + k - 1]
  BY SubSeqProperties
<1> HIDE DEF r
<1>2. Len(r) = b + 1 - a
  BY <1>1
<1>3. ASSUME NEW k \in 1..(b + 1 - a) PROVE r[k] = q[k + a - 1]
  <2>1. k \in 1..(b - a + 1) /\ a + k - 1 = k + a - 1
    OBVIOUS
  <2> QED BY <1>1, <2>1
<1> QED BY <1>1, <1>2, <1>3 DEF r

\* A list up to a place and from it on
LEMMA SplitKeeps ==
  ASSUME NEW T, NEW q \in Seq(T), NEW i \in 1..(Len(q) + 1)
  PROVE  LET lo == SubSeq(q, 1, i - 1)
             hi == SubSeq(q, i, Len(q))
         IN /\ lo \in Seq(T) /\ hi \in Seq(T)
            /\ Elements(lo) \cup Elements(hi) = Elements(q)
            /\ Once(q) => /\ Once(lo) /\ Once(hi)
                          /\ Elements(lo) \cap Elements(hi) = {}
<1> DEFINE lo == SubSeq(q, 1, i - 1)
           hi == SubSeq(q, i, Len(q))
           n == Len(q)
<1>1. n \in Nat /\ DOMAIN q = 1..n /\ \A k \in 1..n : q[k] \in T
  BY LenProperties
<1>2. i \in Nat /\ i >= 1 /\ i <= n + 1
  BY <1>1
<1>3. /\ lo \in Seq(T) /\ Len(lo) = i - 1
      /\ \A k \in 1..(i - 1) : lo[k] = q[k]
  <2>1. \A k \in 1..(i - 1) : q[k] \in T
    BY <1>1, <1>2
  <2>2. 1 \in Int /\ i - 1 \in Int /\ 1 <= (i - 1) + 1
    BY <1>2
  <2>3. /\ lo \in Seq(T) /\ Len(lo) = (i - 1) + 1 - 1
        /\ \A k \in 1..((i - 1) + 1 - 1) : lo[k] = q[k + 1 - 1]
    BY <2>1, <2>2, SliceIs
  <2>4. (i - 1) + 1 - 1 = i - 1 /\ \A k \in 1..(i - 1) : k + 1 - 1 = k
    BY <1>2
  <2> QED BY <2>3, <2>4
<1>4. /\ hi \in Seq(T) /\ Len(hi) = n + 1 - i
      /\ \A k \in 1..(n + 1 - i) : hi[k] = q[k + i - 1]
  <2>1. \A k \in i..n : q[k] \in T
    BY <1>1, <1>2
  <2>2. i \in Int /\ n \in Int /\ i <= n + 1
    BY <1>1, <1>2
  <2> QED BY <2>1, <2>2, SliceIs
<1>5. DOMAIN lo = 1..Len(lo) /\ DOMAIN hi = 1..Len(hi)
  BY <1>3, <1>4, LenProperties, Zenon
<1> HIDE DEF lo, hi, n
<1>6. \A k \in 1..(i - 1) : k \in 1..n
  BY <1>1, <1>2
<1>7. \A k \in 1..(n + 1 - i) : k + i - 1 \in 1..n /\ k + i - 1 \notin 1..(i - 1)
  BY <1>1, <1>2
<1>8. \A k \in 1..n : IF k < i THEN k \in 1..(i - 1)
                      ELSE k - i + 1 \in 1..(n + 1 - i) /\ (k - i + 1) + i - 1 = k
  BY <1>1, <1>2
<1>9. Elements(lo) \cup Elements(hi) = Elements(q)
  <2>1. ASSUME NEW k \in 1..n PROVE q[k] \in Elements(lo) \cup Elements(hi)
    <3>1. CASE k < i
      BY <1>3, <1>5, <1>8, <3>1 DEF Elements
    <3>2. CASE ~(k < i)
      <4> DEFINE l == k - i + 1
      <4>1. l \in 1..(n + 1 - i) /\ l + i - 1 = k
        BY <1>8, <3>2
      <4> HIDE DEF l
      <4>2. hi[l] = q[k]
        BY <1>4, <4>1
      <4> QED BY <1>4, <1>5, <4>1, <4>2 DEF Elements
    <3> QED BY <3>1, <3>2
  <2>2. ASSUME NEW k \in 1..(i - 1) PROVE lo[k] \in Elements(q)
    BY <1>1, <1>3, <1>6 DEF Elements
  <2>3. ASSUME NEW k \in 1..(n + 1 - i) PROVE hi[k] \in Elements(q)
    BY <1>1, <1>4, <1>7 DEF Elements
  <2>4. Elements(lo) \subseteq Elements(q)
    BY <1>3, <1>5, <2>2 DEF Elements
  <2>5. Elements(hi) \subseteq Elements(q)
    BY <1>4, <1>5, <2>3 DEF Elements
  <2>6. Elements(q) \subseteq Elements(lo) \cup Elements(hi)
    <3> SUFFICES ASSUME NEW x \in Elements(q) PROVE x \in Elements(lo) \cup Elements(hi)
      OBVIOUS
    <3>1. PICK k \in 1..n : x = q[k]
      BY <1>1 DEF Elements
    <3> QED BY <2>1, <3>1
  <2> QED BY <2>4, <2>5, <2>6
<1>10. ASSUME Once(q) PROVE Once(lo)
  BY <1>1, <1>3, <1>6, <1>10 DEF Once, n
<1>11. ASSUME Once(q) PROVE Once(hi)
  <2> SUFFICES ASSUME NEW k \in 1..(n + 1 - i), NEW l \in 1..(n + 1 - i), k < l
               PROVE  hi[k] # hi[l]
    BY <1>4 DEF Once
  <2>1. k + i - 1 \in 1..n /\ l + i - 1 \in 1..n /\ k + i - 1 < l + i - 1
    BY <1>2, <1>7
  <2> QED BY <1>4, <1>11, <2>1 DEF Once, n
<1>12. ASSUME Once(q), NEW x \in Elements(lo), x \in Elements(hi) PROVE FALSE
  <2>1. PICK k \in 1..(i - 1) : x = lo[k]
    BY <1>3, <1>5 DEF Elements
  <2>2. PICK l \in 1..(n + 1 - i) : x = hi[l]
    BY <1>4, <1>5, <1>12 DEF Elements
  <2>3. k \in 1..n /\ l + i - 1 \in 1..n /\ k < l + i - 1
    BY <1>2, <1>6, <1>7
  <2>4. q[k] = q[l + i - 1]
    BY <1>3, <1>4, <2>1, <2>2
  <2> QED BY <1>12, <2>3, <2>4 DEF Once, n
<1> QED BY <1>3, <1>4, <1>9, <1>10, <1>11, <1>12 DEF lo, hi
=============================================================================
