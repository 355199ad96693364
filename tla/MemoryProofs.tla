----------------------------- MODULE MemoryProofs -----------------------------
(***************************************************************************)
(* The context is sound, the conversation has no gaps, and the memory      *)
(* raises only when it must and can always be rebuilt: for every budget,   *)
(* every size of message and any number of messages and crashes.           *)
(***************************************************************************)
EXTENDS Memory, SequenceTheorems, WellFoundedInduction, TLAPS

(***************************************************************************)
(* Induction, by the least number that is an exception.                    *)
(***************************************************************************)

\* A non-empty set of numbers has a least one.
LEMMA Least ==
  ASSUME NEW S \in SUBSET Nat, S # {}
  PROVE  \E n \in S : \A m \in S : n <= m
<1>1. \E R : /\ \A m, n \in Nat : m < n => <<m, n>> \in R
             /\ \E n \in S : \A m \in S : ~(<<m, n>> \in R)
  <2>1. \A m, n \in Nat : m < n => <<m, n>> \in OpToRel(<, Nat)
    BY DEF OpToRel
  <2>2. \E n \in S : \A m \in S : ~(<<m, n>> \in OpToRel(<, Nat))
    BY NatLessThanWellFounded, WFMin, Zenon
  <2> QED
    BY <2>1, <2>2, Zenon
<1>2. PICK R : /\ \A m, n \in Nat : m < n => <<m, n>> \in R
               /\ \E n \in S : \A m \in S : ~(<<m, n>> \in R)
  BY <1>1
<1>3. PICK n \in S : \A m \in S : ~(<<m, n>> \in R)
  BY <1>2
<1>4. ASSUME NEW m \in S
      PROVE  n <= m
  <2>1. m \in Nat /\ n \in Nat /\ ~(m < n)
    BY <1>2, <1>3
  <2> QED
    BY <2>1
<1> QED
  BY <1>4

\* What holds at zero and is handed on holds up to N.
LEMMA Induction ==
  ASSUME NEW N \in Nat, NEW T, 0 \in T,
         \A n \in 0 .. N - 1 : n \in T => n + 1 \in T
  PROVE  0 .. N \subseteq T
<1> SUFFICES ASSUME ~(0 .. N \subseteq T) PROVE FALSE
  OBVIOUS
<1> DEFINE S == {n \in 0 .. N : n \notin T}
<1>1. S \in SUBSET Nat /\ S # {}
  OBVIOUS
<1>2. PICK n \in S : \A m \in S : n <= m
  BY <1>1, Least
<1>3. n # 0 /\ n - 1 \in 0 .. N - 1 /\ n - 1 \notin S
  BY <1>2
<1>4. n - 1 \in T
  BY <1>3
<1> QED
  BY <1>2, <1>3, <1>4

(***************************************************************************)
(* Sums.                                                                   *)
(***************************************************************************)

\* The partial sums of a sequence.
PartialSums(ns, f) ==
  /\ f[0] = 0
  /\ \A n \in 1 .. Len(ns) : f[n] = f[n - 1] + ns[n]

\* Total is the last of the partial sums.
LEMMA TotalDef ==
  ASSUME NEW ns, Len(ns) \in Nat
  PROVE  \E f : PartialSums(ns, f) /\ Total(ns) = f[Len(ns)]
<1> DEFINE N == Len(ns)
           Sum(m, f) == f = [n \in 0 .. m |-> IF n = 0 THEN 0 ELSE f[n - 1] + ns[n]]
           T == {m \in 0 .. N : \E f : Sum(m, f)}
<1>1. 0 \in T
  <2>1. Sum(0, [n \in 0 .. 0 |-> 0])
    OBVIOUS
  <2> HIDE DEF Sum
  <2> QED
    BY <2>1
<1>2. ASSUME NEW m \in 0 .. N - 1, m \in T
      PROVE  m + 1 \in T
  <2>1. PICK f : Sum(m, f)
    BY <1>2
  <2> DEFINE g == [n \in 0 .. m + 1 |-> IF n = m + 1 THEN f[m] + ns[n] ELSE f[n]]
  <2>2. Sum(m + 1, g)
    BY <2>1
  <2> HIDE DEF g, Sum
  <2> QED
    BY <2>2
<1>3. 0 .. N \subseteq T
  <2> HIDE DEF T
  <2> QED
    BY <1>1, <1>2, Induction
<1>4. \E f : Sum(N, f)
  BY <1>3
<1> DEFINE h == CHOOSE f : f = [n \in 0 .. N |-> IF n = 0 THEN 0 ELSE f[n - 1] + ns[n]]
<1>5. Total(ns) = h[N]
  BY Zenon DEF Total
<1>6. Sum(N, h)
  BY <1>4
<1>7. PartialSums(ns, h)
  <2> HIDE DEF h
  <2> QED
    BY <1>6 DEF PartialSums
<1> QED
  BY <1>5, <1>7

\* Sums keep the order.
LEMMA SumOrder ==
  ASSUME NEW a \in Nat, NEW b \in Nat, NEW x \in Nat, NEW y \in Nat, a <= b, x <= y
  PROVE  a + x <= b + y
  OBVIOUS

\* The order of numbers is transitive.
LEMMA OrderTransitive ==
  ASSUME NEW a \in Nat, NEW b \in Nat, NEW x \in Nat, a <= b, b <= x
  PROVE  a <= x
  OBVIOUS

\* Sums of sizes are sizes, and grow.
LEMMA SumsGrow ==
  ASSUME NEW ns \in Seq(Nat), NEW f, PartialSums(ns, f)
  PROVE  /\ \A n \in 0 .. Len(ns) : f[n] \in Nat
         /\ \A m, n \in 0 .. Len(ns) : m <= n => f[m] <= f[n]
<1> DEFINE N == Len(ns)
           T == {n \in 0 .. N : f[n] \in Nat /\ \A m \in 0 .. n : f[m] \in Nat /\ f[m] <= f[n]}
<1>0. N \in Nat /\ \A n \in 1 .. N : ns[n] \in Nat
  OBVIOUS
<1>1. 0 \in T
  BY DEF PartialSums
<1>2. ASSUME NEW n \in 0 .. N - 1, n \in T
      PROVE  n + 1 \in T
  <2>1. f[n + 1] = f[n] + ns[n + 1] /\ ns[n + 1] \in Nat
    BY <1>0 DEF PartialSums
  <2>2. f[n] \in Nat /\ \A m \in 0 .. n : f[m] \in Nat /\ f[m] <= f[n]
    BY <1>2
  <2>3. f[n + 1] \in Nat /\ f[n] <= f[n + 1]
    BY <2>1, <2>2
  <2>4. ASSUME NEW m \in 0 .. n + 1
        PROVE  f[m] \in Nat /\ f[m] <= f[n + 1]
    <3>1. CASE m = n + 1
      BY <2>3, <3>1
    <3>2. CASE m \in 0 .. n
      <4>1. f[m] <= f[n] /\ f[m] \in Nat
        BY <2>2, <3>2
      <4> QED
        BY <2>2, <2>3, <4>1
    <3> QED
      BY <3>1, <3>2
  <2>5. n + 1 \in 0 .. N
    BY <1>0
  <2> QED
    BY <2>3, <2>4, <2>5
<1>3. 0 .. N \subseteq T
  <2> HIDE DEF T, N
  <2> QED
    BY <1>0, <1>1, <1>2, Induction
<1> QED
  BY <1>3

\* A total of sizes is a size.
LEMMA TotalType ==
  ASSUME NEW ns \in Seq(Nat)
  PROVE  Total(ns) \in Nat
<1>1. PICK f : PartialSums(ns, f) /\ Total(ns) = f[Len(ns)]
  BY TotalDef
<1>2. Len(ns) \in 0 .. Len(ns)
  OBVIOUS
<1> QED
  BY <1>1, <1>2, SumsGrow

\* A sequence whose entries are found in order in another, or larger ones, sums up
\* to no more.
LEMMA TotalOfPart ==
  ASSUME NEW c \in Seq(Nat), NEW d \in Seq(Nat), NEW h \in [1 .. Len(c) -> 1 .. Len(d)],
         \A j, k \in 1 .. Len(c) : j < k => h[j] < h[k],
         \A k \in 1 .. Len(c) : c[k] <= d[h[k]]
  PROVE  Total(c) <= Total(d)
<1>1. PICK p : PartialSums(c, p) /\ Total(c) = p[Len(c)]
  BY TotalDef
<1>2. PICK q : PartialSums(d, q) /\ Total(d) = q[Len(d)]
  BY TotalDef
<1>3. /\ \A n \in 0 .. Len(c) : p[n] \in Nat
      /\ \A n \in 0 .. Len(d) : q[n] \in Nat
      /\ \A m, n \in 0 .. Len(d) : m <= n => q[m] <= q[n]
  BY <1>1, <1>2, SumsGrow
<1> DEFINE N == Len(c)
           T == {k \in 0 .. N : k = 0 \/ p[k] <= q[h[k]]}
<1>4. /\ N \in Nat /\ Len(d) \in Nat
      /\ \A k \in 1 .. N : h[k] \in 1 .. Len(d) /\ c[k] \in Nat
      /\ \A k \in 1 .. Len(d) : d[k] \in Nat
  BY LenProperties
<1>5. 0 \in T
  BY <1>4
<1>6. ASSUME NEW k \in 0 .. N - 1, k \in T
      PROVE  k + 1 \in T
  <2> DEFINE i == h[k + 1]
  <2>1. i \in 1 .. Len(d) /\ c[k + 1] \in Nat /\ d[i] \in Nat /\ c[k + 1] <= d[i]
    BY <1>4
  <2>2. p[k + 1] = p[k] + c[k + 1] /\ q[i] = q[i - 1] + d[i]
    BY <1>1, <1>2, <1>4, <2>1 DEF PartialSums
  <2>3. k # 0 => k \in 1 .. N /\ h[k] \in 1 .. Len(d) /\ h[k] < i /\ p[k] <= q[h[k]]
    BY <1>4, <1>6
  <2> HIDE DEF i, T
  <2>4. i - 1 \in 0 .. Len(d) /\ k \in 0 .. N
    BY <1>4, <2>1
  <2>5. p[k] \in Nat /\ q[i - 1] \in Nat
    BY <1>3, <2>4
  <2>6. p[k] <= q[i - 1]
    <3>1. CASE k = 0
      <4>1. p[k] = 0
        BY <1>1, <3>1 DEF PartialSums
      <4> QED
        BY <2>5, <4>1
    <3>2. CASE k # 0
      <4>1. PICK j \in 1 .. Len(d) : j = h[k]
        BY <2>3, <3>2
      <4>2. j < i /\ p[k] <= q[j]
        BY <2>3, <3>2, <4>1
      <4>3. j <= i - 1 /\ j \in 0 .. Len(d)
        BY <1>4, <2>1, <4>2
      <4>4. q[j] <= q[i - 1] /\ q[j] \in Nat
        BY <1>3, <2>4, <4>3
      <4> QED
        BY <2>5, <4>2, <4>4, OrderTransitive
    <3> QED
      BY <3>1, <3>2
  <2>7. p[k + 1] <= q[i]
    BY <2>1, <2>2, <2>5, <2>6, SumOrder
  <2> QED
    BY <1>4, <2>7 DEF i, T
<1>7. 0 .. N \subseteq T
  <2> HIDE DEF T, N
  <2> QED
    BY <1>4, <1>5, <1>6, Induction
<1>8. CASE N = 0
  BY <1>1, <1>2, <1>3, <1>4, <1>8 DEF PartialSums
<1>9. CASE N # 0
  <2>1. p[N] <= q[h[N]] /\ h[N] \in 0 .. Len(d) /\ h[N] <= Len(d) /\ Len(d) \in 0 .. Len(d)
    BY <1>4, <1>7, <1>9
  <2>2. q[h[N]] <= q[Len(d)]
    BY <1>3, <2>1
  <2>3. p[N] \in Nat /\ q[h[N]] \in Nat /\ q[Len(d)] \in Nat
    BY <1>3, <1>4, <2>1
  <2> QED
    BY <1>1, <1>2, <2>1, <2>2, <2>3, OrderTransitive
<1> QED
  BY <1>8, <1>9

(***************************************************************************)
(* Parts of a sequence.                                                    *)
(***************************************************************************)

\* g finds the entries of t among the first n positions of s: all those at the
\* chosen places, in order.
Picks(t, g, n, s, places) ==
  /\ g \in [1 .. Len(t) -> 1 .. n]
  /\ \A k \in 1 .. Len(t) : g[k] \in places /\ t[k] = s[g[k]]
  /\ \A j, k \in 1 .. Len(t) : j < k => g[j] < g[k]
  /\ \A i \in 1 .. n : i \in places => \E k \in 1 .. Len(t) : g[k] = i

\* One more position: it is taken or left.
LEMMA PicksNext ==
  ASSUME NEW X, NEW s \in Seq(X), NEW places, NEW n \in 0 .. Len(s) - 1,
         NEW t \in Seq(X), NEW g, Picks(t, g, n, s, places)
  PROVE  \E h : Picks(IF n + 1 \in places THEN Append(t, s[n + 1]) ELSE t, h,
                      n + 1, s, places)
<1>1. Len(t) \in Nat /\ Len(s) \in Nat /\ n \in Nat /\ n + 1 \in 1 .. Len(s) /\ s[n + 1] \in X
  OBVIOUS
<1>2. /\ g \in [1 .. Len(t) -> 1 .. n]
      /\ \A k \in 1 .. Len(t) : g[k] \in places /\ t[k] = s[g[k]]
      /\ \A j, k \in 1 .. Len(t) : j < k => g[j] < g[k]
      /\ \A i \in 1 .. n : i \in places => \E k \in 1 .. Len(t) : g[k] = i
  BY DEF Picks
<1>3. CASE n + 1 \in places
  <2> DEFINE m == Len(t) + 1
             u == Append(t, s[n + 1])
             h == [k \in 1 .. m |-> IF k = m THEN n + 1 ELSE g[k]]
  <2>1. /\ Len(u) = m /\ u[m] = s[n + 1]
        /\ \A k \in 1 .. Len(t) : u[k] = t[k]
    BY <1>1, AppendProperties
  <2>2. \A k \in 1 .. m : k = m \/ k \in 1 .. Len(t)
    BY <1>1
  <2>3. \A k \in 1 .. Len(t) : k # m /\ k \in 1 .. m /\ h[k] = g[k] /\ h[k] \in 1 .. n
    BY <1>1, <1>2
  <2>4. h[m] = n + 1 /\ m \in 1 .. m
    BY <1>1
  <2>5. h \in [1 .. m -> 1 .. n + 1]
    <3>1. \A k \in 1 .. m : h[k] \in 1 .. n + 1
      <4> HIDE DEF h
      <4> QED
        BY <1>1, <2>2, <2>3, <2>4
    <3> QED
      BY <3>1
  <2> HIDE DEF h, u
  <2>6. \A k \in 1 .. m : h[k] \in places /\ u[k] = s[h[k]]
    BY <1>2, <1>3, <2>1, <2>2, <2>3, <2>4
  <2>7. ASSUME NEW j \in 1 .. m, NEW k \in 1 .. m, j < k
        PROVE  h[j] < h[k]
    <3>1. j \in 1 .. Len(t)
      BY <1>1, <2>7
    <3>2. CASE k = m
      BY <1>1, <2>3, <2>4, <3>1, <3>2
    <3>3. CASE k \in 1 .. Len(t)
      BY <1>2, <2>3, <2>7, <3>1, <3>3
    <3> QED
      BY <2>2, <3>2, <3>3
  <2>8. ASSUME NEW i \in 1 .. n + 1, i \in places
        PROVE  \E k \in 1 .. m : h[k] = i
    <3>1. CASE i = n + 1
      BY <2>4, <3>1
    <3>2. CASE i \in 1 .. n
      BY <1>2, <2>3, <2>8, <3>2
    <3> QED
      BY <1>1, <3>1, <3>2
  <2>9. Picks(u, h, n + 1, s, places)
    BY <2>1, <2>5, <2>6, <2>7, <2>8 DEF Picks
  <2> QED
    BY <1>3, <2>9 DEF u
<1>4. CASE n + 1 \notin places
  <2>1. g \in [1 .. Len(t) -> 1 .. n + 1]
    BY <1>1, <1>2
  <2>2. \A i \in 1 .. n + 1 : i \in places => i \in 1 .. n
    BY <1>1, <1>4
  <2>3. Picks(t, g, n + 1, s, places)
    BY <1>2, <2>1, <2>2 DEF Picks
  <2> QED
    BY <1>4, <2>3
<1> QED
  BY <1>3, <1>4

\* At takes what stands at the places, and keeps the order.
LEMMA AtPicks ==
  ASSUME NEW X, NEW s \in Seq(X), NEW places
  PROVE  /\ At(s, places) \in Seq(X)
         /\ \E g : Picks(At(s, places), g, Len(s), s, places)
<1> DEFINE N == Len(s)
           Body(n, x) == IF n \in places THEN Append(x, s[n]) ELSE x
           Parts(m, f) == f = [n \in 0 .. m |-> IF n = 0 THEN <<>> ELSE Body(n, f[n - 1])]
           T == {m \in 0 .. N : \E f : Parts(m, f)}
<1>1. 0 \in T
  <2>1. Parts(0, [n \in 0 .. 0 |-> <<>>])
    OBVIOUS
  <2> HIDE DEF Parts
  <2> QED
    BY <2>1
<1>2. ASSUME NEW m \in 0 .. N - 1, m \in T
      PROVE  m + 1 \in T
  <2>1. PICK f : Parts(m, f)
    BY <1>2
  <2> DEFINE g == [n \in 0 .. m + 1 |-> IF n = m + 1 THEN Body(n, f[m]) ELSE f[n]]
  <2> HIDE DEF Body
  <2>2. Parts(m + 1, g)
    BY <2>1
  <2> HIDE DEF g, Parts
  <2> QED
    BY <2>2
<1>3. 0 .. N \subseteq T
  <2> HIDE DEF T
  <2> QED
    BY <1>1, <1>2, Induction
<1>4. \E f : Parts(N, f)
  BY <1>3
<1> DEFINE h == CHOOSE f : f = [n \in 0 .. N |->
                                  IF n = 0 THEN <<>>
                                  ELSE IF n \in places THEN Append(f[n - 1], s[n])
                                  ELSE f[n - 1]]
<1>5. At(s, places) = h[N]
  BY Zenon DEF At
<1>6. Parts(N, h)
  BY <1>4
<1> HIDE DEF h
<1>7. /\ h[0] = <<>>
      /\ \A n \in 0 .. N - 1 :
           h[n + 1] = IF n + 1 \in places THEN Append(h[n], s[n + 1]) ELSE h[n]
  <2> HIDE DEF Body
  <2>1. h[0] = <<>> /\ \A n \in 1 .. N : h[n] = Body(n, h[n - 1])
    BY <1>6
  <2>2. \A n \in 0 .. N - 1 : n + 1 \in 1 .. N /\ (n + 1) - 1 = n
    OBVIOUS
  <2>3. \A n \in 0 .. N - 1 : h[n + 1] = Body(n + 1, h[n])
    BY <2>1, <2>2
  <2> QED
    BY <2>1, <2>3 DEF Body
<1> HIDE DEF Parts, Body, T
<1> DEFINE U == {n \in 0 .. N : h[n] \in Seq(X) /\ \E g : Picks(h[n], g, n, s, places)}
<1>8. 0 \in U
  <2> DEFINE g == [k \in 1 .. 0 |-> 0]
  <2>1. Picks(<<>>, g, 0, s, places)
    BY DEF Picks
  <2>2. 0 \in 0 .. N /\ <<>> \in Seq(X)
    OBVIOUS
  <2> HIDE DEF g
  <2> QED
    BY <1>7, <2>1, <2>2
<1>9. ASSUME NEW n \in 0 .. N - 1, n \in U
      PROVE  n + 1 \in U
  <2>1. PICK g : Picks(h[n], g, n, s, places)
    BY <1>9
  <2>2. h[n] \in Seq(X) /\ s[n + 1] \in X /\ n + 1 \in 0 .. N
    <3>1. N \in Nat /\ n + 1 \in 1 .. N
      BY LenProperties
    <3> QED
      BY <1>9, <3>1, ElementOfSeq
  <2>3. h[n + 1] \in Seq(X)
    <3>1. h[n + 1] = IF n + 1 \in places THEN Append(h[n], s[n + 1]) ELSE h[n]
      BY <1>7
    <3>2. Append(h[n], s[n + 1]) \in Seq(X)
      BY <2>2, AppendProperties
    <3> HIDE DEF U
    <3> QED
      BY <2>2, <3>1, <3>2
  <2>4. \E k : Picks(h[n + 1], k, n + 1, s, places)
    BY <1>7, <2>1, <2>2, PicksNext
  <2> QED
    BY <2>2, <2>3, <2>4
<1>10. 0 .. N \subseteq U
  <2> HIDE DEF U
  <2> QED
    BY <1>8, <1>9, Induction
<1> QED
  BY <1>5, <1>10

(***************************************************************************)
(* Windows.  The messages of a window stand in the order of their rank.    *)
(***************************************************************************)
EventRoles == {"user", "assistant", "tool"}
SystemRoles == {"preamble", "ledger", "summary"}

\* The messages a memory with this log may hold.
Messages(l) ==
  {m \in [role : EventRoles \cup SystemRoles, at : Nat, size : Nat, told : BOOLEAN] :
     /\ m.role \in SystemRoles => m.at = 0
     /\ m.role = "preamble" => m.size = Preamble
     /\ m.role \in EventRoles => m.at \in DOMAIN l /\ m.at > 0 /\ m.role = l[m.at].role
     /\ m.role = "user" => m.size = 1 + l[m.at].size}

Rank(m) ==
  IF m.role = "preamble" THEN 0
  ELSE IF m.role = "ledger" THEN 1
  ELSE IF m.role = "summary" THEN 2
  ELSE 2 + m.at

Sorted(ms) == \A i, j \in DOMAIN ms : i < j => Rank(ms[i]) < Rank(ms[j])

\* What is never given up.
Lasting(m) == Protected(m) \/ m.at = 1

\* What the rank of a message tells of it.
LEMMA Ranks ==
  ASSUME NEW l, NEW m \in Messages(l)
  PROVE  /\ Rank(m) \in Nat /\ m.at \in Nat /\ m.size \in Nat
         /\ Protected(m) <=> Rank(m) < 2
         /\ m.role = "preamble" <=> Rank(m) = 0
         /\ m.role = "ledger" <=> Rank(m) = 1
         /\ m.role = "summary" <=> Rank(m) = 2
         /\ m.role \in EventRoles <=> Rank(m) > 2
         /\ m.role \in EventRoles <=> m.at > 0
         /\ m.at > 0 => Rank(m) = 2 + m.at
  BY DEF Messages, Rank, Protected, EventRoles, SystemRoles

\* The range of a sequence, by its positions.
LEMMA InRange ==
  ASSUME NEW X, NEW s \in Seq(X)
  PROVE  /\ \A m : m \in Range(s) <=> \E i \in 1 .. Len(s) : s[i] = m
         /\ \A m \in Range(s) : m \in X
         /\ DOMAIN s = 1 .. Len(s) /\ Len(s) \in Nat
  BY LenProperties DEF Range

\* What At takes, and that it keeps the order.
LEMMA AtSorted ==
  ASSUME NEW l, NEW ms \in Seq(Messages(l)), Sorted(ms), NEW places
  PROVE  /\ At(ms, places) \in Seq(Messages(l))
         /\ Sorted(At(ms, places))
         /\ \A m : m \in Range(At(ms, places))
                     <=> \E i \in 1 .. Len(ms) : i \in places /\ ms[i] = m
<1> DEFINE a == At(ms, places)
<1>1. a \in Seq(Messages(l))
  BY AtPicks
<1>2. PICK g : Picks(a, g, Len(ms), ms, places)
  BY AtPicks
<1>3. /\ \A k \in 1 .. Len(a) : /\ g[k] \in 1 .. Len(ms) /\ g[k] \in places
                                /\ a[k] = ms[g[k]]
      /\ \A j, k \in 1 .. Len(a) : j < k => g[j] < g[k]
      /\ \A i \in 1 .. Len(ms) : i \in places => \E k \in 1 .. Len(a) : g[k] = i
  BY <1>2 DEF Picks
<1> HIDE DEF a
<1>4. DOMAIN a = 1 .. Len(a) /\ DOMAIN ms = 1 .. Len(ms)
  BY <1>1, LenProperties
<1>5. Sorted(a)
  BY <1>3, <1>4 DEF Sorted
<1>6. ASSUME NEW m
      PROVE  m \in Range(a) <=> \E i \in 1 .. Len(ms) : i \in places /\ ms[i] = m
  <2>1. m \in Range(a) <=> \E k \in 1 .. Len(a) : a[k] = m
    BY <1>4 DEF Range
  <2>2. ASSUME NEW i \in 1 .. Len(ms), i \in places, ms[i] = m
        PROVE  \E k \in 1 .. Len(a) : a[k] = m
    BY <1>3, <2>2
  <2>3. ASSUME NEW k \in 1 .. Len(a), a[k] = m
        PROVE  \E i \in 1 .. Len(ms) : i \in places /\ ms[i] = m
    BY <1>3, <2>3
  <2> QED
    BY <2>1, <2>2, <2>3
<1> QED
  BY <1>1, <1>5, <1>6 DEF a

\* A message stands at one place only.
LEMMA SortedOnce ==
  ASSUME NEW l, NEW ms \in Seq(Messages(l)), Sorted(ms),
         NEW i \in 1 .. Len(ms), NEW j \in 1 .. Len(ms), Rank(ms[i]) < Rank(ms[j])
  PROVE  i < j
<1>1. /\ ms[i] \in Messages(l) /\ ms[j] \in Messages(l)
      /\ DOMAIN ms = 1 .. Len(ms) /\ Len(ms) \in Nat
  BY LenProperties, ElementOfSeq
<1>2. Rank(ms[i]) \in Nat /\ Rank(ms[j]) \in Nat
  BY <1>1, Ranks
<1>3. CASE j < i
  <2>1. Rank(ms[j]) < Rank(ms[i])
    BY <1>1, <1>3 DEF Sorted
  <2> QED
    BY <1>2, <2>1
<1>4. CASE j = i
  BY <1>2, <1>4
<1> QED
  BY <1>1, <1>3, <1>4

\* The sizes of a window, and their total.
LEMMA TokensType ==
  ASSUME NEW l, NEW ms \in Seq(Messages(l))
  PROVE  /\ [i \in DOMAIN ms |-> ms[i].size] \in Seq(Nat)
         /\ Len([i \in DOMAIN ms |-> ms[i].size]) = Len(ms)
         /\ Tokens(ms) \in Nat
<1> DEFINE ns == [i \in DOMAIN ms |-> ms[i].size]
<1>1. DOMAIN ms = 1 .. Len(ms) /\ Len(ms) \in Nat
  BY LenProperties
<1>2. \A i \in 1 .. Len(ms) : ms[i].size \in Nat
  <2> SUFFICES ASSUME NEW i \in 1 .. Len(ms) PROVE ms[i].size \in Nat
    OBVIOUS
  <2>1. ms[i] \in Messages(l)
    BY ElementOfSeq
  <2> QED
    BY <2>1, Ranks
<1>3. ns \in Seq(Nat) /\ Len(ns) = Len(ms)
  BY <1>1, <1>2
<1> QED
  BY <1>3, TotalType DEF Tokens

\* A window whose messages are all in another one is no larger.
LEMMA PartFits ==
  ASSUME NEW l, NEW c \in Seq(Messages(l)), NEW d \in Seq(Messages(l)),
         Sorted(c), Sorted(d), Range(c) \subseteq Range(d)
  PROVE  Tokens(c) <= Tokens(d)
<1> DEFINE cs == [i \in DOMAIN c |-> c[i].size]
           ds == [i \in DOMAIN d |-> d[i].size]
           h == [k \in 1 .. Len(c) |-> CHOOSE i \in 1 .. Len(d) : d[i] = c[k]]
<1>1. /\ cs \in Seq(Nat) /\ Len(cs) = Len(c) /\ ds \in Seq(Nat) /\ Len(ds) = Len(d)
      /\ DOMAIN c = 1 .. Len(c) /\ DOMAIN d = 1 .. Len(d)
  BY TokensType, LenProperties
<1>2. ASSUME NEW k \in 1 .. Len(c)
      PROVE  h[k] \in 1 .. Len(d) /\ d[h[k]] = c[k]
  <2>1. c[k] \in Range(d)
    BY <1>1 DEF Range
  <2>2. \E i \in 1 .. Len(d) : d[i] = c[k]
    BY <1>1, <2>1 DEF Range
  <2> QED
    BY <2>2
<1>3. h \in [1 .. Len(c) -> 1 .. Len(d)]
  BY <1>2
<1> HIDE DEF h
<1>4. ASSUME NEW j \in 1 .. Len(c), NEW k \in 1 .. Len(c), j < k
      PROVE  h[j] < h[k]
  <2>1. Rank(d[h[j]]) < Rank(d[h[k]])
    BY <1>1, <1>2, <1>4 DEF Sorted
  <2> QED
    BY <1>2, <2>1, SortedOnce
<1>5. ASSUME NEW k \in 1 .. Len(c)
      PROVE  cs[k] <= ds[h[k]]
  <2>1. cs[k] = c[k].size /\ ds[h[k]] = d[h[k]].size
    BY <1>1, <1>2
  <2>2. cs[k] = ds[h[k]] /\ cs[k] \in Nat
    BY <1>1, <1>2, <2>1, ElementOfSeq
  <2> QED
    BY <2>2
<1> HIDE DEF cs, ds
<1>6. Total(cs) <= Total(ds)
  BY <1>1, <1>3, <1>4, <1>5, TotalOfPart
<1> QED
  BY <1>6 DEF Tokens, cs, ds

(***************************************************************************)
(* Compaction.                                                             *)
(***************************************************************************)

\* What a compaction may do to a window: the end of the conversation stays, and
\* what lasts; nothing is new but a summary.
Shrinks(l, old, new) ==
  /\ new \in Seq(Messages(l)) /\ Sorted(new)
  /\ \A m \in Range(new) : m \in Range(old) \/ m.role = "summary"
  /\ \A m \in Range(old) : Lasting(m) => m \in Range(new)
  /\ \A m \in Range(old), kept \in Range(new) :
       kept.at > 1 /\ m.at > kept.at => m \in Range(new)

\* A window that holds the task of this log.
WithTask(l, ms) ==
  /\ ms \in Seq(Messages(l)) /\ Sorted(ms)
  /\ \E m \in Range(ms) : m.at = 1 /\ m.role = "user"

\* The first user message of a window is the task.
LEMMA FirstUserIsTask ==
  ASSUME NEW l, NEW ms, WithTask(l, ms)
  PROVE  /\ \A i \in 1 .. Len(ms) : i \in FirstUser(ms) <=> ms[i].at = 1
         /\ \A i \in 1 .. Len(ms) : ms[i].at = 1 => ms[i].role = "user"
<1>1. /\ ms \in Seq(Messages(l)) /\ Sorted(ms)
      /\ DOMAIN ms = 1 .. Len(ms) /\ Len(ms) \in Nat
      /\ \A i \in 1 .. Len(ms) : ms[i] \in Messages(l)
  BY LenProperties, ElementOfSeq DEF WithTask
<1>2. PICK t \in 1 .. Len(ms) : ms[t].at = 1 /\ ms[t].role = "user"
  BY <1>1 DEF WithTask, Range
<1>3. Rank(ms[t]) = 3
  BY <1>1, <1>2, Ranks
<1>4. ASSUME NEW i \in 1 .. Len(ms), ms[i].role = "user", i < t
      PROVE  FALSE
  <2>1. Rank(ms[i]) < 3
    BY <1>1, <1>3, <1>4 DEF Sorted
  <2>2. Rank(ms[i]) > 2 /\ ms[i].at > 0 /\ Rank(ms[i]) = 2 + ms[i].at /\ ms[i].at \in Nat
    BY <1>1, <1>4, Ranks DEF EventRoles
  <2> QED
    BY <2>1, <2>2
<1>5. t \in FirstUser(ms)
  BY <1>1, <1>2, <1>4 DEF FirstUser
<1>6. ASSUME NEW i \in 1 .. Len(ms), ms[i].at = 1
      PROVE  i = t
  <2>1. Rank(ms[i]) = 3
    BY <1>1, <1>6, Ranks
  <2>2. ~(i < t) /\ ~(t < i)
    BY <1>1, <1>3, <2>1 DEF Sorted
  <2> QED
    BY <2>2
<1>7. ASSUME NEW i \in 1 .. Len(ms), i \in FirstUser(ms)
      PROVE  i = t
  <2>1. ms[i].role = "user" /\ \A j \in 1 .. i - 1 : ms[j].role # "user"
    BY <1>7 DEF FirstUser
  <2>2. ~(t < i)
    BY <1>2, <2>1
  <2>3. ~(i < t)
    BY <1>4, <2>1
  <2> QED
    BY <2>2, <2>3
<1> QED
  BY <1>2, <1>5, <1>6, <1>7

\* One compaction after another is a compaction.
LEMMA ShrinksTransitive ==
  ASSUME NEW l, NEW a \in Seq(Messages(l)), NEW b, NEW c, Shrinks(l, a, b), Shrinks(l, b, c)
  PROVE  Shrinks(l, a, c)
<1>1. ASSUME NEW m \in Range(c)
      PROVE  m \in Range(a) \/ m.role = "summary"
  BY DEF Shrinks
<1>2. ASSUME NEW m \in Range(a), NEW kept \in Range(c), kept.at > 1, m.at > kept.at
      PROVE  m \in Range(c)
  <2>1. kept \in Messages(l)
    BY InRange DEF Shrinks
  <2>2. kept.role # "summary"
    BY <1>2, <2>1 DEF Messages, EventRoles, SystemRoles
  <2>3. kept \in Range(b)
    BY <2>2 DEF Shrinks
  <2> QED
    BY <1>2, <2>3 DEF Shrinks
<1> QED
  BY <1>1, <1>2 DEF Shrinks

\* Compaction keeps the task.
LEMMA ShrinksKeepsTask ==
  ASSUME NEW l, NEW a, NEW b, WithTask(l, a), Shrinks(l, a, b)
  PROVE  WithTask(l, b)
  BY DEF WithTask, Shrinks, Lasting

\* Giving up a set of messages that is closed towards the older ones.
LEMMA DroppingShrinks ==
  ASSUME NEW l, NEW ms, WithTask(l, ms), NEW keep,
         \A i \in 1 .. Len(ms) : Lasting(ms[i]) => i \in keep,
         \A i, j \in 1 .. Len(ms) : i < j /\ ms[i].at > 1 /\ i \in keep => j \in keep
  PROVE  Shrinks(l, ms, At(ms, keep))
<1> DEFINE a == At(ms, keep)
<1>1. /\ ms \in Seq(Messages(l)) /\ Sorted(ms)
      /\ \A m : m \in Range(ms) <=> \E i \in 1 .. Len(ms) : ms[i] = m
      /\ \A i \in 1 .. Len(ms) : ms[i] \in Messages(l)
  BY InRange, ElementOfSeq DEF WithTask
<1>2. /\ a \in Seq(Messages(l)) /\ Sorted(a)
      /\ \A m : m \in Range(a) <=> \E i \in 1 .. Len(ms) : i \in keep /\ ms[i] = m
  BY <1>1, AtSorted
<1> HIDE DEF a
<1>3. \A m \in Range(a) : m \in Range(ms)
  BY <1>1, <1>2
<1>4. \A m \in Range(ms) : Lasting(m) => m \in Range(a)
  BY <1>1, <1>2
<1>5. ASSUME NEW m \in Range(ms), NEW kept \in Range(a), kept.at > 1, m.at > kept.at
      PROVE  m \in Range(a)
  <2>1. PICK i \in 1 .. Len(ms) : i \in keep /\ ms[i] = kept
    BY <1>2
  <2>2. PICK j \in 1 .. Len(ms) : ms[j] = m
    BY <1>1
  <2>3. Rank(ms[i]) < Rank(ms[j])
    <3>1. /\ ms[i].at \in Nat /\ ms[j].at \in Nat
          /\ ms[i].at > 0 => Rank(ms[i]) = 2 + ms[i].at
          /\ ms[j].at > 0 => Rank(ms[j]) = 2 + ms[j].at
      BY <1>1, Ranks
    <3> QED
      BY <1>5, <2>1, <2>2, <3>1
  <2>4. i < j
    BY <1>1, <2>3, SortedOnce
  <2> QED
    BY <1>2, <1>5, <2>1, <2>2, <2>4
<1>6. Shrinks(l, ms, a)
  BY <1>2, <1>3, <1>4, <1>5 DEF Shrinks
<1> QED
  BY <1>6 DEF a

\* Size is the lesser of two numbers.
LEMMA SizeType ==
  ASSUME NEW a \in Nat, NEW b \in Nat
  PROVE  Size(a, b) \in Nat /\ Size(a, b) <= a /\ Size(a, b) <= b
  BY DEF Size

\* A summary is a message of the system.
LEMMA SummaryType ==
  ASSUME NEW l, NEW ms \in Seq(Messages(l))
  PROVE  /\ Summary(ms) \in Messages(l)
         /\ Summary(ms).role = "summary" /\ Summary(ms).at = 0
<1> DEFINE n == Size(Len(ms), SummaryLimit)
           shown == SubSeq(ms, 1, n)
           snippet == [i \in DOMAIN shown |->
                         IF shown[i].role = "tool" THEN ToolNote
                         ELSE 2 + Size(shown[i].size, SnippetClip)]
           size == SummaryBase + Total(snippet)
                     + (IF Len(ms) > SummaryLimit THEN OmittedNote ELSE 0)
<1>1. /\ SummaryLimit \in Nat /\ ToolNote \in Nat /\ SnippetClip \in Nat
      /\ SummaryBase \in Nat /\ OmittedNote \in Nat
  BY SizesAssumption
<1>2. Len(ms) \in Nat /\ n \in Nat /\ n <= Len(ms)
  BY <1>1, LenProperties, SizeType
<1> HIDE DEF n
<1>3. shown \in Seq(Messages(l)) /\ DOMAIN shown = 1 .. Len(shown) /\ Len(shown) \in Nat
  BY <1>2, SubSeqProperties, LenProperties
<1> HIDE DEF shown
<1>4. ASSUME NEW i \in 1 .. Len(shown)
      PROVE  snippet[i] \in Nat
  <2>1. shown[i] \in Messages(l)
    BY <1>3, ElementOfSeq
  <2>2. shown[i].size \in Nat
    BY <2>1, Ranks
  <2>3. Size(shown[i].size, SnippetClip) \in Nat
    BY <1>1, <2>2, SizeType
  <2> QED
    BY <1>1, <1>3, <2>3
<1>5. snippet \in Seq(Nat)
  BY <1>3, <1>4
<1> HIDE DEF snippet
<1>6. size \in Nat
  BY <1>1, <1>5, TotalType
<1>7. Summary(ms) = [role |-> "summary", at |-> 0, size |-> size, told |-> FALSE]
  BY DEF Summary, System, shown, n, snippet
<1> HIDE DEF size
<1> QED
  BY <1>6, <1>7 DEF Messages, EventRoles, SystemRoles

\* The number of protected messages at the front of a window.
LEMMA FrontExists ==
  ASSUME NEW X, NEW ms \in Seq(X)
  PROVE  \E n \in 0 .. Len(ms) :
           /\ \A i \in 1 .. n : Protected(ms[i])
           /\ n < Len(ms) => ~Protected(ms[n + 1])
<1> DEFINE S == {n \in 0 .. Len(ms) : n < Len(ms) => ~Protected(ms[n + 1])}
<1>1. Len(ms) \in Nat
  OBVIOUS
<1>2. S \in SUBSET Nat /\ Len(ms) \in S
  BY <1>1
<1>3. PICK n \in S : \A m \in S : n <= m
  BY <1>2, Least
<1>4. ASSUME NEW i \in 1 .. n
      PROVE  Protected(ms[i])
  <2>1. i - 1 \in 0 .. Len(ms) /\ i - 1 < Len(ms) /\ (i - 1) + 1 = i /\ i - 1 < n
    BY <1>1, <1>3
  <2>2. i - 1 \notin S
    BY <1>3, <2>1
  <2> QED
    BY <2>1, <2>2
<1> QED
  BY <1>3, <1>4

\* A summary is put between what is protected and the conversation.
LEMMA InsertShrinks ==
  ASSUME NEW l, NEW ms \in Seq(Messages(l)), Sorted(ms),
         \A m \in Range(ms) : m.role # "summary",
         NEW x \in Messages(l), x.role = "summary", NEW front \in 0 .. Len(ms),
         \A i \in 1 .. front : Protected(ms[i]),
         front < Len(ms) => ~Protected(ms[front + 1])
  PROVE  Shrinks(l, ms, SubSeq(ms, 1, front) \o <<x>> \o SubSeq(ms, front + 1, Len(ms)))
<1> DEFINE M == Messages(l)
           a == SubSeq(ms, 1, front)
           b == SubSeq(ms, front + 1, Len(ms))
           r == a \o <<x>> \o b
           N == Len(ms)
<1>0. N \in Nat /\ front \in Nat /\ front <= N
  BY LenProperties
<1>1. N \in Nat /\ DOMAIN ms = 1 .. N /\ \A i \in 1 .. N : ms[i] \in M
  BY LenProperties, ElementOfSeq
<1>2. /\ a \in Seq(M) /\ Len(a) = front
      /\ \A i \in 1 .. front : a[i] = ms[i]
  <2> HIDE DEF M
  <2> QED
    BY <1>1, SubSeqProperties DEF M
<1>3. /\ b \in Seq(M) /\ Len(b) = N - front
      /\ \A i \in 1 .. N - front : b[i] = ms[front + i]
  <2> HIDE DEF M
  <2>1. front + 1 \in Int /\ N \in Int /\ \A i \in front + 1 .. N : ms[i] \in M
    BY <1>1
  <2>2. /\ b \in Seq(M)
        /\ Len(b) = IF front + 1 <= N THEN N - (front + 1) + 1 ELSE 0
        /\ \A i \in 1 .. N - (front + 1) + 1 : b[i] = ms[(front + 1) + i - 1]
    BY <2>1, SubSeqProperties
  <2> HIDE DEF b
  <2>3. Len(b) = N - front
    <3>1. CASE front + 1 <= N
      <4>1. Len(b) = N - (front + 1) + 1
        BY <2>2, <3>1
      <4> QED
        BY <1>1, <4>1
    <3>2. CASE ~(front + 1 <= N)
      <4>1. Len(b) = 0
        BY <2>2, <3>2
      <4>2. N - front = 0
        <5> HIDE DEF N
        <5> QED
          BY <1>0, <3>2
      <4> QED
        BY <4>1, <4>2
    <3> QED
      BY <3>1, <3>2
  <2>4. ASSUME NEW i \in 1 .. N - front
        PROVE  b[i] = ms[front + i]
    <3>1. i \in 1 .. N - (front + 1) + 1 /\ (front + 1) + i - 1 = front + i
      BY <1>1
    <3> QED
      BY <2>2, <3>1
  <2> QED
    BY <2>2, <2>3, <2>4
<1> HIDE DEF a, b
<1>4. /\ a \o <<x>> \in Seq(M) /\ Len(a \o <<x>>) = front + 1
      /\ \A i \in 1 .. front : (a \o <<x>>)[i] = ms[i]
      /\ (a \o <<x>>)[front + 1] = x
  <2>1. <<x>> \in Seq(M) /\ Len(<<x>>) = 1 /\ <<x>>[1] = x
    OBVIOUS
  <2> DEFINE t == <<x>>
  <2>2. t \in Seq(M) /\ Len(t) = 1 /\ t[1] = x
    BY <2>1
  <2> HIDE DEF M, t
  <2>3. /\ a \o t \in Seq(M) /\ Len(a \o t) = front + 1
        /\ \A i \in 1 .. front + 1 : (a \o t)[i] = IF i <= front THEN a[i] ELSE t[i - front]
    <3>1. /\ a \o t \in Seq(M) /\ Len(a \o t) = Len(a) + Len(t)
          /\ \A i \in 1 .. Len(a) + Len(t) :
               (a \o t)[i] = IF i <= Len(a) THEN a[i] ELSE t[i - Len(a)]
      <4>1. a \in Seq(M) /\ t \in Seq(M)
        BY <1>2, <2>2
      <4> QED
        BY <4>1, ConcatProperties
    <3> QED
      BY <1>2, <2>2, <3>1
  <2>4. /\ front + 1 \in 1 .. front + 1 /\ ~(front + 1 <= front)
        /\ (front + 1) - front = 1
        /\ \A i \in 1 .. front : i \in 1 .. front + 1 /\ i <= front
    BY <1>1
  <2> QED
    BY <1>2, <2>2, <2>3, <2>4 DEF t
<1>5. /\ r \in Seq(M) /\ Len(r) = N + 1
      /\ \A i \in 1 .. front : r[i] = ms[i]
      /\ r[front + 1] = x
      /\ \A i \in front + 2 .. N + 1 : r[i] = ms[i - 1]
  <2> DEFINE c == a \o <<x>>
  <2>1. /\ c \in Seq(M) /\ Len(c) = front + 1
        /\ \A i \in 1 .. front : c[i] = ms[i]
        /\ c[front + 1] = x
    BY <1>4
  <2>2. r = c \o b
    OBVIOUS
  <2> HIDE DEF c, M, r
  <2>3. /\ r \in Seq(M) /\ Len(r) = (front + 1) + (N - front)
        /\ \A i \in 1 .. (front + 1) + (N - front) :
             r[i] = IF i <= front + 1 THEN c[i] ELSE b[i - (front + 1)]
    <3>1. /\ c \o b \in Seq(M) /\ Len(c \o b) = Len(c) + Len(b)
          /\ \A i \in 1 .. Len(c) + Len(b) :
               (c \o b)[i] = IF i <= Len(c) THEN c[i] ELSE b[i - Len(c)]
      <4>1. c \in Seq(M) /\ b \in Seq(M)
        BY <1>3, <2>1
      <4> QED
        BY <4>1, ConcatProperties
    <3> QED
      BY <1>3, <2>1, <2>2, <3>1
  <2>4. (front + 1) + (N - front) = N + 1
    BY <1>1
  <2>5. ASSUME NEW i \in front + 2 .. N + 1
        PROVE  r[i] = ms[i - 1]
    <3>1. /\ i \in 1 .. N + 1 /\ ~(i <= front + 1)
          /\ i - (front + 1) \in 1 .. N - front /\ front + (i - (front + 1)) = i - 1
      BY <1>1
    <3> QED
      BY <1>3, <2>3, <2>4, <3>1
  <2> QED
    BY <1>1, <2>1, <2>3, <2>4, <2>5
<1> HIDE DEF r
<1>6. \A i \in 1 .. N + 1 : i \in 1 .. front \/ i = front + 1 \/ i \in front + 2 .. N + 1
  BY <1>1
<1>7. DOMAIN r = 1 .. N + 1
  BY <1>5, LenProperties
<1>8. /\ Rank(x) = 2
      /\ \A i \in 1 .. front : Rank(ms[i]) < 2
      /\ \A i \in front + 1 .. N : Rank(ms[i]) > 2
  <2>1. \A i \in 1 .. N : Rank(ms[i]) \in Nat /\ Rank(ms[i]) # 2
                             /\ (Protected(ms[i]) <=> Rank(ms[i]) < 2)
    <3> SUFFICES ASSUME NEW i \in 1 .. N
                 PROVE  Rank(ms[i]) \in Nat /\ Rank(ms[i]) # 2
                          /\ (Protected(ms[i]) <=> Rank(ms[i]) < 2)
      OBVIOUS
    <3>1. ms[i].role # "summary"
      BY <1>1 DEF Range
    <3> QED
      BY <1>1, <3>1, Ranks
  <2>2. Rank(x) = 2
    BY DEF Rank
  <2>3. \A i \in 1 .. front : i \in 1 .. N
    BY <1>1
  <2>4. ASSUME NEW i \in front + 1 .. N
        PROVE  Rank(ms[i]) > 2
    <3>1. i \in 1 .. N /\ front + 1 \in 1 .. N /\ front < N
      BY <1>1
    <3>2. ~(Rank(ms[front + 1]) < 2)
      BY <2>1, <3>1
    <3>3. i = front + 1 \/ Rank(ms[front + 1]) < Rank(ms[i])
      BY <1>1, <3>1 DEF Sorted
    <3> QED
      BY <2>1, <3>1, <3>2, <3>3
  <2> QED
    BY <2>1, <2>2, <2>3, <2>4
<1>9. Sorted(r)
  <2> SUFFICES ASSUME NEW i \in 1 .. N + 1, NEW j \in 1 .. N + 1, i < j
               PROVE  Rank(r[i]) < Rank(r[j])
    BY <1>7 DEF Sorted
  <2>1. CASE i \in 1 .. front /\ j \in 1 .. front
    <3>1. i \in DOMAIN ms /\ j \in DOMAIN ms
      BY <1>1, <2>1
    <3> QED
      BY <1>5, <2>1, <3>1 DEF Sorted
  <2>2. CASE i \in 1 .. front /\ j = front + 1
    BY <1>5, <1>8, <2>2
  <2>3. CASE i \in 1 .. front /\ j \in front + 2 .. N + 1
    <3>1. i \in DOMAIN ms /\ j - 1 \in DOMAIN ms /\ i < j - 1
      BY <1>1, <2>3
    <3> QED
      BY <1>5, <2>3, <3>1 DEF Sorted
  <2>4. CASE i = front + 1 /\ j \in front + 2 .. N + 1
    <3>1. j - 1 \in front + 1 .. N
      BY <1>1, <2>4
    <3> QED
      BY <1>5, <1>8, <2>4, <3>1
  <2>5. CASE i \in front + 2 .. N + 1 /\ j \in front + 2 .. N + 1
    <3>1. i - 1 \in DOMAIN ms /\ j - 1 \in DOMAIN ms /\ i - 1 < j - 1
      BY <1>1, <2>5
    <3> QED
      BY <1>5, <2>5, <3>1 DEF Sorted
  <2>6. i <= front \/ i = front + 1 \/ i > front + 1
    BY <1>1
  <2>7. j <= front \/ j = front + 1 \/ j > front + 1
    BY <1>1
  <2> QED
    BY <1>1, <1>6, <2>1, <2>2, <2>3, <2>4, <2>5
<1>10. \A m \in Range(ms) : m \in Range(r)
  <2> SUFFICES ASSUME NEW i \in 1 .. N PROVE ms[i] \in Range(r)
    BY <1>1 DEF Range
  <2>1. CASE i \in 1 .. front
    <3>1. i \in DOMAIN r /\ r[i] = ms[i]
      BY <1>1, <1>5, <1>7, <2>1
    <3> QED
      BY <3>1 DEF Range
  <2>2. CASE i \in front + 1 .. N
    <3>1. i + 1 \in front + 2 .. N + 1 /\ i + 1 \in DOMAIN r /\ (i + 1) - 1 = i
      BY <1>1, <1>7, <2>2
    <3>2. r[i + 1] = ms[i]
      BY <1>5, <3>1
    <3> QED
      BY <3>1, <3>2 DEF Range
  <2> QED
    BY <1>1, <2>1, <2>2
<1>11. \A m \in Range(r) : m \in Range(ms) \/ m.role = "summary"
  <2> SUFFICES ASSUME NEW i \in 1 .. N + 1
               PROVE  r[i] \in Range(ms) \/ r[i].role = "summary"
    BY <1>7 DEF Range
  <2>1. CASE i \in 1 .. front
    <3>1. i \in DOMAIN ms
      BY <1>1, <2>1
    <3> QED
      BY <1>5, <2>1, <3>1 DEF Range
  <2>2. CASE i = front + 1
    BY <1>5, <2>2
  <2>3. CASE i \in front + 2 .. N + 1
    <3>1. i - 1 \in DOMAIN ms
      BY <1>1, <2>3
    <3> QED
      BY <1>5, <2>3, <3>1 DEF Range
  <2> QED
    BY <1>6, <2>1, <2>2, <2>3
<1>12. Shrinks(l, ms, r)
  BY <1>5, <1>9, <1>10, <1>11 DEF Shrinks
<1> QED
  BY <1>12 DEF r, a, b

\* What comes after a message of the conversation is of the conversation.
LEMMA Conversational ==
  ASSUME NEW l, NEW ms, WithTask(l, ms),
         NEW i \in 1 .. Len(ms), NEW j \in 1 .. Len(ms), i < j, ms[i].at > 1
  PROVE  ms[j].at > 1 /\ ~Lasting(ms[i]) /\ ~Lasting(ms[j])
            /\ ms[i].role # "summary" /\ ms[j].role # "summary"
<1>1. /\ ms[i] \in Messages(l) /\ ms[j] \in Messages(l) /\ Rank(ms[i]) < Rank(ms[j])
  BY InRange, ElementOfSeq DEF WithTask, Sorted
<1>2. /\ ms[i].at \in Nat /\ ms[j].at \in Nat
      /\ Rank(ms[i]) = 2 + ms[i].at /\ Rank(ms[j]) \in Nat
      /\ ms[j].role \in EventRoles <=> Rank(ms[j]) > 2
      /\ ms[j].role \in EventRoles <=> ms[j].at > 0
      /\ ms[j].at > 0 => Rank(ms[j]) = 2 + ms[j].at
  BY <1>1, Ranks
<1>3. ms[j].at > 1
  BY <1>1, <1>2
<1>4. /\ Protected(ms[i]) <=> Rank(ms[i]) < 2
      /\ Protected(ms[j]) <=> Rank(ms[j]) < 2
      /\ ms[i].role = "summary" <=> Rank(ms[i]) = 2
      /\ ms[j].role = "summary" <=> Rank(ms[j]) = 2
  BY <1>1, Ranks
<1>5. Rank(ms[i]) > 3 /\ Rank(ms[j]) > 3
  BY <1>1, <1>2
<1> QED
  BY <1>2, <1>3, <1>4, <1>5 DEF Lasting

\* No summary lasts.
LEMMA LastingNoSummary ==
  ASSUME NEW l, NEW m \in Messages(l), Lasting(m)
  PROVE  m.role # "summary"
  BY DEF Messages, Lasting, Protected, EventRoles, SystemRoles

\* Summarising is a compaction.
LEMMA SummarisedShrinks ==
  ASSUME NEW l, NEW ms, WithTask(l, ms)
  PROVE  Shrinks(l, ms, Summarised(ms))
<1> DEFINE noSummary == {i \in DOMAIN ms : ms[i].role # "summary"}
           source  == At(ms, noSummary)
           keep    == {i \in DOMAIN source : i > Len(source) - Recent \/ Protected(source[i])}
                        \cup FirstUser(source)
           removed == At(source, DOMAIN source \ keep)
           kept    == At(source, keep)
           front   == CHOOSE n \in 0 .. Len(kept) :
                        /\ \A i \in 1 .. n : Protected(kept[i])
                        /\ n < Len(kept) => ~Protected(kept[n + 1])
           joined  == SubSeq(kept, 1, front) \o <<Summary(removed)>>
                        \o SubSeq(kept, front + 1, Len(kept))
<1>1. /\ ms \in Seq(Messages(l)) /\ DOMAIN ms = 1 .. Len(ms)
      /\ \A i \in 1 .. Len(ms) : ms[i] \in Messages(l)
      /\ Sorted(ms)
  BY LenProperties, ElementOfSeq DEF WithTask
<1>2. Summarised(ms) =
        IF Tokens(source) <= Budget \/ removed = <<>> THEN source ELSE joined
  BY Zenon DEF Summarised
<1>3. Shrinks(l, ms, source)
  <2>1. \A i \in 1 .. Len(ms) : Lasting(ms[i]) => i \in noSummary
    BY <1>1, LastingNoSummary
  <2>2. \A i, j \in 1 .. Len(ms) :
          i < j /\ ms[i].at > 1 /\ i \in noSummary => j \in noSummary
    BY <1>1, Conversational
  <2> HIDE DEF noSummary
  <2> QED
    BY <2>1, <2>2, DroppingShrinks
<1>4. \A m \in Range(source) : m.role # "summary"
  <2>1. \A m : m \in Range(source) <=> \E i \in 1 .. Len(ms) : i \in noSummary /\ ms[i] = m
    <3> HIDE DEF noSummary
    <3> QED
      BY <1>1, AtSorted
  <2> HIDE DEF source
  <2> QED
    BY <2>1
<1> HIDE DEF source
<1>5. WithTask(l, source)
  BY <1>3, ShrinksKeepsTask
<1>6. /\ source \in Seq(Messages(l)) /\ DOMAIN source = 1 .. Len(source)
      /\ Len(source) \in Nat /\ Sorted(source)
      /\ \A i \in 1 .. Len(source) : source[i] \in Messages(l)
  BY <1>5, LenProperties, ElementOfSeq DEF WithTask
<1>7. Shrinks(l, source, kept)
  <2>1. ASSUME NEW i \in 1 .. Len(source), Lasting(source[i])
        PROVE  i \in keep
    BY <1>5, <1>6, <2>1, FirstUserIsTask DEF Lasting
  <2>2. ASSUME NEW i \in 1 .. Len(source), NEW j \in 1 .. Len(source), i < j,
               source[i].at > 1, i \in keep
        PROVE  j \in keep
    <3>1. ~Lasting(source[i])
      BY <1>5, <2>2, Conversational
    <3>2. i \notin FirstUser(source) /\ ~Protected(source[i])
      BY <1>5, <3>1, FirstUserIsTask DEF Lasting
    <3>3. i > Len(source) - Recent
      BY <2>2, <3>2
    <3>4. j > Len(source) - Recent
      BY <1>6, <2>2, <3>3, BudgetAssumption
    <3> QED
      BY <1>6, <3>4
  <2> HIDE DEF keep
  <2> QED
    BY <1>5, <2>1, <2>2, DroppingShrinks
<1>8. /\ kept \in Seq(Messages(l)) /\ Sorted(kept)
      /\ \A m \in Range(kept) : m \in Range(source)
  <2> HIDE DEF keep
  <2>1. \A m : m \in Range(kept) <=> \E i \in 1 .. Len(source) : i \in keep /\ source[i] = m
    BY <1>6, AtSorted
  <2> QED
    BY <1>6, <1>7, <2>1, InRange DEF Shrinks
<1>9. removed \in Seq(Messages(l))
  <2> HIDE DEF keep
  <2> QED
    BY <1>6, AtSorted
<1> HIDE DEF kept, removed
<1>10. /\ front \in 0 .. Len(kept)
       /\ \A i \in 1 .. front : Protected(kept[i])
       /\ front < Len(kept) => ~Protected(kept[front + 1])
  BY <1>8, FrontExists
<1> HIDE DEF front
<1>11. Shrinks(l, kept, joined)
  BY <1>4, <1>8, <1>9, <1>10, SummaryType, InsertShrinks
<1> HIDE DEF joined
<1>12. Shrinks(l, source, joined)
  BY <1>6, <1>7, <1>11, ShrinksTransitive
<1>13. Shrinks(l, ms, joined)
  BY <1>1, <1>3, <1>12, ShrinksTransitive
<1> QED
  BY <1>2, <1>3, <1>13

\* The list p names the places up to n that are among some, in order.
Lists(p, n, places) ==
  /\ p \in Seq(Nat)
  /\ \A k \in 1 .. Len(p) : p[k] \in 1 .. n /\ p[k] \in places
  /\ \A j, k \in 1 .. Len(p) : j < k => p[j] < p[k]
  /\ \A i \in 1 .. n : i \in places => \E k \in 1 .. Len(p) : p[k] = i

\* Positions is such a list.
LEMMA PositionsOrdered ==
  ASSUME NEW X, NEW s \in Seq(X), NEW places
  PROVE  Lists(Positions(s, places), Len(s), places)
<1> DEFINE ids == [i \in DOMAIN s |-> i]
           p == Positions(s, places)
<1>1. Len(s) \in Nat /\ DOMAIN s = 1 .. Len(s)
  BY LenProperties
<1>2. ids \in Seq(Nat) /\ Len(ids) = Len(s) /\ \A i \in 1 .. Len(s) : ids[i] = i
  BY <1>1
<1>3. p = At(ids, places)
  BY DEF Positions
<1> HIDE DEF ids, p
<1>4. p \in Seq(Nat)
  BY <1>2, <1>3, AtPicks
<1>5. PICK g : Picks(p, g, Len(s), ids, places)
  BY <1>2, <1>3, AtPicks
<1>6. \A k \in 1 .. Len(p) : g[k] \in 1 .. Len(s) /\ g[k] \in places /\ p[k] = g[k]
  BY <1>2, <1>5 DEF Picks
<1>7. /\ \A j, k \in 1 .. Len(p) : j < k => p[j] < p[k]
      /\ \A i \in 1 .. Len(s) : i \in places => \E k \in 1 .. Len(p) : p[k] = i
  BY <1>5, <1>6 DEF Picks
<1> QED
  BY <1>4, <1>6, <1>7 DEF p, Lists

\* The messages that may be given up: those of the conversation from the oldest
\* on, then summaries.
OldestFirst(ms, order) ==
  /\ Len(order) \in Nat
  /\ \A k \in 1 .. Len(order) : order[k] \in 1 .. Len(ms) /\ ~Lasting(ms[order[k]])
  /\ \A i \in 1 .. Len(ms) : ~Lasting(ms[i]) => \E k \in 1 .. Len(order) : order[k] = i
  /\ \A i \in 1 .. Len(ms), k \in 1 .. Len(order) :
       i < order[k] /\ ms[i].at > 1 => \E j \in 1 .. k : order[j] = i

\* That is the order of _oldest_droppable_index.
LEMMA DropOrderOldestFirst ==
  ASSUME NEW l, NEW ms, WithTask(l, ms)
  PROVE  OldestFirst(ms, DropOrder(ms))
<1> DEFINE free == {i \in DOMAIN ms \ FirstUser(ms) : ~Protected(ms[i])}
           summaries == {i \in free : ms[i].role = "summary"}
           p == Positions(ms, free \ summaries)
           q == Positions(ms, summaries)
           o == p \o q
<1>1. /\ ms \in Seq(Messages(l)) /\ DOMAIN ms = 1 .. Len(ms) /\ Len(ms) \in Nat
  BY LenProperties DEF WithTask
<1>2. DropOrder(ms) = o
  BY DEF DropOrder
<1>3. \A i \in 1 .. Len(ms) : i \in free <=> ~Lasting(ms[i])
  BY <1>1, FirstUserIsTask DEF Lasting
<1>4. \A i \in 1 .. Len(ms) : i \in summaries <=> i \in free /\ ms[i].role = "summary"
  OBVIOUS
<1> HIDE DEF free, summaries
<1>5. Lists(p, Len(ms), free \ summaries) /\ Lists(q, Len(ms), summaries)
  BY <1>1, PositionsOrdered
<1> HIDE DEF p, q
<1>6. Len(p) \in Nat /\ Len(q) \in Nat
  BY <1>5, LenProperties DEF Lists
<1>7. /\ Len(o) = Len(p) + Len(q)
      /\ \A k \in 1 .. Len(p) + Len(q) : o[k] = IF k <= Len(p) THEN p[k] ELSE q[k - Len(p)]
  BY <1>5, ConcatProperties DEF Lists
<1> HIDE DEF o
<1>8. ASSUME NEW k \in 1 .. Len(o)
      PROVE  \/ k \in 1 .. Len(p) /\ o[k] = p[k]
             \/ k - Len(p) \in 1 .. Len(q) /\ o[k] = q[k - Len(p)]
  BY <1>6, <1>7
<1>9. /\ \A k \in 1 .. Len(p) : k \in 1 .. Len(o) /\ o[k] = p[k]
      /\ \A k \in 1 .. Len(q) : Len(p) + k \in 1 .. Len(o) /\ o[Len(p) + k] = q[k]
  <2>1. \A k \in 1 .. Len(p) : k \in 1 .. Len(p) + Len(q) /\ k <= Len(p)
    BY <1>6
  <2>2. \A k \in 1 .. Len(q) : /\ Len(p) + k \in 1 .. Len(p) + Len(q)
                               /\ ~(Len(p) + k <= Len(p)) /\ (Len(p) + k) - Len(p) = k
    BY <1>6
  <2> QED
    BY <1>7, <2>1, <2>2
<1>10. ASSUME NEW k \in 1 .. Len(o)
       PROVE  o[k] \in 1 .. Len(ms) /\ ~Lasting(ms[o[k]])
  BY <1>3, <1>4, <1>5, <1>8 DEF Lists
<1>11. ASSUME NEW i \in 1 .. Len(ms), ~Lasting(ms[i])
       PROVE  \E k \in 1 .. Len(o) : o[k] = i
  <2>1. CASE i \in summaries
    <3>1. PICK k \in 1 .. Len(q) : q[k] = i
      BY <1>5, <2>1 DEF Lists
    <3> QED
      BY <1>9, <3>1
  <2>2. CASE i \notin summaries
    <3>1. PICK k \in 1 .. Len(p) : p[k] = i
      BY <1>3, <1>5, <1>11, <2>2 DEF Lists
    <3> QED
      BY <1>9, <3>1
  <2> QED
    BY <2>1, <2>2
<1>12. ASSUME NEW i \in 1 .. Len(ms), NEW k \in 1 .. Len(o), i < o[k], ms[i].at > 1
       PROVE  \E j \in 1 .. k : o[j] = i
  <2>1. o[k] \in 1 .. Len(ms)
    BY <1>10
  <2>2. /\ ~Lasting(ms[i]) /\ ms[i].role # "summary" /\ ms[o[k]].role # "summary"
    BY <1>12, <2>1, Conversational
  <2>3. k \in 1 .. Len(p) /\ o[k] = p[k]
    BY <1>4, <1>5, <1>8, <2>2 DEF Lists
  <2>4. PICK j \in 1 .. Len(p) : p[j] = i
    BY <1>3, <1>4, <1>5, <2>2 DEF Lists
  <2>5. ~(k < j) /\ k # j
    <3>1. p[k] \in Int /\ i \in Int /\ i < p[k]
      BY <1>12, <2>1, <2>3
    <3>2. k < j => p[k] < i
      BY <1>5, <2>3, <2>4 DEF Lists
    <3>3. k # j
      BY <2>4, <3>1
    <3> QED
      BY <3>1, <3>2, <3>3
  <2>6. j \in 1 .. k
    BY <1>6, <2>3, <2>5
  <2> QED
    BY <1>9, <2>4, <2>6
<1> QED
  <2>1. Len(o) \in Nat
    BY <1>6, <1>7
  <2> QED
    BY <1>2, <1>10, <1>11, <1>12, <2>1 DEF OldestFirst

\* Dropping stops as soon as the window fits; when it never does, only what lasts
\* is left.
LEMMA DropUntilFitShrinks ==
  ASSUME NEW l, NEW ms, WithTask(l, ms)
  PROVE  /\ Shrinks(l, ms, DropUntilFit(ms))
         /\ Tokens(DropUntilFit(ms)) <= Budget
              \/ \A m \in Range(DropUntilFit(ms)) : Lasting(m)
<1> DEFINE order == DropOrder(ms)
           keep(n) == DOMAIN ms \ {order[k] : k \in 1 .. n}
           Rest(n) == At(ms, keep(n))
           Enough(n) == Tokens(Rest(n)) <= Budget \/ n = Len(order)
           last == CHOOSE n \in 0 .. Len(order) :
                     /\ Tokens(Rest(n)) <= Budget \/ n = Len(order)
                     /\ \A k \in 0 .. n - 1 : Tokens(Rest(k)) > Budget
<1>1. /\ ms \in Seq(Messages(l)) /\ Sorted(ms) /\ DOMAIN ms = 1 .. Len(ms)
      /\ Len(ms) \in Nat
  BY LenProperties DEF WithTask
<1>2. /\ Len(order) \in Nat
      /\ \A k \in 1 .. Len(order) : order[k] \in 1 .. Len(ms) /\ ~Lasting(ms[order[k]])
      /\ \A i \in 1 .. Len(ms) : ~Lasting(ms[i]) => \E k \in 1 .. Len(order) : order[k] = i
      /\ \A i \in 1 .. Len(ms), k \in 1 .. Len(order) :
           i < order[k] /\ ms[i].at > 1 => \E j \in 1 .. k : order[j] = i
  <2>1. OldestFirst(ms, order)
    BY DropOrderOldestFirst
  <2> HIDE DEF order
  <2> QED
    BY <2>1 DEF OldestFirst
<1>3. DropUntilFit(ms) = Rest(last)
  BY Zenon DEF DropUntilFit
<1> HIDE DEF order
<1>4. \A n : Tokens(Rest(n)) \in Nat
  <2> SUFFICES ASSUME NEW n PROVE Tokens(Rest(n)) \in Nat
    OBVIOUS
  <2> HIDE DEF keep
  <2>1. Rest(n) \in Seq(Messages(l))
    BY <1>1, AtSorted
  <2> HIDE DEF Rest
  <2> QED
    BY <2>1, TokensType
<1> HIDE DEF Rest
<1>5. last \in 0 .. Len(order) /\ Enough(last)
  <2> DEFINE S == {n \in 0 .. Len(order) : Enough(n)}
  <2>1. S \in SUBSET Nat /\ Len(order) \in S
    BY <1>2
  <2>2. PICK n \in S : \A m \in S : n <= m
    BY <2>1, Least
  <2>3. ASSUME NEW k \in 0 .. n - 1
        PROVE  Tokens(Rest(k)) > Budget
    <3>1. k \notin S /\ k \in 0 .. Len(order)
      BY <1>2, <2>2
    <3>2. ~(Tokens(Rest(k)) <= Budget)
      BY <3>1
    <3> QED
      BY <1>4, <3>2, BudgetAssumption
  <2>4. n \in 0 .. Len(order) /\ (Tokens(Rest(n)) <= Budget \/ n = Len(order))
    BY <2>2
  <2> QED
    BY <2>3, <2>4
<1> HIDE DEF last
<1>6. ASSUME NEW i \in 1 .. Len(ms)
      PROVE  i \in keep(last) <=> ~\E k \in 1 .. last : order[k] = i
  BY <1>1
<1>7. \A k \in 1 .. last : k \in 1 .. Len(order)
  BY <1>2, <1>5
<1>8. \A i \in 1 .. Len(ms) : Lasting(ms[i]) => i \in keep(last)
  <2> HIDE DEF keep
  <2> QED
    BY <1>2, <1>6, <1>7
<1>9. ASSUME NEW i \in 1 .. Len(ms), NEW j \in 1 .. Len(ms), i < j, ms[i].at > 1,
             i \in keep(last)
      PROVE  j \in keep(last)
  <2> HIDE DEF keep
  <2> SUFFICES ASSUME j \notin keep(last) PROVE FALSE
    OBVIOUS
  <2>1. PICK k \in 1 .. last : order[k] = j
    BY <1>6
  <2>2. PICK m \in 1 .. k : order[m] = i
    BY <1>2, <1>7, <1>9, <2>1
  <2>3. m \in 1 .. last
    BY <1>5, <2>1, <2>2
  <2> QED
    BY <1>6, <1>9, <2>2, <2>3
<1>10. Shrinks(l, ms, Rest(last))
  <2> HIDE DEF keep
  <2> QED
    BY <1>8, <1>9, DroppingShrinks DEF Rest
<1>11. ASSUME last = Len(order), NEW m \in Range(Rest(last))
       PROVE  Lasting(m)
  <2> HIDE DEF keep
  <2>1. PICK i \in 1 .. Len(ms) : i \in keep(last) /\ ms[i] = m
    BY <1>1, <1>11, AtSorted DEF Rest
  <2>2. ~\E k \in 1 .. Len(order) : order[k] = i
    BY <1>6, <1>11, <2>1
  <2> QED
    BY <1>2, <2>1, <2>2
<1> QED
  BY <1>3, <1>5, <1>10, <1>11

\* Compaction.
LEMMA CompactedShrinks ==
  ASSUME NEW l, NEW ms, WithTask(l, ms)
  PROVE  /\ Shrinks(l, ms, Compacted(ms))
         /\ Tokens(Compacted(ms)) <= Budget \/ \A m \in Range(Compacted(ms)) : Lasting(m)
<1>1. ms \in Seq(Messages(l)) /\ Sorted(ms) /\ DOMAIN ms = 1 .. Len(ms) /\ Len(ms) \in Nat
  BY LenProperties DEF WithTask
<1>2. CASE Tokens(ms) <= Budget
  BY <1>1, <1>2 DEF Compacted, Shrinks
<1>3. CASE Len(ms) <= 1 /\ ~(Tokens(ms) <= Budget)
  <2>1. \A m \in Range(ms) : m.at = 1
    BY <1>1, <1>3 DEF WithTask, Range
  <2> QED
    BY <1>1, <1>3, <2>1 DEF Compacted, Shrinks, Lasting
<1>4. CASE ~(Len(ms) <= 1) /\ ~(Tokens(ms) <= Budget)
  <2> DEFINE s == Summarised(ms)
             d == DropUntilFit(s)
  <2>1. Compacted(ms) = d
    BY <1>4 DEF Compacted
  <2>2. Shrinks(l, ms, s) /\ WithTask(l, s)
    BY SummarisedShrinks, ShrinksKeepsTask
  <2> HIDE DEF s
  <2>3. Shrinks(l, s, d) /\ (Tokens(d) <= Budget \/ \A m \in Range(d) : Lasting(m))
    BY <2>2, DropUntilFitShrinks
  <2> HIDE DEF d
  <2>4. Shrinks(l, ms, d)
    BY <1>1, <2>2, <2>3, ShrinksTransitive
  <2> QED
    BY <2>1, <2>3, <2>4
<1> QED
  BY <1>2, <1>3, <1>4

(***************************************************************************)
(* Adding messages.                                                        *)
(***************************************************************************)

\* A window that took the first n events of a log: it has the task, and the
\* conversation up to the n-th event has no gaps.
UpTo(l, ms, n) ==
  /\ ms \in Seq(Messages(l)) /\ Sorted(ms)
  /\ \A m \in Range(ms) : m.at <= n
  /\ \A m \in Range(ms), k \in Nat :
       m.at > 1 /\ m.at <= k /\ k <= n => \E o \in Range(ms) : o.at = k
  /\ n > 0 => \E m \in Range(ms) : m.at = 1 /\ m.role = "user"

\* What is never given up leaves the budget unbroken.
LastingFits(l, ms) ==
  \E c \in Seq(Messages(l)) :
    /\ Sorted(c) /\ Tokens(c) <= Budget
    /\ \A m \in Range(ms) : Lasting(m) => m \in Range(c)

\* What lasts fits in a window that fits.
LEMMA FitsAsAWhole ==
  ASSUME NEW l, NEW ms \in Seq(Messages(l)), Sorted(ms), Tokens(ms) <= Budget
  PROVE  LastingFits(l, ms)
  BY DEF LastingFits

\* Compaction leaves no gap.
LEMMA ShrinksKeepsUpTo ==
  ASSUME NEW l, NEW n \in Nat, NEW a, NEW b, UpTo(l, a, n), Shrinks(l, a, b)
  PROVE  UpTo(l, b, n)
<1>1. /\ a \in Seq(Messages(l)) /\ b \in Seq(Messages(l)) /\ Sorted(b)
      /\ \A m \in Range(b) : m \in Range(a) \/ m.role = "summary"
      /\ \A m \in Range(a) : Lasting(m) => m \in Range(b)
      /\ \A m \in Range(a), kept \in Range(b) :
           kept.at > 1 /\ m.at > kept.at => m \in Range(b)
  BY DEF UpTo, Shrinks
<1>2. \A m \in Range(b) : m \in Messages(l) /\ m.at \in Nat /\ (m.role = "summary" => m.at = 0)
  <2>1. \A m \in Range(b) : m \in Messages(l)
    BY <1>1, InRange
  <2> QED
    BY <2>1 DEF Messages, SystemRoles
<1>3. \A m \in Range(b) : m.at <= n
  BY <1>1, <1>2 DEF UpTo
<1>4. ASSUME NEW m \in Range(b), NEW k \in Nat, m.at > 1, m.at <= k, k <= n
      PROVE  \E o \in Range(b) : o.at = k
  <2>1. CASE m.at = k
    BY <2>1
  <2>2. CASE m.at # k
    <3>1. m \in Range(a) /\ m.at < k
      BY <1>1, <1>2, <1>4, <2>2
    <3>2. PICK o \in Range(a) : o.at = k
      BY <1>4, <3>1 DEF UpTo
    <3>3. o.at > m.at
      BY <1>2, <3>1, <3>2
    <3> QED
      BY <1>1, <1>4, <3>2, <3>3
  <2> QED
    BY <2>1, <2>2
<1>5. n > 0 => \E m \in Range(b) : m.at = 1 /\ m.role = "user"
  BY <1>1 DEF UpTo, Lasting
<1> QED
  BY <1>1, <1>3, <1>4, <1>5 DEF UpTo

\* Compaction leaves no more of what lasts.
LEMMA ShrinksKeepsFitting ==
  ASSUME NEW l, NEW a, NEW b, LastingFits(l, a), Shrinks(l, a, b)
  PROVE  LastingFits(l, b)
<1>1. PICK c \in Seq(Messages(l)) :
        /\ Sorted(c) /\ Tokens(c) <= Budget
        /\ \A m \in Range(a) : Lasting(m) => m \in Range(c)
  BY DEF LastingFits
<1>2. \A m \in Range(b) : Lasting(m) => m \in Range(a)
  <2>1. \A m \in Range(b) : m \in Messages(l)
    BY InRange DEF Shrinks
  <2> QED
    BY <2>1, LastingNoSummary DEF Shrinks
<1> QED
  BY <1>1, <1>2 DEF LastingFits

\* When what lasts fits, so does what compaction leaves.
LEMMA CompactedFits ==
  ASSUME NEW l, NEW ms, WithTask(l, ms), LastingFits(l, ms)
  PROVE  Tokens(Compacted(ms)) <= Budget
<1> DEFINE new == Compacted(ms)
<1>1. Shrinks(l, ms, new)
  BY CompactedShrinks
<1>2. CASE \A m \in Range(new) : Lasting(m)
  <2>1. LastingFits(l, new)
    BY <1>1, ShrinksKeepsFitting
  <2> HIDE DEF new
  <2>2. PICK c \in Seq(Messages(l)) :
          /\ Sorted(c) /\ Tokens(c) <= Budget
          /\ \A m \in Range(new) : Lasting(m) => m \in Range(c)
    BY <2>1 DEF LastingFits
  <2>3. Range(new) \subseteq Range(c)
    BY <1>2, <2>2
  <2>4. /\ new \in Seq(Messages(l)) /\ Sorted(new)
    BY <1>1 DEF Shrinks
  <2>5. Tokens(new) <= Tokens(c)
    BY <2>2, <2>3, <2>4, PartFits
  <2>6. Tokens(new) \in Nat /\ Tokens(c) \in Nat
    BY <2>2, <2>4, TokensType
  <2> QED
    BY <2>2, <2>5, <2>6, BudgetAssumption DEF new
<1> QED
  BY <1>2, CompactedShrinks

\* The tokens of one and of two messages.
LEMMA TokensOfFew ==
  ASSUME NEW l, NEW m \in Messages(l)
  PROVE  /\ Tokens(<<m>>) = m.size
         /\ \A o \in Messages(l) : Tokens(<<m, o>>) = m.size + o.size
<1>1. m.size \in Nat /\ \A o \in Messages(l) : o.size \in Nat
  BY Ranks
<1>2. ASSUME NEW o \in Messages(l)
      PROVE  Tokens(<<m, o>>) = m.size + o.size
  <2> DEFINE ns == [i \in DOMAIN <<m, o>> |-> <<m, o>>[i].size]
  <2>1. ns \in Seq(Nat) /\ Len(ns) = 2 /\ ns[1] = m.size /\ ns[2] = o.size
    BY <1>1
  <2>2. Tokens(<<m, o>>) = Total(ns)
    BY DEF Tokens
  <2> HIDE DEF ns
  <2>3. PICK f : PartialSums(ns, f) /\ Total(ns) = f[Len(ns)]
    <3>1. Len(ns) \in Nat
      BY <2>1
    <3> QED
      BY <3>1, TotalDef
  <2>4. f[0] = 0 /\ f[1] = f[0] + ns[1] /\ f[2] = f[1] + ns[2]
    <3>1. 1 \in 1 .. Len(ns) /\ 2 \in 1 .. Len(ns) /\ 1 - 1 = 0 /\ 2 - 1 = 1
      BY <2>1
    <3>2. f[1] = f[1 - 1] + ns[1] /\ f[2] = f[2 - 1] + ns[2]
      BY <2>3, <3>1 DEF PartialSums
    <3> QED
      BY <2>3, <3>1, <3>2 DEF PartialSums
  <2>5. Total(ns) = f[2]
    BY <2>1, <2>3
  <2>6. f[2] = m.size + o.size
    BY <1>1, <2>1, <2>4
  <2> QED
    BY <2>2, <2>5, <2>6
<1>3. Tokens(<<m>>) = m.size
  <2> DEFINE ns == [i \in DOMAIN <<m>> |-> <<m>>[i].size]
  <2>1. ns \in Seq(Nat) /\ Len(ns) = 1 /\ ns[1] = m.size
    BY <1>1
  <2>2. Tokens(<<m>>) = Total(ns)
    BY DEF Tokens
  <2> HIDE DEF ns
  <2>3. PICK f : PartialSums(ns, f) /\ Total(ns) = f[Len(ns)]
    <3>1. Len(ns) \in Nat
      BY <2>1
    <3> QED
      BY <3>1, TotalDef
  <2>4. f[0] = 0 /\ f[1] = f[0] + ns[1]
    <3>1. 1 \in 1 .. Len(ns) /\ 1 - 1 = 0
      BY <2>1
    <3>2. f[1] = f[1 - 1] + ns[1]
      BY <2>3, <3>1 DEF PartialSums
    <3> QED
      BY <2>3, <3>1, <3>2 DEF PartialSums
  <2>5. Total(ns) = f[1]
    BY <2>1, <2>3
  <2>6. f[1] = m.size
    BY <1>1, <2>1, <2>4
  <2> QED
    BY <2>2, <2>5, <2>6
<1> QED
  BY <1>2, <1>3

\* Where a message that is appended stands.
LEMMA AppendRange ==
  ASSUME NEW X, NEW ms \in Seq(X), NEW m \in X
  PROVE  /\ Append(ms, m) \in Seq(X) /\ Len(ms) \in Nat
         /\ Len(Append(ms, m)) = Len(ms) + 1
         /\ DOMAIN Append(ms, m) = 1 .. Len(ms) + 1
         /\ \A i \in 1 .. Len(ms) : Append(ms, m)[i] = ms[i]
         /\ Append(ms, m)[Len(ms) + 1] = m
         /\ \A o : o \in Range(Append(ms, m)) <=> o \in Range(ms) \/ o = m
<1> DEFINE a == Append(ms, m)
<1>1. /\ a \in Seq(X) /\ Len(ms) \in Nat /\ Len(a) = Len(ms) + 1
      /\ \A i \in 1 .. Len(ms) : a[i] = ms[i]
      /\ a[Len(ms) + 1] = m
  BY AppendProperties, LenProperties
<1> HIDE DEF a
<1>2. DOMAIN a = 1 .. Len(ms) + 1 /\ DOMAIN ms = 1 .. Len(ms)
  BY <1>1, LenProperties
<1>3. \A o : o \in Range(a) <=> \E i \in 1 .. Len(ms) + 1 : a[i] = o
  BY <1>1, <1>2, InRange
<1>4. \A o : o \in Range(ms) <=> \E i \in 1 .. Len(ms) : ms[i] = o
  BY InRange
<1>5. /\ \A i \in 1 .. Len(ms) + 1 : i \in 1 .. Len(ms) \/ i = Len(ms) + 1
      /\ \A i \in 1 .. Len(ms) : i \in 1 .. Len(ms) + 1
      /\ Len(ms) + 1 \in 1 .. Len(ms) + 1
  BY <1>1
<1>6. ASSUME NEW o
      PROVE  o \in Range(a) <=> o \in Range(ms) \/ o = m
  BY <1>1, <1>3, <1>4, <1>5
<1> QED
  BY <1>1, <1>2, <1>6 DEF a

\* The next event at the end leaves no gap.
LEMMA AppendUpTo ==
  ASSUME NEW l, NEW n \in Nat, NEW ms, UpTo(l, ms, n),
         NEW m \in Messages(l), m.at = n + 1, n = 0 => m.role = "user"
  PROVE  UpTo(l, Append(ms, m), n + 1)
<1> DEFINE a == Append(ms, m)
<1>1. /\ ms \in Seq(Messages(l)) /\ Sorted(ms)
      /\ \A o \in Range(ms) : o.at <= n
      /\ n > 0 => \E o \in Range(ms) : o.at = 1 /\ o.role = "user"
  BY DEF UpTo
<1>2. /\ a \in Seq(Messages(l)) /\ Len(ms) \in Nat
      /\ DOMAIN a = 1 .. Len(ms) + 1
      /\ \A i \in 1 .. Len(ms) : a[i] = ms[i]
      /\ a[Len(ms) + 1] = m
      /\ \A o : o \in Range(a) <=> o \in Range(ms) \/ o = m
  BY <1>1, AppendRange
<1> HIDE DEF a
<1>3. \A o \in Range(ms) : o \in Messages(l) /\ o.at \in Nat /\ o.at <= n
  <2>1. \A o \in Range(ms) : o \in Messages(l)
    BY <1>1, InRange
  <2> QED
    BY <1>1, <2>1, Ranks
<1>4. Sorted(a)
  <2>1. Rank(m) = 3 + n
    BY Ranks
  <2>2. ASSUME NEW i \in 1 .. Len(ms)
        PROVE  Rank(ms[i]) \in Nat /\ Rank(ms[i]) < 3 + n
    <3>1. ms[i] \in Range(ms) /\ ms[i] \in Messages(l)
      BY <1>1, InRange
    <3>2. ms[i].at \in Nat /\ ms[i].at <= n
      BY <1>3, <3>1
    <3>3. Rank(ms[i]) \in Nat /\ (Rank(ms[i]) <= 2 \/ Rank(ms[i]) = 2 + ms[i].at)
      BY <3>1, Ranks
    <3> QED
      BY <3>2, <3>3
  <2>3. ASSUME NEW i \in DOMAIN a, NEW j \in DOMAIN a, i < j
        PROVE  Rank(a[i]) < Rank(a[j])
    <3>1. i \in 1 .. Len(ms) /\ (j \in 1 .. Len(ms) \/ j = Len(ms) + 1)
      BY <1>2, <2>3
    <3>2. CASE j \in 1 .. Len(ms)
      <4>1. DOMAIN ms = 1 .. Len(ms)
        BY <1>1, LenProperties
      <4>2. Rank(ms[i]) < Rank(ms[j])
        BY <1>1, <2>3, <3>1, <3>2, <4>1 DEF Sorted
      <4> QED
        BY <1>2, <3>1, <3>2, <4>2
    <3>3. CASE j = Len(ms) + 1
      BY <1>2, <2>1, <2>2, <3>1, <3>3
    <3> QED
      BY <3>1, <3>2, <3>3
  <2> QED
    BY <2>3 DEF Sorted
<1>5. \A o \in Range(a) : o.at <= n + 1
  <2>1. \A o \in Range(ms) : o.at <= n + 1
    BY <1>3
  <2>2. m.at <= n + 1
    OBVIOUS
  <2> QED
    BY <1>2, <2>1, <2>2
<1>6. ASSUME NEW o \in Range(a), NEW k \in Nat, o.at > 1, o.at <= k, k <= n + 1
      PROVE  \E p \in Range(a) : p.at = k
  <2>1. CASE k = n + 1
    BY <1>2, <2>1
  <2>2. CASE k # n + 1
    <3>1. k <= n
      BY <1>6, <2>2
    <3>2. o # m
      BY <1>6, <3>1
    <3>3. \E p \in Range(ms) : p.at = k
      BY <1>2, <1>6, <3>1, <3>2 DEF UpTo
    <3> QED
      BY <1>2, <3>3
  <2> QED
    BY <2>1, <2>2
<1>7. \E o \in Range(a) : o.at = 1 /\ o.role = "user"
  BY <1>1, <1>2
<1> QED
  BY <1>2, <1>4, <1>5, <1>6, <1>7 DEF UpTo, a

\* A memory that took the first n events and did not raise.
Sound(l, w, n) ==
  /\ w = [messages |-> w.messages, raised |-> FALSE]
  /\ UpTo(l, w.messages, n) /\ LastingFits(l, w.messages)

\* A message that fits is taken, and no gap arises.
LEMMA AddSound ==
  ASSUME NEW l, NEW n \in Nat, NEW ms, UpTo(l, ms, n), LastingFits(l, ms),
         NEW m \in Messages(l), m.at = n + 1, m.size <= Budget,
         n = 0 => m.role = "user" /\ ms = <<>>
  PROVE  Sound(l, Add([messages |-> ms, raised |-> FALSE], m), n + 1)
<1> DEFINE a == Append(ms, m)
           new == Compacted(a)
           w == Add([messages |-> ms, raised |-> FALSE], m)
<1>1. UpTo(l, a, n + 1)
  BY AppendUpTo
<1>2. ms \in Seq(Messages(l)) /\ m.size \in Nat
  BY Ranks DEF UpTo
<1>3. LastingFits(l, a)
  <2>1. CASE n = 0
    <3>1. a = <<m>>
      BY <2>1
    <3>2. Tokens(a) <= Budget
      BY <3>1, TokensOfFew
    <3>3. a \in Seq(Messages(l)) /\ Sorted(a)
      BY <1>1 DEF UpTo
    <3> HIDE DEF a
    <3> QED
      BY <3>2, <3>3, FitsAsAWhole
  <2>2. CASE n # 0
    <3>1. PICK c \in Seq(Messages(l)) :
            /\ Sorted(c) /\ Tokens(c) <= Budget
            /\ \A o \in Range(ms) : Lasting(o) => o \in Range(c)
      BY DEF LastingFits
    <3>2. ~Lasting(m)
      <4>1. Rank(m) = 3 + n /\ ~(Rank(m) < 2)
        BY Ranks
      <4> QED
        BY <2>2, <4>1, Ranks DEF Lasting
    <3>3. \A o : o \in Range(a) <=> o \in Range(ms) \/ o = m
      BY <1>2, AppendRange
    <3> HIDE DEF a
    <3> QED
      BY <3>1, <3>2, <3>3 DEF LastingFits
  <2> QED
    BY <2>1, <2>2
<1>4. w = [messages |-> new, raised |-> Tokens(new) > Budget]
  <2>1. ~(m.size > Budget)
    BY <1>2, BudgetAssumption
  <2> HIDE DEF new
  <2> QED
    BY <2>1 DEF Add, new
<1> HIDE DEF a, w
<1>5. WithTask(l, a)
  BY <1>1 DEF UpTo, WithTask
<1>6. Shrinks(l, a, new) /\ Tokens(new) <= Budget
  BY <1>3, <1>5, CompactedShrinks, CompactedFits
<1>7. UpTo(l, new, n + 1) /\ LastingFits(l, new)
  BY <1>1, <1>3, <1>6, ShrinksKeepsUpTo, ShrinksKeepsFitting
<1> HIDE DEF new
<1>8. Tokens(new) \in Nat
  BY <1>6, TokensType DEF Shrinks
<1>9. (Tokens(new) > Budget) = FALSE
  BY <1>6, <1>8, BudgetAssumption
<1>10. w = [messages |-> new, raised |-> FALSE]
  BY <1>4, <1>9, Zenon
<1>11. w.messages = new
  BY <1>10
<1> QED
  BY <1>7, <1>10, <1>11 DEF Sound, w

\* A memory that raised, or is offered what is larger than its budget, raises and
\* keeps what it had.
LEMMA AddRefuses ==
  ASSUME NEW ms, NEW b \in BOOLEAN, NEW m, b \/ m.size > Budget
  PROVE  Add([messages |-> ms, raised |-> b], m) = [messages |-> ms, raised |-> TRUE]
  BY DEF Add

(***************************************************************************)
(* Logs, and the messages of their events.                                 *)
(***************************************************************************)
Events == [role : EventRoles, size : Nat, marked : BOOLEAN, ok : BOOLEAN]

\* A run begins with its task.
Log(l) == l \in Seq(Events) /\ (Len(l) > 0 => l[1].role = "user")

\* An event becomes a message of its own role.
LEMMA MessageType ==
  ASSUME NEW l, Log(l), NEW i \in 1 .. Len(l), NEW live \in BOOLEAN
  PROVE  /\ Message(l, i, live) \in Messages(l)
         /\ Message(l, i, live).at = i
         /\ Message(l, i, live).role = l[i].role
<1>1. DOMAIN l = 1 .. Len(l) /\ Len(l) \in Nat /\ l[i] \in Events
  BY LenProperties, ElementOfSeq DEF Log
<1>2. /\ l[i].role \in EventRoles /\ l[i].size \in Nat /\ l[i].ok \in BOOLEAN
      /\ i \in Nat /\ i > 0 /\ i \in DOMAIN l
  BY <1>1 DEF Events
<1>3. Wrapper \in Nat /\ Envelope \in Nat
  BY SizesAssumption
<1>4. CASE l[i].role # "tool"
  BY <1>2, <1>4 DEF Message, Messages, EventRoles, SystemRoles
<1>5. CASE l[i].role = "tool"
  <2> DEFINE s == Wrapper + (IF live THEN Envelope + l[i].size
                             ELSE IF l[i].ok THEN l[i].size ELSE 1)
  <2>1. Message(l, i, live) = [role |-> "tool", at |-> i, told |-> live, size |-> s]
    BY <1>5 DEF Message
  <2>2. s \in Nat
    BY <1>2, <1>3
  <2> HIDE DEF s
  <2> QED
    BY <1>2, <1>5, <2>1, <2>2 DEF Messages, EventRoles, SystemRoles
<1> QED
  BY <1>4, <1>5

\* A rebuilt message is no larger than the live one was.
LEMMA RebuiltSmaller ==
  ASSUME NEW l, Log(l), NEW i \in 1 .. Len(l), Message(l, i, TRUE).size <= Budget
  PROVE  Message(l, i, FALSE).size <= Budget
<1>1. l[i] \in Events
  BY ElementOfSeq DEF Log
<1>2. l[i].size \in Nat /\ l[i].ok \in BOOLEAN
  BY <1>1 DEF Events
<1>3. Wrapper \in Nat /\ Envelope \in Nat /\ Envelope >= 1 /\ Budget \in Nat
  BY SizesAssumption, BudgetAssumption
<1> QED
  BY <1>2, <1>3 DEF Message

\* What a log allows, a longer one does.
LEMMA LogGrows ==
  ASSUME NEW l, Log(l), NEW e \in Events, Len(l) = 0 => e.role = "user"
  PROVE  /\ Log(Append(l, e)) /\ Len(Append(l, e)) = Len(l) + 1 /\ Len(l) \in Nat
         /\ \A i \in 1 .. Len(l) : Append(l, e)[i] = l[i]
         /\ Append(l, e)[Len(l) + 1] = e
         /\ Messages(l) \subseteq Messages(Append(l, e))
         /\ \A ms \in Seq(Messages(l)) : ms \in Seq(Messages(Append(l, e)))
         /\ \A ms, n : UpTo(l, ms, n) => UpTo(Append(l, e), ms, n)
         /\ \A ms : LastingFits(l, ms) => LastingFits(Append(l, e), ms)
<1> DEFINE k == Append(l, e)
<1>1. /\ k \in Seq(Events) /\ Len(l) \in Nat /\ Len(k) = Len(l) + 1
      /\ DOMAIN k = 1 .. Len(l) + 1
      /\ \A i \in 1 .. Len(l) : k[i] = l[i]
      /\ k[Len(l) + 1] = e
  BY AppendRange DEF Log
<1>2. DOMAIN l = 1 .. Len(l)
  BY LenProperties DEF Log
<1> HIDE DEF k
<1>3. Log(k)
  <2>1. CASE Len(l) = 0
    BY <1>1, <2>1 DEF Log
  <2>2. CASE Len(l) # 0
    <3>1. 1 \in 1 .. Len(l) /\ Len(l) > 0
      BY <1>1, <2>2
    <3> QED
      BY <1>1, <3>1 DEF Log
  <2> QED
    BY <2>1, <2>2
<1>4. \A i \in DOMAIN l : i \in DOMAIN k /\ k[i] = l[i]
  BY <1>1, <1>2
<1>5. ASSUME NEW m \in Messages(l)
      PROVE  m \in Messages(k)
  <2>1. CASE m.role \in EventRoles
    <3>1. m.at \in DOMAIN l
      BY <2>1 DEF Messages
    <3>2. m.at \in DOMAIN k /\ k[m.at] = l[m.at]
      BY <1>4, <3>1
    <3> QED
      BY <3>1, <3>2 DEF Messages
  <2>2. CASE m.role \notin EventRoles
    BY <2>2 DEF Messages, EventRoles, SystemRoles
  <2> QED
    BY <2>1, <2>2
<1>6. Messages(l) \subseteq Messages(k)
  BY <1>5
<1>7. ASSUME NEW ms \in Seq(Messages(l))
      PROVE  ms \in Seq(Messages(k))
  <2>1. /\ Len(ms) \in Nat /\ ms \in [1 .. Len(ms) -> Messages(l)]
    BY LenProperties
  <2>2. ms \in [1 .. Len(ms) -> Messages(k)]
    BY <1>6, <2>1
  <2> QED
    BY <2>1, <2>2, SeqDef
<1>8. ASSUME NEW ms, NEW n, UpTo(l, ms, n)
      PROVE  UpTo(k, ms, n)
  BY <1>7, <1>8 DEF UpTo
<1>9. ASSUME NEW ms, LastingFits(l, ms)
      PROVE  LastingFits(k, ms)
  BY <1>7, <1>9 DEF LastingFits
<1> QED
  BY <1>1, <1>3, <1>6, <1>7, <1>8, <1>9 DEF k

(***************************************************************************)
(* The rebuilt memory.                                                     *)
(***************************************************************************)
Fits(l, i) == Message(l, i, FALSE).size <= Budget

\* The memory after the first n events: it raised if one of them was too large,
\* and is sound if none was.
RebuiltTo(l, w, n) ==
  /\ (\E i \in 1 .. n : ~Fits(l, i)) => w = [messages |-> w.messages, raised |-> TRUE]
  /\ (\A i \in 1 .. n : Fits(l, i)) =>
       Sound(l, w, n) /\ (n = 0 => w.messages = <<>>)

\* from_events, one event further.
LEMMA RebuiltNext ==
  ASSUME NEW l, Log(l), NEW n \in 0 .. Len(l) - 1, NEW w, RebuiltTo(l, w, n)
  PROVE  RebuiltTo(l, Add(w, Message(l, n + 1, FALSE)), n + 1)
<1> DEFINE m == Message(l, n + 1, FALSE)
           v == Add(w, m)
<1>1. Len(l) \in Nat /\ n \in Nat /\ n + 1 \in 1 .. Len(l)
  BY LenProperties DEF Log
<1>2. m \in Messages(l) /\ m.at = n + 1 /\ m.role = l[n + 1].role
  BY <1>1, MessageType
<1>3. m.size <= Budget <=> Fits(l, n + 1)
  BY DEF Fits
<1> HIDE DEF m
<1>4. n = 0 => m.role = "user"
  <2>1. n = 0 => n + 1 = 1 /\ Len(l) > 0
    BY <1>1
  <2> QED
    BY <1>2, <2>1 DEF Log
<1>5. m.size \in Nat
  BY <1>2, Ranks
<1>6. \A i \in 1 .. n + 1 : i \in 1 .. n \/ i = n + 1
  BY <1>1
<1>7. \A i \in 1 .. n : i \in 1 .. n + 1
  BY <1>1
<1>8. CASE \E i \in 1 .. n : ~Fits(l, i)
  <2>1. w = [messages |-> w.messages, raised |-> TRUE]
    BY <1>8 DEF RebuiltTo
  <2>2. v = [messages |-> w.messages, raised |-> TRUE]
    BY <2>1, AddRefuses
  <2> HIDE DEF v
  <2>3. v = [messages |-> v.messages, raised |-> TRUE]
    BY <2>2
  <2>4. ~\A i \in 1 .. n + 1 : Fits(l, i)
    BY <1>7, <1>8
  <2> QED
    BY <2>3, <2>4 DEF RebuiltTo, v, m
<1>9. CASE \A i \in 1 .. n : Fits(l, i)
  <2>1. /\ w = [messages |-> w.messages, raised |-> FALSE]
        /\ UpTo(l, w.messages, n) /\ LastingFits(l, w.messages)
        /\ n = 0 => w.messages = <<>>
    BY <1>9 DEF RebuiltTo, Sound
  <2>2. CASE Fits(l, n + 1)
    <3>1. PICK old : old = w.messages
      OBVIOUS
    <3>2. /\ v = Add([messages |-> old, raised |-> FALSE], m)
          /\ UpTo(l, old, n) /\ LastingFits(l, old)
          /\ n = 0 => m.role = "user" /\ old = <<>>
      BY <1>4, <2>1, <3>1
    <3>3. m.size <= Budget
      BY <1>3, <2>2
    <3> HIDE DEF v
    <3>4. Sound(l, Add([messages |-> old, raised |-> FALSE], m), n + 1)
      BY <1>1, <1>2, <3>2, <3>3, AddSound
    <3>5. ~\E i \in 1 .. n + 1 : ~Fits(l, i)
      BY <1>6, <1>9, <2>2
    <3>6. n + 1 # 0
      BY <1>1
    <3>7. RebuiltTo(l, v, n + 1)
      BY <3>2, <3>4, <3>5, <3>6 DEF RebuiltTo
    <3> QED
      BY <3>7 DEF v, m
  <2>3. CASE ~Fits(l, n + 1)
    <3>1. m.size > Budget
      BY <1>3, <1>5, <2>3, BudgetAssumption
    <3>2. v = [messages |-> w.messages, raised |-> TRUE]
      BY <2>1, <3>1, AddRefuses
    <3> HIDE DEF v
    <3>3. v = [messages |-> v.messages, raised |-> TRUE]
      BY <3>2
    <3>4. ~\A i \in 1 .. n + 1 : Fits(l, i)
      BY <1>1, <2>3
    <3> QED
      BY <3>3, <3>4 DEF RebuiltTo, v, m
  <2> QED
    BY <2>2, <2>3
<1> QED
  BY <1>8, <1>9

\* A memory that took nothing.
LEMMA EmptySound ==
  ASSUME NEW l
  PROVE  UpTo(l, <<>>, 0) /\ LastingFits(l, <<>>)
<1>1. <<>> \in Seq(Messages(l)) /\ DOMAIN <<>> = {} /\ Range(<<>>) = {}
  BY DEF Range
<1>2. Sorted(<<>>)
  BY <1>1 DEF Sorted
<1>3. UpTo(l, <<>>, 0)
  BY <1>1, <1>2 DEF UpTo
<1>4. Tokens(<<>>) <= Budget
  <2>1. [i \in DOMAIN <<>> |-> <<>>[i].size] = <<>>
    OBVIOUS
  <2>2. Len(<<>>) = 0 /\ Len(<<>>) \in Nat
    OBVIOUS
  <2>3. Total(<<>>) = 0
    BY <2>2, TotalDef DEF PartialSums
  <2> QED
    BY <2>1, <2>3, BudgetAssumption DEF Tokens
<1>5. LastingFits(l, <<>>)
  BY <1>1, <1>2, <1>4, FitsAsAWhole
<1> QED
  BY <1>3, <1>5

\* from_events, to the end of the log.
LEMMA RebuiltSound ==
  ASSUME Log(log)
  PROVE  RebuiltTo(log, Rebuilt, Len(log))
<1> DEFINE N == Len(log)
           Body(n, x) == Add(x, Message(log, n, FALSE))
           Parts(m, f) ==
             f = [n \in 0 .. m |-> IF n = 0 THEN EmptyWindow ELSE Body(n, f[n - 1])]
           T == {m \in 0 .. N : \E f : Parts(m, f)}
<1>0. N \in Nat
  BY LenProperties DEF Log
<1>1. 0 \in T
  <2>1. Parts(0, [n \in 0 .. 0 |-> EmptyWindow])
    OBVIOUS
  <2> HIDE DEF Parts
  <2> QED
    BY <1>0, <2>1
<1>2. ASSUME NEW m \in 0 .. N - 1, m \in T
      PROVE  m + 1 \in T
  <2>1. PICK f : Parts(m, f)
    BY <1>2
  <2> DEFINE g == [n \in 0 .. m + 1 |-> IF n = m + 1 THEN Body(n, f[m]) ELSE f[n]]
  <2> HIDE DEF Body
  <2>2. Parts(m + 1, g)
    BY <2>1
  <2> HIDE DEF g, Parts
  <2> QED
    BY <1>0, <2>2
<1>3. 0 .. N \subseteq T
  <2> HIDE DEF T
  <2> QED
    BY <1>0, <1>1, <1>2, Induction
<1>4. \E f : Parts(N, f)
  <2> HIDE DEF Parts
  <2> QED
    BY <1>0, <1>3
<1> DEFINE h == CHOOSE f : f = [n \in 0 .. N |->
                                  IF n = 0 THEN EmptyWindow
                                  ELSE Add(f[n - 1], Message(log, n, FALSE))]
<1>5. Rebuilt = h[N]
  BY Zenon DEF Rebuilt
<1>6. Parts(N, h)
  BY <1>4
<1> HIDE DEF h
<1>7. /\ h[0] = EmptyWindow
      /\ \A n \in 0 .. N - 1 : h[n + 1] = Add(h[n], Message(log, n + 1, FALSE))
  <2> HIDE DEF Body
  <2>1. h[0] = EmptyWindow /\ \A n \in 1 .. N : h[n] = Body(n, h[n - 1])
    BY <1>0, <1>6
  <2>2. \A n \in 0 .. N - 1 : n + 1 \in 1 .. N /\ (n + 1) - 1 = n
    BY <1>0
  <2>3. \A n \in 0 .. N - 1 : h[n + 1] = Body(n + 1, h[n])
    BY <2>1, <2>2
  <2> QED
    BY <2>1, <2>3 DEF Body
<1> HIDE DEF Parts, Body, T
<1> DEFINE U == {n \in 0 .. N : RebuiltTo(log, h[n], n)}
<1>8. 0 \in U
  <2>1. /\ h[0].messages = <<>>
        /\ h[0] = [messages |-> h[0].messages, raised |-> FALSE]
    BY <1>7 DEF EmptyWindow
  <2>2. RebuiltTo(log, h[0], 0)
    <3>1. ~\E i \in 1 .. 0 : ~Fits(log, i)
      OBVIOUS
    <3> QED
      BY <2>1, <3>1, EmptySound DEF RebuiltTo, Sound
  <2> QED
    BY <1>0, <2>2
<1>9. ASSUME NEW n \in 0 .. N - 1, n \in U
      PROVE  n + 1 \in U
  <2>1. RebuiltTo(log, h[n + 1], n + 1)
    BY <1>7, <1>9, RebuiltNext
  <2> QED
    BY <1>0, <2>1
<1>10. 0 .. N \subseteq U
  <2> HIDE DEF U
  <2> QED
    BY <1>0, <1>8, <1>9, Induction
<1> QED
  BY <1>0, <1>5, <1>10

(***************************************************************************)
(* What get_compacted_context puts in front.                               *)
(***************************************************************************)
LEMMA SameConversation ==
  ASSUME NEW l, NEW n, NEW a, UpTo(l, a, n), NEW b \in Seq(Messages(l)), Sorted(b),
         \A m \in Range(a) : m.at > 0 => m \in Range(b),
         \A m \in Range(b) : m.at > 0 => m \in Range(a), n \in Nat
  PROVE  UpTo(l, b, n)
<1>1. \A m \in Range(b) : m.at \in Nat
  <2>1. \A m \in Range(b) : m \in Messages(l)
    BY InRange
  <2> QED
    BY <2>1, Ranks
<1>2. ASSUME NEW m \in Range(b)
      PROVE  m.at <= n
  <2>1. CASE m.at > 0
    BY <2>1 DEF UpTo
  <2>2. CASE ~(m.at > 0)
    BY <1>1, <2>2
  <2> QED
    BY <2>1, <2>2
<1>3. ASSUME NEW m \in Range(b), NEW k \in Nat, m.at > 1, m.at <= k, k <= n
      PROVE  \E o \in Range(b) : o.at = k
  <2>1. m.at > 0 /\ k > 0
    BY <1>1, <1>3
  <2>2. PICK o \in Range(a) : o.at = k
    BY <1>3, <2>1 DEF UpTo
  <2> QED
    BY <2>1, <2>2
<1>4. n > 0 => \E m \in Range(b) : m.at = 1 /\ m.role = "user"
  BY DEF UpTo
<1> QED
  BY <1>2, <1>3, <1>4 DEF UpTo

\* In front of a window stands what has a lower rank.
LEMMA Prepend ==
  ASSUME NEW l, NEW p \in Messages(l), NEW ms \in Seq(Messages(l)), Sorted(ms),
         \A m \in Range(ms) : Rank(p) < Rank(m)
  PROVE  /\ <<p>> \o ms \in Seq(Messages(l)) /\ Sorted(<<p>> \o ms)
         /\ \A m : m \in Range(<<p>> \o ms) <=> m = p \/ m \in Range(ms)
<1> DEFINE a == <<p>> \o ms
<1>1. /\ Len(ms) \in Nat /\ <<p>> \in Seq(Messages(l)) /\ Len(<<p>>) = 1 /\ <<p>>[1] = p
      /\ DOMAIN ms = 1 .. Len(ms)
  BY LenProperties
<1>2. /\ a \in Seq(Messages(l)) /\ Len(a) = Len(<<p>>) + Len(ms)
      /\ \A i \in 1 .. Len(<<p>>) + Len(ms) :
           a[i] = IF i <= Len(<<p>>) THEN <<p>>[i] ELSE ms[i - Len(<<p>>)]
  BY <1>1, ConcatProperties
<1> HIDE DEF a
<1>3. /\ DOMAIN a = 1 .. 1 + Len(ms)
      /\ a[1] = p
      /\ \A i \in 2 .. 1 + Len(ms) : a[i] = ms[i - 1] /\ i - 1 \in 1 .. Len(ms)
  <2>1. DOMAIN a = 1 .. Len(a)
    BY <1>2, LenProperties
  <2>2. 1 \in 1 .. 1 + Len(ms) /\ \A i \in 2 .. 1 + Len(ms) : ~(i <= 1) /\ i \in 1 .. 1 + Len(ms)
    BY <1>1
  <2>3. \A i \in 2 .. 1 + Len(ms) : i - 1 \in 1 .. Len(ms)
    BY <1>1
  <2> QED
    BY <1>1, <1>2, <2>1, <2>2, <2>3
<1>4. \A i \in 1 .. Len(ms) : i + 1 \in 2 .. 1 + Len(ms) /\ (i + 1) - 1 = i
  BY <1>1
<1>5. \A i \in 1 .. 1 + Len(ms) : i = 1 \/ i \in 2 .. 1 + Len(ms)
  BY <1>1
<1>6. \A i \in 1 .. Len(ms) : ms[i] \in Range(ms)
  BY InRange
<1>7. Sorted(a)
  <2> SUFFICES ASSUME NEW i \in DOMAIN a, NEW j \in DOMAIN a, i < j
               PROVE  Rank(a[i]) < Rank(a[j])
    BY DEF Sorted
  <2>1. j \in 2 .. 1 + Len(ms) /\ a[j] = ms[j - 1] /\ j - 1 \in 1 .. Len(ms)
    BY <1>1, <1>3
  <2>2. CASE i = 1
    BY <1>3, <1>6, <2>1, <2>2
  <2>3. CASE i \in 2 .. 1 + Len(ms)
    <3>1. a[i] = ms[i - 1] /\ i - 1 \in 1 .. Len(ms) /\ i - 1 < j - 1
      BY <1>3, <2>1, <2>3
    <3> QED
      BY <1>1, <2>1, <3>1 DEF Sorted
  <2> QED
    BY <1>3, <1>5, <2>2, <2>3
<1>8. ASSUME NEW m
      PROVE  m \in Range(a) <=> m = p \/ m \in Range(ms)
  <2>1. m \in Range(a) <=> \E i \in 1 .. 1 + Len(ms) : a[i] = m
    BY <1>3 DEF Range
  <2>2. m \in Range(ms) <=> \E i \in 1 .. Len(ms) : ms[i] = m
    BY InRange
  <2>3. 1 \in 1 .. 1 + Len(ms) /\ \A i \in 2 .. 1 + Len(ms) : i \in 1 .. 1 + Len(ms)
    BY <1>1
  <2>4. ASSUME NEW i \in 1 .. Len(ms), ms[i] = m
        PROVE  m \in Range(a)
    <3>1. i + 1 \in 1 .. 1 + Len(ms) /\ a[i + 1] = m
      BY <1>3, <1>4, <2>3, <2>4
    <3> QED
      BY <2>1, <3>1
  <2>5. m = p => m \in Range(a)
    BY <1>3, <2>1, <2>3
  <2>6. ASSUME m \in Range(a)
        PROVE  m = p \/ m \in Range(ms)
    <3>1. PICK i \in 1 .. 1 + Len(ms) : a[i] = m
      BY <2>1, <2>6
    <3> QED
      BY <1>3, <1>5, <2>2, <3>1
  <2> QED
    BY <2>2, <2>4, <2>5, <2>6
<1> QED
  BY <1>2, <1>7, <1>8 DEF a

\* A window without its first message.
LEMMA HeadAndTail ==
  ASSUME NEW l, NEW ms \in Seq(Messages(l)), Sorted(ms), ms # <<>>
  PROVE  /\ Tail(ms) \in Seq(Messages(l)) /\ Sorted(Tail(ms)) /\ Head(ms) \in Messages(l)
         /\ \A m \in Range(Tail(ms)) : m \in Range(ms) /\ Rank(Head(ms)) < Rank(m)
         /\ \A m \in Range(ms) : m = Head(ms) \/ m \in Range(Tail(ms))
         /\ Head(ms) \in Range(ms)
<1> DEFINE t == Tail(ms)
<1>1. /\ Len(ms) \in Nat /\ DOMAIN ms = 1 .. Len(ms) /\ Len(ms) > 0
      /\ Head(ms) = ms[1] /\ ms[1] \in Messages(l)
      /\ t \in Seq(Messages(l)) /\ Len(t) = Len(ms) - 1
      /\ \A i \in 1 .. Len(t) : t[i] = ms[i + 1]
  <2>1. Len(ms) \in Nat /\ DOMAIN ms = 1 .. Len(ms) /\ Len(ms) > 0
    BY LenProperties, EmptySeq
  <2>2. 1 \in 1 .. Len(ms)
    BY <2>1
  <2> QED
    BY <2>1, <2>2, ElementOfSeq, HeadTailProperties
<1> HIDE DEF t
<1>2. DOMAIN t = 1 .. Len(t)
  BY <1>1, LenProperties
<1>3. \A i \in 1 .. Len(t) : i + 1 \in 1 .. Len(ms) /\ 1 < i + 1
  BY <1>1
<1>4. \A i \in 1 .. Len(ms) :
        \/ i = 1
        \/ i - 1 \in 1 .. Len(t) /\ (i - 1) + 1 = i
  BY <1>1
<1>5. 1 \in 1 .. Len(ms)
  BY <1>1
<1>6. ASSUME NEW i \in DOMAIN t, NEW j \in DOMAIN t, i < j
      PROVE  Rank(t[i]) < Rank(t[j])
  <2>1. i + 1 \in DOMAIN ms /\ j + 1 \in DOMAIN ms /\ i + 1 < j + 1
    BY <1>1, <1>2, <1>3, <1>6
  <2> QED
    BY <1>1, <1>2, <2>1 DEF Sorted
<1>7. \A m : m \in Range(t) <=> \E i \in 1 .. Len(t) : t[i] = m
  BY <1>1, InRange
<1>8. \A m : m \in Range(ms) <=> \E i \in 1 .. Len(ms) : ms[i] = m
  BY InRange
<1>9. \A i \in 1 .. Len(t) : Rank(ms[1]) < Rank(ms[i + 1])
  BY <1>1, <1>3, <1>5 DEF Sorted
<1>10. ASSUME NEW m \in Range(t)
       PROVE  m \in Range(ms) /\ Rank(Head(ms)) < Rank(m)
  BY <1>1, <1>3, <1>7, <1>8, <1>9
<1>11. ASSUME NEW m \in Range(ms)
       PROVE  m = Head(ms) \/ m \in Range(t)
  <2>1. PICK i \in 1 .. Len(ms) : ms[i] = m
    BY <1>8
  <2>2. CASE i = 1
    BY <1>1, <2>1, <2>2
  <2>3. CASE i # 1
    <3>1. i - 1 \in 1 .. Len(t) /\ t[i - 1] = m
      BY <1>1, <1>4, <2>1, <2>3
    <3> QED
      BY <1>7, <3>1
  <2> QED
    BY <2>2, <2>3
<1>12. Sorted(t)
  BY <1>6 DEF Sorted
<1> QED
  BY <1>1, <1>5, <1>8, <1>10, <1>11, <1>12 DEF t

HasPreamble(ms) == \E m \in Range(ms) : m.role = "preamble"
HasLedger(ms) == \E m \in Range(ms) : m.role = "ledger"

\* Preamble and ledger are messages of the system.
LEMMA SystemTypes ==
  ASSUME NEW l
  PROVE  /\ System("preamble", Preamble) \in Messages(l)
         /\ \A s \in Nat : System("ledger", s) \in Messages(l)
  BY SizesAssumption DEF System, Messages, EventRoles, SystemRoles

\* _ensure_safety_preamble leaves the conversation as it is.
LEMMA WithPreambleSound ==
  ASSUME NEW l, NEW n \in Nat, NEW ms, UpTo(l, ms, n)
  PROVE  UpTo(l, WithPreamble(ms), n) /\ HasPreamble(WithPreamble(ms))
<1> DEFINE p == System("preamble", Preamble)
<1>1. ms \in Seq(Messages(l)) /\ Sorted(ms)
  BY DEF UpTo
<1>2. /\ \A m : m \in Range(ms) <=> \E i \in 1 .. Len(ms) : ms[i] = m
      /\ \A m \in Range(ms) : m \in Messages(l)
      /\ DOMAIN ms = 1 .. Len(ms)
  BY <1>1, InRange
<1>3. CASE \E i \in DOMAIN ms : ms[i].role = "preamble"
  BY <1>2, <1>3 DEF WithPreamble, HasPreamble
<1>4. CASE ~\E i \in DOMAIN ms : ms[i].role = "preamble"
  <2>1. WithPreamble(ms) = <<p>> \o ms
    BY <1>4 DEF WithPreamble
  <2>2. p \in Messages(l) /\ p.role = "preamble" /\ p.at = 0
    BY SystemTypes DEF System
  <2>3. Rank(p) = 0
    BY <2>2, Ranks
  <2> HIDE DEF p
  <2>4. ASSUME NEW m \in Range(ms)
        PROVE  Rank(p) < Rank(m)
    <3>1. m \in Messages(l) /\ m.role # "preamble"
      BY <1>2, <1>4
    <3>2. Rank(m) \in Nat /\ Rank(m) # 0
      BY <3>1, Ranks
    <3> QED
      BY <2>3, <3>2
  <2> DEFINE a == <<p>> \o ms
  <2>5. /\ a \in Seq(Messages(l)) /\ Sorted(a)
        /\ \A m : m \in Range(a) <=> m = p \/ m \in Range(ms)
    BY <1>1, <2>2, <2>4, Prepend
  <2> HIDE DEF a
  <2>6. p \in Range(a) /\ ~(p.at > 0)
    BY <2>2, <2>5
  <2>7. UpTo(l, a, n)
    BY <2>5, <2>6, SameConversation
  <2> QED
    BY <2>1, <2>2, <2>6, <2>7 DEF a, HasPreamble
<1> QED
  BY <1>3, <1>4

\* A message of the window that is no preamble ranks above one that is.
LEMMA SyncedSound ==
  ASSUME NEW l, NEW n \in Nat, NEW ms, UpTo(l, ms, n), HasPreamble(ms),
         NEW fs, LedgerTokens(fs) \in Nat
  PROVE  /\ UpTo(l, Synced(ms, fs), n) /\ HasPreamble(Synced(ms, fs))
         /\ HasLedger(Synced(ms, fs)) <=> fs # <<>>
<1> DEFINE rest == At(ms, {i \in DOMAIN ms : ms[i].role # "ledger"})
           led == System("ledger", LedgerTokens(fs))
           t == Tail(rest)
           h == Head(rest)
           b == <<led>> \o t
           s == <<h>> \o b
<1>1. ms \in Seq(Messages(l)) /\ Sorted(ms)
  BY DEF UpTo
<1>2. /\ \A m : m \in Range(ms) <=> \E i \in 1 .. Len(ms) : ms[i] = m
      /\ \A m \in Range(ms) : m \in Messages(l)
      /\ DOMAIN ms = 1 .. Len(ms)
  BY <1>1, InRange
<1>3. /\ rest \in Seq(Messages(l)) /\ Sorted(rest)
      /\ \A m : m \in Range(rest) <=> m \in Range(ms) /\ m.role # "ledger"
  <2> DEFINE places == {i \in DOMAIN ms : ms[i].role # "ledger"}
  <2>1. \A i \in 1 .. Len(ms) : i \in places <=> ms[i].role # "ledger"
    BY <1>2
  <2> HIDE DEF places
  <2>2. /\ At(ms, places) \in Seq(Messages(l)) /\ Sorted(At(ms, places))
        /\ \A m : m \in Range(At(ms, places))
                    <=> \E i \in 1 .. Len(ms) : i \in places /\ ms[i] = m
    BY <1>1, AtSorted
  <2>3. \A m : m \in Range(At(ms, places)) <=> m \in Range(ms) /\ m.role # "ledger"
    BY <1>2, <2>1, <2>2
  <2> QED
    BY <2>2, <2>3 DEF places
<1>4. Synced(ms, fs) = IF fs = <<>> THEN rest ELSE <<h, led>> \o t
  BY DEF Synced
<1>5. led \in Messages(l) /\ led.role = "ledger" /\ led.at = 0 /\ Rank(led) = 1
  <2>1. led \in Messages(l) /\ led.role = "ledger" /\ led.at = 0
    BY SystemTypes DEF System
  <2> HIDE DEF led
  <2> QED
    BY <2>1, Ranks
<1> HIDE DEF rest, led
<1>6. UpTo(l, rest, n)
  <2>1. \A m \in Range(ms) : m.at > 0 => m.role # "ledger"
    BY <1>2 DEF Messages, SystemRoles
  <2> QED
    BY <1>3, <2>1, SameConversation
<1>7. PICK p \in Range(rest) : p.role = "preamble"
  BY <1>3 DEF HasPreamble
<1>8. CASE fs = <<>>
  BY <1>3, <1>4, <1>6, <1>7, <1>8 DEF HasPreamble, HasLedger
<1>9. CASE fs # <<>>
  <2>1. rest # <<>>
    BY <1>7 DEF Range
  <2>2. /\ t \in Seq(Messages(l)) /\ Sorted(t) /\ h \in Messages(l)
        /\ \A m \in Range(t) : m \in Range(rest) /\ Rank(h) < Rank(m)
        /\ \A m \in Range(rest) : m = h \/ m \in Range(t)
        /\ h \in Range(rest)
    BY <1>3, <2>1, HeadAndTail
  <2>3. <<h, led>> \o t = s
    <3>1. t \in Seq(Messages(l)) /\ <<h>> \in Seq(Messages(l)) /\ <<led>> \in Seq(Messages(l))
      BY <1>5, <2>2
    <3>2. <<h, led>> = <<h>> \o <<led>>
      OBVIOUS
    <3> HIDE DEF t, h
    <3> QED
      BY <3>1, <3>2, ConcatAssociative
  <2> HIDE DEF t, h
  <2>4. \A m \in Range(rest) : m \in Messages(l) /\ Rank(m) \in Nat /\ m.role # "ledger"
    <3>1. \A m \in Range(rest) : m \in Messages(l) /\ m.role # "ledger"
      BY <1>2, <1>3
    <3> QED
      BY <3>1, Ranks
  <2>5. Rank(h) = 0
    <3>1. Rank(p) = 0 /\ Rank(h) \in Nat
      BY <1>7, <2>2, <2>4, Ranks
    <3>2. p = h \/ Rank(h) < Rank(p)
      BY <1>7, <2>2
    <3> QED
      BY <3>1, <3>2
  <2>6. h.role = "preamble" /\ h.at = 0
    <3>1. h.role = "preamble"
      BY <2>2, <2>5, Ranks
    <3> QED
      BY <2>2, <3>1 DEF Messages, SystemRoles
  <2>7. \A m \in Range(t) : Rank(led) < Rank(m)
    <3>1. ASSUME NEW m \in Range(t)
          PROVE  Rank(m) # 1 /\ Rank(m) # 0 /\ Rank(m) \in Nat
      <4>1. m \in Range(rest) /\ Rank(h) < Rank(m)
        BY <2>2
      <4>2. m \in Messages(l) /\ Rank(m) \in Nat /\ m.role # "ledger"
        BY <2>4, <4>1
      <4> QED
        BY <2>5, <4>1, <4>2, Ranks
    <3> QED
      BY <1>5, <3>1
  <2>8. /\ b \in Seq(Messages(l)) /\ Sorted(b)
        /\ \A m : m \in Range(b) <=> m = led \/ m \in Range(t)
    BY <1>5, <2>2, <2>7, Prepend
  <2> HIDE DEF b
  <2>9. \A m \in Range(b) : Rank(h) < Rank(m)
    BY <1>5, <2>2, <2>5, <2>8
  <2>10. /\ s \in Seq(Messages(l)) /\ Sorted(s)
         /\ \A m : m \in Range(s) <=> m = h \/ m \in Range(b)
    BY <2>2, <2>8, <2>9, Prepend
  <2> HIDE DEF s
  <2>11. \A m : m \in Range(s) <=> m = led \/ m \in Range(rest)
    BY <2>2, <2>8, <2>10
  <2>12. ~(led.at > 0) /\ led \in Range(s)
    BY <1>5, <2>11
  <2>13. UpTo(l, s, n)
    BY <1>6, <2>10, <2>11, <2>12, SameConversation
  <2> QED
    BY <1>4, <1>5, <1>7, <1>9, <2>3, <2>11, <2>12, <2>13 DEF HasPreamble, HasLedger
<1> QED
  BY <1>8, <1>9

\* Of two messages in a window with the same rank there is one.
LEMMA SameRank ==
  ASSUME NEW l, NEW ms \in Seq(Messages(l)), Sorted(ms),
         NEW m \in Range(ms), NEW o \in Range(ms), Rank(m) = Rank(o)
  PROVE  m = o
<1>1. PICK i \in 1 .. Len(ms) : ms[i] = m
  BY InRange
<1>2. PICK j \in 1 .. Len(ms) : ms[j] = o
  BY InRange
<1>3. Rank(m) \in Nat /\ DOMAIN ms = 1 .. Len(ms) /\ Len(ms) \in Nat
  <2>1. m \in Messages(l)
    BY InRange
  <2> QED
    BY <2>1, Ranks, LenProperties
<1>4. ~(i < j) /\ ~(j < i)
  <2>1. i < j => Rank(m) < Rank(o)
    BY <1>1, <1>2, <1>3 DEF Sorted
  <2>2. j < i => Rank(o) < Rank(m)
    BY <1>1, <1>2, <1>3 DEF Sorted
  <2> QED
    BY <1>3, <2>1, <2>2
<1>5. i = j
  BY <1>3, <1>4
<1> QED
  BY <1>1, <1>2, <1>5

\* Compaction of a window with a preamble; without a ledger it fails only when
\* the preamble and the task together are too large.
LEMMA FitSound ==
  ASSUME NEW l, Log(l), NEW n \in Nat \ {0}, n <= Len(l), NEW s, UpTo(l, s, n), HasPreamble(s)
  PROVE  /\ UpTo(l, Compacted(s), n) /\ HasPreamble(Compacted(s))
         /\ HasLedger(Compacted(s)) <=> HasLedger(s)
         /\ Tokens(Compacted(s)) \in Nat
         /\ HasLedger(s) \/ Tokens(Compacted(s)) <= Budget
              \/ Preamble + Message(l, 1, TRUE).size > Budget
<1> DEFINE c == Compacted(s)
<1>1. s \in Seq(Messages(l)) /\ Sorted(s) /\ WithTask(l, s)
  BY DEF UpTo, WithTask
<1>2. Shrinks(l, s, c) /\ (Tokens(c) <= Budget \/ \A m \in Range(c) : Lasting(m))
  BY <1>1, CompactedShrinks
<1> HIDE DEF c
<1>3. UpTo(l, c, n)
  BY <1>2, ShrinksKeepsUpTo
<1>4. /\ c \in Seq(Messages(l)) /\ Sorted(c)
      /\ \A m \in Range(c) : m \in Range(s) \/ m.role = "summary"
      /\ \A m \in Range(s) : Lasting(m) => m \in Range(c)
  BY <1>2 DEF Shrinks
<1>5. HasPreamble(c)
  BY <1>4 DEF HasPreamble, Lasting, Protected
<1>6. HasLedger(c) <=> HasLedger(s)
  BY <1>4 DEF HasLedger, Lasting, Protected
<1>7. Tokens(c) \in Nat
  BY <1>4, TokensType
<1>8. ASSUME ~HasLedger(s), ~(Tokens(c) <= Budget)
      PROVE  Preamble + Message(l, 1, TRUE).size > Budget
  <2>1. \A m \in Range(c) : m \in Messages(l) /\ Lasting(m) /\ m.role # "ledger"
    BY <1>2, <1>4, <1>6, <1>8, InRange DEF HasLedger
  <2>2. PICK p \in Range(c) : p.role = "preamble"
    BY <1>5 DEF HasPreamble
  <2>3. PICK t \in Range(c) : t.at = 1 /\ t.role = "user"
    BY <1>3 DEF UpTo
  <2>4. Rank(p) = 0 /\ Rank(t) = 3 /\ p \in Messages(l) /\ t \in Messages(l)
    BY <2>1, <2>2, <2>3, Ranks
  <2>5. p.size = Preamble /\ t.size = 1 + l[1].size
    BY <2>2, <2>3, <2>4 DEF Messages, EventRoles, SystemRoles
  <2>6. ASSUME NEW m \in Range(c)
        PROVE  m = p \/ m = t
    <3>1. m \in Messages(l) /\ m.role # "ledger" /\ (Protected(m) \/ m.at = 1)
      BY <2>1 DEF Lasting
    <3>2. Rank(m) = 0 \/ Rank(m) = 3
      BY <3>1, Ranks DEF Protected
    <3> QED
      BY <1>4, <2>4, <3>2, SameRank
  <2> DEFINE d == <<p, t>>
  <2>7. d \in Seq(Messages(l)) /\ Range(d) = {p, t}
    BY <2>4 DEF Range
  <2>8. Sorted(d)
    BY <2>4 DEF Sorted
  <2>9. Tokens(d) = p.size + t.size
    BY <2>4, TokensOfFew
  <2> HIDE DEF d
  <2>10. Range(c) \subseteq Range(d)
    BY <2>6, <2>7
  <2>11. Tokens(c) <= Tokens(d)
    BY <1>4, <2>7, <2>8, <2>10, PartFits
  <2>12. Message(l, 1, TRUE).size = 1 + l[1].size
    <3>1. l[1].role = "user"
      BY DEF Log
    <3> QED
      BY <3>1 DEF Message
  <2>13. Tokens(d) \in Nat /\ Tokens(d) = Preamble + Message(l, 1, TRUE).size
    BY <2>5, <2>7, <2>9, <2>12, TokensType
  <2>14. Tokens(c) > Budget
    BY <1>7, <1>8, BudgetAssumption
  <2>15. Tokens(d) > Budget
    <3>1. PICK b \in Nat : b = Tokens(c)
      BY <1>7
    <3>2. PICK a \in Nat : a = Tokens(d)
      BY <2>13
    <3>3. b <= a /\ b > Budget /\ Budget \in Nat
      BY <2>11, <2>14, <3>1, <3>2, BudgetAssumption
    <3>4. a > Budget
      BY <3>3
    <3> QED
      BY <3>2, <3>4
  <2> QED
    BY <2>13, <2>15
<1> QED
  BY <1>3, <1>5, <1>6, <1>7, <1>8 DEF c

(***************************************************************************)
(* The facts.                                                              *)
(***************************************************************************)

\* Where facts may come from.
Places(l) == {i \in 1 .. Len(l) : l[i].role # "tool"}

\* A ledger has a size.
LEMMA LedgerTokensType ==
  ASSUME Log(log), NEW fs \in Seq(Places(log))
  PROVE  LedgerTokens(fs) \in Nat
<1> DEFINE ns == [k \in DOMAIN fs |-> FactBase + Size(log[fs[k]].size, FactClip)]
<1>1. DOMAIN fs = 1 .. Len(fs) /\ Len(fs) \in Nat
  BY LenProperties
<1>2. ASSUME NEW k \in 1 .. Len(fs)
      PROVE  FactBase + Size(log[fs[k]].size, FactClip) \in Nat
  <2>1. fs[k] \in Places(log)
    BY ElementOfSeq
  <2>2. log[fs[k]] \in Events
    BY <2>1, ElementOfSeq DEF Places, Log
  <2>3. log[fs[k]].size \in Nat /\ FactClip \in Nat /\ FactBase \in Nat
    BY <2>2, SizesAssumption DEF Events
  <2>4. Size(log[fs[k]].size, FactClip) \in Nat
    BY <2>3, SizeType
  <2> QED
    BY <2>3, <2>4
<1>3. ns \in Seq(Nat)
  BY <1>1, <1>2
<1>4. LedgerTokens(fs) = LedgerBase + Total(ns)
  BY DEF LedgerTokens
<1> HIDE DEF ns
<1> QED
  BY <1>3, <1>4, TotalType, SizesAssumption

\* What is chosen for the ledger is among what it is chosen from.
LEMMA BoundedPart ==
  ASSUME NEW X, NEW fs \in Seq(X)
  PROVE  Bounded(fs) \in Seq(X)
<1> DEFINE N == Len(fs)
           Body(n, x) ==
             LET more == Append(x, fs[n])
             IN  IF LedgerTokens(more) <= LedgerBudget THEN more ELSE x
           Parts(m, f) == f = [n \in 0 .. m |-> IF n = 0 THEN <<>> ELSE Body(n, f[n - 1])]
           T == {m \in 0 .. N : \E f : Parts(m, f)}
<1>0. N \in Nat
  BY LenProperties
<1>1. 0 \in T
  <2>1. Parts(0, [n \in 0 .. 0 |-> <<>>])
    OBVIOUS
  <2> HIDE DEF Parts
  <2> QED
    BY <1>0, <2>1
<1>2. ASSUME NEW m \in 0 .. N - 1, m \in T
      PROVE  m + 1 \in T
  <2>1. PICK f : Parts(m, f)
    BY <1>2
  <2> DEFINE g == [n \in 0 .. m + 1 |-> IF n = m + 1 THEN Body(n, f[m]) ELSE f[n]]
  <2> HIDE DEF Body
  <2>2. Parts(m + 1, g)
    BY <2>1
  <2> HIDE DEF g, Parts
  <2> QED
    BY <1>0, <2>2
<1>3. 0 .. N \subseteq T
  <2> HIDE DEF T
  <2> QED
    BY <1>0, <1>1, <1>2, Induction
<1>4. \E f : Parts(N, f)
  <2> HIDE DEF Parts
  <2> QED
    BY <1>0, <1>3
<1> DEFINE h == CHOOSE f : f = [n \in 0 .. N |->
                                  IF n = 0 THEN <<>>
                                  ELSE LET before == f[n - 1]
                                           more   == Append(before, fs[n])
                                       IN  IF LedgerTokens(more) <= LedgerBudget
                                           THEN more ELSE before]
<1>5. Bounded(fs) = h[N]
  BY Zenon DEF Bounded
<1>6. Parts(N, h)
  BY <1>4, Zenon
<1> HIDE DEF h
<1>7. h[0] = <<>> /\ \A n \in 1 .. N : h[n] = Body(n, h[n - 1])
  <2> HIDE DEF Body
  <2> QED
    BY <1>0, <1>6
<1>8. \A n \in 1 .. N : h[n] = h[n - 1] \/ h[n] = Append(h[n - 1], fs[n])
  BY <1>7
<1> HIDE DEF Parts, Body, T
<1> DEFINE U == {n \in 0 .. N : h[n] \in Seq(X)}
<1>9. 0 \in U
  <2>1. 0 \in 0 .. N /\ <<>> \in Seq(X)
    BY <1>0, EmptySeq
  <2> QED
    BY <1>7, <2>1
<1>10. ASSUME NEW n \in 0 .. N - 1, n \in U
       PROVE  n + 1 \in U
  <2>1. n + 1 \in 1 .. N /\ (n + 1) - 1 = n
    BY <1>0
  <2>2. fs[n + 1] \in X /\ h[n] \in Seq(X)
    BY <1>10, <2>1, ElementOfSeq
  <2>3. h[n + 1] = h[n] \/ h[n + 1] = Append(h[n], fs[n + 1])
    BY <1>8, <2>1
  <2>4. h[n + 1] \in Seq(X)
    BY <2>2, <2>3, AppendProperties
  <2> QED
    BY <1>0, <2>1, <2>4
<1>11. 0 .. N \subseteq U
  <2> HIDE DEF U
  <2> QED
    BY <1>0, <1>9, <1>10, Induction
<1> QED
  BY <1>0, <1>5, <1>11

\* One fact goes, the oldest of the lowest priority.
LEMMA TrimmedPart ==
  ASSUME NEW X, NEW fs \in Seq(X), fs # <<>>
  PROVE  Trimmed(fs) \in Seq(X)
<1> DEFINE P(k) == Priority(log, fs[k])
           least == CHOOSE k \in DOMAIN fs :
                      \A j \in DOMAIN fs : /\ P(k) <= P(j)
                                           /\ j < k => P(k) < P(j)
<1>1. DOMAIN fs = 1 .. Len(fs) /\ Len(fs) \in Nat /\ Len(fs) > 0
  BY LenProperties, EmptySeq
<1>2. Trimmed(fs) = RemoveAt(fs, least)
  BY Zenon DEF Trimmed
<1>3. \A k : P(k) \in Nat
  BY DEF Priority
<1> HIDE DEF P
<1>4. least \in 1 .. Len(fs)
  <2> DEFINE V == {P(k) : k \in 1 .. Len(fs)}
  <2>1. P(1) \in V /\ V \in SUBSET Nat
    BY <1>1, <1>3
  <2>2. PICK v \in V : \A u \in V : v <= u
    BY <2>1, Least
  <2> DEFINE K == {k \in 1 .. Len(fs) : P(k) = v}
  <2>3. K # {} /\ K \in SUBSET Nat
    BY <2>2
  <2>4. PICK k \in K : \A j \in K : k <= j
    BY <2>3, Least
  <2>5. k \in 1 .. Len(fs) /\ P(k) = v /\ v \in Nat
    BY <2>1, <2>2, <2>4
  <2>6. ASSUME NEW j \in 1 .. Len(fs)
        PROVE  P(k) <= P(j) /\ (j < k => P(k) < P(j))
    <3>1. v <= P(j) /\ P(j) \in Nat
      BY <1>3, <2>2
    <3>2. P(j) = v => k <= j
      BY <2>4
    <3> QED
      BY <2>5, <3>1, <3>2
  <2> HIDE DEF V, K
  <2> QED
    BY <1>1, <2>5, <2>6
<1> HIDE DEF least
<1>5. RemoveAt(fs, least) = SubSeq(fs, 1, least - 1) \o SubSeq(fs, least + 1, Len(fs))
  BY DEF RemoveAt
<1>6. SubSeq(fs, 1, least - 1) \in Seq(X)
  <2>1. 1 \in 1 .. Len(fs) + 1 /\ \A i \in 1 .. least - 1 : i \in 1 .. Len(fs)
    BY <1>1, <1>4
  <2>2. \A i \in 1 .. least - 1 : fs[i] \in X
    BY <2>1, ElementOfSeq
  <2> QED
    BY <1>1, <1>4, <2>2, SubSeqProperties
<1>7. SubSeq(fs, least + 1, Len(fs)) \in Seq(X)
  <2>1. \A i \in least + 1 .. Len(fs) : i \in 1 .. Len(fs)
    BY <1>1, <1>4
  <2>2. \A i \in least + 1 .. Len(fs) : fs[i] \in X
    BY <2>1, ElementOfSeq
  <2> QED
    BY <1>1, <1>4, <2>2, SubSeqProperties
<1> QED
  BY <1>2, <1>5, <1>6, <1>7, ConcatProperties

\* The facts a context begins with are the first ones.
LEMMA BeginPart ==
  ASSUME NEW X, NEW fs \in Seq(X)
  PROVE  Bounded(SubSeq(fs, 1, Size(Len(fs), FactLimit))) \in Seq(X)
<1> DEFINE n == Size(Len(fs), FactLimit)
<1>1. Len(fs) \in Nat /\ FactLimit \in Nat
  BY LenProperties, SizesAssumption
<1>2. n \in Nat /\ n <= Len(fs)
  BY <1>1, SizeType
<1> HIDE DEF n
<1>3. \A i \in 1 .. n : i \in 1 .. Len(fs)
  BY <1>1, <1>2
<1>4. \A i \in 1 .. n : fs[i] \in X
  BY <1>3, ElementOfSeq
<1>5. SubSeq(fs, 1, n) \in Seq(X)
  BY <1>1, <1>2, <1>4, SubSeqProperties
<1> QED
  BY <1>5, BoundedPart DEF n

\* A sequence of some of the facts.
LEMMA OfRange ==
  ASSUME NEW X, NEW fs \in Seq(X)
  PROVE  /\ fs \in Seq(Range(fs))
         /\ \A gs \in Seq(Range(fs)) : gs \in Seq(X) /\ Range(gs) \subseteq Range(fs)
<1>1. /\ DOMAIN fs = 1 .. Len(fs) /\ Len(fs) \in Nat /\ fs \in [1 .. Len(fs) -> X]
  BY LenProperties
<1>2. fs \in [1 .. Len(fs) -> Range(fs)]
  BY <1>1 DEF Range
<1>3. fs \in Seq(Range(fs))
  BY <1>1, <1>2, SeqDef
<1>4. Range(fs) \subseteq X
  BY InRange
<1>5. ASSUME NEW gs \in Seq(Range(fs))
      PROVE  gs \in Seq(X) /\ Range(gs) \subseteq Range(fs)
  <2>1. Len(gs) \in Nat /\ gs \in [1 .. Len(gs) -> Range(fs)]
    BY LenProperties
  <2>2. gs \in [1 .. Len(gs) -> X]
    BY <1>4, <2>1
  <2>3. gs \in Seq(X)
    BY <2>1, <2>2, SeqDef
  <2> QED
    BY <2>3, InRange
<1> QED
  BY <1>3, <1>5

(***************************************************************************)
(* The inductive invariant.                                                *)
(***************************************************************************)
Stages == {"new", "ready", "building", "asked", "answered", "raised", "down"}
Live == {"ready", "building", "asked", "answered"}

Typed ==
  /\ Log(log) /\ Sorted(Window)
  /\ window \in [messages : Seq(Messages(log)), raised : BOOLEAN]
  /\ stage \in Stages /\ crashes \in 0 .. MaxCrashes
  /\ facts \in Seq(Places(log)) /\ selected \in Seq(Places(log))
  /\ Range(selected) \subseteq Range(facts)

\* A process that has not begun, or is down, holds nothing.
Stopped ==
  /\ stage = "new" <=> Len(log) = 0
  /\ stage \in {"new", "down"} => window = EmptyWindow /\ facts = <<>> /\ selected = <<>>

\* A live memory took every event, each of which it could take again; what
\* lasts fits, but while a new ledger is being fitted.
Running ==
  /\ stage \in Live =>
       /\ window.raised = FALSE /\ UpTo(log, Window, Len(log))
       /\ \A i \in 1 .. Len(log) : Fits(log, i)
  /\ stage \in Live \ {"building"} => LastingFits(log, Window)

\* What get_compacted_context put in front is there.
InFront ==
  /\ stage \in {"building", "asked"} => HasPreamble(Window)
  /\ stage = "asked" =>
       /\ Tokens(Window) <= Budget
       /\ HasLedger(Window) <=> selected # <<>>

MemoryInv == Typed /\ Stopped /\ Running /\ InFront /\ RaisesOnlyWhenHopeless

\* add_user_message, add_assistant_message and add_tool_result.
LEMMA RecordStep ==
  ASSUME MemoryInv, NEW e \in Events, NEW next \in {"ready", "answered"}, Record(e, next),
         stage \in {"new", "asked", "answered"}, stage = "new" => e.role = "user"
  PROVE  MemoryInv'
<1> DEFINE l == Append(log, e)
           n == Len(log)
           m == Message(l, n + 1, TRUE)
           w == Add(window, m)
<1>1. /\ Log(log) /\ Sorted(Window)
      /\ window = [messages |-> Window, raised |-> window.raised]
      /\ Window \in Seq(Messages(log)) /\ window.raised \in BOOLEAN
  BY DEF MemoryInv, Typed, Window
<1>2. /\ Log(l) /\ Len(l) = n + 1 /\ n \in Nat
      /\ \A i \in 1 .. n : l[i] = log[i]
      /\ l[n + 1] = e
      /\ \A ms \in Seq(Messages(log)) : ms \in Seq(Messages(l))
      /\ \A ms, k : UpTo(log, ms, k) => UpTo(l, ms, k)
      /\ \A ms : LastingFits(log, ms) => LastingFits(l, ms)
  <2>1. Len(log) = 0 => e.role = "user"
    BY DEF MemoryInv, Stopped
  <2> QED
    BY <1>1, <2>1, LogGrows
<1>3. /\ m \in Messages(l) /\ m.at = n + 1 /\ m.role = e.role
  <2> HIDE DEF l
  <2>1. n + 1 \in 1 .. Len(l)
    BY <1>2
  <2>2. m \in Messages(l) /\ m.at = n + 1 /\ m.role = l[n + 1].role
    BY <1>2, <2>1, MessageType
  <2> QED
    BY <1>2, <2>2
<1>4. /\ window.raised = FALSE
      /\ UpTo(l, Window, n) /\ LastingFits(l, Window)
      /\ n = 0 => m.role = "user" /\ Window = <<>>
      /\ \A i \in 1 .. n : Fits(log, i)
  <2>1. CASE stage = "new"
    <3>1. n = 0 /\ Window = <<>> /\ window.raised = FALSE
      BY <2>1 DEF MemoryInv, Stopped, EmptyWindow, Window
    <3>2. \A i \in 1 .. n : Fits(log, i)
      BY <3>1
    <3> QED
      BY <1>3, <2>1, <3>1, <3>2, EmptySound
  <2>2. CASE stage # "new"
    <3>1. stage \in Live /\ stage \in Live \ {"building"} /\ n # 0
      BY <2>2 DEF MemoryInv, Stopped, Live
    <3> QED
      BY <1>2, <3>1 DEF MemoryInv, Running
  <2> QED
    BY <2>1, <2>2
<1>5. /\ log' = l /\ window' = w /\ selected' = selected /\ crashes' = crashes
      /\ stage' = IF w.raised THEN "raised" ELSE next
      /\ facts' = IF IsFact(l, n + 1) THEN Append(facts, n + 1) ELSE facts
  BY <1>2 DEF Record
<1>6. /\ facts \in Seq(Places(log)) /\ selected \in Seq(Places(log))
      /\ Range(selected) \subseteq Range(facts) /\ crashes \in 0 .. MaxCrashes
  BY DEF MemoryInv, Typed
<1> HIDE DEF m
<1>7. m.size \in Nat
  BY <1>3, Ranks
<1>8. /\ facts' \in Seq(Places(l)) /\ selected \in Seq(Places(l))
      /\ Range(selected) \subseteq Range(facts')
  <2>1. \A i \in Places(log) : i \in Places(l)
    BY <1>2 DEF Places
  <2>2. \A fs \in Seq(Places(log)) : fs \in Seq(Places(l))
    <3> SUFFICES ASSUME NEW fs \in Seq(Places(log)) PROVE fs \in Seq(Places(l))
      OBVIOUS
    <3>1. Len(fs) \in Nat /\ fs \in [1 .. Len(fs) -> Places(log)]
      BY LenProperties
    <3>2. fs \in [1 .. Len(fs) -> Places(l)]
      BY <2>1, <3>1
    <3> QED
      BY <3>1, <3>2, SeqDef
  <2>3. CASE IsFact(l, n + 1)
    <3>1. n + 1 \in Places(l)
      <4>1. n + 1 \in 1 .. Len(l)
        BY <1>2
      <4> QED
        BY <2>3, <4>1 DEF IsFact, Places
    <3>2. facts \in Seq(Places(l)) /\ facts' = Append(facts, n + 1)
      BY <1>5, <1>6, <2>2, <2>3
    <3>3. facts' \in Seq(Places(l)) /\ \A o : o \in Range(facts) => o \in Range(facts')
      BY <3>1, <3>2, AppendRange
    <3> QED
      BY <1>6, <2>2, <3>3
  <2>4. CASE ~IsFact(l, n + 1)
    BY <1>5, <1>6, <2>2, <2>4
  <2> QED
    BY <2>3, <2>4
<1>9. stage' # "new" /\ stage' # "down" /\ stage' # "building" /\ stage' # "asked"
         /\ stage' \in Stages
  BY <1>5 DEF Stages
<1>10. Stopped'
  <2>1. Len(l) # 0
    BY <1>2
  <2> HIDE DEF l
  <2> QED
    BY <1>5, <1>9, <2>1 DEF Stopped
<1>11. InFront'
  BY <1>9 DEF InFront
<1>12. CASE m.size > Budget
  <2>1. w = [messages |-> Window, raised |-> TRUE]
    <3>1. Add([messages |-> Window, raised |-> FALSE], m) = [messages |-> Window, raised |-> TRUE]
      BY <1>12, AddRefuses
    <3>2. window = [messages |-> Window, raised |-> FALSE]
      BY <1>1, <1>4
    <3> QED
      BY <3>1, <3>2
  <2> HIDE DEF w
  <2>2. stage' = "raised" /\ Window' = Window /\ window'.raised = TRUE
    BY <1>5, <2>1 DEF Window
  <2>3. Window \in Seq(Messages(l))
    BY <1>1, <1>2
  <2>4. Typed'
    <3> HIDE DEF l
    <3> QED
      BY <1>1, <1>2, <1>5, <1>6, <1>8, <1>9, <2>1, <2>2, <2>3 DEF Typed
  <2>5. Running'
    BY <2>2 DEF Running, Live
  <2>6. RaisesOnlyWhenHopeless'
    <3>1. Message(log', Len(log'), TRUE).size > Budget
      BY <1>2, <1>5, <1>12 DEF m
    <3> HIDE DEF l
    <3> QED
      BY <3>1 DEF RaisesOnlyWhenHopeless
  <2> QED
    BY <1>10, <1>11, <2>4, <2>5, <2>6 DEF MemoryInv
<1>13. CASE m.size <= Budget
  <2>1. Sound(l, Add([messages |-> Window, raised |-> FALSE], m), n + 1)
    BY <1>2, <1>3, <1>4, <1>13, AddSound
  <2>2. window = [messages |-> Window, raised |-> FALSE]
    BY <1>1, <1>4
  <2>3. Sound(l, w, n + 1)
    BY <2>1, <2>2
  <2>4. \A i \in 1 .. n + 1 : Fits(l, i)
    <3>1. ASSUME NEW i \in 1 .. n
          PROVE  Fits(l, i)
      <4>1. Fits(log, i) /\ l[i] = log[i]
        BY <1>2, <1>4
      <4> HIDE DEF l
      <4> QED
        BY <4>1 DEF Fits, Message
    <3>2. Fits(l, n + 1)
      <4> HIDE DEF l
      <4> HIDE DEF n
      <4>1. n + 1 \in 1 .. Len(l)
        BY <1>2
      <4>2. Message(l, n + 1, TRUE).size <= Budget
        BY <1>13 DEF m
      <4> QED
        BY <1>2, <4>1, <4>2, RebuiltSmaller DEF Fits
    <3> QED
      BY <1>2, <3>1, <3>2
  <2> HIDE DEF w, l
  <2>5. /\ w = [messages |-> w.messages, raised |-> FALSE]
        /\ UpTo(l, w.messages, n + 1) /\ LastingFits(l, w.messages)
        /\ w.messages \in Seq(Messages(l)) /\ Sorted(w.messages)
    BY <2>3 DEF Sound, UpTo
  <2>6. stage' = next /\ Window' = w.messages /\ window'.raised = FALSE
    BY <1>5, <2>5 DEF Window
  <2>7. window' \in [messages : Seq(Messages(l)), raised : BOOLEAN]
    <3>1. PICK ms \in Seq(Messages(l)) : w = [messages |-> ms, raised |-> FALSE]
      BY <2>5
    <3> QED
      BY <1>5, <3>1
  <2>8. Typed'
    BY <1>2, <1>5, <1>6, <1>8, <1>9, <2>5, <2>6, <2>7 DEF Typed
  <2>9. Running'
    BY <1>2, <1>5, <2>4, <2>5, <2>6 DEF Running
  <2>10. RaisesOnlyWhenHopeless'
    BY <2>6 DEF RaisesOnlyWhenHopeless
  <2> QED
    BY <1>10, <1>11, <2>8, <2>9, <2>10 DEF MemoryInv
<1> QED
  BY <1>7, <1>12, <1>13, BudgetAssumption

\* A step that only rearranges the window and the chosen facts.
LEMMA WindowStep ==
  ASSUME MemoryInv, NEW ms, UpTo(log, ms, Len(log)), UNCHANGED <<log, facts, crashes>>,
         window' = [window EXCEPT !.messages = ms],
         selected' \in Seq(Range(facts)), stage' \in Stages \ {"new", "down"},
         stage \in Live
  PROVE  /\ Typed' /\ Stopped' /\ Window' = ms
         /\ stage' \in Live => /\ window'.raised = FALSE
                               /\ UpTo(log', Window', Len(log'))
                               /\ \A i \in 1 .. Len(log') : Fits(log', i)
<1>1. ms \in Seq(Messages(log)) /\ Sorted(ms)
  BY DEF UpTo
<1>2. PICK old : window = [messages |-> old, raised |-> FALSE]
  <2>1. window \in [messages : Seq(Messages(log)), raised : BOOLEAN] /\ window.raised = FALSE
    BY DEF MemoryInv, Typed, Running
  <2> QED
    BY <2>1
<1>3. window' = [messages |-> ms, raised |-> FALSE]
  BY <1>2
<1>4. Window' = ms /\ window'.raised = FALSE
  BY <1>3 DEF Window
<1>5. selected' \in Seq(Places(log)) /\ Range(selected') \subseteq Range(facts)
  <2>1. facts \in Seq(Places(log))
    BY DEF MemoryInv, Typed
  <2> QED
    BY <2>1, OfRange
<1>6. window' \in [messages : Seq(Messages(log)), raised : BOOLEAN]
  <2> DEFINE S == Seq(Messages(log))
             r == [messages |-> ms, raised |-> FALSE]
  <2>1. ms \in S
    BY <1>1
  <2> HIDE DEF S
  <2>2. r \in [messages : S, raised : BOOLEAN]
    BY <2>1
  <2> HIDE DEF r
  <2>3. window' = r
    BY <1>3 DEF r
  <2> QED
    BY <2>2, <2>3 DEF S
<1>7. Typed'
  BY <1>1, <1>4, <1>5, <1>6 DEF MemoryInv, Typed
<1>8. Stopped'
  BY DEF MemoryInv, Stopped, Live
<1> QED
  BY <1>4, <1>7, <1>8 DEF MemoryInv, Running

\* get_compacted_context up to its loop.
LEMMA BeginContextStep ==
  ASSUME MemoryInv, BeginContext
  PROVE  MemoryInv'
<1> DEFINE ms == WithPreamble(Window)
<1>1. /\ stage \in Live /\ stage' = "building" /\ UNCHANGED <<log, facts, crashes>>
      /\ window' = [window EXCEPT !.messages = ms]
      /\ selected' = Bounded(SubSeq(facts, 1, Size(Len(facts), FactLimit)))
  BY DEF BeginContext, Live, Window
<1>2. UpTo(log, Window, Len(log)) /\ Len(log) \in Nat /\ facts \in Seq(Places(log))
  <2>1. Log(log)
    BY DEF MemoryInv, Typed
  <2> QED
    BY <1>1, <2>1, LenProperties DEF MemoryInv, Typed, Running, Log
<1>3. UpTo(log, ms, Len(log)) /\ HasPreamble(ms)
  BY <1>2, WithPreambleSound
<1>4. selected' \in Seq(Range(facts))
  BY <1>1, <1>2, OfRange, BeginPart
<1> HIDE DEF ms
<1>5. /\ Typed' /\ Stopped' /\ Window' = ms
      /\ window'.raised = FALSE /\ UpTo(log', Window', Len(log'))
      /\ \A i \in 1 .. Len(log') : Fits(log', i)
  BY <1>1, <1>3, <1>4, WindowStep DEF Stages, Live
<1>6. Running'
  BY <1>1, <1>5 DEF Running
<1>7. InFront'
  BY <1>1, <1>3, <1>5 DEF InFront
<1>8. RaisesOnlyWhenHopeless'
  BY <1>1 DEF RaisesOnlyWhenHopeless
<1> QED
  BY <1>5, <1>6, <1>7, <1>8 DEF MemoryInv

\* A round of the loop of get_compacted_context.
LEMMA FitContextStep ==
  ASSUME MemoryInv, FitContext
  PROVE  MemoryInv'
<1> DEFINE s == Synced(Window, selected)
           ms == Compacted(s)
           fits == Tokens(ms) <= Budget
<1>1. /\ stage = "building" /\ UNCHANGED <<log, facts, crashes>>
      /\ window' = [window EXCEPT !.messages = ms]
      /\ \/ ~fits /\ selected # <<>> /\ selected' = Trimmed(selected) /\ stage' = "building"
         \/ fits /\ selected' = selected /\ stage' = "asked"
         \/ ~fits /\ selected = <<>> /\ selected' = selected /\ stage' = "raised"
  BY DEF FitContext, Window
<1>2. /\ Log(log) /\ UpTo(log, Window, Len(log)) /\ HasPreamble(Window)
      /\ facts \in Seq(Places(log)) /\ selected \in Seq(Places(log))
      /\ Range(selected) \subseteq Range(facts)
      /\ Len(log) # 0
  BY <1>1 DEF MemoryInv, Typed, Running, InFront, Stopped, Live
<1>3. Len(log) \in Nat \ {0} /\ Len(log) <= Len(log)
  <2>1. Len(log) \in Nat
    BY <1>2, LenProperties DEF Log
  <2> QED
    BY <1>2, <2>1
<1>4. LedgerTokens(selected) \in Nat
  BY <1>2, LedgerTokensType
<1>5. /\ UpTo(log, s, Len(log)) /\ HasPreamble(s)
      /\ HasLedger(s) <=> selected # <<>>
  BY <1>2, <1>3, <1>4, SyncedSound
<1> HIDE DEF s
<1>6. /\ UpTo(log, ms, Len(log)) /\ HasPreamble(ms)
      /\ HasLedger(ms) <=> HasLedger(s)
      /\ HasLedger(s) \/ Tokens(ms) <= Budget
           \/ Preamble + Message(log, 1, TRUE).size > Budget
  BY <1>2, <1>3, <1>5, FitSound
<1> HIDE DEF ms
<1>7. selected' \in Seq(Range(facts)) /\ stage' \in Stages \ {"new", "down"} /\ stage \in Live
  <2>1. selected \in Seq(Range(selected))
    BY <1>2, OfRange
  <2>2. selected' \in Seq(Range(selected))
    BY <1>1, <2>1, TrimmedPart
  <2>3. selected' \in Seq(Range(facts))
    <3>1. /\ Len(selected') \in Nat /\ selected' \in [1 .. Len(selected') -> Range(selected)]
      BY <2>2, LenProperties
    <3>2. selected' \in [1 .. Len(selected') -> Range(facts)]
      BY <1>2, <3>1
    <3> QED
      BY <3>1, <3>2, SeqDef
  <2> QED
    BY <1>1, <2>3 DEF Stages, Live
<1>8. /\ Typed' /\ Stopped' /\ Window' = ms
      /\ stage' \in Live => /\ window'.raised = FALSE
                            /\ UpTo(log', Window', Len(log'))
                            /\ \A i \in 1 .. Len(log') : Fits(log', i)
  BY <1>1, <1>6, <1>7, WindowStep
<1>9. CASE stage' = "building"
  <2>1. Running'
    BY <1>8, <1>9 DEF Running, Live
  <2>2. InFront'
    BY <1>6, <1>8, <1>9 DEF InFront
  <2> QED
    BY <1>8, <1>9, <2>1, <2>2 DEF MemoryInv, RaisesOnlyWhenHopeless
<1>10. CASE stage' = "asked"
  <2>1. fits /\ selected' = selected
    BY <1>1, <1>10
  <2>2. LastingFits(log, ms)
    BY <1>6, <2>1, FitsAsAWhole DEF UpTo
  <2>3. Running'
    BY <1>1, <1>8, <1>10, <2>2 DEF Running, Live
  <2>4. InFront'
    BY <1>5, <1>6, <1>8, <1>10, <2>1 DEF InFront
  <2> QED
    BY <1>8, <1>10, <2>3, <2>4 DEF MemoryInv, RaisesOnlyWhenHopeless
<1>11. CASE stage' = "raised"
  <2>1. Preamble + Message(log, 1, TRUE).size > Budget
    BY <1>1, <1>5, <1>6, <1>11
  <2>2. RaisesOnlyWhenHopeless'
    BY <1>1, <2>1 DEF RaisesOnlyWhenHopeless
  <2> QED
    BY <1>8, <1>11, <2>2 DEF MemoryInv, Running, InFront, Live
<1> QED
  BY <1>1, <1>9, <1>10, <1>11

\* A crash leaves the log.
LEMMA CrashStep ==
  ASSUME MemoryInv, Crash
  PROVE  MemoryInv'
<1>1. /\ stage' = "down" /\ window' = EmptyWindow /\ facts' = <<>> /\ selected' = <<>>
      /\ log' = log /\ stage # "new" /\ crashes < MaxCrashes /\ crashes' = crashes + 1
  BY DEF Crash
<1>2. Window' = <<>>
  BY <1>1 DEF Window, EmptyWindow
<1>3. <<>> \in Seq(Messages(log)) /\ Sorted(<<>>)
  BY EmptySound DEF UpTo
<1>4. crashes' \in 0 .. MaxCrashes
  <2>1. crashes \in 0 .. MaxCrashes
    BY DEF MemoryInv, Typed
  <2>2. MaxCrashes \in Nat
    BY SizesAssumption
  <2> QED
    BY <1>1, <2>1, <2>2
<1>5. <<>> \in Seq(Places(log)) /\ Range(<<>>) \subseteq Range(<<>>)
  BY EmptySeq
<1>6. EmptyWindow \in [messages : Seq(Messages(log)), raised : BOOLEAN]
  BY <1>3 DEF EmptyWindow
<1>7. Typed'
  BY <1>1, <1>2, <1>3, <1>4, <1>5, <1>6 DEF MemoryInv, Typed, Stages
<1>8. Stopped'
  BY <1>1 DEF MemoryInv, Stopped
<1> QED
  BY <1>1, <1>7, <1>8 DEF MemoryInv, Running, InFront, Live, RaisesOnlyWhenHopeless

\* A resumed process has what from_events makes of the log.
LEMMA ResumeStep ==
  ASSUME MemoryInv, Resume
  PROVE  MemoryInv'
<1> DEFINE r == Rebuilt
           places == {i \in DOMAIN log : IsFact(log, i)}
           fs == Positions(log, places)
<1>1. /\ stage = "down" /\ ~r.raised /\ window' = r /\ facts' = fs /\ stage' = "ready"
      /\ UNCHANGED <<log, selected, crashes>>
  BY DEF Resume
<1>2. /\ Log(log) /\ Len(log) # 0 /\ selected = <<>> /\ crashes \in 0 .. MaxCrashes
  BY <1>1 DEF MemoryInv, Typed, Stopped
<1>3. Len(log) \in Nat /\ DOMAIN log = 1 .. Len(log)
  BY <1>2, LenProperties DEF Log
<1>4. RebuiltTo(log, r, Len(log))
  BY <1>2, RebuiltSound
<1> HIDE DEF r
<1>5. \A i \in 1 .. Len(log) : Fits(log, i)
  <2> SUFFICES ASSUME ~\A i \in 1 .. Len(log) : Fits(log, i) PROVE FALSE
    OBVIOUS
  <2>1. r = [messages |-> r.messages, raised |-> TRUE]
    BY <1>4 DEF RebuiltTo
  <2> QED
    BY <1>1, <2>1
<1>6. /\ r = [messages |-> r.messages, raised |-> FALSE]
      /\ UpTo(log, r.messages, Len(log)) /\ LastingFits(log, r.messages)
      /\ r.messages \in Seq(Messages(log)) /\ Sorted(r.messages)
  BY <1>4, <1>5 DEF RebuiltTo, Sound, UpTo
<1>7. fs \in Seq(Places(log))
  <2>1. \A i \in places : i \in Places(log)
    BY <1>3 DEF IsFact, Places
  <2> HIDE DEF places
  <2>2. Lists(fs, Len(log), places)
    BY <1>2, PositionsOrdered DEF Log
  <2> HIDE DEF fs
  <2>3. fs \in Seq(Nat) /\ \A k \in 1 .. Len(fs) : fs[k] \in Places(log)
    BY <2>1, <2>2 DEF Lists
  <2>4. Len(fs) \in Nat /\ fs \in [1 .. Len(fs) -> Places(log)]
    BY <2>3, LenProperties
  <2> QED
    BY <2>4, SeqDef
<1> HIDE DEF fs
<1>8. PICK ms \in Seq(Messages(log)) : r = [messages |-> ms, raised |-> FALSE] /\ ms = r.messages
  BY <1>6
<1>9. window' = [messages |-> ms, raised |-> FALSE] /\ Window' = ms /\ window'.raised = FALSE
  BY <1>1, <1>8 DEF Window
<1>10. selected' \in Seq(Places(log)) /\ Range(selected') \subseteq Range(fs)
  <2>1. selected' = <<>> /\ Range(<<>>) = {}
    BY <1>1, <1>2 DEF Range
  <2> QED
    BY <2>1, EmptySeq
<1>11. window' \in [messages : Seq(Messages(log)), raised : BOOLEAN]
  BY <1>9
<1>12. Typed'
  BY <1>1, <1>2, <1>6, <1>7, <1>8, <1>9, <1>10, <1>11 DEF Typed, Stages
<1>13. Stopped'
  BY <1>1, <1>2 DEF Stopped
<1>14. Running'
  BY <1>1, <1>5, <1>6, <1>8, <1>9 DEF Running
<1>15. InFront' /\ RaisesOnlyWhenHopeless'
  BY <1>1 DEF InFront, RaisesOnlyWhenHopeless
<1> QED
  BY <1>12, <1>13, <1>14, <1>15 DEF MemoryInv

\* What is recorded is an event.
LEMMA EventTypes ==
  ASSUME NEW role \in EventRoles, NEW size \in TaskSizes \cup TextSizes \cup ResultSizes,
         NEW marked \in BOOLEAN, NEW ok \in BOOLEAN
  PROVE  Event(role, size, marked, ok) \in Events /\ Event(role, size, marked, ok).role = role
<1>1. size \in Nat
  BY SizesAssumption
<1> QED
  BY <1>1 DEF Event, Events

\* The invariant holds before the run begins.
LEMMA InitMemory == Init => MemoryInv
<1> SUFFICES ASSUME Init PROVE MemoryInv
  OBVIOUS
<1>1. /\ log = <<>> /\ window = EmptyWindow /\ Window = <<>> /\ facts = <<>> /\ selected = <<>>
      /\ stage = "new" /\ crashes = 0
  BY DEF Init, Window, EmptyWindow
<1>2. <<>> \in Seq(Messages(log)) /\ Sorted(<<>>)
  BY EmptySound DEF UpTo
<1>3. <<>> \in Seq(Events) /\ <<>> \in Seq(Places(log)) /\ Len(<<>>) = 0
  BY EmptySeq
<1>4. EmptyWindow \in [messages : Seq(Messages(log)), raised : BOOLEAN]
  BY <1>2 DEF EmptyWindow
<1>5. crashes \in 0 .. MaxCrashes
  BY <1>1, SizesAssumption
<1>6. Log(log)
  BY <1>1, <1>3 DEF Log
<1>7. Typed
  BY <1>1, <1>2, <1>3, <1>4, <1>5, <1>6 DEF Typed, Stages
<1> QED
  BY <1>1, <1>3, <1>7
     DEF MemoryInv, Stopped, Running, InFront, Live, RaisesOnlyWhenHopeless

\* The invariant is inductive.
LEMMA NextMemory == MemoryInv /\ [Next]_vars => MemoryInv'
<1> SUFFICES ASSUME MemoryInv, [Next]_vars PROVE MemoryInv'
  OBVIOUS
<1>1. CASE Start
  <2>1. PICK size \in TaskSizes, marked \in BOOLEAN :
          Record(Event("user", size, marked, TRUE), "ready")
    BY <1>1 DEF Start
  <2>2. /\ Event("user", size, marked, TRUE) \in Events
        /\ Event("user", size, marked, TRUE).role = "user"
    BY EventTypes DEF EventRoles
  <2> QED
    BY <1>1, <2>1, <2>2, RecordStep DEF Start
<1>2. CASE AddUserMessage
  <2>1. PICK size \in TextSizes, marked \in BOOLEAN :
          Record(Event("user", size, marked, TRUE), "answered")
    BY <1>2 DEF AddUserMessage
  <2>2. Event("user", size, marked, TRUE) \in Events
    BY EventTypes DEF EventRoles
  <2> QED
    BY <1>2, <2>1, <2>2, RecordStep DEF AddUserMessage
<1>3. CASE AddAssistantMessage
  <2>1. PICK size \in TextSizes, marked \in BOOLEAN :
          Record(Event("assistant", size, marked, TRUE), "answered")
    BY <1>3 DEF AddAssistantMessage
  <2>2. Event("assistant", size, marked, TRUE) \in Events
    BY EventTypes DEF EventRoles
  <2> QED
    BY <1>3, <2>1, <2>2, RecordStep DEF AddAssistantMessage
<1>4. CASE AddToolResult
  <2>1. PICK size \in ResultSizes, ok \in BOOLEAN :
          Record(Event("tool", size, TRUE, ok), "answered")
    BY <1>4 DEF AddToolResult
  <2>2. Event("tool", size, TRUE, ok) \in Events
    BY EventTypes DEF EventRoles
  <2> QED
    BY <1>4, <2>1, <2>2, RecordStep DEF AddToolResult
<1>5. CASE BeginContext
  BY <1>5, BeginContextStep
<1>6. CASE FitContext
  BY <1>6, FitContextStep
<1>7. CASE Crash
  BY <1>7, CrashStep
<1>8. CASE Resume
  BY <1>8, ResumeStep
<1>9. CASE UNCHANGED vars
  BY <1>9 DEF vars, MemoryInv, Typed, Stopped, Running, InFront, RaisesOnlyWhenHopeless,
              Window
<1> QED
  BY <1>1, <1>2, <1>3, <1>4, <1>5, <1>6, <1>7, <1>8, <1>9 DEF Next

\* Every step of the memory keeps the invariant.
THEOREM SpecMemory == Spec => []MemoryInv
  BY InitMemory, NextMemory, PTL DEF Spec

(***************************************************************************)
(* The theorems.                                                           *)
(***************************************************************************)

\* The state has its types, and neither a fact nor a text of the system comes from
\* a tool result.
THEOREM SpecTypeOK == Spec => []TypeOK
<1>1. MemoryInv => TypeOK
  <2> SUFFICES ASSUME MemoryInv PROVE TypeOK
    OBVIOUS
  <2>1. /\ Log(log) /\ Window \in Seq(Messages(log)) /\ window.raised \in BOOLEAN
        /\ facts \in Seq(Places(log)) /\ selected \in Seq(Places(log))
        /\ Range(selected) \subseteq Range(facts)
        /\ stage \in Stages /\ crashes \in 0 .. MaxCrashes
    BY DEF MemoryInv, Typed, Window
  <2>2. DOMAIN log = 1 .. Len(log) /\ \A i \in DOMAIN log : log[i] \in Events
    BY <2>1, LenProperties, ElementOfSeq DEF Log
  <2>3. \A i \in DOMAIN Window : Window[i] \in Messages(log)
    BY <2>1, LenProperties, ElementOfSeq
  <2>4. ASSUME NEW i \in DOMAIN Window
        PROVE  /\ Window[i].size \in Nat
               /\ IF Window[i].at = 0 THEN Window[i].role \in {"preamble", "ledger", "summary"}
                  ELSE Window[i].at \in DOMAIN log /\ Window[i].role = log[Window[i].at].role
    BY <2>3 DEF Messages, EventRoles, SystemRoles
  <2>5. ASSUME NEW k \in DOMAIN facts
        PROVE  log[facts[k]].role \in {"user", "assistant"}
    <3>1. facts[k] \in Places(log)
      BY <2>1, LenProperties, ElementOfSeq
    <3>2. log[facts[k]] \in Events /\ log[facts[k]].role # "tool"
      BY <2>2, <3>1 DEF Places
    <3> QED
      BY <3>2 DEF Events, EventRoles
  <2>6. \A k \in DOMAIN selected : selected[k] \in Range(facts)
    BY <2>1 DEF Range
  <2>7. \A i \in DOMAIN log : log[i].role \in {"user", "assistant", "tool"}
    BY <2>2 DEF Events, EventRoles
  <2> QED
    BY <2>1, <2>4, <2>5, <2>6, <2>7 DEF TypeOK, Stages
<1> QED
  BY <1>1, SpecMemory, PTL

\* A context handed to the model fits the budget, is in order, and holds the task.
THEOREM SpecContextSound == Spec => []ContextSound
<1>1. MemoryInv => ContextSound
  <2> SUFFICES ASSUME MemoryInv, stage = "asked" PROVE ContextSound
    BY DEF ContextSound
  <2>1. /\ Window \in Seq(Messages(log)) /\ Sorted(Window)
        /\ HasPreamble(Window) /\ Tokens(Window) <= Budget
        /\ HasLedger(Window) <=> selected # <<>>
        /\ UpTo(log, Window, Len(log)) /\ Len(log) # 0
    BY DEF MemoryInv, Typed, Window, InFront, Running, Live, Stopped
  <2>2. /\ DOMAIN Window = 1 .. Len(Window) /\ Len(Window) \in Nat
        /\ \A m : m \in Range(Window) <=> \E i \in 1 .. Len(Window) : Window[i] = m
    BY <2>1, InRange
  <2>3. \A i \in 1 .. Len(Window) :
          /\ Rank(Window[i]) \in Nat
          /\ Protected(Window[i]) <=> Rank(Window[i]) < 2
          /\ Window[i].role = "preamble" <=> Rank(Window[i]) = 0
          /\ Window[i].role = "ledger" <=> Rank(Window[i]) = 1
          /\ Window[i].role = "summary" <=> Rank(Window[i]) = 2
    <3>1. \A i \in 1 .. Len(Window) : Window[i] \in Messages(log)
      BY <2>1, ElementOfSeq
    <3> QED
      BY <3>1, Ranks
  <2>4. \A i, j \in 1 .. Len(Window) : i < j => Rank(Window[i]) < Rank(Window[j])
    BY <2>1, <2>2 DEF Sorted
  <2>5. \A i, j \in 1 .. Len(Window) : Rank(Window[i]) < Rank(Window[j]) => i < j
    BY <2>1, SortedOnce
  <2>6. PICK p \in 1 .. Len(Window) : Rank(Window[p]) = 0
    BY <2>1, <2>2, <2>3 DEF HasPreamble
  <2>7. p = 1
    <3>1. 1 \in 1 .. Len(Window) /\ (p # 1 => 1 < p)
      BY <2>2
    <3>2. p # 1 => Rank(Window[1]) < 0 /\ Rank(Window[1]) \in Nat
      BY <2>3, <2>4, <2>6, <3>1
    <3> QED
      BY <3>2
  <2>8. \A i \in 1 .. Len(Window) : i # 1 => Rank(Window[i]) > 0
    <3>1. \A i \in 1 .. Len(Window) : i # 1 => 1 < i
      BY <2>2
    <3> QED
      BY <2>3, <2>4, <2>6, <2>7, <3>1
  <2>9. {i \in DOMAIN Window : Window[i].role = "preamble"} = {1}
    BY <2>2, <2>3, <2>6, <2>7, <2>8
  <2>10. ASSUME NEW i \in 1 .. Len(Window), Rank(Window[i]) = 1
         PROVE  i = 2
    <3>1. i # 1 /\ 2 \in 1 .. Len(Window) /\ (i = 2 \/ 2 < i)
      BY <2>2, <2>6, <2>7, <2>10
    <3>2. 2 < i => Rank(Window[2]) < 1 /\ Rank(Window[2]) > 0 /\ Rank(Window[2]) \in Nat
      BY <2>3, <2>4, <2>8, <2>10, <3>1
    <3> QED
      BY <3>1, <3>2
  <2>11. {i \in DOMAIN Window : Window[i].role = "ledger"}
           = (IF selected = <<>> THEN {} ELSE {2})
    <3>1. CASE selected = <<>>
      BY <2>1, <2>2, <3>1 DEF HasLedger
    <3>2. CASE selected # <<>>
      <4>1. PICK i \in 1 .. Len(Window) : Window[i].role = "ledger"
        BY <2>1, <2>2, <3>2 DEF HasLedger
      <4>2. i = 2
        BY <2>3, <2>10, <4>1
      <4> QED
        BY <2>2, <2>3, <2>10, <3>2, <4>1, <4>2
    <3> QED
      BY <3>1, <3>2
  <2>12. ASSUME NEW i \in DOMAIN Window, NEW j \in DOMAIN Window,
                i < j, Window[j].role = "summary"
         PROVE  Protected(Window[i])
    BY <2>2, <2>3, <2>4, <2>12
  <2>13. \E i \in DOMAIN Window : Window[i].at = 1
    <3>1. Len(log) \in Nat
      BY LenProperties DEF MemoryInv, Typed, Log
    <3>2. \E m \in Range(Window) : m.at = 1
      BY <2>1, <3>1 DEF UpTo
    <3> QED
      BY <2>2, <3>2
  <2> QED
    BY <2>1, <2>9, <2>11, <2>12, <2>13 DEF ContextSound
<1> QED
  BY <1>1, SpecMemory, PTL

\* The conversation is the end of the log, in order and without gaps.
THEOREM SpecNoGaps == Spec => []NoGaps
<1>1. MemoryInv => NoGaps
  <2> SUFFICES ASSUME MemoryInv, stage # "raised" PROVE NoGaps
    BY DEF NoGaps
  <2>1. /\ Window \in Seq(Messages(log)) /\ Sorted(Window) /\ stage \in Stages
    BY DEF MemoryInv, Typed, Window
  <2>2. /\ DOMAIN Window = 1 .. Len(Window) /\ Len(Window) \in Nat
        /\ \A m : m \in Range(Window) <=> \E i \in 1 .. Len(Window) : Window[i] = m
        /\ Len(log) \in Nat
    BY <2>1, InRange, LenProperties DEF MemoryInv, Typed, Log
  <2>3. \A i \in 1 .. Len(Window) :
          /\ Rank(Window[i]) \in Nat /\ Window[i].at \in Nat
          /\ Window[i].at > 0 <=> Rank(Window[i]) > 2
          /\ Window[i].at > 0 => Rank(Window[i]) = 2 + Window[i].at
    <3>1. \A i \in 1 .. Len(Window) : Window[i] \in Messages(log)
      BY <2>1, ElementOfSeq
    <3> QED
      BY <3>1, Ranks
  <2>4. ASSUME NEW i \in Conversation, NEW k \in Window[i].at .. Len(log)
        PROVE  \E j \in Conversation : Window[j].at = k
    <3>1. i \in 1 .. Len(Window) /\ Window[i].at > 1 /\ Window[i] \in Range(Window)
      BY <2>2 DEF Conversation
    <3>2. k \in Nat /\ Window[i].at <= k /\ k <= Len(log) /\ k > 1
      BY <2>2, <2>3, <3>1
    <3>3. stage \in Live
      <4>1. stage \in {"new", "down"} => Window = <<>>
        BY DEF MemoryInv, Stopped, EmptyWindow, Window
      <4>2. Window # <<>>
        BY <3>1
      <4> QED
        BY <2>1, <4>1, <4>2 DEF Stages, Live
    <3>4. PICK o \in Range(Window) : o.at = k
      BY <3>1, <3>2, <3>3 DEF MemoryInv, Running, UpTo
    <3>5. PICK j \in 1 .. Len(Window) : Window[j] = o
      BY <2>2
    <3> QED
      BY <2>2, <3>2, <3>4, <3>5 DEF Conversation
  <2>5. ASSUME NEW i \in DOMAIN Window, NEW j \in DOMAIN Window, i < j, Window[i].at > 0
        PROVE  Window[j].at > Window[i].at
    <3>1. Rank(Window[i]) < Rank(Window[j])
      BY <2>1, <2>5 DEF Sorted
    <3> QED
      BY <2>2, <2>3, <2>5, <3>1
  <2> QED
    BY <2>4, <2>5 DEF NoGaps
<1> QED
  BY <1>1, SpecMemory, PTL

\* The memory raises only for a message larger than its budget or a task that does
\* not fit beside the preamble.
THEOREM SpecRaisesOnlyWhenHopeless == Spec => []RaisesOnlyWhenHopeless
<1>1. MemoryInv => RaisesOnlyWhenHopeless
  BY DEF MemoryInv
<1> QED
  BY <1>1, SpecMemory, PTL

\* What a live memory took can be taken again from the log.
THEOREM SpecResumable == Spec => []Resumable
<1>1. MemoryInv => Resumable
  <2> SUFFICES ASSUME MemoryInv, stage \in Live PROVE ~Rebuilt.raised
    BY DEF Resumable, Live
  <2>1. Log(log) /\ \A i \in 1 .. Len(log) : Fits(log, i)
    BY DEF MemoryInv, Typed, Running
  <2>2. Rebuilt = [messages |-> Rebuilt.messages, raised |-> FALSE]
    BY <2>1, RebuiltSound DEF RebuiltTo, Sound
  <2> QED
    BY <2>2
<1> QED
  BY <1>1, SpecMemory, PTL
=============================================================================
