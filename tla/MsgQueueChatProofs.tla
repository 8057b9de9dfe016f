------------------------- MODULE MsgQueueChatProofs --------------------------
(***************************************************************************)
(* Module3/06 for any terminals, identifiers, capacity of the queue and    *)
(* number of messages: the table of the server, and the order in which     *)
(* messages are read.                                                      *)
(***************************************************************************)
EXTENDS MsgQueueChat, SequenceTheorems, FiniteSetTheorems, TLAPS

\* No user gives 0 or a negative number, which the test of the argument lets through and
\* msgrcv() takes for something other than a type.
PositiveIds == \A i \in Users : i > 0

\* The clients that have begun to send a message, and the bound on their number.
Begun == {t \in Terminals : pc[t] \in {"connect", "send"}}
Budget == IsFiniteSet(Begun) /\ sent + Cardinality(Begun) <= MaxSent

\* A client has an identifier and a line by the time it needs it.
Identified ==
    /\ \A t \in Terminals : Running(t) => id[t] \in Users
    /\ \A t \in Terminals : pc[t] = "send" => line[t] \in Texts
    /\ \A k \in DOMAIN queue : queue[k].to = ServerType => queue[k].id \in Users

\* No client is twice in the table, nor in what the loop has still to look at.
Table == IsInjective(clients) /\ IsInjective(todo)

\* In the queue the messages for one receiver are in the order of their numbers, those for
\* the server follow the one it is sending on, and the others do not.
Numbered ==
    /\ cur.n <= sent
    /\ \A j, k \in DOMAIN queue :
          j < k /\ queue[j].to = queue[k].to => queue[j].n < queue[k].n
    /\ \A k \in DOMAIN queue :
          IF queue[k].to = ServerType THEN cur.n < queue[k].n /\ queue[k].n <= sent
          ELSE /\ queue[k].id # queue[k].to /\ queue[k].n <= cur.n
               /\ queue[k].to \in Range(todo) => queue[k].n < cur.n

\* What a client has received is in order, from others, and before what it will receive.
Received ==
    \A t \in Terminals : \A k \in DOMAIN got[t] :
        /\ got[t][k].id # id[t] /\ got[t][k].n <= cur.n
        /\ \A j \in 1 .. k - 1 : got[t][j].n < got[t][k].n
        /\ \A i \in DOMAIN queue : queue[i].to = id[t] => got[t][k].n < queue[i].n
        /\ id[t] \in Range(todo) => got[t][k].n < cur.n

\* The inductive invariants: of the types and the table, and of the order.
IInv == TypeOK /\ Budget /\ Identified /\ Table
Order == IInv /\ Numbered /\ Received

-----------------------------------------------------------------------------
(* Sequences.                                                                *)

\* Where the elements of a sequence are when one is taken out.
LEMMA RemoveAtElements ==
    ASSUME NEW S, NEW s \in Seq(S), NEW k \in DOMAIN s
    PROVE  /\ RemoveAt(s, k) \in Seq(S) /\ Len(RemoveAt(s, k)) = Len(s) - 1
           /\ \A i \in 1 .. Len(s) - 1 : RemoveAt(s, k)[i] = s[IF i < k THEN i ELSE i + 1]
<1> DEFINE a == SubSeq(s, 1, k - 1)
           b == SubSeq(s, k + 1, Len(s))
<1>1. k \in 1 .. Len(s) /\ Len(s) \in Nat
  OBVIOUS
<1>2. /\ a \in Seq(S) /\ Len(a) = k - 1
      /\ \A i \in 1 .. k - 1 : a[i] = s[i]
  BY <1>1, SubSeqProperties
<1>3. /\ b \in Seq(S) /\ Len(b) = Len(s) - k
      /\ \A i \in 1 .. Len(s) - k : b[i] = s[k + i]
  BY <1>1, SubSeqProperties
<1>4. RemoveAt(s, k) = a \o b
  BY DEF RemoveAt
<1> HIDE DEF a, b
<1>5. /\ a \o b \in Seq(S) /\ Len(a \o b) = Len(s) - 1
      /\ \A i \in 1 .. Len(s) - 1 : (a \o b)[i] = IF i <= k - 1 THEN a[i] ELSE b[i - (k - 1)]
  <2>1. Len(a) + Len(b) = Len(s) - 1
    BY <1>1, <1>2, <1>3
  <2>2. /\ a \o b \in Seq(S) /\ Len(a \o b) = Len(a) + Len(b)
        /\ \A i \in 1 .. Len(a) + Len(b) : (a \o b)[i] = IF i <= Len(a) THEN a[i] ELSE b[i - Len(a)]
    <3>1. a \in Seq(S) /\ b \in Seq(S)
      BY <1>2, <1>3
    <3> QED
      BY <3>1, ConcatProperties, Zenon
  <2>3. Len(a) = k - 1
    BY <1>2
  <2> QED
    BY <2>1, <2>2, <2>3, Zenon
<1>6. ASSUME NEW i \in 1 .. Len(s) - 1 PROVE (a \o b)[i] = s[IF i < k THEN i ELSE i + 1]
  <2>1. CASE i < k
    BY <1>1, <1>2, <1>5, <2>1
  <2>2. CASE i >= k
    <3>1. i - (k - 1) \in 1 .. Len(s) - k /\ k + (i - (k - 1)) = i + 1
      BY <1>1, <2>2
    <3>2. (a \o b)[i] = b[i - (k - 1)]
      <4>1. ~(i <= k - 1)
        BY <1>1, <2>2
      <4> QED
        BY <1>5, <4>1, Zenon
    <3>3. b[i - (k - 1)] = s[k + (i - (k - 1))]
      BY <1>3, <3>1, Zenon
    <3>4. ~(i < k)
      BY <1>1, <2>2
    <3> QED
      BY <3>1, <3>2, <3>3, <3>4, Zenon
  <2>3. i < k \/ i >= k
    BY <1>1
  <2> QED
    BY <2>1, <2>2, <2>3
<1> QED
  BY <1>4, <1>5, <1>6

LEMMA RemoveAtInjective ==
    ASSUME NEW S, NEW s \in Seq(S), NEW k \in DOMAIN s, IsInjective(s)
    PROVE  IsInjective(RemoveAt(s, k)) /\ Range(RemoveAt(s, k)) = Range(s) \ {s[k]}
<1> DEFINE r == RemoveAt(s, k)
<1>1. /\ DOMAIN r = 1 .. Len(s) - 1 /\ Len(s) \in Nat /\ k \in 1 .. Len(s)
      /\ \A i \in 1 .. Len(s) - 1 : r[i] = s[IF i < k THEN i ELSE i + 1]
  <2>1. r \in Seq(S) /\ Len(r) = Len(s) - 1 /\ Len(s) \in Nat /\ k \in 1 .. Len(s)
    BY RemoveAtElements
  <2> HIDE DEF r
  <2>2. DOMAIN r = 1 .. Len(s) - 1
    BY <2>1
  <2> QED
    BY <2>1, <2>2, RemoveAtElements DEF r
<1> HIDE DEF r
<1>2. \A i, j \in 1 .. Len(s) : s[i] = s[j] => i = j
  BY <1>1 DEF IsInjective
<1>3. ASSUME NEW i \in DOMAIN r, NEW j \in DOMAIN r, r[i] = r[j] PROVE i = j
  <2> DEFINE m == IF i < k THEN i ELSE i + 1
             n == IF j < k THEN j ELSE j + 1
  <2>1. s[m] = s[n] /\ m \in 1 .. Len(s) /\ n \in 1 .. Len(s)
    BY <1>1, <1>3
  <2>2. m = n
    BY <1>2, <2>1
  <2> QED
    BY <1>1, <2>2
<1>4. Range(r) = Range(s) \ {s[k]}
  <2>1. ASSUME NEW x \in Range(r) PROVE x \in Range(s) \ {s[k]}
    <3>1. PICK i \in 1 .. Len(s) - 1 : x = r[i]
      BY <1>1 DEF Range
    <3> DEFINE m == IF i < k THEN i ELSE i + 1
    <3>2. x = s[m] /\ m \in 1 .. Len(s) /\ m # k
      BY <1>1, <3>1
    <3>3. DOMAIN s = 1 .. Len(s)
      BY LenProperties
    <3> HIDE DEF m
    <3> QED
      BY <1>1, <1>2, <3>2, <3>3 DEF Range
  <2>2. ASSUME NEW x \in Range(s) \ {s[k]} PROVE x \in Range(r)
    <3>1. PICK j \in 1 .. Len(s) : x = s[j]
      BY LenProperties DEF Range
    <3> DEFINE i == IF j < k THEN j ELSE j - 1
    <3>2. j # k
      BY <2>2, <3>1
    <3>3. i \in 1 .. Len(s) - 1 /\ r[i] = x
      BY <1>1, <3>1, <3>2
    <3> HIDE DEF i
    <3> QED
      BY <1>1, <3>3 DEF Range
  <2> QED
    BY <2>1, <2>2
<1> QED
  BY <1>3, <1>4 DEF IsInjective, r

\* Where the elements are when one is added, and when the first is taken out.
LEMMA AppendElements ==
    ASSUME NEW S, NEW s \in Seq(S), NEW e \in S
    PROVE  /\ Append(s, e) \in Seq(S) /\ Len(Append(s, e)) = Len(s) + 1
           /\ DOMAIN Append(s, e) = 1 .. Len(s) + 1 /\ Len(s) \in Nat
           /\ \A i \in 1 .. Len(s) : Append(s, e)[i] = s[i]
           /\ Append(s, e)[Len(s) + 1] = e
<1>1. Append(s, e) \in Seq(S) /\ Len(Append(s, e)) = Len(s) + 1 /\ Len(s) \in Nat
  BY AppendProperties, LenProperties
<1> QED
  BY <1>1, AppendProperties, LenProperties

LEMMA TailElements ==
    ASSUME NEW S, NEW s \in Seq(S), s # <<>>, IsInjective(s)
    PROVE  /\ Head(s) \in S /\ Head(s) \in Range(s)
           /\ Tail(s) \in Seq(S) /\ IsInjective(Tail(s))
           /\ Range(Tail(s)) = Range(s) \ {Head(s)}
<1>1. /\ Head(s) = s[1] /\ Len(s) \in Nat /\ Len(s) >= 1 /\ DOMAIN s = 1 .. Len(s)
      /\ Tail(s) \in Seq(S) /\ Len(Tail(s)) = Len(s) - 1
      /\ \A i \in 1 .. Len(s) - 1 : Tail(s)[i] = s[i + 1]
  <2>1. Len(s) \in Nat \ {0}
    BY EmptySeq
  <2> QED
    BY <2>1, HeadTailProperties, LenProperties
<1>2. DOMAIN Tail(s) = 1 .. Len(s) - 1
  BY <1>1, LenProperties
<1>3. \A i, j \in 1 .. Len(s) : s[i] = s[j] => i = j
  BY <1>1 DEF IsInjective
<1>4. IsInjective(Tail(s))
  <2>1. ASSUME NEW i \in 1 .. Len(s) - 1, NEW j \in 1 .. Len(s) - 1, Tail(s)[i] = Tail(s)[j]
        PROVE  i = j
    <3>1. s[i + 1] = s[j + 1] /\ i + 1 \in 1 .. Len(s) /\ j + 1 \in 1 .. Len(s)
      BY <1>1, <2>1
    <3>2. i + 1 = j + 1
      BY <1>3, <3>1
    <3> QED
      BY <3>2
  <2> QED
    BY <1>2, <2>1 DEF IsInjective
<1>5. ASSUME NEW x \in Range(Tail(s)) PROVE x \in Range(s) \ {Head(s)}
  <2>1. PICK i \in 1 .. Len(s) - 1 : x = Tail(s)[i]
    BY <1>2 DEF Range
  <2>2. x = s[i + 1] /\ i + 1 \in 1 .. Len(s) /\ i + 1 # 1
    BY <1>1, <2>1
  <2>3. x # s[1]
    <3>1. 1 \in 1 .. Len(s)
      BY <1>1
    <3> QED
      BY <1>3, <2>2, <3>1
  <2> QED
    BY <1>1, <2>2, <2>3 DEF Range
<1>6. Head(s) \in S /\ Head(s) \in Range(s)
  <2>1. 1 \in 1 .. Len(s)
    BY <1>1
  <2> QED
    BY <1>1, <2>1, ElementOfSeq DEF Range
<1>7. ASSUME NEW x \in Range(s) \ {Head(s)} PROVE x \in Range(Tail(s))
  <2>1. PICK i \in 1 .. Len(s) : x = s[i]
    BY <1>1 DEF Range
  <2>2. i - 1 \in 1 .. Len(s) - 1 /\ Tail(s)[i - 1] = x
    <3>1. i # 1
      BY <1>1, <1>7, <2>1
    <3>2. i - 1 \in 1 .. Len(s) - 1 /\ (i - 1) + 1 = i
      BY <1>1, <3>1
    <3> QED
      BY <1>1, <2>1, <3>2
  <2> QED
    BY <1>2, <2>2 DEF Range
<1> QED
  BY <1>1, <1>4, <1>5, <1>6, <1>7

-----------------------------------------------------------------------------
(* The numbers of a finite set in ascending order.                           *)

\* f lists the n elements of P in ascending order.
Lists(f, n, P) ==
    /\ f \in [1 .. n -> P]
    /\ \A i, j \in 1 .. n : i < j => f[i] < f[j]
    /\ \A p \in P : \E i \in 1 .. n : f[i] = p

LEMMA Interval ==
    ASSUME NEW n \in Nat
    PROVE  IsFiniteSet(1 .. n) /\ Cardinality(1 .. n) = n
<1>1. IsFiniteSet(1 .. n) /\ Cardinality(1 .. n) = IF 1 > n THEN 0 ELSE n - 1 + 1
  BY FS_Interval
<1> QED
  BY <1>1

LEMMA ListsAll ==
    ASSUME NEW n \in Nat, NEW P \in SUBSET Nat, NEW f, Lists(f, n, P)
    PROVE  IsFiniteSet(P) /\ Cardinality(P) = n
<1>1. \A i, j \in 1 .. n : f[i] = f[j] => i = j
  <2> SUFFICES ASSUME NEW i \in 1 .. n, NEW j \in 1 .. n, f[i] = f[j] PROVE i = j
    OBVIOUS
  <2>1. f[i] \in Nat /\ (i < j => f[i] < f[j]) /\ (j < i => f[j] < f[i])
    BY DEF Lists
  <2> QED
    BY <2>1
<1>2. f \in Bijection(1 .. n, P)
  BY <1>1 DEF Lists, Bijection, Injection, Surjection, IsInjective
<1>3. ExistsBijection(1 .. n, P)
  BY <1>2 DEF ExistsBijection
<1> QED
  BY <1>3, Interval, FS_Bijection

\* How many elements of P do not exceed k, and the list that has each at its rank.
Rank(P, k) == Cardinality({j \in P : j <= k})
Ascending(P) == [i \in 1 .. Cardinality(P) |-> CHOOSE k \in P : Rank(P, k) = i]

LEMMA RankOrder ==
    ASSUME NEW P \in SUBSET Nat, IsFiniteSet(P), NEW a \in P, NEW b \in P
    PROVE  Rank(P, a) \in 1 .. Cardinality(P) /\ (a < b => Rank(P, a) < Rank(P, b))
<1> DEFINE low(k) == {j \in P : j <= k}
<1>1. \A k \in P : IsFiniteSet(low(k)) /\ Cardinality(low(k)) <= Cardinality(P)
                   /\ Cardinality(low(k)) \in Nat /\ Cardinality(low(k)) # 0
  <2> SUFFICES ASSUME NEW k \in P
               PROVE  IsFiniteSet(low(k)) /\ Cardinality(low(k)) <= Cardinality(P)
                      /\ Cardinality(low(k)) \in Nat /\ Cardinality(low(k)) # 0
    OBVIOUS
  <2>1. low(k) \in SUBSET P /\ k \in low(k)
    OBVIOUS
  <2>2. IsFiniteSet(low(k)) /\ Cardinality(low(k)) <= Cardinality(P)
    BY <2>1, FS_Subset
  <2> HIDE DEF low
  <2> QED
    BY <2>1, <2>2, FS_CardinalityType, FS_EmptySet
<1>2. Cardinality(P) \in Nat
  BY FS_CardinalityType
<1>3. ASSUME a < b PROVE Cardinality(low(a)) < Cardinality(low(b))
  <2>1. low(a) \in SUBSET low(b) /\ b \in low(b) /\ b \notin low(a)
    <3>1. a \in Nat /\ b \in Nat /\ \A j \in P : j \in Nat
      OBVIOUS
    <3>2. \A j \in P : j <= a => j <= b
      BY <1>3, <3>1
    <3>3. low(a) \in SUBSET low(b)
      BY <3>2
    <3>4. b \in low(b) /\ ~(b <= a)
      BY <1>3, <3>1
    <3> QED
      BY <3>3, <3>4
  <2>2. Cardinality(low(a)) <= Cardinality(low(b)) /\ Cardinality(low(b)) # Cardinality(low(a))
    <3> HIDE DEF low
    <3> QED
      BY <1>1, <2>1, FS_Subset
  <2> HIDE DEF low
  <2> QED
    BY <1>1, <2>2
<1> HIDE DEF low
<1>4. Rank(P, a) = Cardinality(low(a)) /\ Rank(P, b) = Cardinality(low(b))
  BY DEF Rank, low
<1> QED
  BY <1>1, <1>2, <1>3, <1>4

\* There is such a list ...
LEMMA ListExists ==
    ASSUME NEW P \in SUBSET Nat, IsFiniteSet(P)
    PROVE  \E f : Lists(f, Cardinality(P), P)
<1> DEFINE n == Cardinality(P)
           h == [k \in P |-> Rank(P, k)]
<1>1. n \in Nat
  BY FS_CardinalityType
<1>2. h \in [P -> 1 .. n]
  BY RankOrder
<1>3. \A a, b \in P : (a < b => h[a] < h[b]) /\ h[a] \in 1 .. n
  BY RankOrder
<1> HIDE DEF n, h
<1>4. \A a, b \in P : h[a] = h[b] => a = b
  <2> SUFFICES ASSUME NEW a \in P, NEW b \in P, h[a] = h[b] PROVE a = b
    OBVIOUS
  <2>1. a \in Nat /\ b \in Nat /\ h[a] \in 1 .. n
    BY <1>3
  <2>2. ~(a < b) /\ ~(b < a)
    BY <1>3, <2>1
  <2> QED
    BY <2>1, <2>2
<1>5. h \in Injection(P, 1 .. n)
  BY <1>2, <1>4 DEF Injection, IsInjective
<1>6. h \in Surjection(P, 1 .. n)
  <2>1. IsFiniteSet(1 .. n) /\ Cardinality(1 .. n) = Cardinality(P)
    BY <1>1, Interval DEF n
  <2> QED
    BY <1>5, <2>1, FS_Injection
<1>7. \A i \in 1 .. n : \E k \in P : h[k] = i
  BY <1>6 DEF Surjection
<1> DEFINE f == [i \in 1 .. n |-> CHOOSE k \in P : h[k] = i]
<1>8. \A i \in 1 .. n : f[i] \in P /\ h[f[i]] = i
  BY <1>7
<1>9. f \in [1 .. n -> P]
  BY <1>8
<1> HIDE DEF f
<1>10. \A i, j \in 1 .. n : i < j => f[i] < f[j]
  <2> SUFFICES ASSUME NEW i \in 1 .. n, NEW j \in 1 .. n, i < j PROVE f[i] < f[j]
    OBVIOUS
  <2>1. f[i] \in Nat /\ f[j] \in Nat /\ h[f[i]] = i /\ h[f[j]] = j
    BY <1>8
  <2>2. ~(f[j] < f[i]) /\ f[i] # f[j]
    BY <1>3, <1>8, <2>1
  <2> QED
    BY <2>1, <2>2
<1>11. \A p \in P : \E i \in 1 .. n : f[i] = p
  <2> SUFFICES ASSUME NEW p \in P PROVE f[h[p]] = p /\ h[p] \in 1 .. n
    OBVIOUS
  <2>1. h[p] \in 1 .. n
    BY <1>3
  <2> QED
    BY <1>4, <1>8, <2>1
<1>12. Lists(f, n, P)
  BY <1>9, <1>10, <1>11 DEF Lists
<1> QED
  BY <1>12 DEF n

LEMMA ListRank ==
    ASSUME NEW n \in Nat, NEW P \in SUBSET Nat, NEW f, Lists(f, n, P), NEW i \in 1 .. n
    PROVE  Rank(P, f[i]) = i
<1> DEFINE low == {j \in P : j <= f[i]}
           g == [x \in 1 .. i |-> f[x]]
<1>1. /\ \A x \in 1 .. n : f[x] \in P /\ f[x] \in Nat
      /\ \A x, y \in 1 .. n : x < y => f[x] < f[y]
      /\ \A p \in P : \E x \in 1 .. n : f[x] = p
  BY DEF Lists
<1>2. \A x \in 1 .. n : f[x] <= f[i] <=> x <= i
  <2> SUFFICES ASSUME NEW x \in 1 .. n PROVE f[x] <= f[i] <=> x <= i
    OBVIOUS
  <2>1. (x < i => f[x] < f[i]) /\ (i < x => f[i] < f[x]) /\ f[x] \in Nat /\ f[i] \in Nat
    BY <1>1
  <2> QED
    BY <2>1
<1>3. g \in [1 .. i -> low]
  BY <1>1, <1>2
<1>4. \A x, y \in 1 .. i : g[x] = g[y] => x = y
  <2> SUFFICES ASSUME NEW x \in 1 .. i, NEW y \in 1 .. i, g[x] = g[y] PROVE x = y
    OBVIOUS
  <2>1. f[x] = f[y] /\ (x < y => f[x] < f[y]) /\ (y < x => f[y] < f[x])
        /\ f[x] \in Nat
    BY <1>1
  <2> QED
    BY <2>1
<1>5. \A p \in low : \E x \in 1 .. i : g[x] = p
  <2> SUFFICES ASSUME NEW p \in low PROVE \E x \in 1 .. i : g[x] = p
    OBVIOUS
  <2>1. PICK x \in 1 .. n : f[x] = p
    BY <1>1
  <2>2. x \in 1 .. i
    BY <1>2, <2>1
  <2> QED
    BY <2>1, <2>2
<1> HIDE DEF low, g
<1>6. g \in Bijection(1 .. i, low)
  BY <1>3, <1>4, <1>5 DEF Bijection, Injection, Surjection, IsInjective
<1>7. ExistsBijection(1 .. i, low) /\ i \in Nat
  BY <1>6 DEF ExistsBijection
<1>8. Cardinality(low) = i
  BY <1>7, Interval, FS_Bijection
<1> QED
  BY <1>8 DEF low, Rank

\* ... and only one, which is Ascending.
LEMMA AscendingIs ==
    ASSUME NEW n \in Nat, NEW P \in SUBSET Nat, NEW f, Lists(f, n, P)
    PROVE  Ascending(P) = f
<1>1. IsFiniteSet(P) /\ Cardinality(P) = n
  BY ListsAll
<1>2. f \in [1 .. n -> P]
  BY DEF Lists
<1>3. ASSUME NEW i \in 1 .. n PROVE f[i] = CHOOSE k \in P : Rank(P, k) = i
  <2>1. f[i] \in P /\ Rank(P, f[i]) = i
    BY <1>2, ListRank
  <2>2. ASSUME NEW k \in P, Rank(P, k) = i PROVE k = f[i]
    <3>1. ASSUME NEW a \in P, NEW b \in P, Rank(P, a) = i, Rank(P, b) = i PROVE ~(a < b)
      BY <1>1, <3>1, RankOrder
    <3>2. ~(k < f[i]) /\ ~(f[i] < k) /\ k \in Nat /\ f[i] \in Nat
      BY <2>1, <2>2, <3>1
    <3> QED
      BY <3>2
  <2> QED
    BY <2>1, <2>2
<1>4. Ascending(P) = [i \in 1 .. n |-> CHOOSE k \in P : Rank(P, k) = i]
  BY <1>1 DEF Ascending
<1> QED
  BY <1>2, <1>3, <1>4

LEMMA AscendingLists ==
    ASSUME NEW P \in SUBSET Nat, IsFiniteSet(P)
    PROVE  /\ Lists(Ascending(P), Cardinality(P), P) /\ Cardinality(P) \in Nat
           /\ DOMAIN Ascending(P) = 1 .. Cardinality(P)
<1>1. PICK f : Lists(f, Cardinality(P), P)
  BY ListExists
<1>2. Cardinality(P) \in Nat
  BY FS_CardinalityType
<1>3. Ascending(P) = f
  BY <1>1, <1>2, AscendingIs
<1> QED
  BY <1>1, <1>2, <1>3 DEF Lists

-----------------------------------------------------------------------------
(* The messages of a queue for one receiver.                                 *)

\* The list of their places says what they are.
LEMMA MailIs ==
    ASSUME NEW S, NEW q \in Seq(S), NEW u, NEW n \in Nat, NEW f, Lists(f, n, Places(q, u))
    PROVE  /\ MailIn(q, u) = [i \in 1 .. n |-> q[f[i]]]
           /\ MailIn(q, u) \in Seq(S) /\ Len(MailIn(q, u)) = n
<1>1. DOMAIN q = 1 .. Len(q) /\ Len(q) \in Nat /\ \A i \in 1 .. Len(q) : q[i] \in S
  BY LenProperties, ElementOfSeq
<1>2. Places(q, u) \in SUBSET Nat /\ Places(q, u) \subseteq 1 .. Len(q)
  BY <1>1 DEF Places
<1>3. Ascending(Places(q, u)) = f /\ DOMAIN f = 1 .. n
  BY <1>2, AscendingIs, SMTT(30) DEF Lists
<1>4. MailIn(q, u) = [i \in 1 .. n |-> q[f[i]]]
  <2>1. Cardinality(Places(q, u)) = n
    BY <1>2, ListsAll
  <2>2. \A i \in 1 .. n : f[i] = CHOOSE k \in Places(q, u) : Rank(Places(q, u), k) = i
    BY <1>3, <2>1 DEF Ascending
  <2> DEFINE at(i) == CHOOSE k \in Places(q, u) : Rank(Places(q, u), k) = i
  <2>3. MailIn(q, u) = [i \in 1 .. n |-> q[at(i)]]
    BY <2>1 DEF MailIn, Rank
  <2>4. \A i \in 1 .. n : at(i) = f[i]
    BY <2>2
  <2> HIDE DEF at
  <2> QED
    BY <2>3, <2>4
<1>5. \A i \in 1 .. n : q[f[i]] \in S
  BY <1>1, <1>2 DEF Lists
<1>6. MailIn(q, u) \in [1 .. n -> S]
  BY <1>4, <1>5
<1> QED
  BY <1>4, <1>6, IsASeq

LEMMA MailLists ==
    ASSUME NEW S, NEW q \in Seq(S), NEW u
    PROVE  /\ Cardinality(Places(q, u)) \in Nat
           /\ Lists(Ascending(Places(q, u)), Cardinality(Places(q, u)), Places(q, u))
           /\ MailIn(q, u) = [i \in 1 .. Cardinality(Places(q, u)) |->
                                 q[Ascending(Places(q, u))[i]]]
           /\ MailIn(q, u) \in Seq(S) /\ Len(MailIn(q, u)) = Cardinality(Places(q, u))
<1>1. DOMAIN q = 1 .. Len(q) /\ Len(q) \in Nat
  BY LenProperties
<1>2. Places(q, u) \in SUBSET (1 .. Len(q))
  BY <1>1 DEF Places
<1>3. IsFiniteSet(Places(q, u)) /\ Places(q, u) \in SUBSET Nat
  BY <1>1, <1>2, Interval, FS_Subset
<1> DEFINE f == Ascending(Places(q, u))
           n == Cardinality(Places(q, u))
<1>4. Lists(f, n, Places(q, u)) /\ n \in Nat
  BY <1>3, AscendingLists
<1> HIDE DEF f, n
<1>5. MailIn(q, u) = [i \in 1 .. n |-> q[f[i]]] /\ MailIn(q, u) \in Seq(S) /\ Len(MailIn(q, u)) = n
  BY <1>4, MailIs
<1> QED
  BY <1>4, <1>5 DEF f, n

LEMMA MailAppend ==
    ASSUME NEW S, NEW q \in Seq(S), NEW m \in S, NEW u
    PROVE  /\ MailIn(q, u) \in Seq(S)
           /\ MailIn(Append(q, m), u) = IF m.to = u THEN Append(MailIn(q, u), m) ELSE MailIn(q, u)
<1>0. PICK n \in Nat, f \in {Ascending(Places(q, u))} : n = Cardinality(Places(q, u))
  BY MailLists
<1>1. /\ Lists(f, n, Places(q, u))
      /\ MailIn(q, u) = [i \in 1 .. n |-> q[f[i]]]
      /\ MailIn(q, u) \in Seq(S) /\ Len(MailIn(q, u)) = n
  BY <1>0, MailLists
<1> DEFINE a == Append(q, m)
           e == Len(q) + 1
<1>2. /\ a \in Seq(S) /\ DOMAIN a = 1 .. e /\ e \in Nat \ {0} /\ DOMAIN q = 1 .. e - 1
      /\ \A i \in 1 .. e - 1 : a[i] = q[i]
      /\ a[e] = m
  BY AppendElements, LenProperties
<1> HIDE DEF a, e
<1>3. /\ \A i \in 1 .. n : f[i] \in 1 .. e - 1 /\ q[f[i]].to = u
      /\ \A i, j \in 1 .. n : i < j => f[i] < f[j]
      /\ \A p \in 1 .. e - 1 : q[p].to = u => \E i \in 1 .. n : f[i] = p
      /\ f \in [1 .. n -> Places(q, u)]
  BY <1>1, <1>2 DEF Lists, Places
<1>4. CASE m.to # u
  <2>1. Places(a, u) = Places(q, u)
    BY <1>2, <1>4 DEF Places
  <2>2. MailIn(a, u) = [i \in 1 .. n |-> a[f[i]]]
    BY <1>1, <1>2, <2>1, MailIs
  <2>3. \A i \in 1 .. n : a[f[i]] = q[f[i]]
    BY <1>2, <1>3
  <2> QED
    BY <1>1, <1>4, <2>2, <2>3 DEF a
<1>5. CASE m.to = u
  <2> DEFINE g == [i \in 1 .. n + 1 |-> IF i = n + 1 THEN e ELSE f[i]]
  <2>1. /\ \A i \in 1 .. n : g[i] = f[i]
        /\ g[n + 1] = e /\ DOMAIN g = 1 .. n + 1
    OBVIOUS
  <2>2. \A i \in 1 .. n + 1 : g[i] \in 1 .. e /\ a[g[i]].to = u
    <3> HIDE DEF g
    <3>1. \A i \in 1 .. n : g[i] \in 1 .. e - 1 /\ a[g[i]].to = u
      BY <1>2, <1>3, <2>1
    <3>2. g[n + 1] \in 1 .. e /\ a[g[n + 1]].to = u
      BY <1>2, <1>5, <2>1
    <3>3. \A i \in 1 .. n + 1 : i \in 1 .. n \/ i = n + 1
      BY <1>1
    <3>4. 1 .. e - 1 \subseteq 1 .. e
      BY <1>2
    <3> HIDE DEF g
    <3> QED
      BY <3>1, <3>2, <3>3, <3>4, Zenon
  <2>3. g \in [1 .. n + 1 -> Places(a, u)]
    <3>1. \A i \in 1 .. n + 1 : g[i] \in Places(a, u)
      BY <1>2, <2>2 DEF Places
    <3> QED
      BY <3>1
  <2> HIDE DEF g
  <2>4. ASSUME NEW i \in 1 .. n + 1, NEW j \in 1 .. n + 1, i < j PROVE g[i] < g[j]
    <3>1. CASE j \in 1 .. n
      BY <1>3, <2>1, <2>4, <3>1
    <3>2. CASE j = n + 1
      BY <1>2, <1>3, <2>1, <2>4, <3>2
    <3> QED
      BY <3>1, <3>2
  <2>5. ASSUME NEW p \in Places(a, u) PROVE \E i \in 1 .. n + 1 : g[i] = p
    <3>1. CASE p \in 1 .. e - 1
      <4>1. q[p].to = u
        BY <1>2, <2>5, <3>1 DEF Places
      <4>2. PICK i \in 1 .. n : f[i] = p
        BY <1>3, <3>1, <4>1
      <4> QED
        BY <2>1, <4>2
    <3>2. CASE p = e
      BY <2>1, <3>2
    <3> QED
      BY <1>2, <3>1, <3>2 DEF Places
  <2>6. Lists(g, n + 1, Places(a, u))
    BY <2>3, <2>4, <2>5 DEF Lists
  <2>7. /\ MailIn(a, u) = [i \in 1 .. n + 1 |-> a[g[i]]]
        /\ MailIn(a, u) \in Seq(S) /\ Len(MailIn(a, u)) = n + 1
    BY <1>2, <2>6, MailIs
  <2>8. /\ Append(MailIn(q, u), m) \in Seq(S) /\ Len(Append(MailIn(q, u), m)) = n + 1
        /\ \A i \in 1 .. n : Append(MailIn(q, u), m)[i] = MailIn(q, u)[i]
        /\ Append(MailIn(q, u), m)[n + 1] = m
    BY <1>1, AppendElements
  <2>9. ASSUME NEW i \in 1 .. n + 1 PROVE MailIn(a, u)[i] = Append(MailIn(q, u), m)[i]
    <3>1. CASE i \in 1 .. n
      <4>1. MailIn(a, u)[i] = a[f[i]] /\ MailIn(q, u)[i] = q[f[i]]
        BY <1>1, <2>1, <2>7, <3>1
      <4> QED
        BY <1>2, <1>3, <2>8, <3>1, <4>1
    <3>2. CASE i = n + 1
      BY <1>2, <2>1, <2>7, <2>8, <3>2
    <3>3. i \in 1 .. n \/ i = n + 1
      OBVIOUS
    <3> QED
      BY <3>1, <3>2, <3>3, Zenon
  <2>10. MailIn(a, u) = Append(MailIn(q, u), m)
    BY <2>7, <2>8, <2>9, SeqEqual
  <2> QED
    BY <1>1, <1>5, <2>10 DEF a
<1> QED
  BY <1>1, <1>4, <1>5

LEMMA MailRemove ==
    ASSUME NEW S, NEW q \in Seq(S), NEW k \in DOMAIN q, NEW u,
           q[k].to = u => \A j \in 1 .. k - 1 : q[j].to # u
    PROVE  IF q[k].to = u
           THEN /\ MailIn(q, u) # <<>> /\ MailIn(q, u)[1] = q[k]
                /\ MailIn(RemoveAt(q, k), u) = Tail(MailIn(q, u))
           ELSE MailIn(RemoveAt(q, k), u) = MailIn(q, u)
<1>0. PICK n \in Nat, f \in {Ascending(Places(q, u))} : n = Cardinality(Places(q, u))
  BY MailLists
<1>1. /\ Lists(f, n, Places(q, u))
      /\ MailIn(q, u) = [i \in 1 .. n |-> q[f[i]]]
      /\ MailIn(q, u) \in Seq(S) /\ Len(MailIn(q, u)) = n
  BY <1>0, MailLists
<1> DEFINE r == RemoveAt(q, k)
           e == Len(q)
<1>2. r \in Seq(S) /\ Len(r) = e - 1 /\ e \in Nat /\ DOMAIN q = 1 .. e
  BY RemoveAtElements, LenProperties
<1>3. \A i \in 1 .. e - 1 : r[i] = q[IF i < k THEN i ELSE i + 1]
  BY RemoveAtElements
<1> HIDE DEF r, e
<1>4. DOMAIN r = 1 .. e - 1
  BY <1>2, LenProperties
<1>5. /\ \A i \in 1 .. n : f[i] \in 1 .. e /\ q[f[i]].to = u
      /\ \A i, j \in 1 .. n : i < j => f[i] < f[j]
      /\ \A p \in 1 .. e : q[p].to = u => \E i \in 1 .. n : f[i] = p
  BY <1>1, <1>2 DEF Lists, Places
<1>6. k \in 1 .. e
  BY <1>2
<1>7. CASE q[k].to # u
  <2> DEFINE g == [i \in 1 .. n |-> IF f[i] < k THEN f[i] ELSE f[i] - 1]
  <2>1. \A i \in 1 .. n : f[i] # k
    BY <1>5, <1>7
  <2>2. \A i \in 1 .. n : g[i] \in 1 .. e - 1 /\ r[g[i]] = q[f[i]]
    BY <1>2, <1>3, <1>5, <1>6, <2>1
  <2>3. \A i, j \in 1 .. n : i < j => g[i] < g[j]
    BY <1>5, <1>6, <2>1
  <2>4. g \in [1 .. n -> Places(r, u)]
    <3>1. \A i \in 1 .. n : g[i] \in Places(r, u)
      BY <1>4, <1>5, <2>2 DEF Places
    <3> QED
      BY <3>1
  <2>5. ASSUME NEW p \in Places(r, u) PROVE \E i \in 1 .. n : g[i] = p
    <3> DEFINE s == IF p < k THEN p ELSE p + 1
    <3>1. p \in 1 .. e - 1 /\ r[p] = q[s] /\ r[p].to = u
      BY <1>3, <1>4, <2>5 DEF Places
    <3>2. s \in 1 .. e /\ q[s].to = u
      BY <1>2, <3>1
    <3>3. PICK i \in 1 .. n : f[i] = s
      BY <1>5, <3>2
    <3>4. g[i] = p
      BY <1>2, <1>6, <3>1, <3>3
    <3> QED
      BY <3>4
  <2> HIDE DEF g
  <2>6. Lists(g, n, Places(r, u))
    BY <2>3, <2>4, <2>5 DEF Lists
  <2>7. MailIn(r, u) = [i \in 1 .. n |-> r[g[i]]]
    BY <1>2, <2>6, MailIs
  <2>8. MailIn(r, u) = MailIn(q, u)
    BY <1>1, <2>2, <2>7
  <2> QED
    BY <1>7, <2>8 DEF r
<1>8. CASE q[k].to = u
  <2>1. PICK x \in 1 .. n : f[x] = k
    BY <1>5, <1>6, <1>8
  <2>2. x = 1
    <3>1. 1 \in 1 .. n /\ f[1] \in 1 .. e /\ q[f[1]].to = u
      BY <1>5
    <3>2. ~(1 < x)
      <4>1. SUFFICES ASSUME 1 < x PROVE FALSE
        OBVIOUS
      <4>2. f[1] \in 1 .. k - 1
        BY <1>2, <1>5, <1>6, <2>1, <3>1, <4>1
      <4> QED
        BY <1>8, <3>1, <4>2
    <3> QED
      BY <3>2
  <2>3. f[1] = k /\ n >= 1 /\ \A i \in 2 .. n : f[i] > k
    BY <1>5, <2>1, <2>2
  <2> DEFINE g == [i \in 1 .. n - 1 |-> f[i + 1] - 1]
  <2>4. \A i \in 1 .. n - 1 : i + 1 \in 2 .. n /\ i + 1 \in 1 .. n /\ f[i + 1] > k
    BY <2>3
  <2>5. \A i \in 1 .. n - 1 : g[i] \in 1 .. e - 1 /\ r[g[i]] = q[f[i + 1]]
    BY <1>2, <1>3, <1>5, <1>6, <2>4
  <2>6. ASSUME NEW i \in 1 .. n - 1, NEW j \in 1 .. n - 1, i < j PROVE g[i] < g[j]
    <3>1. f[i + 1] < f[j + 1] /\ f[i + 1] \in 1 .. e /\ f[j + 1] \in 1 .. e
      BY <1>5, <2>4, <2>6
    <3> QED
      BY <1>2, <3>1
  <2>7. g \in [1 .. n - 1 -> Places(r, u)]
    <3>1. \A i \in 1 .. n - 1 : g[i] \in Places(r, u)
      BY <1>4, <1>5, <2>4, <2>5 DEF Places
    <3> QED
      BY <3>1
  <2>8. ASSUME NEW p \in Places(r, u) PROVE \E i \in 1 .. n - 1 : g[i] = p
    <3>1. /\ p \in 1 .. e - 1 /\ r[p] = q[IF p < k THEN p ELSE p + 1] /\ r[p].to = u
      BY <1>3, <1>4, <2>8 DEF Places
    <3>2. p >= k
      <4>1. SUFFICES ASSUME p < k PROVE FALSE
        BY <1>2, <1>6, <3>1
      <4>2. p \in 1 .. k - 1 /\ q[p].to = u
        BY <1>2, <1>6, <3>1, <4>1
      <4> QED
        BY <1>8, <4>2
    <3>3. p + 1 \in 1 .. e /\ q[p + 1].to = u
      BY <1>2, <1>6, <3>1, <3>2
    <3>4. PICK i \in 1 .. n : f[i] = p + 1
      BY <1>5, <3>3
    <3>5. i # 1
      BY <1>2, <1>6, <2>3, <3>1, <3>2, <3>4
    <3>6. i - 1 \in 1 .. n - 1 /\ g[i - 1] = p
      BY <1>2, <3>1, <3>4, <3>5
    <3> QED
      BY <3>6
  <2> HIDE DEF g
  <2>9. n - 1 \in Nat /\ Lists(g, n - 1, Places(r, u))
    BY <2>3, <2>6, <2>7, <2>8 DEF Lists
  <2>10. /\ MailIn(r, u) = [i \in 1 .. n - 1 |-> r[g[i]]]
         /\ MailIn(r, u) \in Seq(S) /\ Len(MailIn(r, u)) = n - 1
    <3>1. PICK c \in Nat : c = n - 1
      BY <2>9
    <3>2. Lists(g, c, Places(r, u))
      BY <2>9, <3>1
    <3>3. /\ MailIn(r, u) = [i \in 1 .. c |-> r[g[i]]]
          /\ MailIn(r, u) \in Seq(S) /\ Len(MailIn(r, u)) = c
      BY <1>2, <3>2, MailIs
    <3> QED
      BY <3>1, <3>3
  <2>11. MailIn(q, u) # <<>>
    BY <1>1, <2>3, EmptySeq
  <2>12. /\ Tail(MailIn(q, u)) \in Seq(S) /\ Len(Tail(MailIn(q, u))) = n - 1
         /\ \A i \in 1 .. n - 1 : Tail(MailIn(q, u))[i] = MailIn(q, u)[i + 1]
    BY <1>1, <2>11, HeadTailProperties
  <2>13. ASSUME NEW i \in 1 .. n - 1 PROVE MailIn(r, u)[i] = Tail(MailIn(q, u))[i]
    BY <1>1, <2>4, <2>5, <2>10, <2>12
  <2>14. MailIn(r, u) = Tail(MailIn(q, u))
    BY <2>10, <2>12, <2>13, SeqEqual
  <2>15. MailIn(q, u)[1] = q[k]
    BY <1>1, <2>3
  <2> QED
    BY <1>8, <2>11, <2>14, <2>15 DEF r
<1> QED
  BY <1>7, <1>8

\* The same of the queue.
LEMMA MailPut ==
    ASSUME queue \in Seq(Messages), NEW m \in Messages, queue' = Append(queue, m), NEW u
    PROVE  /\ MailIn(queue, u) \in Seq(Messages)
           /\ m.to = u => MailIn(queue', u) = Append(MailIn(queue, u), m)
           /\ m.to # u => MailIn(queue', u) = MailIn(queue, u)
BY MailAppend

LEMMA MailTaken ==
    ASSUME queue \in Seq(Messages), NEW k \in DOMAIN queue, queue' = RemoveAt(queue, k), NEW u,
           queue[k].to = u => \A j \in 1 .. k - 1 : queue[j].to # u
    PROVE  /\ queue[k].to # u => MailIn(queue', u) = MailIn(queue, u)
           /\ queue[k].to = u => /\ MailIn(queue, u) # <<>> /\ MailIn(queue, u)[1] = queue[k]
                                 /\ MailIn(queue', u) = Tail(MailIn(queue, u))
BY MailRemove

-----------------------------------------------------------------------------
(* The table of the server.                                                  *)

LEMMA JoinedTable ==
    ASSUME clients \in Seq(Users), IsInjective(clients), NEW i \in Users
    PROVE  /\ Joined(i) \in Seq(Users) /\ IsInjective(Joined(i))
           /\ Range(Joined(i)) = Range(clients) \cup {i}
<1>1. CASE Exists(i)
  BY <1>1 DEF Joined, Exists
<1>2. CASE ~Exists(i)
  <2>1. Joined(i) = Append(clients, i)
    BY <1>2 DEF Joined
  <2> DEFINE a == Append(clients, i)
             n == Len(clients)
  <2>2. /\ a \in Seq(Users) /\ DOMAIN a = 1 .. n + 1 /\ n \in Nat /\ DOMAIN clients = 1 .. n
        /\ \A k \in 1 .. n : a[k] = clients[k]
        /\ a[n + 1] = i
    BY AppendElements, LenProperties
  <2>3. \A k \in 1 .. n : clients[k] # i
    BY <1>2, <2>2 DEF Exists, Range
  <2>4. \A j, k \in 1 .. n : clients[j] = clients[k] => j = k
    BY <2>2 DEF IsInjective
  <2> HIDE DEF a, n
  <2>5. IsInjective(a)
    <3>1. ASSUME NEW j \in 1 .. n + 1, NEW k \in 1 .. n + 1, a[j] = a[k] PROVE j = k
      <4>1. CASE j \in 1 .. n /\ k \in 1 .. n
        BY <2>2, <2>4, <3>1, <4>1
      <4>2. CASE j = n + 1 /\ k \in 1 .. n
        BY <2>2, <2>3, <3>1, <4>2
      <4>3. CASE j \in 1 .. n /\ k = n + 1
        BY <2>2, <2>3, <3>1, <4>3
      <4> QED
        BY <2>2, <4>1, <4>2, <4>3
    <3> QED
      BY <2>2, <3>1 DEF IsInjective
  <2>6. Range(a) = Range(clients) \cup {i}
    <3>1. n + 1 \in DOMAIN a /\ 1 .. n \subseteq DOMAIN a
      BY <2>2
    <3>2. i \in Range(a) /\ Range(clients) \subseteq Range(a)
      BY <2>2, <3>1 DEF Range
    <3>3. Range(a) \subseteq Range(clients) \cup {i}
      BY <2>2 DEF Range
    <3> QED
      BY <3>2, <3>3
  <2> QED
    BY <2>1, <2>2, <2>5, <2>6 DEF a
<1> QED
  BY <1>1, <1>2

LEMMA LeftTable ==
    ASSUME NEW s \in Seq(Users), IsInjective(s), NEW i \in Range(s)
    PROVE  /\ Left(s, i) \in Seq(Users) /\ IsInjective(Left(s, i))
           /\ Range(Left(s, i)) = Range(s) \ {i}
<1>1. PICK k \in DOMAIN s : s[k] = i
  BY DEF Range
<1>2. DOMAIN s = 1 .. Len(s) /\ Len(s) \in Nat
  BY LenProperties
<1>3. {j \in 1 .. Len(s) : s[j] = i} = {k}
  BY <1>1, <1>2 DEF IsInjective
<1>4. Min({k}) = k
  BY <1>1, <1>2 DEF Min
<1>5. SelectInSeq(s, LAMBDA v : v = i) = k
  BY <1>3, <1>4 DEF SelectInSeq
<1>6. Left(s, i) = RemoveAt(s, k)
  BY <1>1, <1>2, <1>5 DEF Left, RemoveFirst
<1> QED
  BY <1>1, <1>6, RemoveAtElements, RemoveAtInjective

-----------------------------------------------------------------------------
(* Types, the bound on what is sent, and identifiers.                        *)

LEMMA Bounds == MaxSent \in Nat /\ Capacity \in Nat /\ MaxStarts \in Nat
<1>1. {MaxClients, Capacity, MaxSent, MaxStarts} \subseteq Nat
  BY ChatAssumption
<1> QED
  BY <1>1

\* A client comes to send, or does not any more.
LEMMA BudgetMove ==
    ASSUME TypeOK, Budget, NEW t \in Terminals, NEW place,
           pc' = [pc EXCEPT ![t] = place]
    PROVE  /\ place \in {"connect", "send"} /\ MayBegin /\ sent' = sent => Budget'
           /\ place \notin {"connect", "send"} /\ sent' = sent => Budget'
           /\ place \notin {"connect", "send"} /\ t \in Begun /\ sent' = sent + 1 =>
                 Budget' /\ sent' \in 0 .. MaxSent
<1>1. /\ pc \in [Terminals -> PCs] /\ sent \in Nat /\ MaxSent \in Nat
      /\ IsFiniteSet(Begun) /\ Cardinality(Begun) \in Nat
      /\ sent + Cardinality(Begun) <= MaxSent
  BY FS_CardinalityType, Bounds DEF TypeOK, Budget
<1>2. IF place \in {"connect", "send"} THEN Begun' = Begun \cup {t} ELSE Begun' = Begun \ {t}
  BY <1>1 DEF Begun
<1>3. /\ IsFiniteSet(Begun \cup {t}) /\ Cardinality(Begun \cup {t}) <= Cardinality(Begun) + 1
      /\ IsFiniteSet(Begun \ {t}) /\ Cardinality(Begun \ {t}) <= Cardinality(Begun)
      /\ t \in Begun => Cardinality(Begun \ {t}) = Cardinality(Begun) - 1
      /\ Cardinality(Begun \cup {t}) \in Nat /\ Cardinality(Begun \ {t}) \in Nat
  <2>1. /\ IsFiniteSet(Begun \cup {t})
        /\ Cardinality(Begun \cup {t}) = Cardinality(Begun) \/ Cardinality(Begun \cup {t}) = Cardinality(Begun) + 1
    BY <1>1, FS_AddElement
  <2>2. /\ IsFiniteSet(Begun \ {t})
        /\ Cardinality(Begun \ {t}) = IF t \in Begun THEN Cardinality(Begun) - 1 ELSE Cardinality(Begun)
    BY <1>1, FS_RemoveElement
  <2>3. Cardinality(Begun \cup {t}) \in Nat /\ Cardinality(Begun \ {t}) \in Nat
    BY <2>1, <2>2, FS_CardinalityType
  <2> QED
    BY <1>1, <2>1, <2>2, <2>3
<1>4. CASE place \in {"connect", "send"}
  <2>1. Cardinality(Begun') <= Cardinality(Begun) + 1 /\ IsFiniteSet(Begun')
    BY <1>2, <1>3, <1>4
  <2>2. Cardinality(Begun') \in Nat
    BY <1>2, <1>3, <1>4
  <2>3. MayBegin => sent + Cardinality(Begun) < MaxSent
    BY DEF MayBegin, Begun
  <2> QED
    BY <1>1, <1>4, <2>1, <2>2, <2>3 DEF Budget
<1>5. CASE place \notin {"connect", "send"}
  <2>1. /\ Cardinality(Begun') <= Cardinality(Begun) /\ IsFiniteSet(Begun')
        /\ t \in Begun => Cardinality(Begun') = Cardinality(Begun) - 1
        /\ Cardinality(Begun') \in Nat
    BY <1>2, <1>3, <1>5
  <2> QED
    BY <1>1, <1>5, <2>1 DEF Budget
<1> QED
  BY <1>4, <1>5

\* A message is taken out of the queue, or put behind its end.
LEMMA QueueTaken ==
    ASSUME TypeOK, NEW k \in DOMAIN queue, queue' = RemoveAt(queue, k)
    PROVE  /\ queue' \in Seq(Messages) /\ Len(queue') <= Capacity
           /\ DOMAIN queue = 1 .. Len(queue) /\ DOMAIN queue' = 1 .. Len(queue) - 1
           /\ \A i \in DOMAIN queue' : queue'[i] = queue[IF i < k THEN i ELSE i + 1]
           /\ k \in 1 .. Len(queue) /\ Len(queue) \in Nat /\ queue[k] \in Messages
<1>1. queue \in Seq(Messages) /\ Len(queue) \in Nat /\ Len(queue) <= Capacity
      /\ DOMAIN queue = 1 .. Len(queue)
  BY LenProperties DEF TypeOK
<1> DEFINE r == RemoveAt(queue, k)
<1>2. /\ r \in Seq(Messages) /\ Len(r) = Len(queue) - 1
      /\ \A i \in 1 .. Len(queue) - 1 : r[i] = queue[IF i < k THEN i ELSE i + 1]
  BY <1>1, RemoveAtElements
<1>3. queue' = r
  OBVIOUS
<1> HIDE DEF r
<1>4. DOMAIN r = 1 .. Len(queue) - 1
  BY <1>2, LenProperties
<1>5. Len(r) <= Capacity
  BY <1>1, <1>2, Bounds
<1> QED
  BY <1>1, <1>2, <1>3, <1>4, <1>5, ElementOfSeq

LEMMA QueuePut ==
    ASSUME TypeOK, Fits, NEW m \in Messages, queue' = Append(queue, m)
    PROVE  /\ queue' \in Seq(Messages) /\ Len(queue') <= Capacity
           /\ DOMAIN queue = 1 .. Len(queue) /\ DOMAIN queue' = 1 .. Len(queue) + 1
           /\ \A i \in DOMAIN queue : queue'[i] = queue[i]
           /\ queue'[Len(queue) + 1] = m /\ Len(queue) \in Nat
<1>1. queue \in Seq(Messages) /\ Len(queue) \in Nat /\ Len(queue) <= Capacity
      /\ DOMAIN queue = 1 .. Len(queue) /\ Capacity \in Nat /\ Len(queue) < Capacity
  BY LenProperties, Bounds DEF TypeOK, Fits
<1> DEFINE a == Append(queue, m)
<1>2. /\ a \in Seq(Messages) /\ Len(a) = Len(queue) + 1
      /\ DOMAIN a = 1 .. Len(queue) + 1
      /\ \A i \in 1 .. Len(queue) : a[i] = queue[i]
      /\ a[Len(queue) + 1] = m
  BY <1>1, AppendElements
<1>3. queue' = a
  OBVIOUS
<1> HIDE DEF a
<1> QED
  BY <1>1, <1>2, <1>3

LEMMA StartKeeps ==
    ASSUME IInv, NEW t \in Terminals, Start(t)
    PROVE  IInv'
<1>1. PICK i \in Users : id' = [id EXCEPT ![t] = i]
  BY DEF Start, Users
<1>2. /\ pc' = [pc EXCEPT ![t] = "connect"] /\ line' = [line EXCEPT ![t] = "?"]
      /\ eof' = eof \ {t} /\ got' = [got EXCEPT ![t] = <<>>] /\ starts' = starts + 1
      /\ UNCHANGED <<queue, made, server, clients, cur, todo, sent>>
      /\ MayBegin /\ starts < MaxStarts
  BY DEF Start, serverVars
<1>3. TypeOK /\ Budget /\ Identified /\ Table
  BY DEF IInv
<1>4. TypeOK'
  <2>1. /\ pc' \in [Terminals -> PCs] /\ id' \in [Terminals -> Users \cup {0}]
        /\ line' \in [Terminals -> Texts \cup {"?"}] /\ got' \in [Terminals -> Seq(Messages)]
    BY <1>1, <1>2, <1>3, EmptySeq DEF TypeOK, PCs
  <2>2. starts' \in 0 .. MaxStarts
    BY <1>2, <1>3, Bounds DEF TypeOK
  <2> QED
    BY <1>2, <1>3, <2>1, <2>2 DEF TypeOK
<1>5. Budget'
  BY <1>2, <1>3, BudgetMove
<1>6. Identified'
  BY <1>1, <1>2, <1>3 DEF Identified, TypeOK, Running
<1>7. Table'
  BY <1>2, <1>3 DEF Table
<1> QED
  BY <1>4, <1>5, <1>6, <1>7 DEF IInv

\* msgsnd() of a client: its message is one for the server.
LEMMA SendKeeps ==
    ASSUME IInv, NEW t \in Terminals, NEW text \in Texts \cup {"#connect"}, Send(t, text),
           t \in Begun, NEW place \in PCs \ {"connect", "send"},
           pc' = [pc EXCEPT ![t] = place],
           UNCHANGED <<made, serverVars, id, line, eof, got, starts>>,
           Running(t)
    PROVE  IInv'
<1> DEFINE m == [to |-> ServerType, id |-> id[t], text |-> text, n |-> sent + 1]
<1>1. TypeOK /\ Budget /\ Identified /\ Table
  BY DEF IInv
<1>2. id[t] \in Users
  BY <1>1 DEF Identified
<1>3. sent' = sent + 1 /\ Budget' /\ sent' \in 0 .. MaxSent
  BY <1>1, BudgetMove DEF Send
<1>4. m \in Messages
  BY <1>2, <1>3 DEF Messages
<1>5. queue' = Append(queue, m) /\ Fits
  BY DEF Send
<1> HIDE DEF m
<1>6. /\ queue' \in Seq(Messages) /\ Len(queue') <= Capacity
      /\ DOMAIN queue = 1 .. Len(queue) /\ DOMAIN queue' = 1 .. Len(queue) + 1
      /\ \A i \in DOMAIN queue : queue'[i] = queue[i]
      /\ queue'[Len(queue) + 1] = m /\ Len(queue) \in Nat
  BY <1>1, <1>4, <1>5, QueuePut
<1>7. TypeOK'
  BY <1>1, <1>3, <1>6 DEF TypeOK, serverVars
<1>8. Identified'
  <2>1. \A s \in Terminals : Running(s)' => Running(s)
    BY <1>1 DEF Running, TypeOK
  <2>2. \A s \in Terminals : pc'[s] = "send" => pc[s] = "send"
    BY <1>1 DEF TypeOK
  <2>3. \A k \in DOMAIN queue' : queue'[k].to = ServerType => queue'[k].id \in Users
    <3>1. m.id \in Users
      BY <1>2 DEF m
    <3> QED
      BY <1>1, <1>6, <3>1 DEF Identified
  <2> QED
    BY <1>1, <2>1, <2>2, <2>3 DEF Identified
<1>9. Table'
  BY <1>1 DEF Table, serverVars
<1> QED
  BY <1>3, <1>7, <1>8, <1>9 DEF IInv

LEMMA ConnectKeeps ==
    ASSUME IInv, NEW t \in Terminals, Connect(t)
    PROVE  IInv'
BY SendKeeps DEF Connect, Begun, Running, PCs

LEMMA SendLineKeeps ==
    ASSUME IInv, NEW t \in Terminals, SendLine(t)
    PROVE  IInv'
<1>1. line[t] \in Texts
  BY DEF SendLine, IInv, Identified
<1>2. PICK place \in PCs \ {"connect", "send"} : pc' = [pc EXCEPT ![t] = place]
  <2>1. pc' = [pc EXCEPT ![t] = IF line[t] = "shutdown" THEN "done" ELSE "drain"]
    BY DEF SendLine
  <2>2. (IF line[t] = "shutdown" THEN "done" ELSE "drain") \in PCs \ {"connect", "send"}
    BY DEF PCs
  <2> QED
    BY <2>1, <2>2
<1> QED
  BY <1>1, <1>2, SendKeeps DEF SendLine, Begun, Running

\* A step of a client that leaves the queue and what is received alone.
LEMMA ClientMoveKeeps ==
    ASSUME IInv, NEW t \in Terminals, NEW place \in PCs, pc' = [pc EXCEPT ![t] = place],
           UNCHANGED <<queue, made, serverVars, id, got, sent, starts>>,
           eof' \subseteq Terminals,
           NEW l \in Texts \cup {"?"}, line' = [line EXCEPT ![t] = l],
           place \notin {"off", "done"} => Running(t),
           place = "send" => l \in Texts,
           place \in {"connect", "send"} => MayBegin
    PROVE  IInv'
<1>1. TypeOK /\ Budget /\ Identified /\ Table
  BY DEF IInv
<1>2. Budget'
  <2>1. CASE place \in {"connect", "send"}
    BY <1>1, <2>1, BudgetMove
  <2>2. CASE place \notin {"connect", "send"}
    BY <1>1, <2>2, BudgetMove
  <2> QED
    BY <2>1, <2>2
<1>3. TypeOK'
  <2>1. pc' \in [Terminals -> PCs] /\ line' \in [Terminals -> Texts \cup {"?"}]
    BY <1>1 DEF TypeOK
  <2> QED
    BY <1>1, <2>1 DEF TypeOK, serverVars
<1>4. Identified'
  <2>1. \A s \in Terminals : Running(s)' => Running(s)
    BY <1>1 DEF Running, TypeOK
  <2>2. \A s \in Terminals : pc'[s] = "send" => line'[s] \in Texts
    BY <1>1 DEF TypeOK, Identified
  <2> QED
    BY <1>1, <2>1, <2>2 DEF Identified
<1>5. Table'
  BY <1>1 DEF Table, serverVars
<1> QED
  BY <1>2, <1>3, <1>4, <1>5 DEF IInv

LEMMA ReadLineKeeps ==
    ASSUME IInv, NEW t \in Terminals, ReadLine(t)
    PROVE  IInv'
<1>1. PICK l \in IF t \in eof /\ line[t] # "?" THEN {line[t]} ELSE Texts :
         /\ l = "" \/ MayBegin
         /\ line' = [line EXCEPT ![t] = l]
         /\ pc' = [pc EXCEPT ![t] = IF l = "" THEN "drain" ELSE "send"]
  BY DEF ReadLine
<1>2. line[t] \in Texts \cup {"?"} /\ eof \subseteq Terminals
  BY DEF IInv, TypeOK
<1>3. l \in Texts
  BY <1>1, <1>2
<1>4. Running(t) /\ UNCHANGED <<queue, made, serverVars, id, eof, got, sent, starts>>
  BY DEF ReadLine, Running
<1> DEFINE place == IF l = "" THEN "drain" ELSE "send"
<1>5. place \in PCs /\ (place \in {"connect", "send"} => MayBegin)
  BY <1>1 DEF PCs
<1> HIDE DEF place
<1>6. pc' = [pc EXCEPT ![t] = place]
  BY <1>1 DEF place
<1> QED
  BY <1>1, <1>2, <1>3, <1>4, <1>5, <1>6, ClientMoveKeeps

LEMMA ClientEndKeeps ==
    ASSUME IInv, NEW t \in Terminals, EndOfInput(t) \/ ClientDies(t)
    PROVE  IInv'
<1>1. /\ pc \in [Terminals -> PCs] /\ line \in [Terminals -> Texts \cup {"?"}]
      /\ eof \subseteq Terminals
  BY DEF IInv, TypeOK
<1>2. CASE ClientDies(t)
  <2>1. /\ pc' = [pc EXCEPT ![t] = "done"] /\ line' = [line EXCEPT ![t] = line[t]]
        /\ eof' \subseteq Terminals /\ UNCHANGED <<queue, made, serverVars, id, got, sent, starts>>
    BY <1>1, <1>2 DEF ClientDies
  <2>2. "done" \in PCs /\ line[t] \in Texts \cup {"?"}
    BY <1>1 DEF PCs
  <2> QED
    BY <2>1, <2>2, ClientMoveKeeps
<1>3. CASE EndOfInput(t)
  <2>1. UNCHANGED <<queue, made, server, clients, cur, todo, pc, id, line, got, sent, starts>>
        /\ eof' \subseteq Terminals
    BY <1>1, <1>3 DEF EndOfInput, serverVars
  <2> QED
    BY <2>1 DEF IInv, TypeOK, Budget, Begun, Identified, Running, Table
<1> QED
  BY <1>2, <1>3

\* A step of the server that leaves the clients alone.
LEMMA ServerMoveKeeps ==
    ASSUME IInv, UNCHANGED <<clientVars, sent>>,
           queue' \in Seq(Messages), Len(queue') <= Capacity,
           \A k \in DOMAIN queue' : queue'[k].to = ServerType => queue'[k].id \in Users,
           made' \in BOOLEAN, server' \in {"off", "on"}, starts' \in 0 .. MaxStarts,
           clients' \in Seq(Users), IsInjective(clients'),
           todo' \in Seq(Users), IsInjective(todo'), cur' \in Messages
    PROVE  IInv'
<1>1. TypeOK /\ Budget /\ Identified /\ Table
  BY DEF IInv
<1>2. UNCHANGED <<pc, id, line, eof, got, sent>>
  BY DEF clientVars
<1>3. TypeOK'
  BY <1>1, <1>2 DEF TypeOK
<1>4. Budget'
  BY <1>1, <1>2 DEF Budget, Begun
<1>5. Identified' /\ Table'
  BY <1>1, <1>2 DEF Identified, Running, Table
<1> QED
  BY <1>3, <1>4, <1>5 DEF IInv

LEMMA EmptyTable == <<>> \in Seq(Users) /\ IsInjective(<<>>) /\ Range(<<>>) = {}
BY DEF IsInjective, Range

LEMMA ServerStartKeeps ==
    ASSUME IInv, ServerStart \/ ServerDies
    PROVE  IInv'
<1>1. TypeOK /\ Identified /\ Table
  BY DEF IInv
<1>2. /\ UNCHANGED <<queue, cur, clientVars, sent>> /\ clients' = <<>> /\ todo' = <<>>
      /\ made' \in BOOLEAN /\ server' \in {"off", "on"} /\ starts' \in 0 .. MaxStarts
  <2>1. CASE ServerStart
    BY <1>1, <2>1, Bounds DEF ServerStart, TypeOK
  <2>2. CASE ServerDies
    BY <1>1, <2>2, Bounds DEF ServerDies, TypeOK
  <2> QED
    BY <2>1, <2>2
<1> QED
  BY <1>1, <1>2, EmptyTable, ServerMoveKeeps DEF TypeOK, Identified

\* What the server receives is a message for it, the first there is.
LEMMA ServerTakes ==
    ASSUME IInv, ServerReceive
    PROVE  \E k \in DOMAIN queue :
              /\ queue[k].to = ServerType /\ queue[k].id \in Users /\ queue[k] \in Messages
              /\ \A j \in 1 .. k - 1 : queue[j].to # ServerType
              /\ queue' = RemoveAt(queue, k) /\ cur' = queue[k]
              /\ clients' \in {Joined(queue[k].id), Left(Joined(queue[k].id), queue[k].id)}
              /\ todo' \in {<<>>, Joined(queue[k].id)}
              /\ UNCHANGED <<made, server, clientVars, sent, starts>>
<1>1. PICK k \in Taken(ServerType) :
         /\ queue' = RemoveAt(queue, k) /\ cur' = queue[k]
         /\ clients' \in {Joined(queue[k].id), Left(Joined(queue[k].id), queue[k].id)}
         /\ todo' \in {<<>>, Joined(queue[k].id)}
         /\ UNCHANGED <<made, server, clientVars, sent, starts>>
  BY DEF ServerReceive
<1>2. /\ k \in DOMAIN queue /\ queue[k].to = ServerType
      /\ \A j \in 1 .. k - 1 : queue[j].to # ServerType
  BY <1>1 DEF Taken, Matches, ServerType
<1>3. queue[k].id \in Users /\ queue[k] \in Messages
  BY <1>2, ElementOfSeq, LenProperties DEF IInv, TypeOK, Identified
<1> QED
  BY <1>1, <1>2, <1>3

LEMMA ServerReceiveKeeps ==
    ASSUME IInv, ServerReceive
    PROVE  IInv'
<1>1. TypeOK /\ Identified /\ Table
  BY DEF IInv
<1>2. PICK k \in DOMAIN queue :
         /\ queue[k].id \in Users /\ queue[k] \in Messages
         /\ queue' = RemoveAt(queue, k) /\ cur' = queue[k]
         /\ clients' \in {Joined(queue[k].id), Left(Joined(queue[k].id), queue[k].id)}
         /\ todo' \in {<<>>, Joined(queue[k].id)}
         /\ UNCHANGED <<made, server, clientVars, sent, starts>>
  BY ServerTakes
<1>3. /\ Joined(queue[k].id) \in Seq(Users) /\ IsInjective(Joined(queue[k].id))
      /\ queue[k].id \in Range(Joined(queue[k].id))
  BY <1>1, <1>2, JoinedTable DEF TypeOK, Table
<1>4. /\ Left(Joined(queue[k].id), queue[k].id) \in Seq(Users)
      /\ IsInjective(Left(Joined(queue[k].id), queue[k].id))
  BY <1>3, LeftTable
<1>5. /\ clients' \in Seq(Users) /\ IsInjective(clients')
      /\ todo' \in Seq(Users) /\ IsInjective(todo')
  BY <1>2, <1>3, <1>4, EmptyTable
<1>6. /\ queue' \in Seq(Messages) /\ Len(queue') <= Capacity
      /\ \A i \in DOMAIN queue' : queue'[i].to = ServerType => queue'[i].id \in Users
  <2>1. /\ queue' \in Seq(Messages) /\ Len(queue') <= Capacity
        /\ DOMAIN queue = 1 .. Len(queue) /\ DOMAIN queue' = 1 .. Len(queue) - 1
        /\ \A i \in DOMAIN queue' : queue'[i] = queue[IF i < k THEN i ELSE i + 1]
        /\ k \in 1 .. Len(queue) /\ Len(queue) \in Nat
    BY <1>1, <1>2, QueueTaken
  <2> QED
    BY <1>1, <2>1 DEF Identified
<1> QED
  BY <1>1, <1>2, <1>5, <1>6, ServerMoveKeeps DEF TypeOK

\* One turn of the loop: a client of the table gets the message, or nobody does.
LEMMA ServerPuts ==
    ASSUME IInv, ServerSend
    PROVE  /\ UNCHANGED <<made, server, clients, cur, clientVars, sent, starts>>
           /\ todo' \in Seq(Users) /\ IsInjective(todo')
           /\ Range(todo') \subseteq Range(todo) \ {Head(todo)}
           /\ Head(todo) \in Users /\ Head(todo) \in Range(todo)
           /\ \/ UNCHANGED queue
              \/ /\ Head(todo) # cur.id /\ Fits
                 /\ queue' = Append(queue, [cur EXCEPT !.to = Head(todo)])
                 /\ [cur EXCEPT !.to = Head(todo)] \in Messages
<1>1. todo \in Seq(Users) /\ IsInjective(todo) /\ todo # <<>> /\ todo' = Tail(todo)
  BY DEF IInv, TypeOK, Table, ServerSend, Rest
<1>2. /\ Head(todo) \in Users /\ Head(todo) \in Range(todo)
      /\ todo' \in Seq(Users) /\ IsInjective(todo')
      /\ Range(todo') \subseteq Range(todo) \ {Head(todo)}
  BY <1>1, TailElements
<1>3. cur \in Messages
  BY DEF IInv, TypeOK
<1>4. [cur EXCEPT !.to = Head(todo)] \in Messages
  BY <1>2, <1>3 DEF Messages
<1> QED
  BY <1>1, <1>2, <1>4 DEF ServerSend, Passes

LEMMA ServerSendKeeps ==
    ASSUME IInv, ServerSend
    PROVE  IInv'
<1>1. TypeOK /\ Identified /\ Table
  BY DEF IInv
<1>2. CASE UNCHANGED queue
  BY <1>1, <1>2, ServerPuts, ServerMoveKeeps DEF TypeOK, Identified, Table
<1> DEFINE m == [cur EXCEPT !.to = Head(todo)]
<1>3. CASE Fits /\ queue' = Append(queue, m) /\ m \in Messages /\ Head(todo) \in Users
  <2>1. m.to = Head(todo) /\ m.to # ServerType
    <3>1. Head(todo) # ServerType
      BY <1>3 DEF Users, Allowed
    <3>2. cur \in Messages
      BY <1>1 DEF TypeOK
    <3> QED
      BY <3>1, <3>2 DEF Messages
  <2> HIDE DEF m
  <2>2. /\ queue' \in Seq(Messages) /\ Len(queue') <= Capacity
        /\ DOMAIN queue = 1 .. Len(queue) /\ DOMAIN queue' = 1 .. Len(queue) + 1
        /\ \A i \in DOMAIN queue : queue'[i] = queue[i]
        /\ queue'[Len(queue) + 1] = m /\ Len(queue) \in Nat
    BY <1>1, <1>3, QueuePut
  <2>3. \A k \in DOMAIN queue' : queue'[k].to = ServerType => queue'[k].id \in Users
    BY <1>1, <2>1, <2>2 DEF Identified
  <2> QED
    BY <1>1, <2>2, <2>3, ServerPuts, ServerMoveKeeps DEF TypeOK, Table
<1> QED
  BY <1>2, <1>3, ServerPuts

\* msgrcv() of a client.
LEMMA DrainKeeps ==
    ASSUME IInv, NEW t \in Terminals, Drain(t)
    PROVE  IInv'
<1>1. TypeOK /\ Budget /\ Identified /\ Table
  BY DEF IInv
<1>2. UNCHANGED <<made, server, clients, cur, todo, id, line, eof, sent, starts>>
  BY DEF Drain, serverVars
<1>3. CASE pc' = [pc EXCEPT ![t] = "prompt"] /\ UNCHANGED queue /\ UNCHANGED got
  <2>1. /\ line' = [line EXCEPT ![t] = line[t]] /\ line[t] \in Texts \cup {"?"}
        /\ eof' \subseteq Terminals /\ "prompt" \in PCs
        /\ Running(t)
    BY <1>1, <1>2 DEF TypeOK, PCs, Drain, Running
  <2> QED
    <3>1. PICK place \in PCs : place = "prompt"
      BY <2>1, Zenon
    <3>2. PICK l \in Texts \cup {"?"} : l = line[t]
      BY <2>1, Zenon
    <3>3. pc' = [pc EXCEPT ![t] = place] /\ line' = [line EXCEPT ![t] = l]
      BY <1>3, <2>1, <3>1, <3>2, Zenon
    <3>4. UNCHANGED <<queue, made, serverVars, id, got, sent, starts>>
      BY <1>2, <1>3, Zenon DEF serverVars
    <3>5. place # "send" /\ place \notin {"connect", "send"}
      BY <3>1
    <3> QED
      BY <2>1, <3>3, <3>4, <3>5, ClientMoveKeeps, Zenon
<1>4. ASSUME NEW k \in Taken(id[t]),
             got' = [got EXCEPT ![t] = Append(@, queue[k])],
             queue' = RemoveAt(queue, k), UNCHANGED pc
      PROVE  IInv'
  <2>1. k \in DOMAIN queue
    BY DEF Taken
  <2>2. /\ queue' \in Seq(Messages) /\ Len(queue') <= Capacity
        /\ DOMAIN queue = 1 .. Len(queue) /\ DOMAIN queue' = 1 .. Len(queue) - 1
        /\ \A i \in DOMAIN queue' : queue'[i] = queue[IF i < k THEN i ELSE i + 1]
        /\ k \in 1 .. Len(queue) /\ Len(queue) \in Nat /\ queue[k] \in Messages
    BY <1>1, <1>4, <2>1, QueueTaken
  <2>3. got' \in [Terminals -> Seq(Messages)]
    <3>1. got[t] \in Seq(Messages) /\ got \in [Terminals -> Seq(Messages)]
      BY <1>1 DEF TypeOK
    <3>2. Append(got[t], queue[k]) \in Seq(Messages)
      BY <2>2, <3>1, AppendElements
    <3> QED
      BY <1>4, <3>1, <3>2
  <2>4. TypeOK'
    BY <1>1, <1>2, <1>4, <2>2, <2>3 DEF TypeOK
  <2>5. Budget' /\ Table'
    BY <1>1, <1>2, <1>4 DEF Budget, Begun, Table
  <2>6. Identified'
    BY <1>1, <1>2, <1>4, <2>2 DEF Identified, Running
  <2> QED
    BY <2>4, <2>5, <2>6 DEF IInv
<1> QED
  BY <1>3, <1>4 DEF Drain

LEMMA InvariantKept == IInv /\ [Next]_vars => IInv'
<1> SUFFICES ASSUME IInv, [Next]_vars PROVE IInv'
  OBVIOUS
<1>1. CASE UNCHANGED vars
  BY <1>1 DEF vars, IInv, TypeOK, Budget, Begun, Identified, Running, Table
<1>2. CASE ServerStart \/ ServerStep \/ ServerDies
  BY <1>2, ServerStartKeeps, ServerReceiveKeeps, ServerSendKeeps DEF ServerStep
<1>3. CASE \E t \in Terminals :
              Start(t) \/ ClientStep(t) \/ ReadLine(t) \/ EndOfInput(t) \/ ClientDies(t)
  BY <1>3, StartKeeps, ConnectKeeps, SendLineKeeps, DrainKeeps, ReadLineKeeps, ClientEndKeeps
     DEF ClientStep
<1> QED
  BY <1>1, <1>2, <1>3 DEF Next

LEMMA Initially == Init => IInv /\ Numbered /\ Received
<1> SUFFICES ASSUME Init PROVE IInv /\ Numbered /\ Received
  OBVIOUS
<1>1. /\ queue = <<>> /\ clients = <<>> /\ todo = <<>> /\ sent = 0 /\ cur = NoMessage
      /\ DOMAIN queue = {} /\ Len(queue) = 0
      /\ \A t \in Terminals : pc[t] = "off" /\ got[t] = <<>> /\ DOMAIN got[t] = {}
  BY DEF Init
<1>2. NoMessage \in Messages /\ NoMessage.n = 0
  <2>1. "" \in Texts
    BY ChatAssumption
  <2>2. 0 \in 0 .. MaxSent
    BY Bounds
  <2> QED
    BY <2>1, <2>2, Zenon DEF NoMessage, Messages
<1>3. TypeOK
  <2>1. /\ queue \in Seq(Messages) /\ Len(queue) <= Capacity
        /\ clients \in Seq(Users) /\ todo \in Seq(Users) /\ cur \in Messages
    BY <1>1, <1>2, Bounds, EmptyTable, EmptySeq
  <2>2. /\ pc \in [Terminals -> PCs] /\ id \in [Terminals -> Users \cup {0}]
        /\ line \in [Terminals -> Texts \cup {"?"}]
    BY DEF Init, PCs
  <2>3. got \in [Terminals -> Seq(Messages)]
    BY EmptySeq DEF Init
  <2>4. made \in BOOLEAN /\ server \in {"off", "on"} /\ eof \subseteq Terminals
        /\ sent \in 0 .. MaxSent /\ starts \in 0 .. MaxStarts
    <3>1. 0 \in 0 .. MaxSent /\ 0 \in 0 .. MaxStarts
      BY Bounds
    <3>2. /\ made = FALSE /\ server = "off" /\ eof = {} /\ sent = 0 /\ starts = 0
      BY DEF Init
    <3> QED
      BY <3>1, <3>2
  <2> QED
    BY <2>1, <2>2, <2>3, <2>4 DEF TypeOK
<1>4. Budget
  <2>1. Begun = {}
    BY <1>1 DEF Begun
  <2> QED
    BY <1>1, <2>1, FS_EmptySet, Bounds DEF Budget
<1>5. Identified /\ Table
  BY <1>1, EmptyTable DEF Identified, Table, Running
<1>6. Numbered /\ Received
  BY <1>1, <1>2 DEF Numbered, Received
<1> QED
  BY <1>3, <1>4, <1>5, <1>6 DEF IInv

-----------------------------------------------------------------------------
(* The order of the messages.                                                *)

LEMMA OrderStays ==
    ASSUME Numbered, Received, UNCHANGED <<queue, cur, sent>>,
           Range(todo') \subseteq Range(todo),
           \A t \in Terminals : (got'[t] = got[t] /\ id'[t] = id[t]) \/ got'[t] = <<>>
    PROVE  Numbered' /\ Received'
<1>1. Numbered'
  BY DEF Numbered
<1>2. ASSUME NEW t \in Terminals, NEW k \in DOMAIN got'[t]
      PROVE  /\ got'[t][k].id # id'[t] /\ got'[t][k].n <= cur'.n
             /\ \A j \in 1 .. k - 1 : got'[t][j].n < got'[t][k].n
             /\ \A i \in DOMAIN queue' : queue'[i].to = id'[t] => got'[t][k].n < queue'[i].n
             /\ id'[t] \in Range(todo') => got'[t][k].n < cur'.n
  <2>1. got'[t] = got[t] /\ id'[t] = id[t]
    BY <1>2
  <2> QED
    BY <1>2, <2>1 DEF Received
<1> QED
  BY <1>1, <1>2 DEF Received

\* The numbers are numbers.
LEMMA NumberTypes ==
    ASSUME TypeOK
    PROVE  /\ cur.n \in Nat /\ sent \in Nat /\ Len(queue) \in Nat /\ DOMAIN queue = 1 .. Len(queue)
           /\ \A k \in DOMAIN queue : queue[k].n \in Nat
           /\ \A t \in Terminals : /\ DOMAIN got[t] = 1 .. Len(got[t]) /\ Len(got[t]) \in Nat
                                   /\ \A k \in DOMAIN got[t] : got[t][k].n \in Nat
<1>1. \A m \in Messages : m.n \in Nat
  BY Bounds DEF Messages
<1>2. queue \in Seq(Messages) /\ got \in [Terminals -> Seq(Messages)] /\ cur \in Messages
      /\ sent \in Nat
  BY DEF TypeOK
<1>3. /\ Len(queue) \in Nat /\ DOMAIN queue = 1 .. Len(queue)
      /\ \A k \in DOMAIN queue : queue[k].n \in Nat
  BY <1>1, <1>2, LenProperties, ElementOfSeq
<1>4. ASSUME NEW t \in Terminals
      PROVE  /\ DOMAIN got[t] = 1 .. Len(got[t]) /\ Len(got[t]) \in Nat
             /\ \A k \in DOMAIN got[t] : got[t][k].n \in Nat
  <2>1. got[t] \in Seq(Messages)
    BY <1>2
  <2> QED
    BY <1>1, <2>1, LenProperties, ElementOfSeq
<1> QED
  BY <1>1, <1>2, <1>3, <1>4

\* A client sends: its message has the highest number there is.
LEMMA SendOrder ==
    ASSUME IInv, Numbered, Received, NEW t \in Terminals, Connect(t) \/ SendLine(t), IInv'
    PROVE  Numbered' /\ Received'
<1>1. PICK m \in Messages : /\ m.to = ServerType /\ m.n = sent + 1
                            /\ queue' = Append(queue, m) /\ Fits
  <2>1. PICK text \in Texts \cup {"#connect"} : Send(t, text)
    BY DEF Connect, SendLine, IInv, Identified
  <2> DEFINE m == [to |-> ServerType, id |-> id[t], text |-> text, n |-> sent + 1]
  <2>2. queue' = Append(queue, m) /\ Fits /\ m.to = ServerType /\ m.n = sent + 1
    BY <2>1 DEF Send
  <2>3. id[t] \in Users
    BY DEF IInv, Identified, Running, Connect, SendLine
  <2>4. sent + 1 \in 0 .. MaxSent
    BY <2>1 DEF IInv, TypeOK, Send
  <2>5. m \in Messages
    BY <2>3, <2>4 DEF Messages
  <2> QED
    BY <2>2, <2>5
<1>2. /\ DOMAIN queue = 1 .. Len(queue) /\ DOMAIN queue' = 1 .. Len(queue) + 1
      /\ \A i \in DOMAIN queue : queue'[i] = queue[i]
      /\ queue'[Len(queue) + 1] = m /\ Len(queue) \in Nat
  BY <1>1, QueuePut DEF IInv
<1>3. sent' = sent + 1 /\ UNCHANGED <<cur, todo, id, got>>
  BY DEF Connect, SendLine, Send, serverVars
<1>4. /\ cur.n \in Nat /\ sent \in Nat /\ cur.n <= sent
      /\ \A k \in DOMAIN queue : queue[k].n \in Nat
      /\ \A k \in DOMAIN queue : queue[k].to = ServerType => queue[k].n <= sent
  BY NumberTypes DEF IInv, Numbered
<1>5. Numbered'
  <2>1. ASSUME NEW j \in DOMAIN queue', NEW k \in DOMAIN queue', j < k,
               queue'[j].to = queue'[k].to
        PROVE  queue'[j].n < queue'[k].n
    <3>1. CASE k \in DOMAIN queue
      BY <1>2, <2>1, <3>1 DEF Numbered
    <3>2. CASE k = Len(queue) + 1
      BY <1>1, <1>2, <1>4, <2>1, <3>2
    <3> QED
      BY <1>2, <3>1, <3>2
  <2>2. ASSUME NEW k \in DOMAIN queue'
        PROVE  IF queue'[k].to = ServerType THEN cur.n < queue'[k].n /\ queue'[k].n <= sent'
               ELSE /\ queue'[k].id # queue'[k].to /\ queue'[k].n <= cur.n
                    /\ queue'[k].to \in Range(todo) => queue'[k].n < cur.n
    <3>1. CASE k \in DOMAIN queue
      BY <1>2, <1>3, <1>4, <3>1 DEF Numbered
    <3>2. CASE k = Len(queue) + 1
      BY <1>1, <1>2, <1>3, <1>4, <3>2
    <3> QED
      BY <1>2, <3>1, <3>2
  <2>3. cur'.n <= sent'
    BY <1>3, <1>4
  <2> QED
    BY <1>3, <2>1, <2>2, <2>3 DEF Numbered
<1>6. Received'
  <2>1. ASSUME NEW s \in Terminals, NEW k \in DOMAIN got[s], NEW i \in DOMAIN queue',
               queue'[i].to = id[s]
        PROVE  got[s][k].n < queue'[i].n
    <3>1. CASE i \in DOMAIN queue
      BY <1>2, <2>1, <3>1 DEF Received
    <3>2. CASE i = Len(queue) + 1
      <4>1. got[s][k].n <= cur.n /\ got[s][k].n \in Nat
        BY NumberTypes DEF Received, IInv
      <4> QED
        BY <1>1, <1>2, <1>4, <3>2, <4>1
    <3> QED
      BY <1>2, <3>1, <3>2
  <2> QED
    BY <1>3, <2>1 DEF Received
<1> QED
  BY <1>5, <1>6

\* The server receives: the first message for it has a higher number than all it has sent.
LEMMA ReceiveOrder ==
    ASSUME IInv, Numbered, Received, ServerReceive
    PROVE  Numbered' /\ Received'
<1>1. PICK k \in DOMAIN queue :
         /\ queue[k].to = ServerType /\ queue[k].id \in Users
         /\ \A j \in 1 .. k - 1 : queue[j].to # ServerType
         /\ queue' = RemoveAt(queue, k) /\ cur' = queue[k]
         /\ UNCHANGED <<clientVars, sent>>
  BY ServerTakes
<1>2. /\ DOMAIN queue = 1 .. Len(queue) /\ DOMAIN queue' = 1 .. Len(queue) - 1
      /\ \A i \in DOMAIN queue' : queue'[i] = queue[IF i < k THEN i ELSE i + 1]
      /\ k \in 1 .. Len(queue) /\ Len(queue) \in Nat
  BY <1>1, QueueTaken DEF IInv
<1>3. /\ cur.n \in Nat /\ sent \in Nat /\ \A i \in DOMAIN queue : queue[i].n \in Nat
      /\ UNCHANGED <<id, got, sent>>
  BY <1>1, NumberTypes DEF IInv, clientVars
<1>4. cur.n < queue[k].n /\ queue[k].n <= sent
  BY <1>1 DEF Numbered
<1>5. Numbered'
  <2> DEFINE at(i) == IF i < k THEN i ELSE i + 1
  <2>1. \A i \in DOMAIN queue' : at(i) \in DOMAIN queue /\ at(i) # k /\ queue'[i] = queue[at(i)]
    BY <1>2
  <2>2. \A i, j \in DOMAIN queue' : i < j => at(i) < at(j)
    BY <1>2
  <2>3. \A i \in DOMAIN queue' : queue[at(i)].to = ServerType => k < at(i)
    BY <1>1, <1>2, <2>1
  <2> HIDE DEF at
  <2>4. ASSUME NEW j \in DOMAIN queue', NEW i \in DOMAIN queue', j < i,
               queue'[j].to = queue'[i].to
        PROVE  queue'[j].n < queue'[i].n
    BY <2>1, <2>2, <2>4 DEF Numbered
  <2>5. ASSUME NEW i \in DOMAIN queue'
        PROVE  IF queue'[i].to = ServerType THEN cur'.n < queue'[i].n /\ queue'[i].n <= sent
               ELSE queue'[i].id # queue'[i].to /\ queue'[i].n < cur'.n
    <3>1. CASE queue'[i].to = ServerType
      <4>1. queue[k].n < queue[at(i)].n
        BY <1>1, <2>1, <2>3, <3>1 DEF Numbered
      <4> QED
        BY <1>1, <2>1, <3>1, <4>1 DEF Numbered
    <3>2. CASE queue'[i].to # ServerType
      <4>1. queue[at(i)].id # queue[at(i)].to /\ queue[at(i)].n <= cur.n
        BY <2>1, <3>2 DEF Numbered
      <4> QED
        BY <1>1, <1>3, <1>4, <2>1, <3>2, <4>1
    <3> QED
      BY <3>1, <3>2
  <2>6. \A i \in DOMAIN queue' : queue'[i].n \in Nat
    BY <1>3, <2>1
  <2>7. cur'.n \in Nat /\ cur'.n <= sent'
    BY <1>1, <1>3, <1>4
  <2> QED
    BY <1>3, <2>4, <2>5, <2>6, <2>7 DEF Numbered
<1>6. Received'
  <2>1. ASSUME NEW t \in Terminals, NEW j \in DOMAIN got[t]
        PROVE  /\ got[t][j].n < cur'.n
               /\ \A i \in DOMAIN queue' : queue'[i].to = id[t] => got[t][j].n < queue'[i].n
    <3>1. got[t][j].n \in Nat /\ got[t][j].n <= cur.n
      BY NumberTypes DEF IInv, Received
    <3>2. \A i \in DOMAIN queue' : \E h \in DOMAIN queue : queue'[i] = queue[h]
      BY <1>2
    <3> QED
      BY <1>1, <1>3, <1>4, <3>1, <3>2 DEF Received
  <2>2. \A t \in Terminals : \A j \in DOMAIN got[t] : got[t][j].n \in Nat
    BY NumberTypes DEF IInv
  <2>3. cur'.n \in Nat
    BY <1>1, <1>3
  <2> QED
    BY <1>3, <2>1, <2>2, <2>3 DEF Received
<1> QED
  BY <1>5, <1>6

\* The server sends it on: each client of the table gets it once, after what it has got.
LEMMA PutOrder ==
    ASSUME IInv, Numbered, Received, ServerSend
    PROVE  Numbered' /\ Received'
<1>1. /\ UNCHANGED <<cur, id, got, sent>> /\ Head(todo) \in Users /\ Head(todo) \in Range(todo)
      /\ Range(todo') \subseteq Range(todo) \ {Head(todo)}
  BY ServerPuts DEF clientVars
<1>2. CASE UNCHANGED queue
  BY <1>1, <1>2, OrderStays
<1> DEFINE m == [cur EXCEPT !.to = Head(todo)]
<1>3. CASE Head(todo) # cur.id /\ Fits /\ queue' = Append(queue, m) /\ m \in Messages
  <2>1. m.to = Head(todo) /\ m.to # ServerType /\ m.n = cur.n /\ m.id # m.to
    <3>1. Head(todo) # ServerType
      BY <1>1 DEF Users, Allowed
    <3>2. cur \in Messages
      BY DEF IInv, TypeOK
    <3> QED
      BY <1>3, <3>1, <3>2 DEF Messages
  <2> HIDE DEF m
  <2>2. /\ DOMAIN queue = 1 .. Len(queue) /\ DOMAIN queue' = 1 .. Len(queue) + 1
        /\ \A i \in DOMAIN queue : queue'[i] = queue[i]
        /\ queue'[Len(queue) + 1] = m /\ Len(queue) \in Nat
    BY <1>3, QueuePut DEF IInv
  <2>3. cur.n \in Nat /\ \A k \in DOMAIN queue : queue[k].n \in Nat
    BY NumberTypes DEF IInv
  <2>4. \A k \in DOMAIN queue : queue[k].to = m.to => queue[k].n < m.n
    BY <1>1, <2>1 DEF Numbered
  <2>5. Numbered'
    <3>1. ASSUME NEW j \in DOMAIN queue', NEW k \in DOMAIN queue', j < k,
                 queue'[j].to = queue'[k].to
          PROVE  queue'[j].n < queue'[k].n
      <4>1. CASE k \in DOMAIN queue
        BY <2>2, <3>1, <4>1 DEF Numbered
      <4>2. CASE k = Len(queue) + 1
        BY <2>2, <2>4, <3>1, <4>2
      <4> QED
        BY <2>2, <4>1, <4>2
    <3>2. ASSUME NEW k \in DOMAIN queue'
          PROVE  IF queue'[k].to = ServerType THEN cur.n < queue'[k].n /\ queue'[k].n <= sent
                 ELSE /\ queue'[k].id # queue'[k].to /\ queue'[k].n <= cur.n
                      /\ queue'[k].to \in Range(todo') => queue'[k].n < cur.n
      <4>1. CASE k \in DOMAIN queue
        BY <1>1, <2>2, <4>1 DEF Numbered
      <4>2. CASE k = Len(queue) + 1
        BY <1>1, <2>1, <2>2, <2>3, <4>2
      <4> QED
        BY <2>2, <4>1, <4>2
    <3> QED
      BY <1>1, <3>1, <3>2 DEF Numbered
  <2>6. Received'
    <3>1. ASSUME NEW t \in Terminals, NEW k \in DOMAIN got[t], NEW i \in DOMAIN queue',
                 queue'[i].to = id[t]
          PROVE  got[t][k].n < queue'[i].n
      <4>1. CASE i \in DOMAIN queue
        BY <2>2, <3>1, <4>1 DEF Received
      <4>2. CASE i = Len(queue) + 1
        BY <1>1, <2>1, <2>2, <3>1, <4>2 DEF Received
      <4> QED
        BY <2>2, <4>1, <4>2
    <3> QED
      BY <1>1, <3>1 DEF Received
  <2> QED
    BY <2>5, <2>6
<1> QED
  BY <1>2, <1>3, ServerPuts

\* A client receives the first message for it.
LEMMA DrainOrder ==
    ASSUME PositiveIds, IInv, Numbered, Received, NEW t \in Terminals, Drain(t)
    PROVE  Numbered' /\ Received'
<1>1. UNCHANGED <<cur, todo, id, sent>>
  BY DEF Drain, serverVars
<1>2. CASE UNCHANGED queue /\ UNCHANGED got
  BY <1>1, <1>2, OrderStays
<1>3. ASSUME NEW k \in Taken(id[t]),
             got' = [got EXCEPT ![t] = Append(@, queue[k])], queue' = RemoveAt(queue, k)
      PROVE  Numbered' /\ Received'
  <2>1. id[t] \in Users /\ id[t] > 0 /\ id[t] # ServerType
    BY DEF Drain, Running, IInv, Identified, PositiveIds, Users, Allowed
  <2>2. /\ k \in DOMAIN queue /\ queue[k].to = id[t]
        /\ \A j \in 1 .. k - 1 : queue[j].to # id[t]
    <3>1. id[t] \in Int
      BY <2>1, ChatAssumption DEF Users
    <3>2. ~(id[t] = 0) /\ ~(id[t] < 0)
      BY <2>1, <3>1
    <3>3. \A j \in DOMAIN queue : Matches(j, id[t]) <=> queue[j].to = id[t]
      BY <2>1, <3>2 DEF Matches
    <3>4. DOMAIN queue = 1 .. Len(queue) /\ Len(queue) \in Nat
      BY NumberTypes DEF IInv
    <3> QED
      BY <1>3, <3>3, <3>4 DEF Taken
  <2>3. /\ DOMAIN queue = 1 .. Len(queue) /\ DOMAIN queue' = 1 .. Len(queue) - 1
        /\ \A i \in DOMAIN queue' : queue'[i] = queue[IF i < k THEN i ELSE i + 1]
        /\ k \in 1 .. Len(queue) /\ Len(queue) \in Nat /\ queue[k] \in Messages
    BY <1>3, <2>2, QueueTaken DEF IInv
  <2> DEFINE at(i) == IF i < k THEN i ELSE i + 1
  <2>4. \A i \in DOMAIN queue' : at(i) \in DOMAIN queue /\ at(i) # k /\ queue'[i] = queue[at(i)]
    BY <2>3
  <2>5. \A i, j \in DOMAIN queue' : i < j => at(i) < at(j)
    BY <2>3
  <2>6. \A i \in DOMAIN queue' : queue[at(i)].to = id[t] => k < at(i)
    BY <2>2, <2>3, <2>4
  <2> HIDE DEF at
  <2>7. Numbered'
    <3>1. \A j, i \in DOMAIN queue' :
             j < i /\ queue'[j].to = queue'[i].to => queue'[j].n < queue'[i].n
      BY <2>4, <2>5 DEF Numbered
    <3>2. \A i \in DOMAIN queue' :
             IF queue'[i].to = ServerType THEN cur.n < queue'[i].n /\ queue'[i].n <= sent
             ELSE /\ queue'[i].id # queue'[i].to /\ queue'[i].n <= cur.n
                  /\ queue'[i].to \in Range(todo) => queue'[i].n < cur.n
      BY <2>4 DEF Numbered
    <3> QED
      BY <1>1, <3>1, <3>2 DEF Numbered
  \* What t has got now: all of it is before what is left.
  <2>8. /\ queue[k].id # id[t] /\ queue[k].n <= cur.n
        /\ id[t] \in Range(todo) => queue[k].n < cur.n
        /\ \A j \in DOMAIN got[t] : got[t][j].n < queue[k].n
        /\ \A i \in DOMAIN queue' : queue'[i].to = id[t] => queue[k].n < queue'[i].n
    <3>1. /\ queue[k].id # id[t] /\ queue[k].n <= cur.n
          /\ id[t] \in Range(todo) => queue[k].n < cur.n
      BY <2>1, <2>2 DEF Numbered
    <3>2. \A j \in DOMAIN got[t] : got[t][j].n < queue[k].n
      BY <2>2 DEF Received
    <3>3. \A i \in DOMAIN queue' : queue'[i].to = id[t] => queue[k].n < queue'[i].n
      BY <2>2, <2>4, <2>6 DEF Numbered
    <3> QED
      BY <3>1, <3>2, <3>3
  <2>9. \A s \in Terminals : \A j \in DOMAIN got[s] : \A i \in DOMAIN queue' :
           queue'[i].to = id[s] => got[s][j].n < queue'[i].n
    BY <2>4 DEF Received
  <2>10. ASSUME NEW s \in Terminals, NEW j \in DOMAIN got'[s]
         PROVE  /\ got'[s][j].id # id[s] /\ got'[s][j].n <= cur.n
                /\ \A i \in 1 .. j - 1 : got'[s][i].n < got'[s][j].n
                /\ \A i \in DOMAIN queue' : queue'[i].to = id[s] => got'[s][j].n < queue'[i].n
                /\ id[s] \in Range(todo) => got'[s][j].n < cur.n
    <3>1. got \in [Terminals -> Seq(Messages)]
      BY DEF IInv, TypeOK
    <3>2. CASE s # t
      <4>1. got'[s] = got[s]
        BY <1>3, <3>1, <3>2
      <4> QED
        BY <2>9, <2>10, <4>1 DEF Received
    <3>3. CASE s = t
      <4>1. got'[t] = Append(got[t], queue[k]) /\ got[t] \in Seq(Messages)
        BY <1>3, <3>1
      <4>2. /\ DOMAIN got'[t] = 1 .. Len(got[t]) + 1 /\ Len(got[t]) \in Nat
            /\ DOMAIN got[t] = 1 .. Len(got[t])
            /\ \A i \in DOMAIN got[t] : got'[t][i] = got[t][i]
            /\ got'[t][Len(got[t]) + 1] = queue[k]
        BY <2>3, <4>1, AppendElements, LenProperties
      <4>3. CASE j \in DOMAIN got[t]
        <5>1. \A i \in 1 .. j - 1 : i \in DOMAIN got[t]
          BY <4>2, <4>3
        <5> QED
          BY <2>9, <3>3, <4>2, <4>3, <5>1 DEF Received
      <4>4. CASE j = Len(got[t]) + 1
        BY <2>8, <3>3, <4>2, <4>4, SMTT(30)
      <4> QED
        BY <2>10, <3>3, <4>2, <4>3, <4>4
    <3> QED
      BY <3>2, <3>3
  <2> QED
    BY <1>1, <2>7, <2>10 DEF Received
<1> QED
  BY <1>2, <1>3 DEF Drain

LEMMA OrderKept ==
    ASSUME PositiveIds
    PROVE  Order /\ [Next]_vars => Order'
<1> SUFFICES ASSUME IInv, Numbered, Received, [Next]_vars
             PROVE  Order'
  BY DEF Order
<1>1. IInv'
  BY InvariantKept
<1>2. got \in [Terminals -> Seq(Messages)] /\ id \in [Terminals -> Users \cup {0}]
  BY DEF IInv, TypeOK
<1> SUFFICES Numbered' /\ Received'
  BY <1>1 DEF Order
<1>3. CASE UNCHANGED vars
  BY <1>3, OrderStays DEF vars
<1>4. CASE ServerStart \/ ServerDies
  <2>1. UNCHANGED <<queue, cur, sent, id, got>> /\ todo' = <<>>
    BY <1>4 DEF ServerStart, ServerDies, clientVars
  <2> QED
    BY <2>1, EmptyTable, OrderStays
<1>5. CASE \E t \in Terminals : Start(t)
  <2>1. PICK t \in Terminals, i \in Arguments :
           /\ id' = [id EXCEPT ![t] = i] /\ got' = [got EXCEPT ![t] = <<>>]
           /\ UNCHANGED <<queue, cur, todo, sent>>
    BY <1>5 DEF Start, serverVars
  <2>2. \A s \in Terminals : (got'[s] = got[s] /\ id'[s] = id[s]) \/ got'[s] = <<>>
    BY <1>2, <2>1
  <2> QED
    BY <2>1, <2>2, OrderStays
<1>6. CASE \E t \in Terminals : ReadLine(t) \/ EndOfInput(t) \/ ClientDies(t)
  <2>1. UNCHANGED <<queue, cur, todo, sent, id, got>>
    BY <1>6 DEF ReadLine, EndOfInput, ClientDies, serverVars
  <2> QED
    BY <2>1, OrderStays
<1>7. CASE ServerStep
  BY <1>7, ReceiveOrder, PutOrder DEF ServerStep
<1>8. CASE \E t \in Terminals : ClientStep(t)
  BY <1>1, <1>8, SendOrder, DrainOrder DEF ClientStep
<1> QED
  BY <1>3, <1>4, <1>5, <1>6, <1>7, <1>8 DEF Next

-----------------------------------------------------------------------------
(* The queue and the loop over the clients implement ChatRoom.               *)

LEMMA FrontOfAppend ==
    ASSUME NEW S, NEW s \in Seq(S), NEW e \in S
    PROVE  Append(s, e) # <<>> /\ Front(Append(s, e)) = s
<1> DEFINE a == Append(s, e)
           b == SubSeq(a, 1, Len(s))
<1>1. /\ a \in Seq(S) /\ Len(a) = Len(s) + 1 /\ Len(s) \in Nat
      /\ \A i \in 1 .. Len(s) : a[i] = s[i]
  BY AppendElements
<1> HIDE DEF a
<1>2. \A i \in 1 .. Len(s) : a[i] \in S
  BY <1>1, ElementOfSeq
<1>3. /\ b \in Seq(S) /\ Len(b) = Len(s)
      /\ \A i \in 1 .. Len(s) : b[i] = a[i]
  BY <1>1, <1>2, SubSeqProperties
<1>4. b = s
  BY <1>1, <1>3, SeqEqual
<1>5. Front(a) = b /\ a # <<>>
  <2>1. Len(a) - 1 = Len(s)
    BY <1>1
  <2> QED
    BY <1>1, <2>1, EmptySeq DEF Front
<1> QED
  BY <1>4, <1>5 DEF a

LEMMA TailOfConcat ==
    ASSUME NEW S, NEW s \in Seq(S), s # <<>>, NEW t \in Seq(S)
    PROVE  s \o t # <<>> /\ Tail(s \o t) = Tail(s) \o t
<1>1. /\ Len(s) \in Nat \ {0} /\ Len(t) \in Nat
      /\ Tail(s) \in Seq(S) /\ Len(Tail(s)) = Len(s) - 1
      /\ \A i \in 1 .. Len(s) - 1 : Tail(s)[i] = s[i + 1]
  BY EmptySeq, LenProperties, HeadTailProperties
<1> DEFINE c == s \o t
           d == Tail(s) \o t
<1>2. /\ c \in Seq(S) /\ Len(c) = Len(s) + Len(t)
      /\ \A i \in 1 .. Len(s) + Len(t) : c[i] = IF i <= Len(s) THEN s[i] ELSE t[i - Len(s)]
  BY ConcatProperties
<1>3. /\ d \in Seq(S) /\ Len(d) = Len(s) - 1 + Len(t)
      /\ \A i \in 1 .. Len(s) - 1 + Len(t) :
            d[i] = IF i <= Len(s) - 1 THEN Tail(s)[i] ELSE t[i - (Len(s) - 1)]
  BY <1>1, ConcatProperties
<1> HIDE DEF c, d
<1>4. c # <<>>
  BY <1>1, <1>2, EmptySeq
<1>5. /\ Tail(c) \in Seq(S) /\ Len(Tail(c)) = Len(s) - 1 + Len(t)
      /\ \A i \in 1 .. Len(s) - 1 + Len(t) : Tail(c)[i] = c[i + 1]
  <2>1. Len(c) - 1 = Len(s) - 1 + Len(t)
    BY <1>1, <1>2
  <2> QED
    BY <1>2, <1>4, <2>1, HeadTailProperties
<1>6. ASSUME NEW i \in 1 .. Len(s) - 1 + Len(t) PROVE Tail(c)[i] = d[i]
  <2>1. i + 1 \in 1 .. Len(s) + Len(t) /\ i \in Nat
    BY <1>1
  <2>2. CASE i <= Len(s) - 1
    <3>1. i + 1 <= Len(s) /\ i \in 1 .. Len(s) - 1
      BY <1>1, <2>1, <2>2
    <3> QED
      BY <1>1, <1>2, <1>3, <1>5, <2>1, <2>2, <3>1
  <2>3. CASE ~(i <= Len(s) - 1)
    <3>1. ~(i + 1 <= Len(s)) /\ (i + 1) - Len(s) = i - (Len(s) - 1)
      BY <1>1, <2>1, <2>3
    <3> QED
      BY <1>2, <1>3, <1>5, <2>1, <2>3, <3>1
  <2> QED
    BY <2>2, <2>3
<1>7. Tail(c) = d
  BY <1>3, <1>5, <1>6, SeqEqual
<1> QED
  BY <1>4, <1>7 DEF c, d

\* What is due to a user, and what is in the queue for anybody.
LEMMA BoxTypes ==
    ASSUME IInv, NEW u \in Users
    PROVE  /\ queue \in Seq(Messages) /\ cur \in Messages /\ u # ServerType
           /\ MailIn(queue, u) \in Seq(Messages) /\ Due(u) \in Seq(Messages)
           /\ [cur EXCEPT !.to = u] \in Messages
<1>1. queue \in Seq(Messages) /\ cur \in Messages
  BY DEF IInv, TypeOK
<1>2. MailIn(queue, u) \in Seq(Messages)
  BY <1>1, MailLists
<1>3. [cur EXCEPT !.to = u] \in Messages
  BY <1>1 DEF Messages
<1>4. Due(u) \in Seq(Messages)
  BY <1>3, EmptySeq DEF Due
<1> QED
  BY <1>1, <1>2, <1>3, <1>4 DEF Users, Allowed

LEMMA RoomStays ==
    ASSUME UNCHANGED <<queue, clients>>, \A u \in Users : Due(u)' = Due(u)
    PROVE  UNCHANGED Room!roomVars
<1>1. Inbox' = Inbox
  BY DEF Inbox
<1>2. Mailboxes' = Mailboxes
  BY DEF Mailboxes
<1> QED
  BY <1>1, <1>2 DEF Room!roomVars

LEMMA RoomInit == Init => Room!Init
<1> SUFFICES ASSUME Init PROVE Room!Init
  OBVIOUS
<1>1. queue = <<>> /\ clients = <<>> /\ todo = <<>>
  BY DEF Init
<1>2. \A u : MailIn(<<>>, u) = <<>>
  <2> SUFFICES ASSUME NEW u PROVE MailIn(<<>>, u) = <<>>
    OBVIOUS
  <2>1. <<>> \in Seq({}) /\ Places(<<>>, u) = {}
    BY EmptySeq DEF Places
  <2>2. MailIn(<<>>, u) \in Seq({}) /\ Len(MailIn(<<>>, u)) = Cardinality(Places(<<>>, u))
    BY <2>1, MailLists
  <2> QED
    BY <2>1, <2>2, FS_EmptySet, EmptySeq
<1>3. \A u \in Users : Due(u) = <<>>
  BY <1>1, EmptyTable DEF Due
<1>4. Inbox = <<>> /\ Range(clients) = {}
  BY <1>1, <1>2, EmptyTable DEF Inbox
<1>5. Mailboxes = [u \in Users |-> <<>>]
  <2>1. \A u \in Users : MailIn(queue, u) \o Due(u) = <<>>
    <3>1. <<>> \o <<>> = <<>>
      BY EmptySeq, ConcatEmptySeq
    <3> QED
      BY <1>1, <1>2, <1>3, <3>1
  <2> QED
    BY <2>1 DEF Mailboxes
<1> QED
  BY <1>4, <1>5 DEF Room!Init

\* Connect and SendLine: a message comes into the inbox.
LEMMA PostRefines ==
    ASSUME IInv, NEW t \in Terminals, Connect(t) \/ SendLine(t), IInv'
    PROVE  Room!Post
<1>1. PICK m \in Messages : m.to = ServerType /\ queue' = Append(queue, m)
  <2>1. PICK text \in Texts \cup {"#connect"} : Send(t, text)
    BY DEF Connect, SendLine, IInv, Identified
  <2> DEFINE m == [to |-> ServerType, id |-> id[t], text |-> text, n |-> sent + 1]
  <2>2. queue' = Append(queue, m) /\ m.to = ServerType
    BY <2>1 DEF Send
  <2>3. id[t] \in Users
    BY DEF IInv, Identified, Running, Connect, SendLine
  <2>4. sent + 1 \in 0 .. MaxSent
    BY <2>1 DEF IInv, TypeOK, Send
  <2>5. m \in Messages
    BY <2>3, <2>4 DEF Messages
  <2> QED
    BY <2>2, <2>5
<1>2. queue \in Seq(Messages) /\ UNCHANGED <<clients, cur, todo>>
  BY DEF IInv, TypeOK, Connect, SendLine, serverVars
<1>3. Inbox' = Append(Inbox, m) /\ Inbox \in Seq(Messages)
  BY <1>1, <1>2, MailPut DEF Inbox
<1>4. Mailboxes' = Mailboxes
  <2>1. ASSUME NEW u \in Users PROVE MailIn(queue', u) = MailIn(queue, u)
    <3>1. m.to # u
      BY <1>1, BoxTypes
    <3> QED
      BY <1>1, <1>2, <3>1, MailPut
  <2>2. \A u \in Users : Due(u)' = Due(u)
    BY <1>2 DEF Due
  <2> QED
    BY <2>1, <2>2 DEF Mailboxes
<1>5. Inbox' # <<>> /\ Front(Inbox') = Inbox
  BY <1>3, FrontOfAppend
<1> QED
  BY <1>2, <1>4, <1>5 DEF Room!Post, Room!Front, Front

\* ServerReceive: the message goes into the mailboxes of all other members at once, where
\* it waits for the loop.
LEMMA RelayRefines ==
    ASSUME IInv, ServerReceive
    PROVE  Room!Relay
<1>1. PICK k \in Taken(ServerType) :
         /\ queue' = RemoveAt(queue, k) /\ cur' = queue[k]
         /\ clients' = IF queue[k].text = "shutdown"
                       THEN Left(Joined(queue[k].id), queue[k].id) ELSE Joined(queue[k].id)
         /\ todo' = IF Relayed(queue[k]) THEN Joined(queue[k].id) ELSE <<>>
  BY DEF ServerReceive
<1> DEFINE m == queue[k]
<1>2. /\ k \in DOMAIN queue /\ m.to = ServerType
      /\ \A j \in 1 .. k - 1 : queue[j].to # ServerType
  BY <1>1 DEF Taken, Matches, ServerType
<1>3. queue \in Seq(Messages) /\ m.id \in Users /\ m \in Messages /\ todo = <<>>
  BY <1>2, ElementOfSeq, LenProperties DEF IInv, TypeOK, Identified, ServerReceive
<1>4. /\ Joined(m.id) \in Seq(Users) /\ IsInjective(Joined(m.id))
      /\ Range(Joined(m.id)) = Range(clients) \cup {m.id}
  BY <1>3, JoinedTable DEF IInv, TypeOK, Table
<1>5. Range(Left(Joined(m.id), m.id)) = Range(clients) \ {m.id}
  BY <1>4, LeftTable
<1>6. /\ Range(clients') = IF m.text = "shutdown" THEN Range(clients) \ {m.id}
                           ELSE Range(clients) \cup {m.id}
      /\ Range(todo') = IF Relayed(m) THEN Range(clients) \cup {m.id} ELSE {}
      /\ Relayed(m) <=> ~(m.text = "shutdown" \/ (m.id \notin Range(clients)
                                                    /\ m.text = "#connect"))
  BY <1>1, <1>4, <1>5, EmptyTable DEF Relayed, Exists
<1>7. Inbox # <<>> /\ Head(Inbox) = m /\ Inbox' = Tail(Inbox)
  <2>1. Inbox # <<>> /\ Inbox[1] = m /\ Inbox' = Tail(Inbox)
    BY <1>1, <1>2, <1>3, MailTaken DEF Inbox
  <2> QED
    BY <2>1
<1> HIDE DEF m
<1> DEFINE put(u) == IF u \in Range(clients) \ {m.id}
                     THEN Append(Mailboxes[u], [m EXCEPT !.to = u]) ELSE Mailboxes[u]
<1>8. ASSUME NEW u \in Users
      PROVE  Mailboxes'[u] = IF Relayed(m) THEN put(u) ELSE Mailboxes[u]
  <2>1. MailIn(queue', u) = MailIn(queue, u)
    <3>1. queue[k].to # u
      BY <1>2, BoxTypes DEF m
    <3> QED
      BY <1>1, <1>2, <1>3, <3>1, MailTaken
  <2>2. Mailboxes[u] = MailIn(queue, u)
    <3>1. Due(u) = <<>> /\ MailIn(queue, u) \in Seq(Messages)
      BY <1>3, EmptyTable, BoxTypes DEF Due
    <3> QED
      BY <3>1, ConcatEmptySeq DEF Mailboxes
  <2>3. Mailboxes'[u] = MailIn(queue, u) \o Due(u)'
    BY <2>1 DEF Mailboxes
  <2>4. CASE Relayed(m) /\ u \in Range(clients) \ {m.id}
    <3>1. Due(u)' = <<[m EXCEPT !.to = u]>>
      BY <1>1, <1>6, <2>4 DEF Due, m
    <3>2. [m EXCEPT !.to = u] \in Messages /\ MailIn(queue, u) \in Seq(Messages)
      BY <1>3, BoxTypes DEF Messages, m
    <3> QED
      BY <2>2, <2>3, <2>4, <3>1, <3>2, AppendIsConcat
  <2>5. CASE ~(Relayed(m) /\ u \in Range(clients) \ {m.id})
    <3>1. Due(u)' = <<>>
      BY <1>1, <1>6, <2>5 DEF Due, m
    <3>2. MailIn(queue, u) \in Seq(Messages)
      BY BoxTypes
    <3> QED
      BY <2>2, <2>3, <2>5, <3>1, <3>2, ConcatEmptySeq
  <2> QED
    BY <2>4, <2>5
<1>9. Mailboxes' = IF Relayed(m) THEN [u \in Users |-> put(u)] ELSE Mailboxes
  <2>1. Mailboxes = [u \in Users |-> Mailboxes[u]] /\ Mailboxes' = [u \in Users |-> Mailboxes'[u]]
    BY DEF Mailboxes
  <2> HIDE DEF put
  <2> QED
    BY <1>8, <2>1
<1> QED
  BY <1>6, <1>7, <1>9 DEF Room!Relay

\* ServerSend: a message that was due is in the queue now, which makes no difference.
LEMMA SendRefines ==
    ASSUME PositiveIds, IInv, ServerSend
    PROVE  UNCHANGED Room!roomVars
<1>1. /\ UNCHANGED <<clients, cur>> /\ Head(todo) \in Users /\ Head(todo) \in Range(todo)
      /\ Range(todo') = Range(todo) \ {Head(todo)}
  <2>1. todo \in Seq(Users) /\ IsInjective(todo) /\ todo # <<>> /\ todo' = Tail(todo)
    BY DEF IInv, TypeOK, Table, ServerSend, Rest
  <2> QED
    BY <2>1, TailElements DEF ServerSend
<1> DEFINE h == Head(todo)
           m == [cur EXCEPT !.to = h]
<1>2. CASE h = cur.id
  <2>1. UNCHANGED queue
    BY <1>2 DEF ServerSend, Passes
  <2>2. \A u \in Users : Due(u)' = Due(u)
    BY <1>1, <1>2 DEF Due
  <2> QED
    BY <1>1, <2>1, <2>2, RoomStays
<1>3. CASE h # cur.id
  <2>1. ~(h < 1)
    <3>1. h \in Int /\ h > 0
      BY <1>1, ChatAssumption DEF PositiveIds, Users
    <3> QED
      BY <3>1
  <2>2. queue' = Append(queue, m)
    BY <1>3, <2>1 DEF ServerSend, Passes
  <2>3. m \in Messages /\ m.to = h /\ queue \in Seq(Messages) /\ h # ServerType
    <3>1. cur \in Messages /\ m \in Messages /\ queue \in Seq(Messages) /\ h # ServerType
      BY <1>1, BoxTypes
    <3> QED
      BY <3>1 DEF Messages
  <2>4. \A u \in Users : /\ u = h => Due(u) = <<m>> /\ Due(u)' = <<>>
                         /\ u # h => Due(u)' = Due(u)
    BY <1>1, <1>3 DEF Due
  <2> HIDE DEF h, m
  <2>5. Inbox' = Inbox
    BY <2>2, <2>3, MailPut DEF Inbox
  <2>6. ASSUME NEW u \in Users
        PROVE  MailIn(queue', u) \o Due(u)' = MailIn(queue, u) \o Due(u)
    <3>1. CASE u = h
      <4>1. Due(u) = <<m>> /\ Due(u)' = <<>>
        BY <2>4, <3>1
      <4>2. MailIn(queue', u) = Append(MailIn(queue, u), m) /\ MailIn(queue, u) \in Seq(Messages)
        BY <2>2, <2>3, <3>1, MailPut
      <4>3. Append(MailIn(queue, u), m) \in Seq(Messages)
        BY <2>3, <4>2, AppendElements
      <4> QED
        BY <2>3, <4>1, <4>2, <4>3, AppendIsConcat, ConcatEmptySeq
    <3>2. CASE u # h
      <4>1. Due(u)' = Due(u)
        BY <2>4, <3>2
      <4>2. MailIn(queue', u) = MailIn(queue, u)
        BY <2>2, <2>3, <3>2, MailPut
      <4> QED
        BY <4>1, <4>2
    <3> QED
      BY <3>1, <3>2
  <2>7. Mailboxes' = Mailboxes
    BY <2>6 DEF Mailboxes
  <2> QED
    BY <1>1, <2>5, <2>7 DEF Room!roomVars
<1> QED
  BY <1>2, <1>3

\* Drain: a user reads the first message of its mailbox.
LEMMA ReadRefines ==
    ASSUME PositiveIds, IInv, NEW t \in Terminals, Drain(t)
    PROVE  Room!Read \/ UNCHANGED Room!roomVars
<1>1. UNCHANGED <<clients, cur, todo>>
  BY DEF Drain, serverVars
<1>2. \A u \in Users : Due(u)' = Due(u)
  BY <1>1 DEF Due
<1>3. CASE UNCHANGED queue
  BY <1>1, <1>2, <1>3, RoomStays
<1>4. ASSUME NEW k \in Taken(id[t]), queue' = RemoveAt(queue, k)
      PROVE  Room!Read
  <2>0. id[t] \in Users
    BY DEF Drain, Running, IInv, Identified
  <2>1. PICK u \in Users : u = id[t] /\ u > 0 /\ u # ServerType
    BY <2>0 DEF PositiveIds, Users, Allowed
  <2>2. /\ k \in DOMAIN queue /\ queue[k].to = u
        /\ \A j \in 1 .. k - 1 : queue[j].to # u
    <3>1. u \in Int
      BY <2>1, ChatAssumption DEF Users
    <3>2. ~(u = 0) /\ ~(u < 0)
      BY <2>1, <3>1
    <3>3. \A j \in DOMAIN queue : Matches(j, u) <=> queue[j].to = u
      BY <2>1, <3>2 DEF Matches
    <3>4. DOMAIN queue = 1 .. Len(queue) /\ Len(queue) \in Nat
      BY NumberTypes DEF IInv
    <3>5. k \in Taken(u)
      BY <1>4, <2>1
    <3> QED
      BY <3>3, <3>4, <3>5 DEF Taken
  <2>3. queue \in Seq(Messages)
    BY DEF IInv, TypeOK
  <2>4. Inbox' = Inbox
    BY <1>4, <2>1, <2>2, <2>3, MailTaken DEF Inbox
  <2>5. MailIn(queue, u) # <<>> /\ MailIn(queue', u) = Tail(MailIn(queue, u))
    BY <1>4, <2>2, <2>3, MailTaken
  <2>6. Mailboxes[u] # <<>> /\ Mailboxes'[u] = Tail(Mailboxes[u])
    <3>1. MailIn(queue, u) \in Seq(Messages) /\ Due(u) \in Seq(Messages)
      BY <2>1, BoxTypes
    <3>2. /\ MailIn(queue, u) \o Due(u) # <<>>
          /\ Tail(MailIn(queue, u) \o Due(u)) = MailIn(queue', u) \o Due(u)
      BY <2>5, <3>1, TailOfConcat
    <3>3. Mailboxes[u] = MailIn(queue, u) \o Due(u)
          /\ Mailboxes'[u] = MailIn(queue', u) \o Due(u)'
      BY <2>1 DEF Mailboxes
    <3> QED
      BY <1>2, <2>1, <3>2, <3>3
  <2>7. ASSUME NEW v \in Users, v # u PROVE Mailboxes'[v] = Mailboxes[v]
    <3>1. MailIn(queue', v) = MailIn(queue, v)
      BY <1>4, <2>2, <2>3, <2>7, MailTaken
    <3> QED
      BY <1>2, <3>1 DEF Mailboxes
  <2>8. Mailboxes' = [Mailboxes EXCEPT ![u] = Tail(@)]
    <3>1. /\ Mailboxes = [v \in Users |-> Mailboxes[v]]
          /\ Mailboxes' = [v \in Users |-> Mailboxes'[v]]
      BY DEF Mailboxes
    <3> QED
      BY <2>1, <2>6, <2>7, <3>1
  <2> QED
    BY <1>1, <2>1, <2>4, <2>6, <2>8 DEF Room!Read
<1> QED
  BY <1>3, <1>4 DEF Drain

\* ServerStart and ServerDies: the members are forgotten, and a message that was due is lost.
LEMMA CrashRefines ==
    ASSUME IInv, ServerStart \/ ServerDies
    PROVE  Room!Crash
<1>1. UNCHANGED <<queue, cur>> /\ clients' = <<>> /\ todo' = <<>>
  BY DEF ServerStart, ServerDies
<1>2. Inbox' = Inbox /\ Range(clients') = {}
  BY <1>1, EmptyTable DEF Inbox
<1>3. ASSUME NEW u \in Users
      PROVE  Mailboxes'[u] = Mailboxes[u] \/ Mailboxes'[u] = Front(Mailboxes[u])
  <2>1. MailIn(queue, u) \in Seq(Messages) /\ [cur EXCEPT !.to = u] \in Messages
    BY BoxTypes
  <2>2. Mailboxes'[u] = MailIn(queue, u)
    <3>1. Due(u)' = <<>>
      BY <1>1, EmptyTable DEF Due
    <3>2. Mailboxes'[u] = MailIn(queue, u) \o Due(u)'
      BY <1>1 DEF Mailboxes
    <3> QED
      BY <2>1, <3>1, <3>2, ConcatEmptySeq
  <2>3. CASE Due(u) = <<>>
    BY <2>1, <2>2, <2>3, ConcatEmptySeq DEF Mailboxes
  <2>4. CASE Due(u) = <<[cur EXCEPT !.to = u]>>
    <3>1. Mailboxes[u] = Append(MailIn(queue, u), [cur EXCEPT !.to = u])
      BY <2>1, <2>4, AppendIsConcat DEF Mailboxes
    <3> QED
      BY <2>1, <2>2, <3>1, FrontOfAppend
  <2> QED
    BY <2>3, <2>4 DEF Due
<1>4. DOMAIN Mailboxes' = Users
  BY DEF Mailboxes
<1> QED
  BY <1>1, <1>2, <1>3, <1>4 DEF Room!Crash, Room!Front, Front

LEMMA StepRefines ==
    ASSUME PositiveIds, IInv, IInv', [Next]_vars
    PROVE  [Room!Next]_(Room!roomVars)
<1>1. CASE UNCHANGED <<queue, clients, cur, todo>>
  <2>1. \A u \in Users : Due(u)' = Due(u)
    BY <1>1 DEF Due
  <2> QED
    BY <1>1, <2>1, RoomStays
<1>2. CASE ServerStart \/ ServerDies
  BY <1>2, CrashRefines DEF Room!Next
<1>3. CASE ServerStep
  BY <1>3, RelayRefines, SendRefines DEF ServerStep, Room!Next
<1>4. CASE \E t \in Terminals : ClientStep(t)
  BY <1>4, PostRefines, ReadRefines DEF ClientStep, Room!Next
<1>5. CASE \E t \in Terminals : Start(t) \/ ReadLine(t) \/ EndOfInput(t) \/ ClientDies(t)
  <2>1. UNCHANGED <<queue, clients, cur, todo>>
    BY <1>5 DEF Start, ReadLine, EndOfInput, ClientDies, serverVars
  <2> QED
    BY <1>1, <2>1
<1>6. CASE UNCHANGED vars
  BY <1>1, <1>6 DEF vars
<1> QED
  BY <1>2, <1>3, <1>4, <1>5, <1>6 DEF Next

-----------------------------------------------------------------------------
(* The theorems.                                                             *)

LEMMA InvariantHolds == Spec => []IInv
<1>1. Init => IInv
  BY Initially
<1> QED
  BY <1>1, InvariantKept, PTL DEF Spec

\* The variables keep their types, the queue its capacity, and the bounds theirs.
THEOREM TypeCorrect == Spec => []TypeOK
<1>1. IInv => TypeOK
  BY DEF IInv
<1> QED
  BY <1>1, InvariantHolds, PTL

\* clients[] is not written past its end while there are no more users than it has room for.
THEOREM InBoundsHolds == Spec => []InBounds
<1>1. IInv => InBounds
  <2> SUFFICES ASSUME IInv, Cardinality(Users) <= MaxClients
               PROVE  Len(clients) <= MaxClients
    BY DEF InBounds
  <2>1. clients \in Seq(Users) /\ IsInjective(clients)
    BY DEF IInv, TypeOK, Table
  <2>2. clients \in [1 .. Len(clients) -> Users] /\ Len(clients) \in Nat
    BY <2>1, LenProperties
  <2>3. clients \in Injection(1 .. Len(clients), Users)
    BY <2>1, <2>2 DEF Injection, IsInjective
  <2>4. IsFiniteSet(Users)
    <3>1. IsFiniteSet(Arguments) /\ Users \in SUBSET Arguments
      BY ChatAssumption DEF Users
    <3> QED
      BY <3>1, FS_Subset
  <2>5. Cardinality(1 .. Len(clients)) = Len(clients)
    <3> DEFINE n == Len(clients)
    <3>1. n \in Nat
      BY <2>2
    <3> HIDE DEF n
    <3>2. Cardinality(1 .. n) = n
      <4>1. Cardinality(1 .. n) = IF 1 > n THEN 0 ELSE n - 1 + 1
        BY <3>1, FS_Interval
      <4> QED
        BY <3>1, <4>1
    <3> QED
      BY <3>2 DEF n
  <2>6. Cardinality(1 .. Len(clients)) <= Cardinality(Users)
    BY <2>3, <2>4, FS_Injection
  <2>7. Cardinality(Users) \in Nat /\ MaxClients \in Nat
    <3>1. {MaxClients, Capacity, MaxSent, MaxStarts} \subseteq Nat
      BY ChatAssumption
    <3> QED
      BY <2>4, <3>1, FS_CardinalityType
  <2> QED
    BY <2>2, <2>5, <2>6, <2>7
<1> QED
  BY <1>1, InvariantHolds, PTL

\* A client reads what another user has said once and in the order it was said, whoever
\* dies, comes back, or uses the same identifier.  0 and negative identifiers are excluded:
\* msgrcv() takes messages of others for them.
THEOREM InOrderHolds ==
    ASSUME PositiveIds
    PROVE  Spec => []InOrder
<1>1. Init => Order
  BY Initially DEF Order
<1>2. Order /\ [Next]_vars => Order'
  BY OrderKept
<1>3. Order => InOrder
  BY DEF Order, Received, InOrder
<1> QED
  BY <1>1, <1>2, <1>3, PTL DEF Spec

\* The queue and the server's loop over its clients implement a chat that puts what a user
\* says into all mailboxes in one step, whoever starts or dies in between; only a message
\* the server is at work on when it dies may be missing in some of them.
THEOREM ImplementsChatRoomHolds ==
    ASSUME PositiveIds
    PROVE  Spec => ImplementsChatRoom
<1>1. Init => Room!Init
  BY RoomInit
<1>2. IInv /\ IInv' /\ [Next]_vars => [Room!Next]_(Room!roomVars)
  BY StepRefines
<1> QED
  BY <1>1, <1>2, InvariantHolds, PTL DEF Spec, ImplementsChatRoom, Room!Spec
=============================================================================
