---------------------------- MODULE UdpChatProofs ----------------------------
(***************************************************************************)
(* Module3/12 for any number of clients, datagrams, restarts and lines:    *)
(* the table of the server, what it has told, and who may be in it.        *)
(***************************************************************************)
EXTENDS UdpChat, SequenceTheorems, TLAPS

Texts == Lines \cup {"CONNECTED"}

\* A server that does not run has no table.
OffEmpty == server = "off" => clients = <<>>

\* The life of a client that nothing has cut off, in the table and in the datagrams on
\* their way: none of its datagrams before it connects; while it reads lines, it is in the
\* table or about to be, and has not said "shutdown"; after that, its "shutdown" is the last
\* of its datagrams and finds it in the table.
FromOf(c) == {k \in DOMAIN up : up[k].from = c}
Shutdown(c, k) == up[k].from = c /\ up[k].text = "shutdown"
Known(c) == c \in Range(clients)

Course(c) ==
    /\ pc[c] = "off" => ~Known(c) /\ FromOf(c) = {}
    /\ pc[c] = "input" => /\ Known(c) \/ FromOf(c) # {}
                          /\ \A k \in FromOf(c) : ~Shutdown(c, k)
    /\ pc[c] \in {"leave", "done"} /\ (Known(c) \/ FromOf(c) # {}) =>
          \E k \in FromOf(c) : Shutdown(c, k)
    /\ \A k \in FromOf(c) : Shutdown(c, k) =>
          /\ \A j \in FromOf(c) : j <= k
          /\ Known(c) \/ \E j \in FromOf(c) : j < k

Courses == \A c \in Clients \ lapsed : Course(c)

\* The inductive invariant.
IInv == TypeOK /\ TwoPlaces /\ ToldState /\ OffEmpty /\ Courses

-----------------------------------------------------------------------------
(* Sequences.                                                                *)

\* Where the elements of a sequence are when one is taken out.
LEMMA RemoveAtElements ==
    ASSUME NEW S, NEW s \in Seq(S), NEW k \in DOMAIN s
    PROVE  /\ RemoveAt(s, k) \in Seq(S) /\ Len(RemoveAt(s, k)) = Len(s) - 1
           /\ \A i \in 1 .. Len(s) - 1 : RemoveAt(s, k)[i] = s[IF i < k THEN i ELSE i + 1]
<1> DEFINE a == SubSeq(s, 1, k - 1)
           b == SubSeq(s, k + 1, Len(s))
<1>1. k \in 1 .. Len(s) /\ Len(s) \in Nat
  OBVIOUS
<1>2. /\ a \in Seq(S) /\ Len(a) = k - 1
      /\ \A i \in 1 .. k - 1 : a[i] = s[i]
  BY <1>1, SubSeqProperties
<1>3. /\ b \in Seq(S) /\ Len(b) = Len(s) - k
      /\ \A i \in 1 .. Len(s) - k : b[i] = s[k + i]
  BY <1>1, SubSeqProperties
<1>4. RemoveAt(s, k) = a \o b
  BY DEF RemoveAt
<1> HIDE DEF a, b
<1>5. /\ a \o b \in Seq(S) /\ Len(a \o b) = Len(s) - 1
      /\ \A i \in 1 .. Len(s) - 1 : (a \o b)[i] = IF i <= k - 1 THEN a[i] ELSE b[i - (k - 1)]
  <2>1. Len(a) + Len(b) = Len(s) - 1
    BY <1>1, <1>2, <1>3
  <2>2. /\ a \o b \in Seq(S) /\ Len(a \o b) = Len(a) + Len(b)
        /\ \A i \in 1 .. Len(a) + Len(b) : (a \o b)[i] = IF i <= Len(a) THEN a[i] ELSE b[i - Len(a)]
    <3>1. a \in Seq(S) /\ b \in Seq(S)
      BY <1>2, <1>3
    <3> QED
      BY <3>1, ConcatProperties, Zenon
  <2>3. Len(a) = k - 1
    BY <1>2
  <2> QED
    BY <2>1, <2>2, <2>3, Zenon
<1>6. ASSUME NEW i \in 1 .. Len(s) - 1 PROVE (a \o b)[i] = s[IF i < k THEN i ELSE i + 1]
  <2>1. CASE i < k
    BY <1>1, <1>2, <1>5, <2>1
  <2>2. CASE i >= k
    <3>1. i - (k - 1) \in 1 .. Len(s) - k /\ k + (i - (k - 1)) = i + 1
      BY <1>1, <2>2
    <3>2. (a \o b)[i] = b[i - (k - 1)]
      <4>1. ~(i <= k - 1)
        BY <1>1, <2>2
      <4> QED
        BY <1>5, <4>1, Zenon
    <3>3. b[i - (k - 1)] = s[k + (i - (k - 1))]
      BY <1>3, <3>1, Zenon
    <3>4. ~(i < k)
      BY <1>1, <2>2
    <3> QED
      BY <3>1, <3>2, <3>3, <3>4, Zenon
  <2>3. i < k \/ i >= k
    BY <1>1
  <2> QED
    BY <2>1, <2>2, <2>3
<1> QED
  BY <1>4, <1>5, <1>6

\* Where they are when one of them is repeated.
LEMMA RepeatElements ==
    ASSUME NEW S, NEW s \in Seq(S), NEW k \in DOMAIN s
    PROVE  /\ InsertAt(s, k, s[k]) \in Seq(S) /\ Len(InsertAt(s, k, s[k])) = Len(s) + 1
           /\ \A i \in 1 .. Len(s) + 1 :
                 InsertAt(s, k, s[k])[i] = s[IF i <= k THEN i ELSE i - 1]
<1> DEFINE a == SubSeq(s, 1, k - 1)
           b == SubSeq(s, k, Len(s))
           m == a \o <<s[k]>>
<1>1. k \in 1 .. Len(s) /\ Len(s) \in Nat /\ s[k] \in S
  OBVIOUS
<1>2. /\ a \in Seq(S) /\ Len(a) = k - 1
      /\ \A i \in 1 .. k - 1 : a[i] = s[i]
  BY <1>1, SubSeqProperties
<1>3. /\ b \in Seq(S) /\ Len(b) = Len(s) - k + 1
      /\ \A i \in 1 .. Len(s) - k + 1 : b[i] = s[k + i - 1]
  BY <1>1, SubSeqProperties
<1>4. InsertAt(s, k, s[k]) = m \o b
  BY DEF InsertAt
<1> HIDE DEF a, b
<1>5. m \in Seq(S) /\ Len(m) = k /\ \A i \in 1 .. k : m[i] = s[i]
  <2>1. <<s[k]>> \in Seq(S) /\ Len(<<s[k]>>) = 1 /\ <<s[k]>>[1] = s[k]
    BY <1>1
  <2>2. /\ m \in Seq(S) /\ Len(m) = k
        /\ \A i \in 1 .. k : m[i] = IF i <= k - 1 THEN a[i] ELSE <<s[k]>>[i - (k - 1)]
    BY <1>1, <1>2, <2>1, ConcatProperties
  <2>3. ASSUME NEW i \in 1 .. k PROVE m[i] = s[i]
    <3>1. CASE i <= k - 1
      BY <1>1, <1>2, <2>2, <3>1
    <3>2. CASE i = k
      <4>1. ~(i <= k - 1) /\ i - (k - 1) = 1
        BY <1>1, <3>2
      <4>2. m[i] = <<s[k]>>[1]
        BY <2>2, <4>1
      <4> QED
        BY <2>1, <3>2, <4>2
    <3>3. i <= k - 1 \/ i = k
      BY <1>1
    <3> QED
      BY <3>1, <3>2, <3>3
  <2> QED
    BY <2>2, <2>3
<1> HIDE DEF m
<1>6. /\ m \o b \in Seq(S) /\ Len(m \o b) = Len(s) + 1
      /\ \A i \in 1 .. Len(s) + 1 : (m \o b)[i] = IF i <= k THEN m[i] ELSE b[i - k]
  <2>1. Len(m) + Len(b) = Len(s) + 1
    BY <1>1, <1>3, <1>5
  <2>2. /\ m \o b \in Seq(S) /\ Len(m \o b) = Len(m) + Len(b)
        /\ \A i \in 1 .. Len(m) + Len(b) : (m \o b)[i] = IF i <= Len(m) THEN m[i] ELSE b[i - Len(m)]
    BY <1>3, <1>5, ConcatProperties
  <2> QED
    BY <1>5, <2>1, <2>2
<1>7. ASSUME NEW i \in 1 .. Len(s) + 1 PROVE (m \o b)[i] = s[IF i <= k THEN i ELSE i - 1]
  <2>1. CASE i <= k
    BY <1>1, <1>5, <1>6, <2>1
  <2>2. CASE i > k
    <3>1. i - k \in 1 .. Len(s) - k + 1 /\ k + (i - k) - 1 = i - 1
      BY <1>1, <2>2
    <3>2. (m \o b)[i] = b[i - k]
      BY <1>1, <1>6, <2>2
    <3>3. b[i - k] = s[i - 1]
      BY <1>3, <3>1
    <3> QED
      BY <1>1, <2>2, <3>2, <3>3
  <2>3. i <= k \/ i > k
    BY <1>1
  <2> QED
    BY <2>1, <2>2, <2>3
<1> QED
  BY <1>4, <1>6, <1>7

\* A table of two places.
LEMMA TableForms ==
    ASSUME clients \in Seq(Clients), TwoPlaces
    PROVE  \/ clients = <<>>
           \/ \E a \in Clients : clients = <<a>>
           \/ \E a, b \in Clients : a # b /\ clients = <<a, b>>
<1>1. Len(clients) = 0 \/ Len(clients) = 1 \/ Len(clients) = 2
  <2> DEFINE n == Len(clients)
  <2>1. n \in Nat /\ n <= 2
    BY LenProperties DEF TwoPlaces
  <2> HIDE DEF n
  <2>2. n = 0 \/ n = 1 \/ n = 2
    BY <2>1
  <2> QED
    BY <2>2 DEF n
<1>2. CASE Len(clients) = 0
  BY <1>2
<1>3. CASE Len(clients) = 1
  <2>1. clients[1] \in Clients
    BY <1>3
  <2>2. clients = <<clients[1]>>
    BY <1>3, <2>1, SeqEqual
  <2> QED
    BY <2>1, <2>2
<1>4. CASE Len(clients) = 2
  <2>1. clients[1] \in Clients /\ clients[2] \in Clients
    BY <1>4
  <2>2. clients = <<clients[1], clients[2]>>
    BY <1>4, <2>1, SeqEqual
  <2>3. clients[1] # clients[2]
    BY <1>4 DEF TwoPlaces, IsInjective
  <2> QED
    BY <2>1, <2>2, <2>3
<1> QED
  BY <1>1, <1>2, <1>3, <1>4

\* Who is in such a table, and that nobody is in it twice.
LEMMA TableFacts ==
    /\ Range(<<>>) = {} /\ IsInjective(<<>>)
    /\ \A a \in Clients : Range(<<a>>) = {a} /\ IsInjective(<<a>>)
    /\ \A a, b \in Clients : /\ Range(<<a, b>>) = {a, b}
                             /\ a # b => IsInjective(<<a, b>>)
BY DEF Range, IsInjective

-----------------------------------------------------------------------------
(* The server.                                                               *)

LEMMA Senders ==
    ASSUME TypeOK, NEW k \in DOMAIN up
    PROVE  up[k].from \in Clients
<1> DEFINE D == [from : Clients, text : Texts]
<1>1. up \in Seq(D)
  BY DEF TypeOK, Texts
<1>2. k \in 1 .. Len(up)
  BY <1>1
<1>3. up[k] \in D
  BY <1>1, <1>2, ElementOfSeq
<1> QED
  BY <1>3

\* sendto() reaches those that something is sent to, and nobody else.
LEMMA SentEffect ==
    ASSUME TypeOK, NEW sends \in [Clients -> Seq(Kinds)], Sent(sends)
    PROVE  /\ down' \in [Clients -> Seq(Kinds)] /\ told' \in [Clients -> Kinds \cup {"nothing"}]
           /\ \A c \in Clients : sends[c] = <<>> => told'[c] = told[c]
           /\ \A c \in Clients : sends[c] # <<>> => told'[c] = sends[c][Len(sends[c])]
<1>1. Buffer \in Nat
  BY UdpAssumption
<1> DEFINE all(c) == down[c] \o sends[c]
           n(c) == Min({Len(all(c)), Buffer})
<1>2. \A c \in Clients : SubSeq(all(c), 1, n(c)) \in Seq(Kinds)
  <2> TAKE c \in Clients
  <2>1. all(c) \in Seq(Kinds)
    BY ConcatProperties DEF TypeOK
  <2> DEFINE l == Len(all(c))
  <2>2. l \in Nat /\ \A i \in 1 .. l : all(c)[i] \in Kinds
    BY <2>1
  <2>3. n(c) = Min({l, Buffer})
    OBVIOUS
  <2> HIDE DEF all, n, l
  <2>4. Min({l, Buffer}) \in {l, Buffer} /\ Min({l, Buffer}) <= l
    <3>1. \E x \in {l, Buffer} : \A y \in {l, Buffer} : x =< y
      BY <1>1, <2>2
    <3>2. /\ Min({l, Buffer}) \in {l, Buffer}
          /\ \A y \in {l, Buffer} : Min({l, Buffer}) =< y
      BY <3>1 DEF Min
    <3> QED
      BY <3>2
  <2>5. n(c) \in Int /\ n(c) <= l
    BY <1>1, <2>2, <2>3, <2>4
  <2>6. \A i \in 1 .. n(c) : all(c)[i] \in Kinds
    BY <2>2, <2>5
  <2> QED
    BY <2>5, <2>6, SubSeqProperties
<1>3. down' = [c \in Clients |-> IF ~Open(c) THEN <<>> ELSE SubSeq(all(c), 1, n(c))]
  BY DEF Sent
<1>4. told' = [c \in Clients |-> IF sends[c] = <<>> THEN told[c] ELSE sends[c][Len(sends[c])]]
  BY DEF Sent, Last
<1> HIDE DEF all, n
<1>5. down' \in [Clients -> Seq(Kinds)]
  BY <1>2, <1>3
<1>6. \A c \in Clients : sends[c] # <<>> => sends[c][Len(sends[c])] \in Kinds
  OBVIOUS
<1>7. told' \in [Clients -> Kinds \cup {"nothing"}]
  BY <1>4, <1>6 DEF TypeOK
<1> QED
  BY <1>4, <1>5, <1>7

LEMMA OnlyType ==
    ASSUME NEW c \in Clients, NEW kind \in Kinds
    PROVE  /\ Only(c, kind) \in [Clients -> Seq(Kinds)]
           /\ Only(c, kind)[c] = <<kind>>
           /\ \A d \in Clients : d # c => Only(c, kind)[d] = <<>>
BY DEF Only

\* What one datagram to c does.
LEMMA OnlyEffect ==
    ASSUME TypeOK, NEW c \in Clients, NEW kind \in Kinds, Sent(Only(c, kind))
    PROVE  /\ down' \in [Clients -> Seq(Kinds)] /\ told' \in [Clients -> Kinds \cup {"nothing"}]
           /\ told'[c] = kind /\ \A d \in Clients : d # c => told'[d] = told[d]
<1> DEFINE s == Only(c, kind)
<1>1. s \in [Clients -> Seq(Kinds)] /\ s[c] = <<kind>> /\ \A d \in Clients : d # c => s[d] = <<>>
  BY OnlyType
<1>2. <<kind>> # <<>> /\ Len(<<kind>>) = 1 /\ <<kind>>[1] = kind
  OBVIOUS
<1>3. Sent(s)
  OBVIOUS
<1> HIDE DEF s
<1> QED
  BY <1>1, <1>2, <1>3, SentEffect

\* A line or "CONNECTED": the sender is in the table afterwards, or is told that it is full.
LEMMA TalkEffect ==
    ASSUME TypeOK, TwoPlaces, ToldState, NEW c \in Clients, Talk(c)
    PROVE  /\ clients' \in Seq(Clients) /\ down' \in [Clients -> Seq(Kinds)]
           /\ told' \in [Clients -> Kinds \cup {"nothing"}]
           /\ TwoPlaces' /\ ToldState'
           /\ \A d \in Clients : d # c => (d \in Range(clients') <=> d \in Range(clients))
           /\ c \in Range(clients') \/ told'[c] = "full"
<1> USE DEF Kinds
<1>1. CASE clients = <<>>
  <2>1. clients' = <<c>>
    BY <1>1, TableFacts DEF Talk, Registered
  <2>2. Range(clients') = {c} /\ Len(clients') = 1 /\ clients'[1] = c
    BY <2>1, TableFacts
  <2>3. Sent(Only(c, "waiting"))
    BY <2>2 DEF Talk
  <2>4. told'[c] = "waiting"
    BY <2>3, OnlyEffect
  <2> QED
    BY <1>1, <2>1, <2>2, <2>3, <2>4, OnlyEffect, TableFacts DEF TwoPlaces, ToldState
<1>2. ASSUME NEW a \in Clients, clients = <<a>>, a = c
      PROVE  /\ clients' = clients /\ told' \in [Clients -> Kinds \cup {"nothing"}]
             /\ down' \in [Clients -> Seq(Kinds)] /\ told'[c] = "waiting"
  <2>1. clients' = <<c>>
    BY <1>2, TableFacts DEF Talk, Registered
  <2>2. Range(clients') = {c} /\ Len(clients') = 1
    BY <2>1, TableFacts
  <2>3. Sent(Only(c, "waiting"))
    BY <2>2 DEF Talk
  <2> QED
    BY <1>2, <2>1, <2>3, OnlyEffect
<1>3. ASSUME NEW a \in Clients, clients = <<a>>, a # c
      PROVE  /\ clients' = <<a, c>> /\ told' \in [Clients -> Kinds \cup {"nothing"}]
             /\ down' \in [Clients -> Seq(Kinds)] /\ told'[a] = "said"
  <2>1. clients' = <<a, c>>
    <3>1. Append(<<a>>, c) = <<a, c>> /\ Len(<<a>>) = 1
      <4> DEFINE s == Append(<<a>>, c)
                 t == <<a, c>>
      <4>1. <<a>> \in Seq(Clients) /\ Len(<<a>>) = 1 /\ <<a>>[1] = a
        OBVIOUS
      <4>2. s \in Seq(Clients) /\ Len(s) = 2 /\ s[1] = a /\ s[2] = c
        BY <4>1, AppendProperties
      <4>3. t \in Seq(Clients) /\ Len(t) = 2 /\ t[1] = a /\ t[2] = c
        OBVIOUS
      <4> HIDE DEF s, t
      <4>4. \A i \in 1 .. Len(s) : s[i] = t[i]
        BY <4>2, <4>3
      <4>5. s = t
        BY <4>2, <4>3, <4>4, SeqEqual
      <4> QED
        BY <4>1, <4>5 DEF s, t
    <3>2. Range(<<a>>) = {a}
      BY TableFacts
    <3> QED
      BY <1>3, <3>1, <3>2 DEF Talk, Registered
  <2>2. Range(clients') = {a, c} /\ Len(clients') = 2 /\ clients'[1] = a
    BY <2>1, TableFacts
  <2>3. Sent(Only(a, "said"))
    BY <1>3, <2>2 DEF Talk
  <2> QED
    BY <2>1, <2>3, OnlyEffect
<1>4. ASSUME NEW a \in Clients, NEW b \in Clients, a # b, clients = <<a, b>>
      PROVE  /\ clients' = clients /\ told' \in [Clients -> Kinds \cup {"nothing"}]
             /\ down' \in [Clients -> Seq(Kinds)]
             /\ told'[a] = told[a] \/ told'[a] = "said" \/ c = a
             /\ c = a => told'[a] = told[a]
             /\ c = b => told'[a] = "said"
             /\ c \notin {a, b} => told'[a] = told[a] /\ told'[c] = "full"
  <2>1. clients' = clients
    BY <1>4, TableFacts DEF Talk
  <2>2. Range(clients') = {a, b} /\ Len(clients') = 2 /\ clients'[1] = a /\ clients'[2] = b
    BY <1>4, <2>1, TableFacts
  <2>3. CASE c \notin {a, b}
    <3>1. Sent(Only(c, "full"))
      BY <2>2, <2>3 DEF Talk
    <3> QED
      BY <2>1, <2>3, <3>1, OnlyEffect
  <2>4. CASE c = a
    <3>1. Sent(Only(b, "said"))
      BY <2>2, <2>4 DEF Talk
    <3> QED
      BY <1>4, <2>1, <2>4, <3>1, OnlyEffect
  <2>5. CASE c = b
    <3>1. Sent(Only(a, "said"))
      BY <1>4, <2>2, <2>5 DEF Talk
    <3> QED
      BY <1>4, <2>1, <2>5, <3>1, OnlyEffect
  <2> QED
    BY <2>3, <2>4, <2>5
<1>5. ASSUME NEW a \in Clients, clients = <<a>> PROVE TwoPlaces' /\ ToldState'
  <2>1. CASE a = c
    <3>1. clients' = <<c>> /\ told'[c] = "waiting"
      BY <1>2, <1>5, <2>1
    <3>2. Len(<<c>>) = 1 /\ <<c>>[1] = c
      OBVIOUS
    <3> QED
      BY <3>1, <3>2, TableFacts DEF TwoPlaces, ToldState
  <2>2. CASE a # c
    <3>1. clients' = <<a, c>> /\ told'[a] = "said"
      BY <1>3, <1>5, <2>2
    <3>2. Len(<<a, c>>) = 2 /\ <<a, c>>[1] = a
      OBVIOUS
    <3> QED
      BY <2>2, <3>1, <3>2, TableFacts DEF TwoPlaces, ToldState
  <2> QED
    BY <2>1, <2>2
<1>6. ASSUME NEW a \in Clients, NEW b \in Clients, a # b, clients = <<a, b>>
      PROVE  TwoPlaces' /\ ToldState'
  <2>1. told[a] = "said" /\ clients[1] = a
    BY <1>6 DEF ToldState
  <2>2. clients' = clients /\ told'[a] = "said"
    BY <1>4, <1>6, <2>1
  <2>3. Len(clients) = 2
    BY <1>6
  <2> QED
    BY <1>6, <2>1, <2>2, <2>3, TableFacts DEF TwoPlaces, ToldState
<1>7. CASE \E a \in Clients : clients = <<a>>
  <2>1. PICK a \in Clients : clients = <<a>>
    BY <1>7
  <2>2. CASE a = c
    <3>1. clients' = clients /\ Range(clients) = {c}
      BY <1>2, <2>1, <2>2, TableFacts
    <3>2. clients' \in Seq(Clients)
      BY <3>1 DEF TypeOK
    <3> QED
      BY <1>2, <1>5, <2>1, <2>2, <3>1, <3>2
  <2>3. CASE a # c
    <3>1. clients' = <<a, c>> /\ Range(<<a, c>>) = {a, c} /\ Range(clients) = {a}
      BY <1>3, <2>1, <2>3, TableFacts
    <3>2. <<a, c>> \in Seq(Clients)
      OBVIOUS
    <3> QED
      BY <1>3, <1>5, <2>1, <2>3, <3>1, <3>2
  <2> QED
    BY <2>2, <2>3
<1>8. CASE \E a, b \in Clients : a # b /\ clients = <<a, b>>
  <2>1. PICK a, b \in Clients : a # b /\ clients = <<a, b>>
    BY <1>8
  <2>2. Range(clients) = {a, b} /\ clients \in Seq(Clients)
    BY <2>1, TableFacts
  <2> QED
    BY <1>4, <1>6, <2>1, <2>2
<1> QED
  BY <1>1, <1>7, <1>8, TableForms DEF TypeOK

\* "shutdown" of a client in the table takes it, and nobody else, out.
LEMMA DisconnectEffect ==
    ASSUME TypeOK, TwoPlaces, NEW c \in Clients, Registered(c), Disconnect(c)
    PROVE  /\ clients' \in Seq(Clients) /\ down' \in [Clients -> Seq(Kinds)]
           /\ told' \in [Clients -> Kinds \cup {"nothing"}]
           /\ TwoPlaces' /\ ToldState'
           /\ Range(clients') = Range(clients) \ {c}
<1> DEFINE sends == [d \in Clients |->
                (IF clients' # <<>> /\ d = clients'[1] THEN <<"left">> ELSE <<>>)
                \o Only(c, "waiting")[d]]
<1>1. Sent(sends)
  BY DEF Disconnect
<1>2. \A d \in Clients : Only(c, "waiting")[d] = IF d = c THEN <<"waiting">> ELSE <<>>
  BY DEF Only
<1>3. /\ <<"left">> \in Seq(Kinds) /\ <<"waiting">> \in Seq(Kinds) /\ <<>> \in Seq(Kinds)
      /\ <<"left">> \o <<>> = <<"left">>
  BY DEF Kinds
<1>4. sends \in [Clients -> Seq(Kinds)]
  <2>1. \A d \in Clients : Only(c, "waiting")[d] \in Seq(Kinds)
    BY <1>2, <1>3
  <2>2. \A d \in Clients : sends[d] \in Seq(Kinds)
    BY <1>3, <2>1, ConcatProperties
  <2> QED
    BY <2>2
<1>5. \A d \in Clients : d # c /\ clients' # <<>> /\ d = clients'[1] => sends[d] = <<"left">>
  BY <1>2, <1>3
<1> HIDE DEF sends
<1>6. /\ down' \in [Clients -> Seq(Kinds)] /\ told' \in [Clients -> Kinds \cup {"nothing"}]
      /\ \A d \in Clients : d # c /\ clients' # <<>> /\ d = clients'[1] => told'[d] = "left"
  <2>1. <<"left">> # <<>> /\ Len(<<"left">>) = 1 /\ <<"left">>[1] = "left"
    OBVIOUS
  <2> QED
    BY <1>1, <1>4, <1>5, <2>1, SentEffect, ZenonT(40)
<1>7. CASE clients = <<>>
  BY <1>7, TableFacts DEF Registered
<1>8. ASSUME NEW a \in Clients, clients = <<a>>
      PROVE  clients' = <<>> /\ Range(clients) = {a} /\ a = c
  BY <1>8, TableFacts DEF Registered, Disconnect, Left
<1>9. ASSUME NEW a \in Clients, NEW b \in Clients, a # b, clients = <<a, b>>
      PROVE  /\ Range(clients) = {a, b} /\ c \in {a, b}
             /\ clients' = <<IF c = a THEN b ELSE a>>
  BY <1>9, TableFacts DEF Registered, Disconnect, Left
<1>10. CASE \E a \in Clients : clients = <<a>>
  <2>1. clients' = <<>> /\ Range(clients) = {c}
    BY <1>8, <1>10
  <2>2. TwoPlaces' /\ ToldState'
    BY <2>1, TableFacts DEF TwoPlaces, ToldState
  <2> QED
    BY <1>6, <2>1, <2>2, TableFacts
<1>11. CASE \E a, b \in Clients : a # b /\ clients = <<a, b>>
  <2>1. PICK d \in Clients : d # c /\ clients' = <<d>> /\ Range(clients) \ {c} = {d}
    BY <1>9, <1>11
  <2>2. clients'[1] = d /\ clients' # <<>> /\ Len(clients') = 1 /\ clients' \in Seq(Clients)
    BY <2>1
  <2>3. told'[d] = "left"
    BY <1>6, <2>1, <2>2
  <2> QED
    BY <1>6, <2>1, <2>2, <2>3, TableFacts DEF TwoPlaces, ToldState
<1> QED
  BY <1>7, <1>10, <1>11, TableForms DEF TypeOK

\* What the handling of one datagram does: its sender c gets into the table or out of it, or
\* is one that has lapsed.
Handles(k, c) ==
    /\ c = up[k].from /\ up' = RemoveAt(up, k)
    /\ clients' \in Seq(Clients) /\ down' \in [Clients -> Seq(Kinds)]
    /\ told' \in [Clients -> Kinds \cup {"nothing"}]
    /\ TwoPlaces' /\ ToldState'
    /\ \A d \in Clients : d # c => (Known(d)' <=> Known(d))
    /\ \/ lapsed' = lapsed \cup {c}
       \/ /\ lapsed' = lapsed
          /\ \A j \in 1 .. k - 1 : up[j].from # c
          /\ Known(c)' <=> ~(Shutdown(c, k) /\ Known(c))

LEMMA ReceiveEffect ==
    ASSUME TypeOK, TwoPlaces, ToldState, Receive
    PROVE  \E k \in DOMAIN up, c \in Clients : Handles(k, c)
<1>1. PICK k \in DOMAIN up :
        /\ up' = RemoveAt(up, k)
        /\ IF up[k].text = "shutdown" /\ Registered(up[k].from)
           THEN Disconnect(up[k].from) ELSE Talk(up[k].from)
        /\ lapsed' = IF (\E j \in 1 .. k - 1 : up[j].from = up[k].from)
                        \/ told'[up[k].from] = "full"
                     THEN lapsed \cup {up[k].from} ELSE lapsed
  BY DEF Receive
<1>2. PICK c \in Clients : c = up[k].from
  <2>1. up[k].from \in Clients
    BY Senders
  <2> QED
    BY <2>1
<1>3. CASE Shutdown(c, k) /\ Registered(c)
  <2>1. Disconnect(c)
    BY <1>1, <1>2, <1>3 DEF Shutdown
  <2>2. /\ clients' \in Seq(Clients) /\ down' \in [Clients -> Seq(Kinds)]
        /\ told' \in [Clients -> Kinds \cup {"nothing"}] /\ TwoPlaces' /\ ToldState'
        /\ Range(clients') = Range(clients) \ {c}
    BY <1>3, <2>1, DisconnectEffect
  <2> QED
    BY <1>1, <1>2, <1>3, <2>2 DEF Handles, Known, Registered
<1>4. CASE ~(Shutdown(c, k) /\ Registered(c))
  <2>1. Talk(c)
    BY <1>1, <1>2, <1>4 DEF Shutdown
  <2>2. /\ clients' \in Seq(Clients) /\ down' \in [Clients -> Seq(Kinds)]
        /\ told' \in [Clients -> Kinds \cup {"nothing"}] /\ TwoPlaces' /\ ToldState'
        /\ \A d \in Clients : d # c => (d \in Range(clients') <=> d \in Range(clients))
        /\ c \in Range(clients') \/ told'[c] = "full"
    BY <2>1, TalkEffect
  <2> QED
    BY <1>1, <1>2, <1>4, <2>2 DEF Handles, Known, Registered
<1> QED
  BY <1>3, <1>4

-----------------------------------------------------------------------------
(* Types and the table.                                                      *)

\* A datagram is sent, or nobody is there to take it.
LEMMA SubmitEffect ==
    ASSUME TypeOK, NEW c \in Clients, NEW text \in Texts, Submit(c, text)
    PROVE  /\ up' \in Seq([from : Clients, text : Texts])
           /\ server = "on" => /\ Len(up') = Len(up) + 1
                               /\ \A i \in DOMAIN up : up'[i] = up[i]
                               /\ up'[Len(up) + 1] = [from |-> c, text |-> text]
           /\ server # "on" => up' = up
<1>1. up \in Seq([from : Clients, text : Texts])
  BY DEF TypeOK, Texts
<1>2. [from |-> c, text |-> text] \in [from : Clients, text : Texts]
  OBVIOUS
<1> DEFINE d == [from |-> c, text |-> text]
<1>3. /\ Append(up, d) \in Seq([from : Clients, text : Texts])
      /\ Len(Append(up, d)) = Len(up) + 1
      /\ \A i \in 1 .. Len(up) : Append(up, d)[i] = up[i]
      /\ Append(up, d)[Len(up) + 1] = d
  BY <1>1, <1>2, AppendProperties
<1>4. up' = IF server = "on" THEN Append(up, d) ELSE up
  BY DEF Submit
<1>5. DOMAIN up = 1 .. Len(up)
  BY <1>1
<1> HIDE DEF d
<1>6. CASE server = "on"
  BY <1>3, <1>4, <1>5, <1>6 DEF d
<1>7. CASE server # "on"
  BY <1>1, <1>4, <1>7
<1> QED
  BY <1>6, <1>7

LEMMA TypeStep == TypeOK /\ TwoPlaces /\ ToldState /\ [Next]_vars => TypeOK'
<1> SUFFICES ASSUME TypeOK, TwoPlaces, ToldState, [Next]_vars PROVE TypeOK'
  OBVIOUS
<1>1. up \in Seq([from : Clients, text : Texts]) /\ lines \in Nat /\ copies \in Nat /\ starts \in Nat
  BY DEF TypeOK, Texts
<1>2. {MaxLines, MaxCopies, MaxStarts} \subseteq Nat
  BY UdpAssumption
<1> USE <1>1, <1>2 DEF TypeOK, clientVars, Kinds
<1>3. CASE ServerStart
  BY <1>3, EmptySeq DEF ServerStart
<1>4. CASE Receive
  <2>1. PICK k \in DOMAIN up, c \in Clients : Handles(k, c)
    BY <1>4, ReceiveEffect
  <2>2. up' \in Seq([from : Clients, text : Texts])
    BY <1>1, <2>1, RemoveAtElements DEF Handles
  <2>3. lapsed' \subseteq Clients
    BY <2>1 DEF Handles
  <2>4. UNCHANGED <<server, pc, listener, heard, lines, copies, starts>>
    BY <1>4 DEF Receive
  <2> QED
    BY <2>1, <2>2, <2>3, <2>4 DEF Handles, Texts
<1>5. CASE Lose
  <2>1. PICK k \in DOMAIN up : up' = RemoveAt(up, k) /\ lapsed' = lapsed \cup {up[k].from}
    BY <1>5 DEF Lose
  <2>2. up' \in Seq([from : Clients, text : Texts])
    BY <1>1, <2>1, RemoveAtElements
  <2>3. lapsed' \subseteq Clients
    <3>1. up[k].from \in Clients
      BY Senders
    <3> QED
      BY <2>1, <3>1
  <2> QED
    BY <1>5, <2>2, <2>3 DEF Lose, Texts
<1>6. CASE Duplicate
  <2>1. PICK k \in DOMAIN up : up' = InsertAt(up, k, up[k]) /\ lapsed' = lapsed \cup {up[k].from}
    BY <1>6 DEF Duplicate
  <2>2. up' \in Seq([from : Clients, text : Texts])
    BY <1>1, <2>1, RepeatElements
  <2>3. lapsed' \subseteq Clients
    <3>1. up[k].from \in Clients
      BY Senders
    <3> QED
      BY <2>1, <3>1
  <2> QED
    BY <1>6, <2>2, <2>3, SMTT(30) DEF Duplicate, Texts
<1>7. CASE ServerDies
  BY <1>7, EmptySeq DEF ServerDies
<1>8. ASSUME NEW c \in Clients, Connect(c) PROVE TypeOK'
  <2>1. up' \in Seq([from : Clients, text : Texts])
    BY <1>8, SubmitEffect DEF Connect, Texts
  <2> QED
    BY <1>8, <2>1 DEF Connect, Texts
<1>9. ASSUME NEW c \in Clients, Say(c) PROVE TypeOK'
  <2>1. up' \in Seq([from : Clients, text : Texts])
    BY <1>9, SubmitEffect DEF Say, Texts
  <2>2. pc' \in [Clients -> {"off", "input", "leave", "done"}]
    BY <1>9 DEF Say
  <2>3. lines' \in 0 .. MaxLines
    BY <1>9 DEF Say
  <2> QED
    BY <1>9, <2>1, <2>2, <2>3 DEF Say, Texts
<1>10. ASSUME NEW c \in Clients, EndOfInput(c) PROVE TypeOK'
  BY <1>10 DEF EndOfInput
<1>11. ASSUME NEW c \in Clients, Leave(c) PROVE TypeOK'
  BY <1>11, EmptySeq DEF Leave
<1>12. ASSUME NEW c \in Clients, Listen(c) PROVE TypeOK'
  <2>1. PICK k \in DOMAIN down[c] : /\ heard' = [heard EXCEPT ![c] = down[c][k]]
                                    /\ down' = [down EXCEPT ![c] = RemoveAt(down[c], k)]
    BY <1>12 DEF Listen
  <2>2. down[c] \in Seq(Kinds) /\ down[c][k] \in Kinds
    OBVIOUS
  <2>3. RemoveAt(down[c], k) \in Seq(Kinds)
    BY <2>2, RemoveAtElements
  <2> QED
    BY <1>12, <2>1, <2>2, <2>3 DEF Listen
<1>13. ASSUME NEW c \in Clients, ClientDies(c) PROVE TypeOK'
  BY <1>13 DEF ClientDies
<1>14. CASE UNCHANGED vars
  BY <1>14 DEF vars
<1> QED
  BY <1>3, <1>4, <1>5, <1>6, <1>7, <1>8, <1>9, <1>10, <1>11, <1>12, <1>13, <1>14 DEF Next

\* Whatever is repeated, reordered or lost, only the handling of a datagram and the start
\* and end of the server change the table and what was told.
LEMMA TableStep ==
    TypeOK /\ TwoPlaces /\ ToldState /\ OffEmpty /\ [Next]_vars
        => TwoPlaces' /\ ToldState' /\ OffEmpty'
<1> SUFFICES ASSUME TypeOK, TwoPlaces, ToldState, OffEmpty, [Next]_vars
             PROVE  TwoPlaces' /\ ToldState' /\ OffEmpty'
  OBVIOUS
<1>1. CASE Receive
  <2>1. server = "on" /\ server' = server
    BY <1>1 DEF Receive
  <2> QED
    BY <1>1, <2>1, ReceiveEffect DEF Handles, OffEmpty
<1>2. CASE ServerStart \/ ServerDies
  BY <1>2, TableFacts DEF ServerStart, ServerDies, TwoPlaces, ToldState, OffEmpty
<1>3. CASE UNCHANGED <<clients, told, server>>
  BY <1>3 DEF TwoPlaces, ToldState, OffEmpty
<1>4. CASE Lose \/ Duplicate \/ UNCHANGED vars
  BY <1>3, <1>4 DEF Lose, Duplicate, vars
<1>5. ASSUME NEW c \in Clients,
             Connect(c) \/ Say(c) \/ EndOfInput(c) \/ Leave(c) \/ Listen(c) \/ ClientDies(c)
      PROVE  UNCHANGED <<clients, told, server>>
  BY <1>5 DEF Connect, Say, EndOfInput, Leave, Listen, ClientDies
<1> QED
  BY <1>1, <1>2, <1>3, <1>4, <1>5 DEF Next

-----------------------------------------------------------------------------
(* The courses of the clients.                                               *)

\* The datagrams of c are as they were and in the same order: m says where each was.
KeptAt(c, m) ==
    /\ \A i \in FromOf(c)' : m[i] \in FromOf(c) /\ up'[i].text = up[m[i]].text
    /\ \A i, j \in FromOf(c)' : i < j <=> m[i] < m[j]
    /\ \A k \in FromOf(c) : \E i \in FromOf(c)' : m[i] = k

LEMMA FromOfType ==
    ASSUME TypeOK, NEW c
    PROVE  FromOf(c) \subseteq Nat
BY DEF TypeOK, FromOf

\* What happens to the others does not concern a client.
LEMMA CourseKept ==
    ASSUME NEW c \in Clients, NEW m, KeptAt(c, m), Course(c), TypeOK, TypeOK',
           pc'[c] = pc[c], Known(c)' <=> Known(c)
    PROVE  Course(c)'
<1>1. FromOf(c) \subseteq Nat /\ FromOf(c)' \subseteq Nat
  <2>1. (TypeOK => FromOf(c) \subseteq Nat)'
    BY FromOfType, PTL
  <2> QED
    BY <2>1, FromOfType
<1>2. /\ \A i \in FromOf(c)' : m[i] \in FromOf(c) /\ (Shutdown(c, i)' <=> Shutdown(c, m[i]))
      /\ \A i, j \in FromOf(c)' : i < j <=> m[i] < m[j]
      /\ \A k \in FromOf(c) : \E i \in FromOf(c)' : m[i] = k
  BY DEF KeptAt, Shutdown, FromOf
<1>3. FromOf(c)' = {} <=> FromOf(c) = {}
  BY <1>2
<1>4. pc'[c] = "off" => ~Known(c)' /\ FromOf(c)' = {}
  BY <1>3 DEF Course
<1>5. pc'[c] = "input" => /\ Known(c)' \/ FromOf(c)' # {}
                          /\ \A k \in FromOf(c)' : ~Shutdown(c, k)'
  BY <1>2, <1>3 DEF Course
<1>6. pc'[c] \in {"leave", "done"} /\ (Known(c)' \/ FromOf(c)' # {}) =>
          \E k \in FromOf(c)' : Shutdown(c, k)'
  BY <1>2, <1>3 DEF Course
<1>7. ASSUME NEW k \in FromOf(c)', Shutdown(c, k)'
      PROVE  /\ \A j \in FromOf(c)' : j <= k
             /\ Known(c)' \/ \E j \in FromOf(c)' : j < k
  <2>1. m[k] \in FromOf(c) /\ Shutdown(c, m[k])
    BY <1>2, <1>7
  <2>2. ASSUME NEW j \in FromOf(c)' PROVE j <= k
    <3>1. m[j] \in FromOf(c) /\ m[j] <= m[k]
      BY <1>2, <2>1 DEF Course
    <3>2. ~(m[k] < m[j])
      BY <1>1, <2>1, <3>1
    <3> QED
      BY <1>1, <1>2, <3>2
  <2>3. ASSUME ~Known(c)' PROVE \E j \in FromOf(c)' : j < k
    <3>1. PICK i \in FromOf(c) : i < m[k]
      BY <2>1, <2>3 DEF Course
    <3> QED
      BY <1>2, <3>1
  <2> QED
    BY <2>2, <2>3
<1> QED
  BY <1>4, <1>5, <1>6, <1>7 DEF Course

\* Where the datagrams are when one is taken out.
LEMMA RemovedMap ==
    ASSUME TypeOK, NEW k \in DOMAIN up, up' = RemoveAt(up, k)
    PROVE  \E m : /\ \A i \in DOMAIN up' : m[i] \in DOMAIN up \ {k} /\ up'[i] = up[m[i]]
                  /\ \A i, j \in DOMAIN up' : i < j <=> m[i] < m[j]
                  /\ \A j \in DOMAIN up \ {k} : \E i \in DOMAIN up' : m[i] = j
<1>1. /\ DOMAIN up = 1 .. Len(up) /\ Len(up) \in Nat /\ k \in 1 .. Len(up)
      /\ DOMAIN up' = 1 .. Len(up) - 1
      /\ \A i \in 1 .. Len(up) - 1 : up'[i] = up[IF i < k THEN i ELSE i + 1]
  <2>1. up \in Seq([from : Clients, text : Texts])
    BY DEF TypeOK, Texts
  <2>2. /\ up' \in Seq([from : Clients, text : Texts]) /\ Len(up') = Len(up) - 1
        /\ \A i \in 1 .. Len(up) - 1 : up'[i] = up[IF i < k THEN i ELSE i + 1]
    BY <2>1, RemoveAtElements
  <2> QED
    BY <2>1, <2>2, LenProperties
<1> DEFINE m == [i \in DOMAIN up' |-> IF i < k THEN i ELSE i + 1]
<1>2. \A i \in DOMAIN up' : m[i] \in DOMAIN up \ {k} /\ up'[i] = up[m[i]]
  BY <1>1
<1>3. \A i, j \in DOMAIN up' : i < j <=> m[i] < m[j]
  BY <1>1
<1>4. ASSUME NEW j \in DOMAIN up \ {k} PROVE \E i \in DOMAIN up' : m[i] = j
  <2>1. CASE j < k
    <3>1. j \in 1 .. Len(up) - 1
      BY <1>1, <2>1
    <3> QED
      BY <1>1, <2>1, <3>1
  <2>2. CASE j > k
    <3>1. j - 1 \in 1 .. Len(up) - 1 /\ ~(j - 1 < k) /\ (j - 1) + 1 = j
      BY <1>1, <2>2
    <3> QED
      BY <1>1, <3>1
  <2>3. j < k \/ j > k
    BY <1>1
  <2> QED
    BY <2>1, <2>2, <2>3
<1> HIDE DEF m
<1> QED
  BY <1>2, <1>3, <1>4

\* One datagram of another client is taken out, repeated, or sent; or nothing happens.
LEMMA TakenOut ==
    ASSUME TypeOK, NEW k \in DOMAIN up, up' = RemoveAt(up, k), NEW c, up[k].from # c
    PROVE  \E m : KeptAt(c, m)
<1>1. PICK m : /\ \A i \in DOMAIN up' : m[i] \in DOMAIN up \ {k} /\ up'[i] = up[m[i]]
               /\ \A i, j \in DOMAIN up' : i < j <=> m[i] < m[j]
               /\ \A j \in DOMAIN up \ {k} : \E i \in DOMAIN up' : m[i] = j
  BY RemovedMap
<1>2. KeptAt(c, m)
  BY <1>1 DEF KeptAt, FromOf
<1> QED
  BY <1>2

LEMMA Repeated ==
    ASSUME TypeOK, NEW k \in DOMAIN up, up' = InsertAt(up, k, up[k]), NEW c, up[k].from # c
    PROVE  \E m : KeptAt(c, m)
<1>1. /\ DOMAIN up = 1 .. Len(up) /\ Len(up) \in Nat /\ k \in 1 .. Len(up)
      /\ DOMAIN up' = 1 .. Len(up) + 1
      /\ \A i \in 1 .. Len(up) + 1 : up'[i] = up[IF i <= k THEN i ELSE i - 1]
  <2>1. up \in Seq([from : Clients, text : Texts])
    BY DEF TypeOK, Texts
  <2>2. /\ up' \in Seq([from : Clients, text : Texts]) /\ Len(up') = Len(up) + 1
        /\ \A i \in 1 .. Len(up) + 1 : up'[i] = up[IF i <= k THEN i ELSE i - 1]
    BY <2>1, RepeatElements
  <2> QED
    BY <2>1, <2>2, LenProperties
<1> DEFINE m == [i \in DOMAIN up' |-> IF i <= k THEN i ELSE i - 1]
<1>2. \A i \in FromOf(c)' : /\ m[i] \in FromOf(c) /\ up'[i].text = up[m[i]].text
                            /\ i # k /\ i # k + 1
  <2> TAKE i \in FromOf(c)'
  <2>1. i \in 1 .. Len(up) + 1 /\ up'[i].from = c /\ up'[i] = up[m[i]]
    BY <1>1 DEF FromOf
  <2>2. m[i] # k
    BY <2>1
  <2>3. i # k /\ i # k + 1
    BY <1>1, <2>1, <2>2
  <2>4. m[i] \in 1 .. Len(up)
    BY <1>1, <2>1, <2>3
  <2> QED
    BY <1>1, <2>1, <2>3, <2>4 DEF FromOf
<1>3. \A i, j \in FromOf(c)' : i < j <=> m[i] < m[j]
  <2>1. \A i \in FromOf(c)' : /\ i \in Nat /\ i # k /\ i # k + 1
                              /\ m[i] = IF i <= k THEN i ELSE i - 1
    BY <1>1, <1>2 DEF FromOf
  <2>2. k \in Nat
    BY <1>1
  <2> HIDE DEF m
  <2>3. ASSUME NEW i \in FromOf(c)', NEW j \in FromOf(c)' PROVE i < j <=> m[i] < m[j]
    BY <2>1, <2>2
  <2> QED
    BY <2>3
<1>4. ASSUME NEW j \in FromOf(c) PROVE \E i \in FromOf(c)' : m[i] = j
  <2>1. j \in 1 .. Len(up) /\ up[j].from = c /\ j # k
    BY <1>1 DEF FromOf
  <2>2. CASE j < k
    <3>1. j \in 1 .. Len(up) + 1 /\ j <= k
      BY <1>1, <2>1, <2>2
    <3> QED
      BY <1>1, <2>1, <3>1 DEF FromOf
  <2>3. CASE j > k
    <3>1. j + 1 \in 1 .. Len(up) + 1 /\ ~(j + 1 <= k) /\ (j + 1) - 1 = j
      BY <1>1, <2>1, <2>3
    <3>2. up'[j + 1] = up[j]
      BY <1>1, <3>1
    <3> QED
      BY <1>1, <2>1, <3>1, <3>2 DEF FromOf
  <2>4. j < k \/ j > k
    BY <1>1, <2>1
  <2> QED
    BY <2>2, <2>3, <2>4
<1> HIDE DEF m
<1> QED
  BY <1>2, <1>3, <1>4 DEF KeptAt

LEMMA Unmoved ==
    ASSUME TypeOK, NEW c, UNCHANGED up \/ \E d \in Clients \ {c}, text \in Texts : Submit(d, text)
    PROVE  \E m : KeptAt(c, m)
<1>1. FromOf(c)' = FromOf(c) /\ \A i \in FromOf(c) : up'[i] = up[i]
  <2>1. CASE UNCHANGED up
    BY <2>1 DEF FromOf
  <2>2. ASSUME NEW d \in Clients \ {c}, NEW text \in Texts, Submit(d, text), server = "on"
        PROVE  FromOf(c)' = FromOf(c) /\ \A i \in FromOf(c) : up'[i] = up[i]
    <3>1. /\ DOMAIN up' = DOMAIN up \cup {Len(up) + 1}
          /\ \A i \in DOMAIN up : up'[i] = up[i]
          /\ up'[Len(up) + 1].from # c
      <4>1. up \in Seq([from : Clients, text : Texts])
        BY DEF TypeOK, Texts
      <4>2. /\ up' \in Seq([from : Clients, text : Texts]) /\ Len(up') = Len(up) + 1
            /\ up'[Len(up) + 1] = [from |-> d, text |-> text]
            /\ \A i \in DOMAIN up : up'[i] = up[i]
        BY <2>2, SubmitEffect
      <4>3. DOMAIN up = 1 .. Len(up) /\ DOMAIN up' = 1 .. Len(up) + 1 /\ Len(up) \in Nat
        BY <4>1, <4>2, LenProperties
      <4>4. DOMAIN up' = DOMAIN up \cup {Len(up) + 1}
        BY <4>3
      <4> QED
        BY <4>2, <4>4
    <3> QED
      BY <3>1 DEF FromOf
  <2>3. ASSUME NEW d \in Clients \ {c}, NEW text \in Texts, Submit(d, text), server # "on"
        PROVE  UNCHANGED up
    BY <2>3, SubmitEffect
  <2> QED
    BY <2>1, <2>2, <2>3
<1> DEFINE m == [i \in DOMAIN up |-> i]
<1>2. \A i \in FromOf(c) : m[i] = i
  BY DEF FromOf
<1> HIDE DEF m
<1>3. KeptAt(c, m)
  BY <1>1, <1>2 DEF KeptAt
<1> QED
  BY <1>3

\* The server handles the first datagram of a client: its "shutdown" is the only one left,
\* and any other puts or keeps it in the table.
LEMMA CourseHandled ==
    ASSUME TypeOK, TypeOK', NEW k \in DOMAIN up, NEW c \in Clients, Handles(k, c), Course(c),
           c \notin lapsed', UNCHANGED pc
    PROVE  Course(c)'
<1>1. PICK m : /\ \A i \in DOMAIN up' : m[i] \in DOMAIN up \ {k} /\ up'[i] = up[m[i]]
               /\ \A i, j \in DOMAIN up' : i < j <=> m[i] < m[j]
               /\ \A j \in DOMAIN up \ {k} : \E i \in DOMAIN up' : m[i] = j
  BY RemovedMap DEF Handles
<1>2. /\ \A i \in FromOf(c)' : m[i] \in FromOf(c) \ {k} /\ (Shutdown(c, i)' <=> Shutdown(c, m[i]))
      /\ \A i, j \in FromOf(c)' : i < j <=> m[i] < m[j]
      /\ \A j \in FromOf(c) \ {k} : \E i \in FromOf(c)' : m[i] = j
  BY <1>1 DEF FromOf, Shutdown
<1>3. FromOf(c) \subseteq Nat /\ FromOf(c)' \subseteq Nat
  <2>1. (TypeOK => FromOf(c) \subseteq Nat)'
    BY FromOfType, PTL
  <2> QED
    BY <2>1, FromOfType
<1>4. /\ k \in FromOf(c) /\ \A j \in FromOf(c) : k <= j
      /\ Known(c)' <=> ~(Shutdown(c, k) /\ Known(c))
  <2>1. k \in FromOf(c) /\ \A j \in 1 .. k - 1 : up[j].from # c
    BY DEF Handles, FromOf
  <2>2. \A j \in FromOf(c) : j \in Nat \ {0}
    <3>1. DOMAIN up = 1 .. Len(up) /\ Len(up) \in Nat
      BY LenProperties DEF TypeOK
    <3> QED
      BY <3>1 DEF FromOf
  <2>3. ASSUME NEW j \in FromOf(c) PROVE k <= j
    <3>1. up[j].from = c
      BY DEF FromOf
    <3>2. j \notin 1 .. k - 1
      BY <2>1, <3>1
    <3> QED
      BY <1>3, <2>1, <2>2, <3>2
  <2> QED
    BY <2>1, <2>3 DEF Handles
<1>5. pc[c] \in {"input", "leave", "done"}
  BY <1>4 DEF TypeOK, Course
<1>6. CASE Shutdown(c, k)
  <2>1. /\ \A j \in FromOf(c) : j <= k
        /\ Known(c) \/ \E j \in FromOf(c) : j < k
    BY <1>4, <1>6 DEF Course
  <2>2. Known(c)
    BY <1>3, <1>4, <2>1
  <2>3. \A j \in FromOf(c) : j = k
    BY <1>3, <1>4, <2>1
  <2>4. FromOf(c)' = {} /\ ~Known(c)'
    BY <1>2, <1>4, <1>6, <2>2, <2>3
  <2>5. pc[c] # "input"
    BY <1>4, <1>6 DEF Course
  <2> QED
    BY <2>4, <2>5 DEF Course
<1>7. CASE ~Shutdown(c, k)
  <2>1. Known(c)'
    BY <1>4, <1>7
  <2>2. pc[c] = "input" => \A i \in FromOf(c)' : ~Shutdown(c, i)'
    BY <1>2 DEF Course
  <2>3. ASSUME pc[c] \in {"leave", "done"} PROVE \E i \in FromOf(c)' : Shutdown(c, i)'
    <3>1. PICK j \in FromOf(c) : Shutdown(c, j)
      BY <1>4, <2>3 DEF Course
    <3> QED
      BY <1>2, <1>7, <3>1
  <2>4. ASSUME NEW i \in FromOf(c)', Shutdown(c, i)', NEW j \in FromOf(c)' PROVE j <= i
    <3>1. m[i] \in FromOf(c) /\ m[j] \in FromOf(c) /\ m[j] <= m[i]
      BY <1>2, <2>4 DEF Course
    <3>2. ~(m[i] < m[j])
      BY <1>3, <3>1
    <3> QED
      BY <1>2, <1>3, <3>2
  <2> QED
    BY <1>5, <2>1, <2>2, <2>3, <2>4 DEF Course
<1> QED
  BY <1>6, <1>7

\* A client sends its first datagram, a line, or "shutdown".
LEMMA CourseSent ==
    ASSUME TypeOK, NEW c \in Clients, NEW text \in Texts, Submit(c, text), server = "on",
           Course(c), UNCHANGED clients,
           \/ pc[c] = "off" /\ text # "shutdown" /\ pc'[c] = "input"
           \/ pc[c] = "input" /\ pc'[c] = IF text = "shutdown" THEN "leave" ELSE "input"
    PROVE  Course(c)'
<1>0. PICK n \in Nat : n = Len(up) + 1
  <2>1. Len(up) + 1 \in Nat
    BY LenProperties DEF TypeOK
  <2> QED
    BY <2>1
<1>1. /\ DOMAIN up = 1 .. Len(up) /\ Len(up) \in Nat /\ DOMAIN up' = 1 .. n
      /\ \A i \in DOMAIN up : up'[i] = up[i]
      /\ up'[n] = [from |-> c, text |-> text]
  <2>1. up \in Seq([from : Clients, text : Texts])
    BY DEF TypeOK, Texts
  <2>2. /\ up' \in Seq([from : Clients, text : Texts]) /\ Len(up') = Len(up) + 1
        /\ up'[Len(up) + 1] = [from |-> c, text |-> text]
        /\ \A i \in DOMAIN up : up'[i] = up[i]
    BY SubmitEffect
  <2> QED
    BY <1>0, <2>1, <2>2, LenProperties
<1>2. /\ FromOf(c)' = FromOf(c) \cup {n}
      /\ \A i \in FromOf(c) : i \in Nat /\ i < n /\ (Shutdown(c, i)' <=> Shutdown(c, i))
      /\ Shutdown(c, n)' <=> text = "shutdown"
  <2>1. n \in DOMAIN up' /\ up'[n].from = c /\ up'[n].text = text
    <3>1. n \in 1 .. n
      BY <1>0
    <3> QED
      BY <1>1, <3>1
  <2>2. \A i \in DOMAIN up' : i \in DOMAIN up \/ i = n
    BY <1>0, <1>1
  <2>3. \A i \in DOMAIN up : i \in DOMAIN up' /\ i < n /\ i \in Nat
    BY <1>0, <1>1
  <2>4. FromOf(c)' = FromOf(c) \cup {n}
    BY <1>1, <2>1, <2>2, <2>3 DEF FromOf
  <2>5. \A i \in FromOf(c) : i \in Nat /\ i < n /\ (Shutdown(c, i)' <=> Shutdown(c, i))
    BY <1>1, <2>3 DEF FromOf, Shutdown
  <2> QED
    BY <2>1, <2>4, <2>5 DEF Shutdown
<1>3. Known(c)' <=> Known(c)
  BY DEF Known
<1>5. \A i \in FromOf(c) : ~Shutdown(c, i)
  BY DEF Course
<1>6. ASSUME text = "shutdown" PROVE Known(c) \/ \E j \in FromOf(c)' : j < n
  BY <1>2, <1>6 DEF Course
<1>7. ASSUME NEW i \in FromOf(c)', Shutdown(c, i)'
      PROVE  /\ i = n /\ text = "shutdown"
             /\ \A j \in FromOf(c)' : j <= i
  BY <1>2, <1>5, <1>7
<1>8. pc'[c] = "input" => \A i \in FromOf(c)' : ~Shutdown(c, i)'
  BY <1>2, <1>5
<1>9. pc'[c] = "leave" => Shutdown(c, n)' /\ n \in FromOf(c)'
  BY <1>2
<1>10. FromOf(c)' # {} /\ pc'[c] \in {"input", "leave"}
  BY <1>2
<1> QED
  BY <1>3, <1>6, <1>7, <1>8, <1>9, <1>10 DEF Course

LEMMA CoursesStep ==
    TypeOK /\ TypeOK' /\ TwoPlaces /\ ToldState /\ OffEmpty /\ Courses /\ [Next]_vars => Courses'
<1> SUFFICES ASSUME TypeOK, TypeOK', TwoPlaces, ToldState, OffEmpty, Courses, [Next]_vars,
                    NEW c \in Clients, c \notin lapsed'
             PROVE  Course(c)'
  BY DEF Courses
<1>1. pc \in [Clients -> {"off", "input", "leave", "done"}] /\ server \in {"off", "on"}
  BY DEF TypeOK
<1>2. c \notin lapsed => Course(c)
  BY DEF Courses
<1>3. ASSUME UNCHANGED <<clients, lapsed>>, pc'[c] = pc[c], \E m : KeptAt(c, m) PROVE Course(c)'
  BY <1>2, <1>3, CourseKept DEF Known
<1>4. CASE ServerStart
  <2>1. clients = <<>> /\ clients' = <<>>
    BY <1>4 DEF ServerStart, OffEmpty
  <2>2. \E m : KeptAt(c, m)
    BY <1>4, Unmoved DEF ServerStart
  <2> QED
    BY <1>3, <1>4, <2>1, <2>2 DEF ServerStart, clientVars
<1>5. CASE Receive
  <2>1. PICK k \in DOMAIN up, d \in Clients : Handles(k, d)
    BY <1>5, ReceiveEffect
  <2>2. UNCHANGED pc
    BY <1>5 DEF Receive, clientVars
  <2>3. c \notin lapsed
    BY <2>1 DEF Handles
  <2>4. CASE d = c
    BY <1>2, <2>1, <2>2, <2>3, <2>4, CourseHandled
  <2>5. CASE d # c
    <3>1. up' = RemoveAt(up, k) /\ up[k].from # c /\ (Known(c)' <=> Known(c))
      BY <2>1, <2>5 DEF Handles
    <3>2. PICK m : KeptAt(c, m)
      BY <3>1, TakenOut
    <3> QED
      BY <1>2, <2>2, <2>3, <3>1, <3>2, CourseKept
  <2> QED
    BY <2>4, <2>5
<1>6. CASE Lose
  <2>1. PICK k \in DOMAIN up : up' = RemoveAt(up, k) /\ lapsed' = lapsed \cup {up[k].from}
    BY <1>6 DEF Lose
  <2>2. PICK m : KeptAt(c, m)
    BY <2>1, TakenOut
  <2> QED
    BY <1>2, <1>6, <2>1, <2>2, CourseKept DEF Lose, clientVars, Known
<1>7. CASE Duplicate
  <2>1. PICK k \in DOMAIN up : up' = InsertAt(up, k, up[k]) /\ lapsed' = lapsed \cup {up[k].from}
    BY <1>7 DEF Duplicate
  <2>2. PICK m : KeptAt(c, m)
    BY <2>1, Repeated
  <2> QED
    BY <1>2, <1>7, <2>1, <2>2, CourseKept DEF Duplicate, clientVars, Known
<1>8. CASE ServerDies
  BY <1>8 DEF ServerDies
<1>9. ASSUME NEW d \in Clients, Connect(d) PROVE Course(c)'
  <2>1. UNCHANGED clients /\ Submit(d, "CONNECTED") /\ "CONNECTED" \in Texts /\ "CONNECTED" # "shutdown"
    BY <1>9 DEF Connect, Texts
  <2>2. CASE d = c
    <3>1. lapsed' = lapsed /\ server = "on" /\ pc[c] = "off" /\ pc'[c] = "input"
      BY <1>1, <1>9, <2>2 DEF Connect
    <3> QED
      BY <1>2, <2>1, <2>2, <3>1, CourseSent
  <2>3. CASE d # c
    <3>1. PICK m : KeptAt(c, m)
      BY <2>1, <2>3, Unmoved
    <3>2. c \notin lapsed /\ pc'[c] = pc[c]
      BY <1>1, <1>9, <2>3 DEF Connect
    <3> QED
      BY <1>2, <2>1, <3>1, <3>2, CourseKept DEF Known
  <2> QED
    BY <2>2, <2>3
<1>10. ASSUME NEW d \in Clients, Say(d) PROVE Course(c)'
  <2>1. PICK l \in Lines : /\ Submit(d, l)
                           /\ pc' = [pc EXCEPT ![d] = IF l = "shutdown" THEN "leave" ELSE "input"]
    BY <1>10 DEF Say
  <2>2. UNCHANGED clients /\ l \in Texts
    BY <1>10 DEF Say, Texts
  <2>3. CASE d = c
    <3>1. lapsed' = lapsed /\ server = "on" /\ pc[c] = "input"
      BY <1>1, <1>10, <2>3 DEF Say
    <3>2. pc'[c] = IF l = "shutdown" THEN "leave" ELSE "input"
      BY <1>1, <2>1, <2>3
    <3> QED
      BY <1>2, <2>1, <2>2, <2>3, <3>1, <3>2, CourseSent
  <2>4. CASE d # c
    <3>1. PICK m : KeptAt(c, m)
      BY <2>1, <2>2, <2>4, Unmoved
    <3>2. c \notin lapsed /\ pc'[c] = pc[c]
      BY <1>1, <1>10, <2>1, <2>4 DEF Say
    <3> QED
      BY <1>2, <2>2, <3>1, <3>2, CourseKept DEF Known
  <2> QED
    BY <2>3, <2>4
<1>11. ASSUME NEW d \in Clients, EndOfInput(d) \/ ClientDies(d) PROVE Course(c)'
  <2>1. UNCHANGED <<up, clients>> /\ lapsed' = lapsed \cup {d}
    BY <1>11 DEF EndOfInput, ClientDies
  <2>2. pc'[c] = pc[c]
    BY <1>1, <1>11, <2>1 DEF EndOfInput, ClientDies
  <2>3. PICK m : KeptAt(c, m)
    BY <2>1, Unmoved
  <2> QED
    BY <1>2, <2>1, <2>2, <2>3, CourseKept DEF Known
<1>12. ASSUME NEW d \in Clients, Leave(d) PROVE Course(c)'
  <2>1. UNCHANGED <<up, clients, lapsed>> /\ pc[d] = "leave" /\ pc' = [pc EXCEPT ![d] = "done"]
    BY <1>12 DEF Leave
  <2>2. CASE d # c
    <3>1. \E m : KeptAt(c, m)
      BY <2>1, Unmoved
    <3> QED
      BY <1>1, <1>3, <2>1, <2>2, <3>1
  <2>3. CASE d = c
    BY <1>1, <1>2, <2>1, <2>3 DEF Course, Known, FromOf, Shutdown
  <2> QED
    BY <2>2, <2>3
<1>13. ASSUME UNCHANGED <<up, clients, lapsed, pc>> PROVE Course(c)'
  <2>1. \E m : KeptAt(c, m)
    BY <1>13, Unmoved
  <2> QED
    BY <1>3, <1>13, <2>1
<1>14. ASSUME NEW d \in Clients, Listen(d) PROVE Course(c)'
  BY <1>13, <1>14 DEF Listen
<1>15. CASE UNCHANGED vars
  BY <1>13, <1>15 DEF vars
<1> QED
  BY <1>4, <1>5, <1>6, <1>7, <1>8, <1>9, <1>10, <1>11, <1>12, <1>14, <1>15 DEF Next

-----------------------------------------------------------------------------
(* The theorems.                                                             *)

\* The parts of the invariant together are inductive.
LEMMA InvariantHolds == Spec => []IInv
<1>1. Init => IInv
  <2> SUFFICES ASSUME Init PROVE IInv
    OBVIOUS
  <2> USE DEF Init
  <2>1. TypeOK
    <3>1. {MaxLines, MaxCopies, MaxStarts} \subseteq Nat
      BY UdpAssumption
    <3> QED
      BY <3>1, EmptySeq DEF TypeOK, Kinds
  <2>2. TwoPlaces /\ ToldState /\ OffEmpty
    BY TableFacts DEF TwoPlaces, ToldState, OffEmpty
  <2>3. Courses
    BY TableFacts DEF Courses, Course, Known, FromOf
  <2> QED
    BY <2>1, <2>2, <2>3 DEF IInv
<1>2. IInv /\ [Next]_vars => IInv'
  BY TypeStep, TableStep, CoursesStep DEF IInv
<1> QED
  BY <1>1, <1>2, PTL DEF Spec

\* The variables keep their types, whatever the network and the users do.
THEOREM TypeCorrect == Spec => []TypeOK
<1>1. IInv => TypeOK
  BY DEF IInv
<1> QED
  BY <1>1, InvariantHolds, PTL

\* The table never holds more than two clients, nor one of them twice.
THEOREM TwoPlacesHolds == Spec => []TwoPlaces
<1>1. IInv => TwoPlaces
  BY DEF IInv
<1> QED
  BY <1>1, InvariantHolds, PTL

\* What the server has told the client in its first place last agrees with the table.
THEOREM ToldStateHolds == Spec => []ToldState
<1>1. IInv => ToldState
  BY DEF IInv
<1> QED
  BY <1>1, InvariantHolds, PTL

\* Nobody stays in the table who has left, but for those that were cut off from the server
\* or turned away by it.
THEOREM NoGhostHolds == Spec => []NoGhost
<1>1. IInv => NoGhost
  <2> SUFFICES ASSUME IInv, NEW c \in Range(clients) \ lapsed, pc[c] # "input"
               PROVE  \E k \in DOMAIN up : up[k] = [from |-> c, text |-> "shutdown"]
    BY DEF NoGhost
  <2>1. c \in Clients
    <3>1. clients \in Seq(Clients)
      BY DEF IInv, TypeOK
    <3> QED
      BY <3>1 DEF Range
  <2>2. Course(c) /\ Known(c)
    BY <2>1 DEF IInv, Courses, Known
  <2>3. pc[c] \in {"off", "input", "leave", "done"}
    BY <2>1 DEF IInv, TypeOK
  <2>4. PICK k \in FromOf(c) : Shutdown(c, k)
    BY <2>2, <2>3 DEF Course
  <2>5. k \in DOMAIN up /\ up[k].from = c /\ up[k].text = "shutdown"
    BY <2>4 DEF FromOf, Shutdown
  <2>6. up[k] \in [from : Clients, text : Texts]
    <3>1. up \in Seq([from : Clients, text : Texts])
      BY DEF IInv, TypeOK, Texts
    <3>2. k \in 1 .. Len(up)
      BY <2>5, <3>1
    <3> QED
      BY <3>1, <3>2, ElementOfSeq
  <2>7. up[k] = [from |-> c, text |-> "shutdown"]
    BY <2>5, <2>6
  <2> QED
    BY <2>5, <2>7
<1> QED
  BY <1>1, InvariantHolds, PTL
=============================================================================
