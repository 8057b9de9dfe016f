-------------------------- MODULE MqPingPongProofs ---------------------------
(***************************************************************************)
(* Module3/07 for any runs of the two programs, any capacity and any       *)
(* number of messages: two that talk to each other take turns.             *)
(***************************************************************************)
EXTENDS MqPingPong, SequenceTheorems, FiniteSetTheorems, TLAPS

Places == {"off", "clear1", "clear2", "open1", "open2", "input", "receive",
           "remove1", "remove2", "done"}

\* What a process has got for "queue1" and for "queue2".
First(p) == IF p \in Firsts THEN out[p] ELSE in[p]
Second(p) == IF p \in Firsts THEN in[p] ELSE out[p]

\* p has both its queues.
Connected(p) == in[p] # 0 /\ out[p] # 0

\* No queue is the first for one and the second for another.
Kinds ==
    /\ \A p, r \in Procs : First(p) = Second(r) => First(p) = 0
    /\ \A p \in Procs : First(p) = name["queue2"] => First(p) = 0
    /\ \A p \in Procs : Second(p) = name["queue1"] => Second(p) = 0
    /\ name["queue1"] = name["queue2"] => name["queue1"] = 0

\* What a process has got by where it is.
Opening ==
    \A p \in Procs :
        /\ pc[p] \in {"off", "clear1", "clear2", "open1"} => First(p) = 0 /\ Second(p) = 0
        /\ pc[p] = "open2" => Second(p) = 0
        /\ pc[p] \in {"input", "receive", "remove1", "remove2"} => Connected(p)

\* A run of client1 speaks where client2 q listens.
Spoken(q) == \E p \in Firsts : Connected(p) /\ out[p] = in[q]

\* A message has a sender, and client2 has something to say only when client1 has spoken.
Senders ==
    /\ \A h \in 1 .. Len(queue) :
          queue[h] # <<>> =>
              \E r \in Procs : Connected(r) /\ out[r] = h /\ (r \in Seconds => Spoken(r))
    /\ \A q \in Seconds : pc[q] = "input" => Spoken(q)

\* No third process that has both its queues has one of p's.
Undisturbed(p, q) ==
    \A r \in Procs \ {p, q} : Connected(r) => {in[r], out[r]} \cap {in[p], out[p]} = {}

AtInput(p) == IF pc[p] = "input" THEN 1 ELSE 0

\* p has nobody else to talk to than q, which has connected to p or not at all yet.
Linked(p, q) ==
    /\ Connected(p) /\ Undisturbed(p, q)
    /\ Connected(q) => in[q] = out[p] /\ out[q] = in[p]

\* There is one turn between two that are linked.
OneTurn ==
    \A p \in Firsts, q \in Seconds :
        Linked(p, q) =>
            AtInput(p) + AtInput(q) + Len(queue[out[p]]) + Len(queue[in[p]]) <= 1

\* The inductive invariant.
IInv == TypeOK /\ Kinds /\ Opening /\ Senders /\ OneTurn

-----------------------------------------------------------------------------
(* The two system calls that change what the names stand for, or the queues. *)

Messages == Seq({MSG_PRIO, EXIT_PRIO})

\* mq_open(): the process gets a new, empty queue, what the name stands for, or nothing.
Got(n, h) ==
    /\ queue' \in Seq(Messages)
    /\ Len(queue') >= Len(queue) /\ h \in 0 .. Len(queue')
    /\ \A k \in 1 .. Len(queue) : queue'[k] = queue[k]
    /\ \A k \in 1 .. Len(queue') : k > Len(queue) => queue'[k] = <<>>
    /\ name' \in [Names -> 0 .. Len(queue')]
    /\ \A m \in Names \ {n} : name'[m] = name[m]
    /\ name'[n] = name[n] \/ (name'[n] = h /\ h > Len(queue))
    /\ h # 0 => h = name'[n]

LEMMA OpeningAQueue ==
    ASSUME TypeOK, NEW p, NEW n \in Names, NEW h \in Handles, Opened(p, n, h)
    PROVE  Got(n, h)
<1> USE LenProperties, AppendProperties, ElementOfSeq, EmptySeq
    DEF TypeOK, Messages, Handles, Got
<1>1. queue \in Seq(Messages) /\ Len(queue) \in Nat /\ name \in [Names -> 0 .. Len(queue)]
  OBVIOUS
<1>2. CASE name[n] = 0 /\ p \in Firsts /\ h # 0
  <2>1. /\ h = Len(queue) + 1 /\ queue' = Append(queue, <<>>)
        /\ name' = [name EXCEPT ![n] = h]
    BY <1>2 DEF Opened
  <2>2. <<>> \in Messages
    OBVIOUS
  <2>3. queue' \in Seq(Messages) /\ Len(queue') = Len(queue) + 1
    BY <1>1, <2>1, <2>2
  <2>4. /\ \A k \in 1 .. Len(queue) : queue'[k] = queue[k]
        /\ queue'[Len(queue) + 1] = <<>>
    BY <1>1, <2>1, <2>2
  <2> QED
    BY <1>1, <2>1, <2>3, <2>4
<1>3. CASE ~(name[n] = 0 /\ p \in Firsts /\ h # 0)
  <2>1. (h = name[n] \/ h = 0) /\ queue' = queue /\ name' = name
    BY <1>3 DEF Opened
  <2> QED
    BY <1>1, <2>1
<1> QED
  BY <1>2, <1>3

\* mq_send() adds one message to a queue, and mq_receive() takes one out.
LEMMA Sending ==
    ASSUME TypeOK, NEW p \in Procs, out[p] # 0, NEW prio \in {MSG_PRIO, EXIT_PRIO},
           queue' = [queue EXCEPT ![out[p]] = Append(@, prio)]
    PROVE  /\ queue' \in Seq(Messages) /\ Len(queue') = Len(queue)
           /\ out[p] \in 1 .. Len(queue)
           /\ \A k \in 1 .. Len(queue) : k # out[p] => queue'[k] = queue[k]
           /\ Len(queue'[out[p]]) = Len(queue[out[p]]) + 1
<1> USE LenProperties, AppendProperties, ElementOfSeq, ExceptSeq DEF TypeOK, Messages
<1>1. out[p] \in 1 .. Len(queue) /\ queue \in Seq(Messages) /\ Len(queue) \in Nat
  OBVIOUS
<1>2. queue[out[p]] \in Messages
  BY <1>1
<1>3. /\ Append(queue[out[p]], prio) \in Messages
      /\ Len(Append(queue[out[p]], prio)) = Len(queue[out[p]]) + 1
  BY <1>2
<1> QED
  BY <1>1, <1>3

LEMMA Receiving ==
    ASSUME TypeOK, NEW p \in Procs, in[p] # 0, Receive(p)
    PROVE  /\ queue' \in Seq(Messages) /\ Len(queue') = Len(queue)
           /\ in[p] \in 1 .. Len(queue) /\ queue[in[p]] # <<>>
           /\ \A k \in 1 .. Len(queue) : k # in[p] => queue'[k] = queue[k]
           /\ Len(queue'[in[p]]) = Len(queue[in[p]]) - 1
           /\ pc' = [pc EXCEPT ![p] = "input"] \/ pc' = [pc EXCEPT ![p] = Leaving(p)]
           /\ UNCHANGED <<name, in, out, quit, sent>>
<1> USE LenProperties, ElementOfSeq, ExceptSeq DEF TypeOK, Messages
<1>1. in[p] \in 1 .. Len(queue) /\ queue \in Seq(Messages) /\ Len(queue) \in Nat
  OBVIOUS
<1>2. queue[in[p]] \in Messages
  BY <1>1
<1>3. PICK k \in DOMAIN queue[in[p]] :
         queue' = [queue EXCEPT ![in[p]] = SubSeq(queue[in[p]], 1, k - 1)
                       \o SubSeq(queue[in[p]], k + 1, Len(queue[in[p]]))]
  BY DEF Receive
<1> DEFINE rest == SubSeq(queue[in[p]], 1, k - 1)
                       \o SubSeq(queue[in[p]], k + 1, Len(queue[in[p]]))
<1>4. k \in 1 .. Len(queue[in[p]]) /\ Len(queue[in[p]]) \in Nat
  BY <1>2
<1>5. rest \in Messages /\ Len(rest) = Len(queue[in[p]]) - 1
  <2>1. ASSUME NEW q \in Messages, NEW i \in 1 .. Len(q)
        PROVE  /\ SubSeq(q, 1, i - 1) \o SubSeq(q, i + 1, Len(q)) \in Messages
               /\ Len(SubSeq(q, 1, i - 1) \o SubSeq(q, i + 1, Len(q))) = Len(q) - 1
    <3>1. q \in Seq({MSG_PRIO, EXIT_PRIO}) /\ Len(q) \in Nat /\ i \in Int /\ 1 <= i /\ i <= Len(q)
      OBVIOUS
    <3>2. SubSeq(q, 1, i - 1) \in Messages /\ Len(SubSeq(q, 1, i - 1)) = i - 1
      BY <3>1, SubSeqProperties
    <3>3. SubSeq(q, i + 1, Len(q)) \in Messages /\ Len(SubSeq(q, i + 1, Len(q))) = Len(q) - i
      BY <3>1, SubSeqProperties
    <3> DEFINE l == SubSeq(q, 1, i - 1)
               r == SubSeq(q, i + 1, Len(q))
    <3>4. l \o r \in Messages /\ Len(l \o r) = Len(l) + Len(r)
      <4> HIDE DEF l, r
      <4> QED
        BY <3>2, <3>3, ConcatProperties DEF l, r
    <3>5. Len(l) = i - 1 /\ Len(r) = Len(q) - i
      BY <3>2, <3>3
    <3> HIDE DEF l, r
    <3>6. Len(l \o r) = Len(q) - 1
      BY <3>1, <3>4, <3>5
    <3> QED
      BY <3>4, <3>6 DEF l, r
  <2> QED
    BY <1>2, <1>4, <2>1
<1>6. pc' = [pc EXCEPT ![p] = "input"] \/ pc' = [pc EXCEPT ![p] = Leaving(p)]
  BY DEF Receive, AfterReceiving
<1>7. queue[in[p]] # <<>>
  BY <1>4
<1>8. UNCHANGED <<name, in, out, quit, sent>>
  BY DEF Receive
<1> HIDE DEF rest
<1>9. queue' = [queue EXCEPT ![in[p]] = rest]
  BY <1>3 DEF rest
<1> QED
  BY <1>1, <1>5, <1>6, <1>7, <1>8, <1>9

-----------------------------------------------------------------------------
(* Types and places.                                                         *)

\* The steps that leave the queues and who has them alone.
Quiet(p) ==
    /\ UNCHANGED <<queue, in, out>>
    /\ name' \in [Names -> 0 .. Len(queue)] /\ \A n \in Names : name'[n] \in {0, name[n]}
    /\ \E place \in Places \ {"open2", "input", "receive"} :
          /\ pc' = [pc EXCEPT ![p] = place]
          /\ place \in {"off", "clear1", "clear2", "open1"}
                => pc[p] \in {"off", "clear1", "clear2", "open1"}
          /\ place \in {"remove1", "remove2"} => pc[p] \in {"input", "remove1", "remove2"}

LEMMA QuietSteps ==
    ASSUME TypeOK, NEW p \in Procs,
           Begin(p) \/ Clear(p) \/ EndOfInput(p) \/ Remove(p) \/ Dies(p)
    PROVE  Quiet(p) /\ TypeOK'
<1>1. name \in [Names -> 0 .. Len(queue)] /\ Names = {"queue1", "queue2"}
      /\ pc \in [Procs -> Places] /\ 0 \in 0 .. Len(queue)
  BY LenProperties DEF TypeOK, Names, Places
<1>2. ASSUME NEW from, NEW place \in Places \ {"open2", "input", "receive"}, Goto(p, from, place),
             UNCHANGED <<queue, in, out, quit, sent>>,
             \/ UNCHANGED name
             \/ \E n \in Names : name' = [name EXCEPT ![n] = 0],
             place \in {"off", "clear1", "clear2", "open1"}
                => from \in {"off", "clear1", "clear2", "open1"},
             place \in {"remove1", "remove2"} => from \in {"input", "remove1", "remove2"}
      PROVE  Quiet(p) /\ TypeOK'
  <2>1. name' \in [Names -> 0 .. Len(queue)] /\ \A n \in Names : name'[n] \in {0, name[n]}
    BY <1>1, <1>2
  <2>2. Quiet(p)
    BY <1>2, <2>1 DEF Quiet, Goto
  <2>3. pc' \in [Procs -> Places]
    BY <1>1, <1>2 DEF Goto
  <2>4. TypeOK'
    BY <1>2, <2>1, <2>3 DEF TypeOK, Places
  <2> QED
    BY <2>2, <2>4
<1>3. CASE Begin(p)
  <2>1. CASE p \in Firsts
    BY <1>2, <1>3, <2>1 DEF Begin, Places
  <2>2. CASE p \notin Firsts
    BY <1>2, <1>3, <2>2 DEF Begin, Places
  <2> QED
    BY <2>1, <2>2
<1>4. CASE Clear(p)
  <2>1. CASE Goto(p, "clear1", "clear2") /\ name' = [name EXCEPT !["queue1"] = 0]
    BY <1>1, <1>2, <1>4, <2>1 DEF Clear, Places
  <2>2. CASE Goto(p, "clear2", "open1") /\ name' = [name EXCEPT !["queue2"] = 0]
    BY <1>1, <1>2, <1>4, <2>2 DEF Clear, Places
  <2> QED
    BY <1>4, <2>1, <2>2 DEF Clear
<1>5. CASE EndOfInput(p)
  <2>1. Leaving(p) \in {"remove1", "done"}
    BY DEF Leaving
  <2> QED
    BY <1>2, <1>5, <2>1 DEF EndOfInput, Places
<1>6. CASE Remove(p)
  <2>1. CASE Goto(p, "remove1", "remove2") /\ name' = [name EXCEPT !["queue1"] = 0]
    BY <1>1, <1>2, <1>6, <2>1 DEF Remove, Places
  <2>2. CASE Goto(p, "remove2", "done") /\ name' = [name EXCEPT !["queue2"] = 0]
    BY <1>1, <1>2, <1>6, <2>2 DEF Remove, Places
  <2> QED
    BY <1>6, <2>1, <2>2 DEF Remove
<1>7. CASE Dies(p)
  <2>1. Goto(p, pc[p], "done") /\ UNCHANGED <<queue, in, out, quit, sent, name>>
    BY <1>7 DEF Dies, Goto
  <2> QED
    BY <1>2, <2>1 DEF Places
<1> QED
  BY <1>3, <1>4, <1>5, <1>6, <1>7

\* A process that opens its second queue gives up or is connected.
GivesUp(p) ==
    /\ pc' = [pc EXCEPT ![p] = "done"]
    /\ in' = [in EXCEPT ![p] = 0] /\ out' = [out EXCEPT ![p] = 0]

Connects(p, h) ==
    /\ h # 0 /\ (in[p] # 0 \/ out[p] # 0)
    /\ pc' = [pc EXCEPT ![p] = FirstTurn(p)]
    /\ IF p \in Firsts THEN in' = [in EXCEPT ![p] = h] /\ UNCHANGED out
                       ELSE out' = [out EXCEPT ![p] = h] /\ UNCHANGED in

LEMMA TypeStep ==
    ASSUME PingPongAssumption
    PROVE  TypeOK /\ Opening /\ [Next]_vars => TypeOK'
<1> SUFFICES ASSUME TypeOK, Opening, [Next]_vars PROVE TypeOK'
  OBVIOUS
<1>1. /\ pc \in [Procs -> Places] /\ in \in [Procs -> 0 .. Len(queue)]
      /\ out \in [Procs -> 0 .. Len(queue)] /\ name \in [Names -> 0 .. Len(queue)]
      /\ quit \subseteq Procs /\ sent \in 0 .. MaxSent /\ Len(queue) \in Nat
  BY LenProperties DEF TypeOK, Places
<1>2. ASSUME NEW p \in Procs,
             Begin(p) \/ Clear(p) \/ EndOfInput(p) \/ Remove(p) \/ Dies(p)
      PROVE  TypeOK'
  BY <1>2, QuietSteps
<1>3. ASSUME NEW p \in Procs, Open1(p) PROVE TypeOK'
  <2>1. PICK h \in Handles :
           /\ Opened(p, "queue1", h)
           /\ IF p \in Firsts THEN out' = [out EXCEPT ![p] = h] /\ UNCHANGED in
                              ELSE in' = [in EXCEPT ![p] = h] /\ UNCHANGED out
    BY <1>3 DEF Open1
  <2>2. /\ queue' \in Seq(Messages) /\ Len(queue') >= Len(queue) /\ h \in 0 .. Len(queue')
        /\ name' \in [Names -> 0 .. Len(queue')]
    BY <2>1, OpeningAQueue DEF Names, Got
  <2>3. Len(queue') \in Nat
    BY <2>2, LenProperties
  <2>4. in' \in [Procs -> 0 .. Len(queue')] /\ out' \in [Procs -> 0 .. Len(queue')]
    <3>1. 0 .. Len(queue) \subseteq 0 .. Len(queue')
      BY <1>1, <2>2, <2>3
    <3> QED
      BY <1>1, <2>1, <2>2, <3>1
  <2>5. pc' \in [Procs -> Places] /\ quit' = quit /\ sent' = sent
    BY <1>1, <1>3 DEF Open1, Goto, Places
  <2> QED
    BY <1>1, <2>2, <2>4, <2>5 DEF TypeOK, Places, Messages
<1>4. ASSUME NEW p \in Procs, Open2(p) PROVE TypeOK'
  <2>1. PICK h \in Handles : Opened(p, "queue2", h) /\ (GivesUp(p) \/ Connects(p, h))
    BY <1>4 DEF Open2, GivesUp, Connects
  <2>2. /\ queue' \in Seq(Messages) /\ Len(queue') >= Len(queue) /\ h \in 0 .. Len(queue')
        /\ name' \in [Names -> 0 .. Len(queue')]
    BY <2>1, OpeningAQueue DEF Names, Got
  <2>3. Len(queue') \in Nat
    BY <2>2, LenProperties
  <2>4. in' \in [Procs -> 0 .. Len(queue')] /\ out' \in [Procs -> 0 .. Len(queue')]
    <3>1. 0 .. Len(queue) \subseteq 0 .. Len(queue') /\ 0 \in 0 .. Len(queue')
      BY <1>1, <2>2, <2>3
    <3> QED
      BY <1>1, <2>1, <2>2, <3>1, ZenonT(40) DEF GivesUp, Connects
  <2>5. pc' \in [Procs -> Places]
    BY <1>1, <2>1 DEF GivesUp, Connects, FirstTurn, Places
  <2>6. quit' = quit /\ sent' = sent
    BY <1>4 DEF Open2
  <2> QED
    BY <1>1, <2>2, <2>4, <2>5, <2>6 DEF TypeOK, Places, Messages
<1>5. ASSUME NEW p \in Procs, Say(p) PROVE TypeOK'
  <2>1. PICK prio \in {MSG_PRIO, EXIT_PRIO} :
           /\ queue' = [queue EXCEPT ![out[p]] = Append(@, prio)]
           /\ pc' = [pc EXCEPT ![p] = AfterSending(p, prio)]
    BY <1>5 DEF Say
  <2>2. out[p] # 0
    BY <1>5 DEF Say, Opening, Connected
  <2>3. queue' \in Seq(Messages) /\ Len(queue') = Len(queue)
    BY <2>1, <2>2, Sending
  <2>4. pc' \in [Procs -> Places]
    BY <1>1, <2>1 DEF AfterSending, Leaving, Places
  <2>5. sent' \in 0 .. MaxSent /\ quit' \subseteq Procs /\ UNCHANGED <<name, in, out>>
    BY <1>1, <1>5 DEF Say, PingPongAssumption
  <2> QED
    BY <1>1, <2>3, <2>4, <2>5 DEF TypeOK, Places, Messages
<1>6. ASSUME NEW p \in Procs, Receive(p) PROVE TypeOK'
  <2>1. in[p] # 0
    BY <1>6 DEF Receive, Opening, Connected
  <2>2. /\ queue' \in Seq(Messages) /\ Len(queue') = Len(queue)
        /\ pc' = [pc EXCEPT ![p] = "input"] \/ pc' = [pc EXCEPT ![p] = Leaving(p)]
        /\ UNCHANGED <<name, in, out, quit, sent>>
    BY <1>6, <2>1, Receiving
  <2>3. pc' \in [Procs -> Places]
    BY <1>1, <2>2 DEF Leaving, Places
  <2> QED
    BY <1>1, <2>2, <2>3 DEF TypeOK, Places, Messages
<1>7. CASE UNCHANGED vars
  BY <1>7 DEF vars, TypeOK
<1> QED
  BY <1>2, <1>3, <1>4, <1>5, <1>6, <1>7 DEF Next, Step

\* The two opens, in terms of what each process has got.
LEMMA OpensFirst ==
    ASSUME TypeOK, Opening, NEW p \in Procs, Open1(p)
    PROVE  \E h \in Handles :
              /\ Got("queue1", h) /\ pc[p] = "open1" /\ pc' = [pc EXCEPT ![p] = "open2"]
              /\ \A r \in Procs :
                    /\ First(r)' = IF r = p THEN h ELSE First(r)
                    /\ Second(r)' = Second(r)
                    /\ Connected(r)' <=> Connected(r)
                    /\ Connected(r) => in'[r] = in[r] /\ out'[r] = out[r]
<1>1. PICK h \in Handles :
         /\ Opened(p, "queue1", h)
         /\ IF p \in Firsts THEN out' = [out EXCEPT ![p] = h] /\ UNCHANGED in
                            ELSE in' = [in EXCEPT ![p] = h] /\ UNCHANGED out
  BY DEF Open1
<1>2. Got("queue1", h)
  BY <1>1, OpeningAQueue DEF Names
<1>3. pc[p] = "open1" /\ pc' = [pc EXCEPT ![p] = "open2"] /\ First(p) = 0 /\ Second(p) = 0
  BY DEF Open1, Goto, Opening
<1>4. in \in [Procs -> 0 .. Len(queue)] /\ out \in [Procs -> 0 .. Len(queue)]
  BY DEF TypeOK
<1>5. ASSUME NEW r \in Procs
      PROVE  /\ First(r)' = IF r = p THEN h ELSE First(r)
             /\ Second(r)' = Second(r)
             /\ Connected(r)' <=> Connected(r)
             /\ Connected(r) => in'[r] = in[r] /\ out'[r] = out[r]
  <2>1. CASE p \in Firsts
    BY <1>1, <1>3, <1>4, <2>1 DEF First, Second, Connected
  <2>2. CASE p \notin Firsts
    BY <1>1, <1>3, <1>4, <2>2 DEF First, Second, Connected
  <2> QED
    BY <2>1, <2>2
<1> QED
  BY <1>2, <1>3, <1>5

LEMMA OpensSecond ==
    ASSUME TypeOK, Opening, NEW p \in Procs, Open2(p)
    PROVE  \E h \in Handles :
              /\ Got("queue2", h) /\ pc[p] = "open2" /\ ~Connected(p)
              /\ \A r \in Procs \ {p} :
                    /\ First(r)' = First(r) /\ Second(r)' = Second(r)
                    /\ Connected(r)' <=> Connected(r)
                    /\ in'[r] = in[r] /\ out'[r] = out[r]
              /\ \/ /\ GivesUp(p) /\ ~Connected(p)'
                    /\ First(p)' = 0 /\ Second(p)' = 0
                 \/ /\ Connects(p, h) /\ Connected(p)'
                    /\ First(p)' = First(p) /\ Second(p)' = h
<1>1. PICK h \in Handles : Opened(p, "queue2", h) /\ (GivesUp(p) \/ Connects(p, h))
  BY DEF Open2, GivesUp, Connects
<1>2. Got("queue2", h)
  BY <1>1, OpeningAQueue DEF Names
<1>3. pc[p] = "open2" /\ Second(p) = 0 /\ ~Connected(p)
  BY DEF Open2, Opening, Second, Connected
<1>4. in \in [Procs -> 0 .. Len(queue)] /\ out \in [Procs -> 0 .. Len(queue)]
  BY DEF TypeOK
<1>5. ASSUME NEW r \in Procs \ {p}
      PROVE  /\ First(r)' = First(r) /\ Second(r)' = Second(r)
             /\ Connected(r)' <=> Connected(r)
             /\ in'[r] = in[r] /\ out'[r] = out[r]
  BY <1>1, <1>4 DEF GivesUp, Connects, First, Second, Connected
<1>6. CASE GivesUp(p)
  BY <1>2, <1>3, <1>4, <1>5, <1>6 DEF GivesUp, First, Second, Connected
<1>7. CASE Connects(p, h)
  <2>1. First(p)' = First(p) /\ Second(p)' = h /\ Connected(p)'
    BY <1>3, <1>4, <1>7 DEF Connects, First, Second, Connected
  <2> QED
    BY <1>2, <1>3, <1>5, <1>7, <2>1
<1> QED
  BY <1>1, <1>6, <1>7

LEMMA OpeningStep ==
    TypeOK /\ Opening /\ [Next]_vars => Opening'
<1> SUFFICES ASSUME TypeOK, Opening, [Next]_vars, NEW r \in Procs
             PROVE  /\ pc'[r] \in {"off", "clear1", "clear2", "open1"}
                         => First(r)' = 0 /\ Second(r)' = 0
                    /\ pc'[r] = "open2" => Second(r)' = 0
                    /\ pc'[r] \in {"input", "receive", "remove1", "remove2"} => Connected(r)'
  BY DEF Opening
<1> USE DEF Opening
<1>1. pc \in [Procs -> Places]
  BY DEF TypeOK, Places
<1>2. ASSUME NEW p \in Procs,
             Begin(p) \/ Clear(p) \/ EndOfInput(p) \/ Remove(p) \/ Dies(p)
      PROVE  /\ pc'[r] \in {"off", "clear1", "clear2", "open1"}
                  => First(r)' = 0 /\ Second(r)' = 0
             /\ pc'[r] = "open2" => Second(r)' = 0
             /\ pc'[r] \in {"input", "receive", "remove1", "remove2"} => Connected(r)'
  <2>1. Quiet(p)
    BY <1>2, QuietSteps
  <2> QED
    BY <1>1, <2>1 DEF Quiet, First, Second, Connected
<1>3. ASSUME NEW p \in Procs, Open1(p)
      PROVE  /\ pc'[r] \in {"off", "clear1", "clear2", "open1"}
                  => First(r)' = 0 /\ Second(r)' = 0
             /\ pc'[r] = "open2" => Second(r)' = 0
             /\ pc'[r] \in {"input", "receive", "remove1", "remove2"} => Connected(r)'
  BY <1>1, <1>3, OpensFirst
<1>4. ASSUME NEW p \in Procs, Open2(p)
      PROVE  /\ pc'[r] \in {"off", "clear1", "clear2", "open1"}
                  => First(r)' = 0 /\ Second(r)' = 0
             /\ pc'[r] = "open2" => Second(r)' = 0
             /\ pc'[r] \in {"input", "receive", "remove1", "remove2"} => Connected(r)'
  BY <1>1, <1>4, OpensSecond DEF GivesUp, Connects, FirstTurn
<1>5. CASE \E p \in Procs : Say(p) \/ Receive(p)
  <2>1. PICK p \in Procs : Say(p) \/ Receive(p)
    BY <1>5
  <2>2. Connected(p)
    BY <2>1 DEF Say, Receive
  <2>3. /\ UNCHANGED <<in, out>>
        /\ \E place \in {"input", "receive", "remove1", "done"} : pc' = [pc EXCEPT ![p] = place]
    BY <2>1 DEF Say, Receive, AfterSending, AfterReceiving, Leaving
  <2> QED
    BY <1>1, <2>2, <2>3 DEF First, Second, Connected
<1>6. CASE UNCHANGED vars
  BY <1>6 DEF vars, First, Second, Connected
<1> QED
  BY <1>2, <1>3, <1>4, <1>5, <1>6 DEF Next, Step

-----------------------------------------------------------------------------
(* Queues, their senders and their readers.                                  *)

LEMMA KindsStep ==
    TypeOK /\ Opening /\ Kinds /\ [Next]_vars => Kinds'
<1> SUFFICES ASSUME TypeOK, Opening, Kinds, [Next]_vars PROVE Kinds'
  OBVIOUS
<1>1. /\ name \in [Names -> 0 .. Len(queue)] /\ Names = {"queue1", "queue2"}
      /\ Len(queue) \in Nat
      /\ \A p \in Procs : First(p) \in 0 .. Len(queue) /\ Second(p) \in 0 .. Len(queue)
  BY LenProperties DEF TypeOK, Names, First, Second
<1>2. ASSUME NEW p \in Procs,
             Begin(p) \/ Clear(p) \/ EndOfInput(p) \/ Remove(p) \/ Dies(p)
      PROVE  Kinds'
  <2>1. Quiet(p)
    BY <1>2, QuietSteps
  <2>2. \A r \in Procs : First(r)' = First(r) /\ Second(r)' = Second(r)
    BY <2>1 DEF Quiet, First, Second
  <2>3. name'["queue1"] \in {0, name["queue1"]} /\ name'["queue2"] \in {0, name["queue2"]}
    BY <1>1, <2>1 DEF Quiet
  <2> QED
    BY <2>2, <2>3 DEF Kinds
<1>3. ASSUME NEW p \in Procs, Open1(p) PROVE Kinds'
  <2>1. PICK h \in Handles :
           /\ Got("queue1", h)
           /\ \A r \in Procs : /\ First(r)' = IF r = p THEN h ELSE First(r)
                               /\ Second(r)' = Second(r)
    BY <1>3, OpensFirst
  <2>2. /\ name'["queue2"] = name["queue2"] /\ (h # 0 => h = name'["queue1"])
        /\ name'["queue1"] = name["queue1"] \/ (name'["queue1"] = h /\ h > Len(queue))
    BY <1>1, <2>1 DEF Got
  <2> QED
    BY <1>1, <2>1, <2>2 DEF Kinds
<1>4. ASSUME NEW p \in Procs, Open2(p) PROVE Kinds'
  <2>1. PICK h \in Handles :
           /\ Got("queue2", h)
           /\ \A r \in Procs \ {p} : First(r)' = First(r) /\ Second(r)' = Second(r)
           /\ \/ First(p)' = 0 /\ Second(p)' = 0
              \/ First(p)' = First(p) /\ Second(p)' = h
    BY <1>4, OpensSecond
  <2>2. /\ name'["queue1"] = name["queue1"] /\ (h # 0 => h = name'["queue2"])
        /\ name'["queue2"] = name["queue2"] \/ (name'["queue2"] = h /\ h > Len(queue))
    BY <1>1, <2>1 DEF Got
  <2>3. \A r \in Procs :
           /\ First(r)' \in {0, First(r)}
           /\ Second(r)' \in {0, h, Second(r)}
    BY <2>1
  <2> QED
    BY <1>1, <2>2, <2>3 DEF Kinds
<1>5. CASE (\E p \in Procs : Say(p) \/ Receive(p)) \/ UNCHANGED vars
  <2>1. UNCHANGED <<name, in, out>>
    BY <1>5 DEF Say, Receive, vars
  <2> QED
    BY <2>1 DEF Kinds, First, Second
<1> QED
  BY <1>2, <1>3, <1>4, <1>5 DEF Next, Step

\* What client1 sends by is what client2 receives by, and never what client2 sends by.
LEMMA Lines ==
    ASSUME PingPongAssumption, Kinds, NEW p \in Procs, NEW r \in Procs,
           Connected(p), Connected(r)
    PROVE  /\ in[p] = in[r] \/ out[p] = out[r] => (p \in Firsts <=> r \in Firsts)
           /\ in[p] = out[r] => (p \in Firsts <=> r \notin Firsts)
BY DEF Kinds, First, Second, Connected

LEMMA SendersStep ==
    ASSUME PingPongAssumption
    PROVE  TypeOK /\ Opening /\ Kinds /\ Senders /\ [Next]_vars => Senders'
<1> SUFFICES ASSUME TypeOK, Opening, Kinds, Senders, [Next]_vars PROVE Senders'
  OBVIOUS
<1>1. /\ pc \in [Procs -> Places] /\ queue \in Seq(Messages) /\ Len(queue) \in Nat
      /\ Procs = Firsts \cup Seconds /\ Firsts \cap Seconds = {}
  BY LenProperties DEF TypeOK, Places, Messages, Procs, PingPongAssumption
\* The queues and their users may grow, but no line of client2's is asked for.
<1>2. ASSUME \A r \in Procs : Connected(r) => Connected(r)' /\ in'[r] = in[r] /\ out'[r] = out[r],
             Len(queue') \in Nat,
             \A k \in 1 .. Len(queue') :
                queue'[k] = <<>> \/ (k \in 1 .. Len(queue) /\ queue'[k] = queue[k]),
             \A q \in Seconds : pc'[q] = "input" => pc[q] = "input"
      PROVE  Senders'
  <2>1. \A q \in Seconds : Connected(q) /\ Spoken(q) => Spoken(q)'
    BY <1>1, <1>2 DEF Spoken
  <2>2. \A q \in Seconds : pc'[q] = "input" => Spoken(q)'
    BY <1>1, <1>2, <2>1 DEF Senders, Opening
  <2>3. ASSUME NEW k \in 1 .. Len(queue'), queue'[k] # <<>>
        PROVE  \E r \in Procs : Connected(r)' /\ out'[r] = k /\ (r \in Seconds => Spoken(r)')
    BY <1>2, <2>1, <2>3 DEF Senders
  <2> QED
    BY <2>2, <2>3 DEF Senders
<1>3. ASSUME NEW p \in Procs,
             Begin(p) \/ Clear(p) \/ EndOfInput(p) \/ Remove(p) \/ Dies(p)
      PROVE  Senders'
  <2>1. Quiet(p)
    BY <1>3, QuietSteps
  <2> QED
    BY <1>1, <1>2, <2>1 DEF Quiet, Connected
<1>4. ASSUME NEW p \in Procs, Open1(p) \/ Open2(p) PROVE Senders'
  <2>1. \A r \in Procs : Connected(r) => Connected(r)' /\ in'[r] = in[r] /\ out'[r] = out[r]
    BY <1>4, OpensFirst, OpensSecond
  <2>2. \A q \in Seconds : pc'[q] = "input" => pc[q] = "input"
    <3>1. CASE Open1(p)
      BY <1>1, <3>1 DEF Open1, Goto
    <3>2. CASE Open2(p)
      BY <1>1, <3>2 DEF Open2, FirstTurn
    <3> QED
      BY <1>4, <3>1, <3>2
  <2>3. /\ Len(queue') \in Nat
        /\ \A k \in 1 .. Len(queue') :
              queue'[k] = <<>> \/ (k \in 1 .. Len(queue) /\ queue'[k] = queue[k])
    <3>1. PICK n \in Names, h \in Handles : Got(n, h)
      BY <1>4, OpensFirst, OpensSecond DEF Names
    <3> QED
      BY <1>1, <3>1, LenProperties DEF Got
  <2> QED
    BY <1>2, <2>1, <2>2, <2>3
<1>5. ASSUME NEW p \in Procs, Say(p) PROVE Senders'
  <2>1. Connected(p) /\ UNCHANGED <<in, out>> /\ (p \in Seconds => Spoken(p))
    BY <1>5 DEF Say, Opening, Senders
  <2>2. /\ Len(queue') = Len(queue)
        /\ \A k \in 1 .. Len(queue) : k # out[p] => queue'[k] = queue[k]
    BY <1>5, <2>1, Sending DEF Say, Connected
  <2>3. \A q \in Seconds : pc'[q] = "input" => pc[q] = "input"
    BY <1>1, <1>5 DEF Say, AfterSending, Leaving
  <2> QED
    BY <2>1, <2>2, <2>3 DEF Senders, Spoken, Connected
<1>6. ASSUME NEW p \in Procs, Receive(p) PROVE Senders'
  <2>1. Connected(p)
    BY <1>6 DEF Receive, Opening
  <2>2. /\ Len(queue') = Len(queue) /\ in[p] \in 1 .. Len(queue) /\ queue[in[p]] # <<>>
        /\ \A k \in 1 .. Len(queue) : k # in[p] => queue'[k] = queue[k]
        /\ UNCHANGED <<in, out>>
        /\ \E place \in Places : pc' = [pc EXCEPT ![p] = place]
    BY <1>6, <2>1, Receiving DEF Connected, Leaving, Places
  <2>3. PICK r \in Procs : Connected(r) /\ out[r] = in[p]
    BY <2>2 DEF Senders
  <2>4. p \in Seconds => Spoken(p)
    BY <1>1, <2>1, <2>3, Lines DEF Spoken
  <2> QED
    BY <1>1, <2>2, <2>4 DEF Senders, Spoken, Connected
<1>7. CASE UNCHANGED vars
  BY <1>7 DEF vars, Senders, Spoken, Connected
<1> QED
  BY <1>3, <1>4, <1>5, <1>6, <1>7 DEF Next, Step

-----------------------------------------------------------------------------
(* The turn.                                                                 *)

LEMMA OneTurnStep ==
    ASSUME PingPongAssumption
    PROVE  TypeOK /\ Opening /\ Kinds /\ Senders /\ OneTurn /\ [Next]_vars => OneTurn'
<1> SUFFICES ASSUME TypeOK, Opening, Kinds, Senders, OneTurn, [Next]_vars,
                    NEW p \in Firsts, NEW q \in Seconds, Linked(p, q)'
             PROVE  (AtInput(p) + AtInput(q) + Len(queue[out[p]]) + Len(queue[in[p]]) <= 1)'
  BY DEF OneTurn
<1> DEFINE One == AtInput(p) + AtInput(q) + Len(queue[out[p]]) + Len(queue[in[p]]) <= 1
<1>1. /\ pc \in [Procs -> Places] /\ queue \in Seq(Messages) /\ Len(queue) \in Nat
      /\ in \in [Procs -> 0 .. Len(queue)] /\ out \in [Procs -> 0 .. Len(queue)]
      /\ p \in Procs /\ q \in Procs /\ p # q /\ q \notin Firsts
      /\ Procs = Firsts \cup Seconds /\ Firsts \cap Seconds = {}
  BY LenProperties DEF TypeOK, Places, Messages, Procs, PingPongAssumption
<1>2. \A k \in 1 .. Len(queue) : Len(queue[k]) \in Nat /\ (queue[k] = <<>> <=> Len(queue[k]) = 0)
  BY <1>1, ElementOfSeq, LenProperties, EmptySeq DEF Messages
<1>3. Connected(p) => in[p] \in 1 .. Len(queue) /\ out[p] \in 1 .. Len(queue)
  BY <1>1 DEF Connected
<1>4. Linked(p, q) => One
  BY DEF OneTurn
\* Nobody gets connected, no queue gets longer, and nobody comes to be asked.
<1>5. ASSUME \A r \in Procs : Connected(r)' <=> Connected(r),
             \A r \in Procs : Connected(r) => in'[r] = in[r] /\ out'[r] = out[r],
             \A k \in 1 .. Len(queue) : Len(queue'[k]) = Len(queue[k]),
             \A r \in Procs : pc'[r] = "input" => pc[r] = "input"
      PROVE  One'
  <2>1. Linked(p, q)
    BY <1>1, <1>5 DEF Linked, Undisturbed
  <2>2. /\ Len(queue'[out'[p]]) = Len(queue[out[p]])
        /\ Len(queue'[in'[p]]) = Len(queue[in[p]])
    BY <1>1, <1>3, <1>5, <2>1 DEF Linked
  <2>3. Len(queue[out[p]]) \in Nat /\ Len(queue[in[p]]) \in Nat
    BY <1>2, <1>3, <2>1 DEF Linked
  <2>4. AtInput(p)' <= AtInput(p) /\ AtInput(q)' <= AtInput(q)
    BY <1>1, <1>5 DEF AtInput
  <2>5. AtInput(p) \in 0 .. 1 /\ AtInput(q) \in 0 .. 1 /\ AtInput(p)' \in 0 .. 1 /\ AtInput(q)' \in 0 .. 1
    BY DEF AtInput
  <2> QED
    BY <1>4, <2>1, <2>2, <2>3, <2>4, <2>5, SMTT(30)
<1>6. ASSUME NEW r \in Procs,
             Begin(r) \/ Clear(r) \/ EndOfInput(r) \/ Remove(r) \/ Dies(r)
      PROVE  One'
  <2>1. Quiet(r)
    BY <1>6, QuietSteps
  <2> QED
    BY <1>1, <1>5, <2>1 DEF Quiet, Connected
<1>7. ASSUME NEW r \in Procs, Open1(r) PROVE One'
  <2>1. PICK h \in Handles :
           /\ Got("queue1", h) /\ pc' = [pc EXCEPT ![r] = "open2"]
           /\ \A s \in Procs :
                 /\ Connected(s)' <=> Connected(s)
                 /\ Connected(s) => in'[s] = in[s] /\ out'[s] = out[s]
    BY <1>7, OpensFirst
  <2> QED
    BY <1>1, <1>5, <2>1 DEF Got
<1>8. ASSUME NEW r \in Procs, Open2(r) PROVE One'
  <2>1. PICK h \in Handles :
           /\ Got("queue2", h) /\ pc[r] = "open2" /\ ~Connected(r)
           /\ \A s \in Procs \ {r} :
                 /\ Connected(s)' <=> Connected(s)
                 /\ in'[s] = in[s] /\ out'[s] = out[s]
           /\ \/ GivesUp(r) /\ ~Connected(r)'
              \/ /\ Connects(r, h) /\ Connected(r)'
                 /\ First(r)' = First(r) /\ Second(r)' = h
    BY <1>8, OpensSecond
  <2>2. CASE GivesUp(r) /\ ~Connected(r)'
    BY <1>1, <1>5, <2>1, <2>2 DEF Got, GivesUp
  <2>3. CASE Connects(r, h) /\ Connected(r)' /\ First(r)' = First(r) /\ Second(r)' = h
    \* A third process connects.
    <3>1. CASE r \notin {p, q}
      <4>1. Linked(p, q)
        BY <1>1, <2>1, <3>1 DEF Linked, Undisturbed
      <4>2. in'[p] = in[p] /\ out'[p] = out[p] /\ pc'[p] = pc[p] /\ pc'[q] = pc[q]
        BY <1>1, <2>1, <2>3, <3>1 DEF Connects
      <4>3. queue'[in[p]] = queue[in[p]] /\ queue'[out[p]] = queue[out[p]]
        BY <1>3, <2>1, <4>1 DEF Linked, Got
      <4> QED
        BY <1>4, <4>1, <4>2, <4>3 DEF AtInput
    \* client2 connects, and listens.
    <3>2. CASE r = q
      <4>1. Linked(p, q)
        BY <1>1, <2>1, <3>2 DEF Linked, Undisturbed
      <4>2. in'[p] = in[p] /\ out'[p] = out[p] /\ pc'[p] = pc[p] /\ pc'[q] # "input" /\ pc[q] # "input"
        BY <1>1, <2>1, <2>3, <3>2 DEF Connects, FirstTurn
      <4>3. queue'[in[p]] = queue[in[p]] /\ queue'[out[p]] = queue[out[p]]
        BY <1>3, <2>1, <4>1 DEF Linked, Got
      <4> QED
        BY <1>4, <4>1, <4>2, <4>3 DEF AtInput
    \* client1 connects: nothing has been said by its queues.
    <3>3. CASE r = p
      <4>1. /\ out'[p] = out[p] /\ out[p] \in 1 .. Len(queue) /\ in'[p] = h
            /\ h \in 1 .. Len(queue') /\ Len(queue') \in Nat
        BY <1>1, <2>1, <2>3, <3>3, LenProperties DEF First, Second, Connected, Connects, Got
      <4>2. /\ pc[q] # "input"
            /\ \A k \in 1 .. Len(queue) : k \in {out[p], h} => queue[k] = <<>>
        <5>1. \A s \in Procs : Connected(s) /\ s # q => out'[s] # out[p] /\ out'[s] # h
          BY <1>1, <2>1, <3>3, <4>1 DEF Linked, Undisturbed
        <5>2. \A s \in Procs : Connected(s) /\ s # q => out[s] # out[p] /\ out[s] # h
          BY <1>1, <2>1, <3>3, <5>1
        <5>3. Connected(q) => in[q] = out[p] /\ out[q] = h
          BY <1>1, <2>1, <3>3, <4>1 DEF Linked
        <5>4. Connected(q) => ~Spoken(q)
          BY <1>1, <2>1, <3>3, <5>2, <5>3 DEF Spoken
        <5>5. pc[q] # "input"
          BY <1>1, <5>4 DEF Senders, Opening
        <5>6. ASSUME NEW k \in 1 .. Len(queue), k \in {out[p], h}, queue[k] # <<>> PROVE FALSE
          <6>1. PICK s \in Procs : Connected(s) /\ out[s] = k /\ (s \in Seconds => Spoken(s))
            BY <5>6 DEF Senders
          <6> QED
            BY <5>2, <5>4, <5>6, <6>1
        <5> QED
          BY <5>5, <5>6
      <4>3. Len(queue'[out[p]]) = 0 /\ Len(queue'[h]) = 0
        BY <1>1, <2>1, <4>1, <4>2, EmptySeq DEF Got
      <4>4. pc'[q] = pc[q]
        BY <1>1, <2>3, <3>3 DEF Connects
      <4> QED
        BY <4>1, <4>2, <4>3, <4>4 DEF AtInput
    <3> QED
      BY <3>1, <3>2, <3>3
  <2> QED
    BY <2>1, <2>2, <2>3
<1>9. ASSUME NEW r \in Procs, Say(r) PROVE One'
  <2>1. /\ pc[r] = "input" /\ pc'[r] # "input" /\ \A s \in Procs \ {r} : pc'[s] = pc[s]
        /\ UNCHANGED <<in, out>>
    BY <1>1, <1>9 DEF Say, AfterSending, Leaving
  <2>2. Linked(p, q) /\ Connected(r)
    BY <1>9, <2>1 DEF Linked, Undisturbed, Connected, Opening
  <2>3. /\ \A k \in 1 .. Len(queue) : k # out[r] => queue'[k] = queue[k]
        /\ Len(queue'[out[r]]) = Len(queue[out[r]]) + 1
    BY <1>9, <2>2, Sending DEF Say, Connected
  <2>4. in[p] \in 1 .. Len(queue) /\ out[p] \in 1 .. Len(queue) /\ in[p] # out[p]
    BY <1>1, <1>3, <2>2, Lines DEF Linked
  <2>5. Len(queue[out[p]]) \in Nat /\ Len(queue[in[p]]) \in Nat
    BY <1>2, <2>4
  <2> DEFINE speaks == Len(queue[out[p]])
             listens == Len(queue[in[p]])
  <2>a. AtInput(p) \in 0 .. 1 /\ AtInput(q) \in 0 .. 1
    BY DEF AtInput
  <2>6. CASE r = p
    <3>1. AtInput(p) = 1 /\ AtInput(p)' = 0 /\ AtInput(q)' = AtInput(q)
      BY <1>1, <2>1, <2>6 DEF AtInput
    <3>2. speaks' = speaks + 1 /\ listens' = listens
      BY <2>1, <2>3, <2>4, <2>6
    <3> QED
      BY <1>4, <2>2, <2>5, <2>a, <3>1, <3>2
  <2>7. CASE r = q
    <3>1. out[q] = in[p]
      BY <2>2, <2>7 DEF Linked
    <3>2. AtInput(q) = 1 /\ AtInput(q)' = 0 /\ AtInput(p)' = AtInput(p)
      BY <1>1, <2>1, <2>7 DEF AtInput
    <3>3. listens' = listens + 1 /\ speaks' = speaks
      BY <2>1, <2>3, <2>4, <2>7, <3>1
    <3> QED
      BY <1>4, <2>2, <2>5, <2>a, <3>2, <3>3, SMTT(30)
  <2>8. CASE r \notin {p, q}
    <3>1. out[r] # in[p] /\ out[r] # out[p]
      BY <2>2, <2>8 DEF Linked, Undisturbed
    <3> QED
      BY <1>1, <1>4, <2>1, <2>2, <2>3, <2>4, <2>8, <3>1 DEF AtInput
  <2> QED
    BY <2>6, <2>7, <2>8
<1>10. ASSUME NEW r \in Procs, Receive(r) PROVE One'
  <2>1. Connected(r)
    BY <1>10 DEF Receive, Opening
  <2>2. /\ in[r] \in 1 .. Len(queue) /\ queue[in[r]] # <<>>
        /\ \A k \in 1 .. Len(queue) : k # in[r] => queue'[k] = queue[k]
        /\ Len(queue'[in[r]]) = Len(queue[in[r]]) - 1
        /\ pc' = [pc EXCEPT ![r] = "input"] \/ pc' = [pc EXCEPT ![r] = Leaving(r)]
        /\ UNCHANGED <<in, out>>
    BY <1>10, <2>1, Receiving DEF Connected
  <2>3. \A s \in Procs \ {r} : pc'[s] = pc[s]
    BY <1>1, <2>2
  <2>4. Linked(p, q)
    BY <2>2 DEF Linked, Undisturbed, Connected
  <2>5. in[p] \in 1 .. Len(queue) /\ out[p] \in 1 .. Len(queue) /\ in[p] # out[p]
    BY <1>1, <1>3, <2>4, Lines DEF Linked
  <2>6. Len(queue[out[p]]) \in Nat /\ Len(queue[in[p]]) \in Nat
    BY <1>2, <2>5
  <2>7. pc[r] = "receive"
    BY <1>10 DEF Receive
  <2> DEFINE speaks == Len(queue[out[p]])
             listens == Len(queue[in[p]])
  <2>a. /\ AtInput(p) \in 0 .. 1 /\ AtInput(q) \in 0 .. 1
        /\ AtInput(p)' \in 0 .. 1 /\ AtInput(q)' \in 0 .. 1
    BY DEF AtInput
  <2>8. CASE r = p
    <3>1. AtInput(p) = 0 /\ AtInput(q)' = AtInput(q)
      BY <1>1, <2>3, <2>7, <2>8 DEF AtInput
    <3>2. speaks' = speaks /\ listens' = listens - 1
      BY <2>2, <2>5, <2>8
    <3> QED
      BY <1>4, <2>4, <2>6, <2>a, <3>1, <3>2, SMTT(30)
  <2>9. CASE r = q
    <3>1. in[q] = out[p]
      BY <2>1, <2>4, <2>9 DEF Linked
    <3>2. AtInput(q) = 0 /\ AtInput(p)' = AtInput(p)
      BY <1>1, <2>3, <2>7, <2>9 DEF AtInput
    <3>3. listens' = listens /\ speaks' = speaks - 1
      BY <2>2, <2>5, <2>9, <3>1
    <3>4. AtInput(q)' + speaks' <= AtInput(q) + speaks
      BY <2>6, <2>a, <3>2, <3>3
    <3>5. speaks \in Nat /\ listens \in Nat /\ AtInput(p) + AtInput(q) + speaks + listens <= 1
      BY <1>4, <2>4, <2>6
    <3> HIDE DEF speaks, listens
    <3>6. (AtInput(p) + AtInput(q) + speaks + listens <= 1)'
      BY <2>a, <3>2, <3>3, <3>4, <3>5
    <3> QED
      BY <3>6 DEF speaks, listens
  <2>10. CASE r \notin {p, q}
    <3>1. in[r] # in[p] /\ in[r] # out[p]
      BY <2>1, <2>4, <2>10 DEF Linked, Undisturbed
    <3> QED
      BY <1>1, <1>4, <2>2, <2>3, <2>4, <2>5, <2>10, <3>1 DEF AtInput
  <2> QED
    BY <2>8, <2>9, <2>10
<1>11. CASE UNCHANGED vars
  BY <1>5, <1>11 DEF vars, Connected
<1> QED
  BY <1>6, <1>7, <1>8, <1>9, <1>10, <1>11 DEF Next, Step

-----------------------------------------------------------------------------
(* The theorems.                                                             *)

LEMMA Initially ==
    ASSUME PingPongAssumption
    PROVE  Init => IInv
<1> SUFFICES ASSUME Init PROVE IInv
  OBVIOUS
<1>1. queue = <<>> /\ Len(queue) = 0 /\ queue \in Seq(Messages)
  BY EmptySeq DEF Init
<1>2. /\ \A p \in Procs : pc[p] = "off" /\ in[p] = 0 /\ out[p] = 0
      /\ name["queue1"] = 0 /\ name["queue2"] = 0
  BY DEF Init, Names
<1>3. TypeOK
  BY <1>1, <1>2 DEF Init, TypeOK, Messages, PingPongAssumption
<1>4. Kinds /\ Opening
  BY <1>2 DEF Kinds, Opening, First, Second
<1>5. Senders
  BY <1>1, <1>2 DEF Senders, Procs
<1>6. OneTurn
  BY <1>2 DEF OneTurn, Linked, Connected, Procs
<1> QED
  BY <1>3, <1>4, <1>5, <1>6 DEF IInv

LEMMA InvariantHolds ==
    ASSUME PingPongAssumption
    PROVE  Spec => []IInv
<1>1. Init => IInv
  BY Initially
<1>2. IInv /\ [Next]_vars => IInv'
  BY TypeStep, KindsStep, OpeningStep, SendersStep, OneTurnStep DEF IInv
<1> QED
  BY <1>1, <1>2, PTL DEF Spec

\* The variables keep their types.
THEOREM TypeCorrect ==
    ASSUME PingPongAssumption
    PROVE  Spec => []TypeOK
<1>1. IInv => TypeOK
  BY DEF IInv
<1> QED
  BY <1>1, InvariantHolds, PTL

\* Two that talk to each other take turns, whatever other runs do with the names, and
\* whoever is killed or fails to get a queue.
THEOREM InTurnHolds ==
    ASSUME PingPongAssumption
    PROVE  Spec => []InTurn
<1>1. IInv => InTurn
  <2> SUFFICES ASSUME IInv, NEW p \in Firsts, NEW q \in Seconds, Paired(p, q), out[q] # 0
               PROVE  Cardinality({r \in {p, q} : pc[r] = "input"})
                          + Len(queue[out[p]]) + Len(queue[in[p]]) <= 1
    BY DEF InTurn
  <2>1. p # q
    BY DEF PingPongAssumption
  <2>2. Linked(p, q)
    BY DEF Paired, Linked, Undisturbed, Connected
  <2>3. AtInput(p) + AtInput(q) + Len(queue[out[p]]) + Len(queue[in[p]]) <= 1
    BY <2>2 DEF IInv, OneTurn
  <2>4. Cardinality({r \in {p, q} : pc[r] = "input"}) = AtInput(p) + AtInput(q)
    <3> DEFINE asked == {r \in {p, q} : pc[r] = "input"}
    <3>1. asked = {} \/ asked = {p} \/ asked = {q} \/ asked = {p, q}
      OBVIOUS
    <3>2. /\ Cardinality({}) = 0 /\ Cardinality({p}) = 1 /\ Cardinality({q}) = 1
          /\ Cardinality({p, q}) = 2
      <4>1. IsFiniteSet({}) /\ Cardinality({}) = 0
        BY FS_EmptySet
      <4>2. /\ IsFiniteSet({p}) /\ Cardinality({p}) = 1
            /\ IsFiniteSet({q}) /\ Cardinality({q}) = 1
        BY FS_Singleton
      <4>3. Cardinality({p} \cup {q}) = Cardinality({p}) + 1
        BY <2>1, <4>2, FS_AddElement
      <4>4. {p} \cup {q} = {p, q}
        OBVIOUS
      <4> QED
        BY <4>1, <4>2, <4>3, <4>4
    <3>3. CASE pc[p] = "input" /\ pc[q] = "input"
      BY <3>2, <3>3, asked = {p, q} DEF AtInput
    <3>4. CASE pc[p] = "input" /\ pc[q] # "input"
      BY <3>2, <3>4, asked = {p} DEF AtInput
    <3>5. CASE pc[p] # "input" /\ pc[q] = "input"
      BY <3>2, <3>5, asked = {q} DEF AtInput
    <3>6. CASE pc[p] # "input" /\ pc[q] # "input"
      BY <3>2, <3>6, asked = {} DEF AtInput
    <3> QED
      BY <3>3, <3>4, <3>5, <3>6
  <2>5. Len(queue[out[p]]) \in Nat /\ Len(queue[in[p]]) \in Nat
    <3>1. /\ queue \in Seq(Messages) /\ Len(queue) \in Nat
          /\ in[p] \in 1 .. Len(queue) /\ out[p] \in 1 .. Len(queue)
      BY <2>2, LenProperties DEF IInv, TypeOK, Messages, Linked, Connected, Procs
    <3> QED
      BY <3>1, ElementOfSeq, LenProperties DEF Messages
  <2> QED
    BY <2>3, <2>4, <2>5
<1> QED
  BY <1>1, InvariantHolds, PTL
=============================================================================
