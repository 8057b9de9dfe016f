------------------------------ MODULE MqPingPong ------------------------------
(***************************************************************************)
(* Module3/07: two users take turns over two POSIX message queues.         *)
(* client1 unlinks the names of the queues, makes both anew and speaks     *)
(* first; client2 opens what the names stand for and listens first.  Runs  *)
(* on other terminals use the same names.  A queue outlives its name for   *)
(* those that have it open.  One action is one system call, and no program *)
(* catches a signal.                                                       *)
(***************************************************************************)
EXTENDS Integers, Sequences, FiniteSets

CONSTANTS
    Firsts,         \* the runs of client1
    Seconds,        \* the runs of client2
    Killable,       \* TRUE when ^C may come
    InputEnds,      \* TRUE when the input may end (^D)
    CreateFails,    \* TRUE when mq_open() may fail to make a queue
    Capacity,       \* mq_maxmsg
    MaxSent         \* bound: how many messages are sent

\* What is assumed of the constants.
PingPongAssumption ==
    /\ Firsts \cap Seconds = {} /\ {Killable, InputEnds, CreateFails} \subseteq BOOLEAN
    /\ Capacity \in Nat \ {0} /\ MaxSent \in Nat

VARIABLES
    name,       \* the queue each name stands for, 0 for none
    queue,      \* what every queue ever made holds
    pc,         \* where each process is
    in, out,    \* recv_q and send_q of each process, 0 before they are open
    quit,       \* history: the processes that have sent "shutdown"
    sent        \* how many messages were sent

vars == <<name, queue, pc, in, out, quit, sent>>

Procs == Firsts \cup Seconds
Names == {"queue1", "queue2"}
MSG_PRIO == 1
EXIT_PRIO == 10

Init ==
    /\ name = [n \in Names |-> 0] /\ queue = <<>>
    /\ pc = [p \in Procs |-> "off"]
    /\ in = [p \in Procs |-> 0] /\ out = [p \in Procs |-> 0]
    /\ quit = {} /\ sent = 0

Goto(p, from, to) == pc[p] = from /\ pc' = [pc EXCEPT ![p] = to]

-----------------------------------------------------------------------------
Begin(p) ==
    /\ Goto(p, "off", IF p \in Firsts THEN "clear1" ELSE "open1")
    /\ UNCHANGED <<name, queue, in, out, quit, sent>>

\* mq_unlink() of what an earlier run has left, or another run uses.
Clear(p) ==
    /\ \/ Goto(p, "clear1", "clear2") /\ name' = [name EXCEPT !["queue1"] = 0]
       \/ Goto(p, "clear2", "open1") /\ name' = [name EXCEPT !["queue2"] = 0]
    /\ UNCHANGED <<queue, in, out, quit, sent>>

\* mq_open() of name n; handle is what the process gets, 0 when it fails.  client1 makes
\* the queue when another run has not made it in between.
Opened(p, n, handle) ==
    \/ /\ name[n] = 0 /\ p \in Firsts /\ handle = Len(queue) + 1
       /\ queue' = Append(queue, <<>>)
       /\ name' = [name EXCEPT ![n] = handle]
    \/ /\ \/ (name[n] # 0 \/ p \notin Firsts) /\ handle = name[n]
          \/ CreateFails /\ p \in Firsts /\ handle = 0
       /\ UNCHANGED <<queue, name>>

Handles == 0 .. Len(queue) + 1

\* "queue1" leads from client1 to client2.
Open1(p) ==
    /\ Goto(p, "open1", "open2")
    /\ \E h \in Handles :
          /\ Opened(p, "queue1", h)
          /\ IF p \in Firsts THEN out' = [out EXCEPT ![p] = h] /\ UNCHANGED in
                             ELSE in' = [in EXCEPT ![p] = h] /\ UNCHANGED out
    /\ UNCHANGED <<quit, sent>>

\* Mutant: client2 asks its user first, as client1 does.
FirstTurnBoth(p) == "input"

FirstTurn(p) == IF p \in Firsts THEN "input" ELSE "receive"

\* The second queue, and the test of both; a program that has not got both gives up what
\* it has got, and leaves the names as they are.
Open2(p) ==
    /\ pc[p] = "open2"
    /\ \E h \in Handles :
          /\ Opened(p, "queue2", h)
          /\ IF h = 0 \/ (in[p] = 0 /\ out[p] = 0)
             THEN /\ pc' = [pc EXCEPT ![p] = "done"]
                  /\ in' = [in EXCEPT ![p] = 0] /\ out' = [out EXCEPT ![p] = 0]
             ELSE /\ pc' = [pc EXCEPT ![p] = FirstTurn(p)]
                  /\ IF p \in Firsts THEN in' = [in EXCEPT ![p] = h] /\ UNCHANGED out
                                     ELSE out' = [out EXCEPT ![p] = h] /\ UNCHANGED in
    /\ UNCHANGED <<quit, sent>>

\* What follows the loop: client1 removes the names, client2 just closes.
Leaving(p) == IF p \in Firsts THEN "remove1" ELSE "done"

\* Where a process goes on after it has sent a message.
AfterSending(p, prio) == IF prio = EXIT_PRIO THEN Leaving(p) ELSE "receive"

\* A line is read, and mq_send() waits until there is room.
Say(p) ==
    /\ pc[p] = "input" /\ sent < MaxSent /\ Len(queue[out[p]]) < Capacity
    /\ \E prio \in {MSG_PRIO, EXIT_PRIO} :
          /\ queue' = [queue EXCEPT ![out[p]] = Append(@, prio)]
          /\ pc' = [pc EXCEPT ![p] = AfterSending(p, prio)]
          /\ quit' = IF prio = EXIT_PRIO THEN quit \cup {p} ELSE quit
    /\ sent' = sent + 1
    /\ UNCHANGED <<name, in, out>>

EndOfInput(p) ==
    /\ InputEnds /\ Goto(p, "input", Leaving(p))
    /\ UNCHANGED <<name, queue, in, out, quit, sent>>

\* Mutant: the priority is not looked at.
AfterReceivingOn(p, prio) == "input"

\* Where a process goes on after it has received a message.
AfterReceiving(p, prio) == IF prio = EXIT_PRIO THEN Leaving(p) ELSE "input"

\* mq_receive(): the oldest message of the highest priority.
Receive(p) ==
    /\ pc[p] = "receive"
    /\ \E k \in DOMAIN queue[in[p]] :
          LET q == queue[in[p]]
          IN  /\ \A j \in DOMAIN q : IF j < k THEN q[j] < q[k] ELSE q[j] <= q[k]
              /\ queue' = [queue EXCEPT ![in[p]] = SubSeq(q, 1, k - 1) \o SubSeq(q, k + 1, Len(q))]
              /\ pc' = [pc EXCEPT ![p] = AfterReceiving(p, q[k])]
    /\ UNCHANGED <<name, in, out, quit, sent>>

\* The names are removed, whatever queues they stand for by now.
Remove(p) ==
    /\ \/ Goto(p, "remove1", "remove2") /\ name' = [name EXCEPT !["queue1"] = 0]
       \/ Goto(p, "remove2", "done") /\ name' = [name EXCEPT !["queue2"] = 0]
    /\ UNCHANGED <<queue, in, out, quit, sent>>

Dies(p) ==
    /\ Killable /\ pc[p] \notin {"off", "done"}
    /\ pc' = [pc EXCEPT ![p] = "done"]
    /\ UNCHANGED <<name, queue, in, out, quit, sent>>

-----------------------------------------------------------------------------
Step(p) == Clear(p) \/ Open1(p) \/ Open2(p) \/ Receive(p) \/ Remove(p)

Next == \E p \in Procs : Begin(p) \/ Step(p) \/ Say(p) \/ EndOfInput(p) \/ Dies(p)

\* A process goes on when it can; nobody needs to start, to type, or to be killed.
Fairness == \A p \in Procs : WF_vars(Step(p))

Spec == Init /\ [][Next]_vars /\ Fairness

-----------------------------------------------------------------------------
(* Properties.                                                               *)

TypeOK ==
    /\ queue \in Seq(Seq({MSG_PRIO, EXIT_PRIO}))
    /\ name \in [Names -> 0 .. Len(queue)]
    /\ pc \in [Procs -> {"off", "clear1", "clear2", "open1", "open2", "input", "receive",
                         "remove1", "remove2", "done"}]
    /\ in \in [Procs -> 0 .. Len(queue)] /\ out \in [Procs -> 0 .. Len(queue)]
    /\ quit \subseteq Procs /\ sent \in 0 .. MaxSent

\* p and q talk to each other, or are about to, and no third process has opened a queue
\* of theirs.
Paired(p, q) ==
    /\ out[p] # 0 /\ out[p] = in[q] /\ out[q] \in {0, in[p]}
    /\ \A r \in Procs \ {p, q} : {in[r], out[r]} \cap {in[p], out[p]} \subseteq {0}

\* Two that talk to each other take turns: one of them is asked for a line, or one message
\* is under way, never two of these (README.md:4).
InTurn ==
    \A p \in Firsts, q \in Seconds :
        Paired(p, q) /\ out[q] # 0 =>
            Cardinality({r \in {p, q} : pc[r] = "input"})
                + Len(queue[out[p]]) + Len(queue[in[p]]) <= 1

\* "Either client may send the word shutdown to end the exchange.  The work of both
\* programs will be ended" (README.md:11): also when the other has not opened its second
\* queue, the names are gone already, or the sender is killed afterwards.
EndsOther(p, q) == p \in quit /\ Paired(p, q) ~> pc[q] = "done" \/ ~Paired(p, q)

BothEnd == \A p, q \in Procs : p # q => EndsOther(p, q)
=============================================================================
