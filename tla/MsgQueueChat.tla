---------------------------- MODULE MsgQueueChat ----------------------------
(***************************************************************************)
(* Module3/06: a chat over one System V message queue.  Messages of type   *)
(* 10 are for the server, messages of type id for the user with that id.   *)
(* One action is one msgsnd() or msgrcv(), with what its process does      *)
(* before the next one: nothing else is shared.  No program catches a      *)
(* signal, so ^C is a death at any point, and the queue outlives everyone. *)
(***************************************************************************)
EXTENDS Integers, Sequences, FiniteSets, SequencesExt

CONSTANTS
    Terminals,      \* the terminals clients are started on
    Arguments,      \* the numbers a user may give as the client's argument
    Texts,          \* what a user may type
    Killable,       \* TRUE when ^C may come, to the server and to the clients
    InputEnds,      \* TRUE when the input of a client may end (^D)
    MaxClients,     \* MAX_CLIENTS
    Capacity,       \* how many messages the queue can hold
    MaxSent,        \* bound: how many messages are sent to the server
    MaxStarts       \* bound: how many programs are started

ServerType == 10

ASSUME ChatAssumption ==
    /\ Arguments \subseteq Int /\ IsFiniteSet(Arguments) /\ "" \in Texts
    /\ Killable \in BOOLEAN /\ InputEnds \in BOOLEAN
    /\ {MaxClients, Capacity, MaxSent, MaxStarts} \subseteq Nat

VARIABLES
    queue,      \* the messages in the queue, [to, id, text, n] each
    made,       \* TRUE once the queue exists
    server,     \* "off", or "on" while a server runs
    clients,    \* clients[] of the server, up to clientCount
    cur,        \* the message the server is sending on
    todo,       \* the clients its loop has still to look at
    pc,         \* where each client is
    id,         \* the clientId of each client
    line,       \* message[] of each client, "?" before anything was read
    eof,        \* the clients whose input has ended
    got,        \* what each client has received
    sent,       \* how many messages were sent to the server
    starts      \* how many programs were started

vars == <<queue, made, server, clients, cur, todo, pc, id, line, eof, got, sent, starts>>
serverVars == <<server, clients, cur, todo>>
clientVars == <<pc, id, line, eof, got>>

PCs == {"off", "connect", "prompt", "send", "drain", "done"}
NoMessage == [to |-> 0, id |-> 0, text |-> "", n |-> 0]
Running(t) == pc[t] \notin {"off", "done"}

Init ==
    /\ queue = <<>> /\ made = FALSE
    /\ server = "off" /\ clients = <<>> /\ cur = NoMessage /\ todo = <<>>
    /\ pc = [t \in Terminals |-> "off"]
    /\ id = [t \in Terminals |-> 0]
    /\ line = [t \in Terminals |-> "?"]
    /\ eof = {}
    /\ got = [t \in Terminals |-> <<>>]
    /\ sent = 0 /\ starts = 0

-----------------------------------------------------------------------------
(* The queue.                                                                *)

\* msgsnd() with no flags waits until there is room.
Fits == Len(queue) < Capacity

\* The message msgrcv() takes for a type: the first of it, the first of all for 0, and
\* for less than 0 the first of the lowest type up to its absolute value.
Matches(k, type) ==
    LET to == queue[k].to
    IN  CASE type > 0 -> to = type
          [] type = 0 -> TRUE
          [] type < 0 -> to <= -type /\ \A j \in DOMAIN queue :
                                            queue[j].to <= -type => to <= queue[j].to

Taken(type) ==
    {k \in DOMAIN queue : Matches(k, type) /\ \A j \in 1 .. k - 1 : ~Matches(j, type)}

-----------------------------------------------------------------------------
(* The server.                                                               *)

\* msgget() with IPC_CREAT: a queue that exists is used as it is.
ServerStart ==
    /\ server = "off" /\ starts < MaxStarts
    /\ server' = "on" /\ made' = TRUE /\ clients' = <<>> /\ todo' = <<>>
    /\ starts' = starts + 1
    /\ UNCHANGED <<queue, cur, clientVars, sent>>

Exists(i) == i \in Range(clients)

\* Mutant: the table is not searched.
JoinedTwice(i) == Append(clients, i)

\* The table with i in it.
Joined(i) == IF Exists(i) THEN clients ELSE Append(clients, i)

\* Mutant: the last client of the table is removed, whoever it is.
LeftLast(s, i) == Front(s)

\* The table s without the first entry for i.
Left(s, i) == RemoveFirst(s, i)

\* Whether a message is sent on.
Relayed(m) == m.text # "shutdown" /\ (Exists(m.id) \/ m.text # "#connect")

\* One turn of the server's loop, up to its first msgsnd().
ServerReceive ==
    /\ server = "on" /\ todo = <<>>
    /\ \E k \in Taken(ServerType) :
          LET m == queue[k]
          IN  /\ queue' = RemoveAt(queue, k)
              /\ clients' = IF m.text = "shutdown" THEN Left(Joined(m.id), m.id)
                            ELSE Joined(m.id)
              /\ cur' = m
              /\ todo' = IF Relayed(m) THEN Joined(m.id) ELSE <<>>
    /\ UNCHANGED <<made, server, clientVars, sent, starts>>

\* Mutant: nobody is passed over.
PassesNobody(c) == FALSE

\* The loop over the clients passes the sender over.
Passes(c) == c = cur.id

\* Mutant: the loop ends at the sender.
RestBroken == IF Head(todo) = cur.id THEN <<>> ELSE Tail(todo)

\* The clients the loop has still to look at.
Rest == Tail(todo)

\* One turn of the loop over the clients; msgsnd() refuses a type below 1.
ServerSend ==
    /\ server = "on" /\ todo # <<>>
    /\ IF Passes(Head(todo)) \/ Head(todo) < 1 THEN UNCHANGED queue
       ELSE Fits /\ queue' = Append(queue, [cur EXCEPT !.to = Head(todo)])
    /\ todo' = Rest
    /\ UNCHANGED <<made, server, clients, cur, clientVars, sent, starts>>

-----------------------------------------------------------------------------
(* The clients.                                                              *)

\* The bound: no more messages are begun than may be sent.
MayBegin == sent + Cardinality({t \in Terminals : pc[t] \in {"connect", "send"}}) < MaxSent

\* The test of the argument.
Allowed(i) == i % 10 = 0 /\ i # ServerType

\* msgget() without IPC_CREAT fails before the first server has made the queue.
Start(t) ==
    /\ ~Running(t) /\ made /\ starts < MaxStarts /\ MayBegin
    /\ \E i \in Arguments : Allowed(i) /\ id' = [id EXCEPT ![t] = i]
    /\ pc' = [pc EXCEPT ![t] = "connect"]
    /\ line' = [line EXCEPT ![t] = "?"]
    /\ eof' = eof \ {t}
    /\ got' = [got EXCEPT ![t] = <<>>]
    /\ starts' = starts + 1
    /\ UNCHANGED <<queue, made, serverVars, sent>>

\* msgsnd() of a text to the server.
Send(t, text) ==
    /\ Fits
    /\ queue' = Append(queue, [to |-> ServerType, id |-> id[t], text |-> text, n |-> sent + 1])
    /\ sent' = sent + 1

Connect(t) ==
    /\ pc[t] = "connect"
    /\ Send(t, "#connect")
    /\ pc' = [pc EXCEPT ![t] = "prompt"]
    /\ UNCHANGED <<made, serverVars, id, line, eof, got, starts>>

\* fgets(), and the test for an empty line.  At the end of the input fgets() changes
\* nothing, and message[] is used as it is: with the last line, or with whatever was on
\* the stack when there was none.
ReadLine(t) ==
    /\ pc[t] = "prompt"
    /\ \E l \in IF t \in eof /\ line[t] # "?" THEN {line[t]} ELSE Texts :
          /\ l = "" \/ MayBegin
          /\ line' = [line EXCEPT ![t] = l]
          /\ pc' = [pc EXCEPT ![t] = IF l = "" THEN "drain" ELSE "send"]
    /\ UNCHANGED <<queue, made, serverVars, id, eof, got, sent, starts>>

EndOfInput(t) ==
    /\ InputEnds /\ Running(t) /\ t \notin eof
    /\ eof' = eof \cup {t}
    /\ UNCHANGED <<queue, made, serverVars, pc, id, line, got, sent, starts>>

SendLine(t) ==
    /\ pc[t] = "send"
    /\ Send(t, line[t])
    /\ pc' = [pc EXCEPT ![t] = IF line[t] = "shutdown" THEN "done" ELSE "drain"]
    /\ UNCHANGED <<made, serverVars, id, line, eof, got, starts>>

\* msgrcv() with IPC_NOWAIT, again and again until there is no message.
Drain(t) ==
    /\ pc[t] = "drain"
    /\ \/ /\ Taken(id[t]) = {}
          /\ pc' = [pc EXCEPT ![t] = "prompt"]
          /\ UNCHANGED queue /\ UNCHANGED got
       \/ /\ \E k \in Taken(id[t]) :
                /\ got' = [got EXCEPT ![t] = Append(@, queue[k])]
                /\ queue' = RemoveAt(queue, k)
          /\ UNCHANGED pc
    /\ UNCHANGED <<made, serverVars, id, line, eof, sent, starts>>

-----------------------------------------------------------------------------
(* ^C                                                                        *)

ServerDies ==
    /\ Killable /\ server = "on"
    /\ server' = "off" /\ clients' = <<>> /\ todo' = <<>>
    /\ UNCHANGED <<queue, made, cur, clientVars, sent, starts>>

ClientDies(t) ==
    /\ Killable /\ Running(t)
    /\ pc' = [pc EXCEPT ![t] = "done"]
    /\ UNCHANGED <<queue, made, serverVars, id, line, eof, got, sent, starts>>

-----------------------------------------------------------------------------
ServerStep == ServerReceive \/ ServerSend
ClientStep(t) == Connect(t) \/ SendLine(t) \/ Drain(t)

Next ==
    \/ ServerStart \/ ServerStep \/ ServerDies
    \/ \E t \in Terminals :
          Start(t) \/ ClientStep(t) \/ ReadLine(t) \/ EndOfInput(t) \/ ClientDies(t)

Spec == Init /\ [][Next]_vars

\* The server and the clients go on; a user need not type anything.
Fairness == WF_vars(ServerStep) /\ \A t \in Terminals : WF_vars(ClientStep(t))

\* ... but here every user presses enter again and again.
Attentive == \A t \in Terminals : WF_vars(ReadLine(t))

LiveSpec == Spec /\ Fairness
AttentiveSpec == LiveSpec /\ Attentive

-----------------------------------------------------------------------------
(* Properties.                                                               *)

Users == {i \in Arguments : Allowed(i)}
Messages == [to : Users \cup {0, ServerType}, id : Users \cup {0}, text : Texts \cup {"#connect"},
             n : 0 .. MaxSent]

TypeOK ==
    /\ queue \in Seq(Messages) /\ Len(queue) <= Capacity
    /\ made \in BOOLEAN /\ server \in {"off", "on"}
    /\ clients \in Seq(Users) /\ cur \in Messages /\ todo \in Seq(Users)
    /\ pc \in [Terminals -> PCs] /\ id \in [Terminals -> Users \cup {0}]
    /\ line \in [Terminals -> Texts \cup {"?"}] /\ eof \subseteq Terminals
    /\ got \in [Terminals -> Seq(Messages)]
    /\ sent \in 0 .. MaxSent /\ starts \in 0 .. MaxStarts

\* clients[] is not written past its end while there are no more users than it has room
\* for, however often they come back, leave, or come twice at once.
InBounds == Cardinality(Users) <= MaxClients => Len(clients) <= MaxClients

\* A client reads what another user has said once and in the order it was said, whoever
\* dies in between, and never what its own user has said.
InOrder ==
    \A t \in Terminals : \A k \in DOMAIN got[t] :
        /\ got[t][k].id # id[t]
        /\ \A j \in 1 .. k - 1 : got[t][j].id = got[t][k].id => got[t][j].n < got[t][k].n

\* The messages of the queue q for u, in their order: the i-th is at the place that i of
\* their places do not exceed.
Places(q, u) == {k \in DOMAIN q : q[k].to = u}
MailIn(q, u) ==
    LET P == Places(q, u)
    IN  [i \in 1 .. Cardinality(P) |-> q[CHOOSE k \in P : Cardinality({j \in P : j <= k}) = i]]

\* What is in the queue for the server, and for each user with the message the server is
\* about to put there.
Due(u) == IF u \in Range(todo) \ {cur.id} THEN <<[cur EXCEPT !.to = u]>> ELSE <<>>
Inbox == MailIn(queue, ServerType)
Mailboxes == [u \in Users |-> MailIn(queue, u) \o Due(u)]

Room == INSTANCE ChatRoom WITH
            Ids <- Users, inbox <- Inbox, members <- Range(clients), mailbox <- Mailboxes

\* The queue and the loop over the clients implement a chat that puts each message into
\* all mailboxes at once: a message is in the mailbox of the clients still to be served.
ImplementsChatRoom == Room!Spec

\* A "shutdown" of u is in front of place k of the server's messages.
LeavesBefore(u, k) ==
    \E j \in 1 .. k - 1 : queue[j].to = ServerType /\ queue[j].id = u /\ queue[j].text = "shutdown"

\* Every client gets what another user says while it is a member, if its user presses
\* enter now and then and no other terminal uses its identifier.  A client that comes back
\* before the server has read the "shutdown" of its last run is a member still, and is
\* struck off when the server reads it: that client misses what is said in between.
HeardBy(t, n) ==
    LET waiting == \E k \in DOMAIN queue :
                      /\ queue[k].n = n /\ queue[k].to = ServerType /\ queue[k].id # id[t]
                      /\ queue[k].text \notin {"shutdown", "#connect"}
                      /\ ~LeavesBefore(id[t], k)
        own == \A s \in Terminals \ {t} : Running(s) => id[s] # id[t]
    IN  waiting /\ own /\ Running(t) /\ Exists(id[t]) ~>
            (\E k \in DOMAIN got[t] : got[t][k].n = n) \/ ~Running(t) \/ ~own

Heard == \A t \in Terminals, n \in 1 .. MaxSent : HeardBy(t, n)

\* "On receiving a message [the server] processes it: ... and sends it on to the other
\* connected users" (README.md:4).
RelayFinished == todo # <<>> ~> todo = <<>>
=============================================================================
