------------------------------- MODULE RawEcho -------------------------------
(***************************************************************************)
(* Module3/Cross-task_1: a server that sends every line back with its      *)
(* number, over UDP datagrams that both sides put together themselves.     *)
(* Clients are told apart by address and port, which the user chooses: a   *)
(* client may come back under the address it had.  The child process of a  *)
(* client only prints and is left out; a step of the parent that kills it  *)
(* and waits for it cannot block.  One action is the handling of one       *)
(* datagram or of one line.                                                *)
(***************************************************************************)
EXTENDS Integers, Sequences, SequencesExt

CONSTANTS
    Clients,        \* the addresses of the clients
    Faults,         \* what the network may do, of "loss", "duplication" and "reordering"
    Killable,       \* TRUE when processes may be killed (SIGKILL)
    MaxLines,       \* bound: how many lines are typed
    MaxFlight,      \* bound: how many datagrams are on their way to the server
    MaxCopies,      \* bound: how many datagrams are duplicated
    MaxStarts       \* bound: how many programs are started

\* What is assumed of the constants.
EchoAssumption ==
    /\ Faults \subseteq {"loss", "duplication", "reordering"} /\ Killable \in BOOLEAN
    /\ {MaxLines, MaxFlight, MaxCopies, MaxStarts} \subseteq Nat

VARIABLES
    server,     \* "off" or "on"
    clients,    \* the list of clients from its head on, [who, counter] each
    up,         \* the datagrams on their way to the server, [from, text, k] each
    pc,         \* where the parent process of each client is
    spoken,     \* how many lines each client has sent since it was started
    reply,      \* history: the last answer to each client, number n to its line k
    lapsed,     \* history: the clients cut off by the network, by a kill or a restart
    lines,      \* how many lines were typed
    copies,     \* how many datagrams were duplicated
    starts      \* how many programs were started

vars == <<server, clients, up, pc, spoken, reply, lapsed, lines, copies, starts>>
clientVars == <<pc, spoken, lines>>

Init ==
    /\ server = "off" /\ clients = <<>> /\ up = <<>>
    /\ pc = [c \in Clients |-> "off"] /\ spoken = [c \in Clients |-> 0]
    /\ reply = [c \in Clients |-> [k |-> 0, n |-> 0]]
    /\ lapsed = {} /\ lines = 0 /\ copies = 0 /\ starts = 0

-----------------------------------------------------------------------------
(* The server.                                                               *)

ServerStart ==
    /\ server = "off" /\ starts < MaxStarts
    /\ server' = "on" /\ clients' = <<>> /\ starts' = starts + 1
    /\ UNCHANGED <<up, clientVars, reply, lapsed, copies>>

\* The place of c in the list, 0 when it is not there.
find_client(c) == SelectInSeq(clients, LAMBDA r : r.who = c)

\* Mutant: the node behind c becomes the head, wherever c was.
CutOff(c) == IF find_client(c) = 0 THEN clients
             ELSE SubSeq(clients, find_client(c) + 1, Len(clients))

remove_client(c) == IF find_client(c) = 0 THEN clients
                    ELSE RemoveAt(clients, find_client(c))

\* A new client is put before the others.
add_client(c) == <<[who |-> c, counter |-> 0]>> \o clients

Bye(m) == m.text = "shutdown"

\* A line: a client not in the list is put there, and it gets its line back with its
\* number.
Echo(c, k) ==
    LET list == IF find_client(c) = 0 THEN add_client(c) ELSE clients
        i == SelectInSeq(list, LAMBDA r : r.who = c)
    IN  /\ clients' = [list EXCEPT ![i].counter = @ + 1]
        /\ reply' = [reply EXCEPT ![c] = [k |-> k, n |-> list[i].counter + 1]]

\* recvfrom() of a datagram for the port of the server, and what follows it.
Receive ==
    /\ server = "on"
    /\ \E j \in DOMAIN up :
          LET m == up[j]
              overtaken == \E i \in 1 .. j - 1 : up[i].from = m.from
          IN  /\ j = 1 \/ "reordering" \in Faults
              /\ up' = RemoveAt(up, j)
              /\ IF Bye(m) THEN clients' = remove_client(m.from) /\ UNCHANGED reply
                           ELSE Echo(m.from, m.k)
              /\ lapsed' = IF overtaken THEN lapsed \cup {m.from} ELSE lapsed
    /\ UNCHANGED <<server, clientVars, copies, starts>>

-----------------------------------------------------------------------------
(* A client.                                                                 *)

\* udpMsgSender(); what is sent to a server that does not run is dropped.
Send(c, sends) ==
    /\ Len(up) + Len(sends) <= MaxFlight
    /\ up' = IF server = "on" THEN up \o sends ELSE up
    /\ lapsed' = IF server = "on" THEN lapsed ELSE lapsed \cup {c}

\* A client whose fork() fails has sent nothing and is as good as not started.
Start(c) ==
    /\ pc[c] \in {"off", "done"} /\ starts < MaxStarts
    /\ pc' = [pc EXCEPT ![c] = "input"] /\ spoken' = [spoken EXCEPT ![c] = 0]
    /\ starts' = starts + 1
    /\ UNCHANGED <<server, clients, up, reply, lapsed, lines, copies>>

\* A line is sent with the newline it ends with.  So "shutdown", typed and sent as a line,
\* is not the word the server knows, but a line like others; it ends the loop.
Say(c) ==
    /\ pc[c] = "input" /\ lines < MaxLines
    /\ Send(c, <<[from |-> c, text |-> "line", k |-> spoken[c] + 1]>>)
    /\ spoken' = [spoken EXCEPT ![c] = @ + 1]
    /\ \/ UNCHANGED pc
       \/ pc' = [pc EXCEPT ![c] = "leave"]
    /\ lines' = lines + 1
    /\ UNCHANGED <<server, clients, reply, copies, starts>>

\* The end of the input, or ^C: the signal reaches both processes, and the handler of
\* either passes it to the other.
Interrupt(c) ==
    /\ pc[c] = "input"
    /\ pc' = [pc EXCEPT ![c] = "leave"]
    /\ UNCHANGED <<server, clients, up, spoken, reply, lapsed, lines, copies, starts>>

\* The child is killed, and the server is told; a second time by the handler when ^C comes
\* after that and before exit().
Leave(c) ==
    /\ pc[c] = "leave"
    /\ LET bye == [from |-> c, text |-> "shutdown", k |-> 0]
       IN  Send(c, <<bye>>) \/ Send(c, <<bye, bye>>)
    /\ pc' = [pc EXCEPT ![c] = "done"]
    /\ UNCHANGED <<server, clients, spoken, reply, lines, copies, starts>>

-----------------------------------------------------------------------------
(* The network, and SIGKILL.                                                 *)

Lose ==
    /\ "loss" \in Faults
    /\ \E j \in DOMAIN up :
          /\ up' = RemoveAt(up, j)
          /\ lapsed' = lapsed \cup {up[j].from}
    /\ UNCHANGED <<server, clients, clientVars, reply, copies, starts>>

Duplicate ==
    /\ "duplication" \in Faults /\ Len(up) < MaxFlight /\ copies < MaxCopies
    /\ copies' = copies + 1
    /\ \E j \in DOMAIN up :
          /\ up' = InsertAt(up, j, up[j])
          /\ lapsed' = lapsed \cup {up[j].from}
    /\ UNCHANGED <<server, clients, clientVars, reply, starts>>

\* The counters and what has arrived are lost; also when add_client() gets no memory.
ServerDies ==
    /\ Killable /\ server = "on"
    /\ server' = "off" /\ clients' = <<>> /\ up' = <<>> /\ lapsed' = Clients
    /\ UNCHANGED <<clientVars, reply, copies, starts>>

\* Without a handler the server is not told.
ClientDies(c) ==
    /\ Killable /\ pc[c] \in {"input", "leave"}
    /\ pc' = [pc EXCEPT ![c] = "done"] /\ lapsed' = lapsed \cup {c}
    /\ UNCHANGED <<server, clients, up, spoken, reply, lines, copies, starts>>

-----------------------------------------------------------------------------
Next ==
    \/ ServerStart \/ Receive \/ Lose \/ Duplicate \/ ServerDies
    \/ \E c \in Clients :
          Start(c) \/ Say(c) \/ Interrupt(c) \/ Leave(c) \/ ClientDies(c)

Spec == Init /\ [][Next]_vars

-----------------------------------------------------------------------------
(* Properties.                                                               *)

TypeOK ==
    /\ server \in {"off", "on"} /\ clients \in Seq([who : Clients, counter : Nat \ {0}])
    /\ up \in Seq([from : Clients, text : {"line", "shutdown"}, k : 0 .. MaxLines])
    /\ pc \in [Clients -> {"off", "input", "leave", "done"}]
    /\ spoken \in [Clients -> 0 .. MaxLines]
    /\ reply \in [Clients -> [k : 0 .. MaxLines, n : Nat]]
    /\ lapsed \subseteq Clients /\ lines \in 0 .. MaxLines
    /\ copies \in 0 .. MaxCopies /\ starts \in 0 .. MaxStarts

\* The number a line comes back with is its number since the client was started, however
\* the client ended before and whoever else comes and goes: "the counter for this client
\* is reset; one can connect again" (README.md:4).  The network, a kill and a restart of
\* the server can break it, for the clients they hit.
CountsFromOne == \A c \in Clients \ lapsed : reply[c].n = reply[c].k
=============================================================================
