------------------------------- MODULE UdpChat -------------------------------
(***************************************************************************)
(* Module3/12: a chat for two over UDP.  A client is two processes, one    *)
(* that reads the user's lines and one that prints what arrives.  No       *)
(* program installs its handler of SIGINT, so SIGINT kills.  One action is *)
(* the handling of one datagram, or of one line.  A client is named by its *)
(* address; a client that is started again has a new one.                  *)
(***************************************************************************)
EXTENDS Integers, Sequences, FiniteSets, SequencesExt

CONSTANTS
    Clients,        \* the addresses of the clients
    Faults,         \* what the network may do, of "loss", "duplication" and "reordering"
    Killable,       \* TRUE when processes may be killed
    InputEnds,      \* TRUE when the input of a client may end (^D)
    ForkFails,      \* the clients whose fork() may fail
    Buffer,         \* how many datagrams the socket of a client holds
    MaxLines,       \* bound: how many lines are typed
    MaxFlight,      \* bound: how many datagrams are on their way to the server
    MaxCopies,      \* bound: how many datagrams are duplicated
    MaxStarts       \* bound: how many times the server is started

ASSUME UdpAssumption ==
    /\ Faults \subseteq {"loss", "duplication", "reordering"}
    /\ {Killable, InputEnds} \subseteq BOOLEAN /\ ForkFails \subseteq Clients
    /\ {Buffer, MaxLines, MaxFlight, MaxCopies, MaxStarts} \subseteq Nat

VARIABLES
    server,     \* "off" or "on"
    clients,    \* clients[] of the server, up to connectCounter
    up,         \* the datagrams on their way to the server, [from, text] each
    down,       \* the kinds of the datagrams on their way to each client
    pc,         \* where the parent of each client is
    listener,   \* where the child of each client is
    heard,      \* the kind of what each client has printed last
    told,       \* the kind of the last datagram the server sent to each client
    lapsed,     \* the clients that may be in the table and not know, or be gone
    lines,      \* how many lines were typed
    copies,     \* how many datagrams were duplicated
    starts      \* how many times the server was started

vars == <<server, clients, up, down, pc, listener, heard, told, lapsed, lines, copies,
          starts>>
clientVars == <<pc, listener, heard, lines>>

\* What a user types: a line to be sent on, or the word that ends the client.
Lines == {"hello", "shutdown"}
Kinds == {"waiting", "full", "left", "said"}

Init ==
    /\ server = "off" /\ clients = <<>> /\ up = <<>>
    /\ down = [c \in Clients |-> <<>>]
    /\ pc = [c \in Clients |-> "off"] /\ listener = [c \in Clients |-> "off"]
    /\ heard = [c \in Clients |-> "nothing"]
    /\ told = [c \in Clients |-> "nothing"]
    /\ lapsed = {} /\ lines = 0 /\ copies = 0 /\ starts = 0

-----------------------------------------------------------------------------
(* The server.                                                               *)

ServerStart ==
    /\ server = "off" /\ starts < MaxStarts
    /\ server' = "on" /\ clients' = <<>>
    /\ starts' = starts + 1
    /\ UNCHANGED <<up, down, clientVars, told, lapsed, copies>>

\* The socket of a client is open as long as one of its processes has it.
Open(c) == pc[c] \in {"input", "leave"} \/ listener[c] = "on"

\* sendto() of the datagrams sends[c] to each client c; what no socket has room for is
\* dropped.
Sent(sends) ==
    LET all(c) == down[c] \o sends[c]
    IN  /\ down' = [c \in Clients |-> IF ~Open(c) THEN <<>>
                                      ELSE SubSeq(all(c), 1, Min({Len(all(c)), Buffer}))]
        /\ told' = [c \in Clients |-> IF sends[c] = <<>> THEN told[c] ELSE Last(sends[c])]

\* One datagram to c.
Only(c, kind) == [d \in Clients |-> IF d = c THEN <<kind>> ELSE <<>>]

\* Mutant: clients[0] is not filled from clients[1].
LeftGap(c) == <<clients[1]>>

\* Mutant: the last place is cleared, and connectCounter is not decremented.
LeftZeroed(c) == Append(IF clients[1] = c THEN Tail(clients) ELSE <<clients[1]>>, 0)

\* The table after the disconnection of c.
Left(c) == IF clients[1] = c THEN Tail(clients) ELSE <<clients[1]>>

Registered(c) == c \in Range(clients)

\* Mutant: the client that stays is told only when two stay.
DisconnectQuiet(c) ==
    /\ clients' = Left(c)
    /\ Sent(Only(c, "waiting"))

\* "shutdown" of a client in the table: one that stays is told, and c gets an answer.
Disconnect(c) ==
    /\ clients' = Left(c)
    /\ Sent([d \in Clients |->
                (IF clients' # <<>> /\ d = clients'[1] THEN <<"left">> ELSE <<>>)
                \o Only(c, "waiting")[d]])

\* Any other datagram; the first of a new client makes it a member, and is sent on too.
Talk(c) ==
    /\ clients' = IF ~Registered(c) /\ Len(clients) < 2 THEN Append(clients, c) ELSE clients
    /\ Sent(IF c \notin Range(clients') THEN Only(c, "full")
            ELSE IF Len(clients') < 2 THEN Only(c, "waiting")
            ELSE Only(IF clients'[1] = c THEN clients'[2] ELSE clients'[1], "said"))

\* recvfrom() and what follows it.
Receive ==
    /\ server = "on"
    /\ \E k \in DOMAIN up :
          LET c == up[k].from
              overtaken == \E j \in 1 .. k - 1 : up[j].from = c
              shutdown == up[k].text = "shutdown"
          IN  /\ k = 1 \/ "reordering" \in Faults
              /\ up' = RemoveAt(up, k)
              /\ IF shutdown /\ Registered(c) THEN Disconnect(c) ELSE Talk(c)
              /\ lapsed' = IF overtaken \/ told'[c] = "full" THEN lapsed \cup {c} ELSE lapsed
    /\ UNCHANGED <<server, clientVars, copies, starts>>

-----------------------------------------------------------------------------
(* A client.                                                                 *)

Submit(c, text) ==
    /\ Len(up) < MaxFlight
    /\ up' = IF server = "on" THEN Append(up, [from |-> c, text |-> text]) ELSE up

\* The first datagram, and fork().
Connect(c) ==
    /\ pc[c] = "off"
    /\ Submit(c, "CONNECTED")
    /\ \/ /\ pc' = [pc EXCEPT ![c] = "input"]
          /\ listener' = [listener EXCEPT ![c] = "on"]
          /\ lapsed' = IF server = "on" THEN lapsed ELSE lapsed \cup {c}
       \/ /\ c \in ForkFails
          /\ pc' = [pc EXCEPT ![c] = "done"]
          /\ lapsed' = lapsed \cup {c}
          /\ UNCHANGED listener
    /\ UNCHANGED <<server, clients, down, heard, told, lines, copies, starts>>

\* A line is sent, and "shutdown" ends the loop.
Say(c) ==
    /\ pc[c] = "input" /\ lines < MaxLines
    /\ \E l \in Lines :
          /\ Submit(c, l)
          /\ pc' = [pc EXCEPT ![c] = IF l = "shutdown" THEN "leave" ELSE "input"]
    /\ lines' = lines + 1
    /\ lapsed' = IF server = "on" THEN lapsed ELSE lapsed \cup {c}
    /\ UNCHANGED <<server, clients, down, listener, heard, told, copies, starts>>

\* The end of the input ends the loop too, and the server is not told.
EndOfInput(c) ==
    /\ InputEnds /\ pc[c] = "input"
    /\ pc' = [pc EXCEPT ![c] = "leave"]
    /\ lapsed' = lapsed \cup {c}
    /\ UNCHANGED <<server, clients, up, down, listener, heard, told, lines, copies, starts>>

\* kill() of the child, wait() and close().
Leave(c) ==
    /\ pc[c] = "leave"
    /\ pc' = [pc EXCEPT ![c] = "done"]
    /\ listener' = [listener EXCEPT ![c] = "done"]
    /\ down' = [down EXCEPT ![c] = <<>>]
    /\ UNCHANGED <<server, clients, up, heard, told, lapsed, lines, copies, starts>>

\* recvfrom() of the child, and the line it prints.
Listen(c) ==
    /\ listener[c] = "on"
    /\ \E k \in DOMAIN down[c] :
          /\ k = 1 \/ "reordering" \in Faults
          /\ heard' = [heard EXCEPT ![c] = down[c][k]]
          /\ down' = [down EXCEPT ![c] = RemoveAt(@, k)]
    /\ UNCHANGED <<server, clients, up, pc, listener, told, lapsed, lines, copies, starts>>

-----------------------------------------------------------------------------
(* The network, and signals.                                                 *)

Lose ==
    /\ "loss" \in Faults
    /\ \E k \in DOMAIN up :
          /\ up' = RemoveAt(up, k)
          /\ lapsed' = lapsed \cup {up[k].from}
    /\ UNCHANGED <<server, clients, down, clientVars, told, copies, starts>>

Duplicate ==
    /\ "duplication" \in Faults /\ Len(up) < MaxFlight /\ copies < MaxCopies
    /\ copies' = copies + 1
    /\ \E k \in DOMAIN up :
          /\ up' = InsertAt(up, k, up[k])
          /\ lapsed' = lapsed \cup {up[k].from}
    /\ UNCHANGED <<server, clients, down, clientVars, told, starts>>

\* The table and what has arrived are lost.
ServerDies ==
    /\ Killable /\ server = "on"
    /\ server' = "off" /\ clients' = <<>> /\ up' = <<>>
    /\ lapsed' = Clients
    /\ UNCHANGED <<down, clientVars, told, copies, starts>>

\* ^C ends both processes of a client; kill ends one.
ClientDies(c) ==
    /\ Killable /\ Open(c)
    /\ \/ pc' = [pc EXCEPT ![c] = "done"] /\ listener' = [listener EXCEPT ![c] = "done"]
       \/ pc' = [pc EXCEPT ![c] = "done"] /\ UNCHANGED listener
       \/ listener' = [listener EXCEPT ![c] = "done"] /\ UNCHANGED pc
    /\ lapsed' = lapsed \cup {c}
    /\ UNCHANGED <<server, clients, up, down, heard, told, lines, copies, starts>>

-----------------------------------------------------------------------------
Next ==
    \/ ServerStart \/ Receive \/ Lose \/ Duplicate \/ ServerDies
    \/ \E c \in Clients :
          \/ Connect(c) \/ Say(c) \/ EndOfInput(c) \/ Leave(c) \/ Listen(c) \/ ClientDies(c)

Spec == Init /\ [][Next]_vars

\* A server that runs handles what arrives, and so does a client; users need not type.
Fairness == WF_vars(Receive) /\ \A c \in Clients : WF_vars(Leave(c)) /\ WF_vars(Listen(c))

LiveSpec == Spec /\ Fairness

-----------------------------------------------------------------------------
(* Properties.                                                               *)

TypeOK ==
    /\ server \in {"off", "on"} /\ clients \in Seq(Clients)
    /\ up \in Seq([from : Clients, text : Lines \cup {"CONNECTED"}])
    /\ down \in [Clients -> Seq(Kinds)]
    /\ pc \in [Clients -> {"off", "input", "leave", "done"}]
    /\ listener \in [Clients -> {"off", "on", "done"}]
    /\ heard \in [Clients -> Kinds \cup {"nothing"}]
    /\ told \in [Clients -> Kinds \cup {"nothing"}]
    /\ lapsed \subseteq Clients /\ lines \in 0 .. MaxLines
    /\ copies \in 0 .. MaxCopies /\ starts \in 0 .. MaxStarts

\* The table has no more than its two places, and holds nobody twice, whatever is
\* repeated, reordered or lost.
TwoPlaces == Len(clients) <= 2 /\ IsInjective(clients)

\* What the server sent last to the client in its first place says how many there are: a
\* client alone was told that it waits or that the other left, and one with a partner was
\* sent on something of the partner.
ToldState ==
    clients # <<>> =>
        told[clients[1]] \in IF Len(clients) = 1 THEN {"waiting", "left"} ELSE {"said"}

\* A place in the table belongs to a client at work, or its "shutdown" is on the way; but
\* for clients that were told that the room is full, that ended without a "shutdown", or
\* that the network or a restart of the server has cut off.
NoGhost ==
    \A c \in Range(clients) \ lapsed :
        pc[c] = "input" \/ \E k \in DOMAIN up : up[k] = [from |-> c, text |-> "shutdown"]

\* A client that has said "shutdown" gets out of the table.
LeavesAfterShutdown(c) == pc[c] = "leave" ~> c \notin Range(clients) \/ c \in lapsed

ShutdownLeaves == \A c \in Clients : LeavesAfterShutdown(c)

\* A client whose partner leaves hears of it.
HearsOfLeaving(d, c) ==
    LET left == {c, d} \subseteq Range(clients) \ lapsed /\ pc[c] # "input"
    IN  left /\ pc[d] = "input" ~> heard[d] = "left" \/ pc[d] # "input"

LeaveNoticed == \A c, d \in Clients : c # d => HearsOfLeaving(d, c)
=============================================================================
