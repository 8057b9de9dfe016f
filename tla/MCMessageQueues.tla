--------------------------- MODULE MCMessageQueues --------------------------
(***************************************************************************)
(* The two programs over message queues of which something is said that    *)
(* must happen, side by side: the two clients of Module3/07 (MqPingPong)   *)
(* and the chat of Module3/06 (MQ).  A behaviour is one of "which", and    *)
(* the other's variables stay as they are, where no step of it is due.     *)
(***************************************************************************)
EXTENDS MqPingPong

CONSTANTS t1, t2

VARIABLES which, q_queue, q_made, q_server, q_clients, q_cur, q_todo, q_pc, q_id, q_line,
    q_eof, q_got, q_sent, q_starts

chatVars == <<q_queue, q_made, q_server, q_clients, q_cur, q_todo, q_pc, q_id, q_line, q_eof,
    q_got, q_sent, q_starts>>

\* A server, two clients, one of them for a second time, and as many messages as that
\* takes: "#connect" three times, a "shutdown", and a line.
MQ == INSTANCE MsgQueueChat WITH
    Terminals <- {t1, t2}, Arguments <- {20, 30}, Texts <- {"", "a", "shutdown"},
    Killable <- FALSE, InputEnds <- FALSE, MaxClients <- 2, Capacity <- 8, MaxSent <- 5,
    MaxStarts <- 4,
    queue <- q_queue, made <- q_made, server <- q_server, clients <- q_clients, cur <- q_cur,
    todo <- q_todo, pc <- q_pc, id <- q_id, line <- q_line, eof <- q_eof, got <- q_got,
    sent <- q_sent, starts <- q_starts

EitherInit == which \in {"pingpong", "chat"} /\ Init /\ MQ!Init

EitherNext ==
    /\ UNCHANGED which
    /\ \/ which = "pingpong" /\ Next /\ UNCHANGED chatVars
       \/ which = "chat" /\ MQ!Next /\ UNCHANGED vars

EitherSpec ==
    EitherInit /\ [][EitherNext]_<<which, vars, chatVars>>
        /\ Fairness /\ MQ!Fairness /\ MQ!Attentive

-----------------------------------------------------------------------------
\* The chat over a message queue: what is said is heard.  The terminals are alike, so that
\* one of them stands for all.
Heard == \A n \in 1 .. 5 : MQ!HeardBy(t1, n)
=============================================================================
