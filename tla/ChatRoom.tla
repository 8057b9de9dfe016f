------------------------------ MODULE ChatRoom ------------------------------
(***************************************************************************)
(* What the chat of Module3/06 promises: the server deals with one message *)
(* at a time, in the order they were sent, and puts what a user said, once *)
(* and in one step, into the mailbox of every other member.                *)
(***************************************************************************)
EXTENDS Sequences, SequencesExt

CONSTANT Ids        \* the identifiers of users

VARIABLES
    inbox,          \* the messages the server has not dealt with
    members,        \* the identifiers of the connected users
    mailbox         \* for each identifier, the messages it has not read

roomVars == <<inbox, members, mailbox>>

Init ==
    /\ inbox = <<>> /\ members = {}
    /\ mailbox = [u \in Ids |-> <<>>]

\* A user says something, or asks to connect or to leave.
Post ==
    /\ inbox' # <<>> /\ Front(inbox') = inbox
    /\ UNCHANGED <<members, mailbox>>

Relay ==
    /\ inbox # <<>>
    /\ LET m == Head(inbox)
           new == m.id \notin members
       IN  /\ inbox' = Tail(inbox)
           /\ members' = IF m.text = "shutdown" THEN members \ {m.id} ELSE members \cup {m.id}
           /\ mailbox' = IF m.text = "shutdown" \/ (new /\ m.text = "#connect") THEN mailbox
                         ELSE [u \in Ids |-> IF u \in members \ {m.id}
                                             THEN Append(mailbox[u], [m EXCEPT !.to = u])
                                             ELSE mailbox[u]]

Read ==
    \E u \in Ids :
        /\ mailbox[u] # <<>>
        /\ mailbox' = [mailbox EXCEPT ![u] = Tail(@)]
        /\ UNCHANGED <<inbox, members>>

\* The server dies: it forgets the members, and a message it was at work on may be missing
\* in some mailboxes.
Crash ==
    /\ members' = {}
    /\ \A u \in Ids : mailbox'[u] = mailbox[u] \/ mailbox'[u] = Front(mailbox[u])
    /\ DOMAIN mailbox' = Ids
    /\ UNCHANGED inbox

\* Nothing happens in the room: most steps of the queue, which TLC tries first this way.
Idle == UNCHANGED roomVars

Next == Idle \/ Post \/ Relay \/ Read \/ Crash

Spec == Init /\ [][Next]_roomVars
=============================================================================
