---------------------------- MODULE ClientConnect ----------------------------
(***************************************************************************)
(* How a helper started with --socket gets its client: it waits for the    *)
(* first packet on the bound socket, peeks at it for the sender's address, *)
(* connects to it, drops the packet when it is a handshake, and forwards   *)
(* what follows (wait_for_client and connect_socket in programs/helper.c,  *)
(* and the read of read_from_vm).                                          *)
(*                                                                         *)
(* Clients send at any time.  The socket keeps what is queued when it is   *)
(* connected; from then on the kernel refuses packets of other senders.    *)
(***************************************************************************)
EXTENDS Integers, Sequences, SequencesExt

CONSTANTS
    Client,      \* the processes that connect to options.socket
    None,
    MaxPackets,  \* bound: packets a client sends
    MaxQueue     \* packets that fit in the receive buffer

ASSUME ClientAssumption == None \notin Client
ASSUME BoundAssumption == MaxPackets \in Nat /\ MaxQueue \in Nat \ {0}

VARIABLES
    pc,         \* the main thread of the helper
    signal,     \* a signal is waiting in the kqueue
    queue,      \* the receive buffer of the socket
    head,       \* what recvfrom(MSG_PEEK) returned
    peer,       \* the address the socket is connected to
    sent,       \* packets sent by each client
    gone,       \* clients that closed and removed their sockets
    forwarded,  \* history: packets the forwarding loop read
    discarded   \* history: packets connect_socket read and dropped

clients == <<sent, gone>>
vars == <<pc, signal, queue, head, peer, clients, forwarded, discarded>>

Packet == [from : Client, number : 1..MaxPackets, short : BOOLEAN]

Init ==
    /\ pc = "wait" /\ signal = FALSE
    /\ queue = <<>> /\ head = None /\ peer = None
    /\ sent = [c \in Client |-> 0] /\ gone = {}
    /\ forwarded = <<>> /\ discarded = <<>>

------------------------------------------------------------------------------
\* The clients and the user.

\* c sends a packet.  Its first may be short, less than 64 bytes: a handshake, or
\* a frame that is not padded.
Send(c) ==
    /\ pc # "exit" /\ c \notin gone
    /\ sent[c] < MaxPackets /\ Len(queue) < MaxQueue
    /\ peer \in {None, c}
    /\ \E short \in BOOLEAN :
        /\ short => sent[c] = 0
        /\ queue' = Append(queue, [from |-> c, number |-> sent[c] + 1,
                                   short |-> short])
    /\ sent' = [sent EXCEPT ![c] = @ + 1]
    /\ UNCHANGED <<pc, signal, head, peer, gone, forwarded, discarded>>

Leave(c) ==
    /\ c \notin gone
    /\ gone' = gone \cup {c}
    /\ UNCHANGED <<pc, signal, queue, head, peer, sent, forwarded, discarded>>

Signal ==
    /\ ~signal /\ pc # "exit"
    /\ signal' = TRUE
    /\ UNCHANGED <<pc, queue, head, peer, clients, forwarded, discarded>>

------------------------------------------------------------------------------
\* wait_for_client: kevent returns one event, in any order if there are two.

\* Mutant: the loop waits on after a signal.
MutantSignaled ==
    /\ pc = "wait" /\ signal
    /\ signal' = FALSE
    /\ UNCHANGED <<pc, queue, head, peer, clients, forwarded, discarded>>

Signaled ==
    /\ pc = "wait" /\ signal
    /\ signal' = FALSE
    /\ pc' = "exit"
    /\ UNCHANGED <<queue, head, peer, clients, forwarded, discarded>>

Readable ==
    /\ pc = "wait" /\ queue # <<>>
    /\ pc' = "peek"
    /\ UNCHANGED <<signal, queue, head, peer, clients, forwarded, discarded>>

------------------------------------------------------------------------------
\* connect_socket.

Peek ==
    /\ pc = "peek"
    /\ head' = Head(queue)
    /\ pc' = "connect"
    /\ UNCHANGED <<signal, queue, peer, clients, forwarded, discarded>>

\* Mutant: the socket is connected to the sender of the last packet.
MutantConnect ==
    /\ pc = "connect"
    /\ Last(queue).from \notin gone
    /\ peer' = Last(queue).from
    /\ pc' = IF head.short THEN "discard" ELSE "serve"
    /\ UNCHANGED <<signal, queue, head, clients, forwarded, discarded>>

Connect ==
    /\ pc = "connect" /\ head.from \notin gone
    /\ peer' = head.from
    /\ pc' = IF head.short THEN "discard" ELSE "serve"
    /\ UNCHANGED <<signal, queue, head, clients, forwarded, discarded>>

\* Mutant: a failed connect() is only logged.
MutantConnectFails ==
    /\ pc = "connect" /\ head.from \in gone
    /\ pc' = IF head.short THEN "discard" ELSE "serve"
    /\ UNCHANGED <<signal, queue, head, peer, clients, forwarded, discarded>>

\* The client has removed its socket: the helper exits.
ConnectFails ==
    /\ pc = "connect" /\ head.from \in gone
    /\ pc' = "exit"
    /\ UNCHANGED <<signal, queue, head, peer, clients, forwarded, discarded>>

\* Mutant: the handshake is left for the forwarding loop.
MutantDiscard ==
    /\ pc = "discard"
    /\ pc' = "serve"
    /\ UNCHANGED <<signal, queue, head, peer, clients, forwarded, discarded>>

\* Mutant: everything queued is thrown away with the handshake.
MutantDiscardAll ==
    /\ pc = "discard"
    /\ queue' = <<>>
    /\ discarded' = discarded \o queue
    /\ pc' = "serve"
    /\ UNCHANGED <<signal, head, peer, clients, forwarded>>

\* read() takes the packet at the head of the queue, seen before connect().
Discard ==
    /\ pc = "discard"
    /\ queue' = Tail(queue)
    /\ discarded' = Append(discarded, Head(queue))
    /\ pc' = "serve"
    /\ UNCHANGED <<signal, head, peer, clients, forwarded>>

\* Any other system call that fails makes the helper exit.
Fails ==
    /\ pc \in {"wait", "peek", "connect", "discard"}
    /\ pc' = "exit"
    /\ UNCHANGED <<signal, queue, head, peer, clients, forwarded, discarded>>

\* read_from_vm: the next packet, whoever sent it.
Forward ==
    /\ pc = "serve" /\ queue # <<>>
    /\ queue' = Tail(queue)
    /\ forwarded' = Append(forwarded, Head(queue))
    /\ UNCHANGED <<pc, signal, head, peer, clients, discarded>>

\* run_until_termination gets the signal.
Stop ==
    /\ pc = "serve" /\ signal
    /\ signal' = FALSE
    /\ pc' = "exit"
    /\ UNCHANGED <<queue, head, peer, clients, forwarded, discarded>>

Main ==
    \/ Signaled \/ Readable \/ Peek \/ Connect \/ ConnectFails \/ Discard
    \/ Fails \/ Stop

Next == Main \/ Forward \/ Signal \/ \E c \in Client : Send(c) \/ Leave(c)

Spec == Init /\ [][Next]_vars

\* The kernel runs the main thread and, once it serves, the forwarding loop.
FairSpec == Spec /\ WF_vars(Main) /\ WF_vars(Forward)
------------------------------------------------------------------------------
\* Every packet that got to the helper, in the order in which it is read.
Stream == discarded \o forwarded \o queue

\* The packets of c in the stream are those it sent, each once and in order.
AllOf(c) ==
    LET own == {k \in 1..Len(Stream) : Stream[k].from = c}
    IN  /\ {Stream[k].number : k \in own} = 1..sent[c]
        /\ \A k, l \in own : k < l => Stream[k].number < Stream[l].number

\* Every packet that the served client sent is accounted for once and in order:
\* at most its first was dropped, and the others were or will be forwarded,
\* although peek, connect, read and the reads of the loop are separate calls
\* with other clients sending between them.
ClientComplete ==
    peer # None =>
        /\ AllOf(peer)
        /\ \A k \in 1..Len(discarded) :
            discarded[k].from = peer /\ discarded[k].short

\* The handshake of the served client, which vmnet_write() rejects, never gets to
\* the forwarding loop ("fail later in vmnet_write()", helper.c:757).
NoHandshake ==
    \A k \in 1..Len(forwarded) :
        forwarded[k].from = peer => ~forwarded[k].short

\* The client that sent the first packet is the one served, whoever else sends
\* while the helper is on its way from the peek to connect().
FirstClientServed ==
    pc = "serve" =>
        \/ discarded # <<>> /\ discarded[1].from = peer
        \/ discarded = <<>> /\ Head(forwarded \o queue).from = peer

\* "Connecting the the client address ... ensures that we never read packets
\* from other clients while we serve this one" (helper.c:736).
OnlyClientRead == \A k \in 1..Len(forwarded) : forwarded[k].from = peer

\* A signal ends the helper, also while it waits for a client that never comes.
SignalEnds == signal ~> pc = "exit"
==============================================================================
