------------------------- MODULE ClientConnectProofs -------------------------
(***************************************************************************)
(* Proofs about ClientConnect for any number of clients, packets and       *)
(* queued packets: who is served, that its handshake is not forwarded and  *)
(* that nothing else it sends is lost.  The inductive invariant IInv says  *)
(* how the packets of one client follow each other in the queue, and what  *)
(* was read from it when; Complete adds that no read loses a packet.       *)
(***************************************************************************)
EXTENDS ClientConnect, SequenceTheorems, TLAPS

Types ==
    /\ pc \in {"wait", "peek", "connect", "discard", "serve", "exit"}
    /\ peer \in Client \cup {None}
    /\ sent \in [Client -> 0..MaxPackets]
    /\ queue \in Seq(Packet) /\ forwarded \in Seq(Packet) /\ discarded \in Seq(Packet)

\* A client's packets are queued in the order sent, and only its first is short.
InOrder ==
    /\ \A k \in 1..Len(queue) :
        /\ queue[k].number <= sent[queue[k].from]
        /\ queue[k].short => queue[k].number = 1
    /\ \A k, l \in 1..Len(queue) :
        k < l /\ queue[k].from = queue[l].from => queue[k].number < queue[l].number

\* From the peek to the read that follows it, the head of the queue is the same packet.
HeadStays ==
    /\ pc \in {"peek", "connect", "discard"} => queue # <<>>
    /\ pc \in {"connect", "discard"} => head = queue[1]
    /\ pc \in {"wait", "peek", "connect"} => peer = None
    /\ pc = "discard" => head.short /\ peer = head.from
    /\ pc \in {"wait", "peek", "connect", "discard"} =>
        forwarded = <<>> /\ discarded = <<>>

\* The first packet ever read, or the next if none was, is of the client served.
Served ==
    pc = "serve" =>
        /\ \/ discarded # <<>> /\ discarded[1].from = peer
           \/ discarded = <<>> /\ forwarded # <<>> /\ forwarded[1].from = peer
           \/ discarded = <<>> /\ forwarded = <<>> /\ queue # <<>> /\ queue[1].from = peer
        /\ \A k \in 1..Len(queue) : queue[k].from = peer => ~queue[k].short
        /\ peer \in Client /\ sent[peer] > 0

IInv == Types /\ InOrder /\ HeadStays /\ Served /\ NoHandshake
------------------------------------------------------------------------------
\* A packet that a client sends joins the queue behind its earlier ones.
LEMMA SendStep == ASSUME IInv, NEW c \in Client, Send(c) PROVE IInv'
<1>1. PICK short \in BOOLEAN :
        /\ short => sent[c] = 0
        /\ queue' = Append(queue, [from |-> c, number |-> sent[c] + 1,
                                   short |-> short])
  BY DEF Send
<1> DEFINE p == [from |-> c, number |-> sent[c] + 1, short |-> short]
<1>2. sent[c] \in Nat /\ sent[c] + 1 \in 1..MaxPackets
      /\ sent' = [sent EXCEPT ![c] = @ + 1] /\ sent' \in [Client -> 0..MaxPackets]
      /\ sent'[c] = sent[c] + 1
  BY BoundAssumption DEF Send, IInv, Types
<1>3. p \in Packet /\ p.from = c /\ p.number = sent[c] + 1 /\ p.short = short
  BY <1>2 DEF Packet
<1> HIDE DEF p
<1>4. /\ queue' \in Seq(Packet) /\ queue' # <<>>
      /\ Len(queue') = Len(queue) + 1 /\ Len(queue) \in Nat
      /\ \A k \in 1..Len(queue) : queue'[k] = queue[k] /\ queue[k] \in Packet
      /\ queue'[Len(queue) + 1] = p
  BY <1>1, <1>3, AppendProperties DEF p, IInv, Types
<1>5. UNCHANGED <<pc, peer, head, forwarded, discarded>>
  BY DEF Send
<1>6. Types'
  BY <1>2, <1>4, <1>5 DEF IInv, Types
<1>7. InOrder'
  <2>1. ASSUME NEW k \in 1..Len(queue')
        PROVE  /\ queue'[k].number <= sent'[queue'[k].from]
               /\ queue'[k].short => queue'[k].number = 1
    <3>1. CASE k = Len(queue) + 1
      BY <1>1, <1>2, <1>3, <1>4, <3>1
    <3>2. CASE k # Len(queue) + 1
      <4>1. k \in 1..Len(queue) /\ queue'[k] = queue[k] /\ queue[k].from \in Client
        BY <1>4, <3>2 DEF Packet
      <4>2. sent[queue[k].from] <= sent'[queue[k].from]
        BY <1>2, <4>1 DEF IInv, Types
      <4>3. queue[k].number \in 1..MaxPackets
        BY <1>4, <4>1 DEF Packet
      <4>4. sent[queue[k].from] \in 0..MaxPackets /\ sent'[queue[k].from] \in 0..MaxPackets
        BY <1>2, <4>1 DEF IInv, Types
      <4> QED BY <4>1, <4>2, <4>3, <4>4, BoundAssumption DEF IInv, InOrder
    <3> QED BY <3>1, <3>2
  <2>2. ASSUME NEW k \in 1..Len(queue'), NEW l \in 1..Len(queue'), k < l,
               queue'[k].from = queue'[l].from
        PROVE  queue'[k].number < queue'[l].number
    <3>1. k \in 1..Len(queue) /\ queue'[k] = queue[k] /\ queue[k].number \in Nat
      BY <1>4, <2>2 DEF Packet
    <3>2. CASE l = Len(queue) + 1
      BY <1>2, <1>3, <1>4, <2>2, <3>1, <3>2 DEF IInv, InOrder
    <3>3. CASE l # Len(queue) + 1
      BY <1>4, <2>2, <3>1, <3>3 DEF IInv, InOrder
    <3> QED BY <3>2, <3>3
  <2> QED BY <2>1, <2>2 DEF InOrder
<1>8. HeadStays'
  BY <1>4, <1>5, EmptySeq DEF IInv, HeadStays, Types
<1>9. Served'
  <2>1. CASE pc # "serve"
    BY <1>5, <2>1 DEF Served
  <2>2. CASE pc = "serve"
    <3>1. c = peer => ~short
      BY <1>1, <2>2 DEF IInv, Served
    <3>2. peer \in Client /\ sent'[peer] > 0
      BY <1>2, <2>2 DEF IInv, Served, Types
    <3>3. \A k \in 1..Len(queue') : queue'[k].from = peer => ~queue'[k].short
      BY <1>3, <1>4, <2>2, <3>1 DEF IInv, Served
    <3>4. queue # <<>> => queue'[1] = queue[1]
      BY <1>4, EmptySeq
    <3> QED BY <1>4, <1>5, <2>2, <3>2, <3>3, <3>4 DEF IInv, Served
  <2> QED BY <2>1, <2>2
<1>10. NoHandshake'
  BY <1>5 DEF IInv, NoHandshake
<1> QED BY <1>6, <1>7, <1>8, <1>9, <1>10 DEF IInv

\* What is left of the queue when its head is read.
LEMMA Rest ==
    ASSUME IInv, queue # <<>>, queue' = Tail(queue), UNCHANGED sent
    PROVE  /\ queue' \in Seq(Packet) /\ Head(queue) = queue[1] /\ queue[1] \in Packet
           /\ 1 \in 1..Len(queue)
           /\ \A k \in 1..Len(queue') : k + 1 \in 2..Len(queue) /\ queue'[k] = queue[k + 1]
           /\ InOrder'
<1>1. /\ queue' \in Seq(Packet) /\ Head(queue) = queue[1] /\ queue[1] \in Packet
      /\ Len(queue') = Len(queue) - 1 /\ Len(queue) \in Nat \ {0}
      /\ \A k \in 1..Len(queue') : queue'[k] = queue[k + 1]
  BY HeadTailProperties, EmptySeq DEF IInv, Types
<1>2. \A k \in 1..Len(queue') : k + 1 \in 2..Len(queue) /\ k + 1 \in 1..Len(queue)
  BY <1>1
<1>3. InOrder'
  BY <1>1, <1>2 DEF IInv, InOrder
<1> QED BY <1>1, <1>2, <1>3

\* The head of the queue is still the packet that was peeked at.
LEMMA ConnectStep == ASSUME IInv, Connect PROVE IInv'
<1>1. /\ queue # <<>> /\ head = queue[1] /\ queue[1] \in Packet /\ 1 \in 1..Len(queue)
      /\ forwarded = <<>> /\ discarded = <<>>
  BY EmptySeq DEF Connect, IInv, HeadStays, Types
<1>2. UNCHANGED <<queue, head, sent, forwarded, discarded>> /\ peer' = queue[1].from
  BY <1>1 DEF Connect, clients
<1>3. peer' \in Client /\ queue[1].number \in 1..MaxPackets
  BY <1>1, <1>2 DEF Packet
<1>4. Types'
  BY <1>2, <1>3 DEF Connect, IInv, Types
<1>5. InOrder'
  BY <1>2 DEF IInv, InOrder
<1>6. HeadStays'
  BY <1>1, <1>2 DEF Connect, HeadStays
<1>7. Served'
  <2> SUFFICES ASSUME pc' = "serve" PROVE Served'
    BY DEF Served
  <2>1. ~queue[1].short
    BY <1>1 DEF Connect
  <2>2. sent[peer'] > 0
    BY <1>1, <1>2, <1>3, BoundAssumption DEF IInv, InOrder, Types
  <2>3. ASSUME NEW k \in 1..Len(queue), queue[k].from = peer' PROVE ~queue[k].short
    <3>1. CASE k = 1
      BY <2>1, <3>1
    <3>2. CASE k # 1
      <4>1. queue[1].number < queue[k].number
        BY <1>1, <1>2, <2>3, <3>2 DEF IInv, InOrder
      <4> QED BY <1>3, <2>3, <4>1 DEF IInv, InOrder
    <3> QED BY <3>1, <3>2
  <2> QED BY <1>1, <1>2, <1>3, <2>2, <2>3 DEF Served
<1>8. NoHandshake'
  BY <1>1, <1>2, EmptySeq DEF NoHandshake
<1> QED BY <1>4, <1>5, <1>6, <1>7, <1>8 DEF IInv

\* What is dropped is the handshake; the packets of the client behind it are frames.
LEMMA DiscardStep == ASSUME IInv, Discard PROVE IInv'
<1>1. /\ queue # <<>> /\ head = queue[1] /\ head.short /\ peer = head.from
      /\ forwarded = <<>> /\ discarded = <<>>
  BY DEF Discard, IInv, HeadStays
<1>2. /\ UNCHANGED <<head, peer, sent, forwarded>> /\ pc' = "serve"
      /\ queue' = Tail(queue) /\ discarded' = Append(discarded, Head(queue))
  BY DEF Discard, clients
<1>3. /\ queue' \in Seq(Packet) /\ Head(queue) = queue[1] /\ queue[1] \in Packet
      /\ 1 \in 1..Len(queue)
      /\ \A k \in 1..Len(queue') : k + 1 \in 2..Len(queue) /\ queue'[k] = queue[k + 1]
      /\ InOrder'
  BY <1>1, <1>2, Rest
<1>4. /\ discarded' \in Seq(Packet) /\ discarded' # <<>> /\ discarded'[1] = queue[1]
  <2>1. discarded \in Seq(Packet) /\ Len(discarded) = 0
    BY <1>1 DEF IInv, Types
  <2> QED BY <1>2, <1>3, <2>1, AppendProperties
<1>5. peer \in Client /\ queue[1].number \in 1..MaxPackets
  BY <1>1, <1>3 DEF Packet
<1>6. Types'
  BY <1>2, <1>3, <1>4 DEF IInv, Types
<1>7. HeadStays'
  BY <1>2 DEF HeadStays
<1>8. Served'
  <2>1. sent[peer] > 0
    BY <1>1, <1>3, <1>5, BoundAssumption DEF IInv, InOrder, Types
  <2>2. ASSUME NEW k \in 1..Len(queue'), queue'[k].from = peer PROVE ~queue'[k].short
    <3>1. k + 1 \in 1..Len(queue) /\ 1 < k + 1 /\ queue'[k] = queue[k + 1]
      BY <1>3
    <3>2. queue[1].number < queue[k + 1].number
      BY <1>1, <1>3, <2>2, <3>1 DEF IInv, InOrder
    <3> QED BY <1>5, <3>1, <3>2 DEF IInv, InOrder
  <2> QED BY <1>1, <1>2, <1>4, <1>5, <2>1, <2>2 DEF Served
<1>9. NoHandshake'
  BY <1>2 DEF IInv, NoHandshake
<1> QED BY <1>3, <1>6, <1>7, <1>8, <1>9 DEF IInv

\* The forwarding loop reads no handshake of the client served.
LEMMA ForwardStep == ASSUME IInv, Forward PROVE IInv'
<1>1. /\ UNCHANGED <<pc, head, peer, sent, discarded>> /\ pc = "serve" /\ queue # <<>>
      /\ queue' = Tail(queue) /\ forwarded' = Append(forwarded, Head(queue))
  BY DEF Forward, clients
<1>2. /\ queue' \in Seq(Packet) /\ Head(queue) = queue[1] /\ queue[1] \in Packet
      /\ 1 \in 1..Len(queue)
      /\ \A k \in 1..Len(queue') : k + 1 \in 2..Len(queue) /\ queue'[k] = queue[k + 1]
      /\ InOrder'
  BY <1>1, Rest
<1>3. /\ forwarded' \in Seq(Packet) /\ forwarded' # <<>>
      /\ Len(forwarded') = Len(forwarded) + 1 /\ Len(forwarded) \in Nat
      /\ \A k \in 1..Len(forwarded) : forwarded'[k] = forwarded[k]
      /\ forwarded'[Len(forwarded) + 1] = queue[1]
  <2>1. /\ forwarded \in Seq(Packet) /\ queue[1] \in Packet
        /\ forwarded' = Append(forwarded, queue[1])
    BY <1>1, <1>2 DEF IInv, Types
  <2>2. Len(forwarded) \in Nat
    BY <2>1
  <2> QED BY <2>1, <2>2, AppendProperties
<1>4. Types'
  BY <1>1, <1>2, <1>3 DEF IInv, Types
<1>5. HeadStays'
  BY <1>1 DEF HeadStays
<1>6. Served'
  <2>1. forwarded # <<>> => forwarded'[1] = forwarded[1]
    BY <1>3, EmptySeq DEF IInv, Types
  <2>2. forwarded = <<>> => forwarded'[1] = queue[1]
    BY <1>3
  <2>3. \A k \in 1..Len(queue') : queue'[k].from = peer => ~queue'[k].short
    BY <1>1, <1>2 DEF IInv, Served
  <2> QED BY <1>1, <1>3, <2>1, <2>2, <2>3 DEF IInv, Served
<1>7. NoHandshake'
  <2> SUFFICES ASSUME NEW k \in 1..Len(forwarded'), forwarded'[k].from = peer
               PROVE  ~forwarded'[k].short
    BY <1>1 DEF NoHandshake
  <2>1. CASE k = Len(forwarded) + 1
    BY <1>1, <1>2, <1>3, <2>1 DEF IInv, Served
  <2>2. CASE k # Len(forwarded) + 1
    BY <1>3, <2>2 DEF IInv, NoHandshake
  <2> QED BY <2>1, <2>2
<1> QED BY <1>2, <1>4, <1>5, <1>6, <1>7 DEF IInv

LEMMA InitInv == Init => IInv
<1> SUFFICES ASSUME Init PROVE IInv
  OBVIOUS
<1>1. Types
  <2>1. 0 \in 0..MaxPackets
    BY BoundAssumption
  <2> QED BY <2>1 DEF Init, Types
<1>2. InOrder /\ HeadStays /\ Served /\ NoHandshake
  BY DEF Init, InOrder, HeadStays, Served, NoHandshake
<1> QED BY <1>1, <1>2 DEF IInv

LEMMA NextInv == IInv /\ [Next]_vars => IInv'
<1> SUFFICES ASSUME IInv, [Next]_vars PROVE IInv'
  OBVIOUS
<1>1. CASE Connect
  BY <1>1, ConnectStep
<1>2. CASE Discard
  BY <1>2, DiscardStep
<1>3. CASE Forward
  BY <1>3, ForwardStep
<1>4. CASE \E c \in Client : Send(c)
  BY <1>4, SendStep
<1>5. CASE Peek
  <2>1. queue # <<>> /\ Head(queue) = queue[1]
    BY <1>5 DEF Peek, IInv, HeadStays, Types
  <2> QED BY <1>5, <2>1 DEF Peek, clients, IInv, Types, InOrder, HeadStays, Served,
                            NoHandshake
<1>6. CASE Readable
  BY <1>6 DEF Readable, clients, IInv, Types, InOrder, HeadStays, Served, NoHandshake
<1>7. CASE Signaled \/ ConnectFails \/ Fails \/ Stop
  BY <1>7 DEF Signaled, ConnectFails, Fails, Stop, clients, IInv, Types, InOrder,
              HeadStays, Served, NoHandshake
<1>8. CASE UNCHANGED <<pc, queue, head, peer, sent, forwarded, discarded>>
  BY <1>8 DEF IInv, Types, InOrder, HeadStays, Served, NoHandshake
<1>9. Signal \/ (\E c \in Client : Leave(c)) \/ UNCHANGED vars
        => UNCHANGED <<pc, queue, head, peer, sent, forwarded, discarded>>
  BY DEF Signal, Leave, vars, clients
<1> QED BY <1>1, <1>2, <1>3, <1>4, <1>5, <1>6, <1>7, <1>8, <1>9 DEF Next, Main

\* The invariant holds in every state of every behaviour.
THEOREM Invariance == Spec => []IInv
<1> QED BY InitInv, NextInv, PTL DEF Spec

\* Whoever else sends between recvfrom() and read() in connect_socket of helper.c, the
\* short first packet of the client served is not forwarded.
THEOREM HandshakeStays == Spec => []NoHandshake
<1>1. IInv => NoHandshake
  BY DEF IInv
<1> QED BY <1>1, Invariance, PTL

\* The client served is the one whose packet woke wait_for_client of helper.c.
THEOREM FirstServed == Spec => []FirstClientServed
<1>1. IInv => FirstClientServed
  <2> SUFFICES ASSUME IInv, pc = "serve" PROVE FirstClientServed
    BY DEF FirstClientServed
  <2>1. CASE discarded # <<>> /\ discarded[1].from = peer
    BY <2>1 DEF FirstClientServed
  <2>2. CASE discarded = <<>> /\ forwarded # <<>> /\ forwarded[1].from = peer
    <3>1. Head(forwarded \o queue) = forwarded[1]
      BY <2>2, ConcatProperties, EmptySeq DEF IInv, Types
    <3> QED BY <2>2, <3>1 DEF FirstClientServed
  <2>3. CASE /\ discarded = <<>> /\ forwarded = <<>> /\ queue # <<>>
             /\ queue[1].from = peer
    <3>1. Head(forwarded \o queue) = queue[1]
      BY <2>3, ConcatEmptySeq DEF IInv, Types
    <3> QED BY <2>3, <3>1 DEF FirstClientServed
  <2> QED BY <2>1, <2>2, <2>3 DEF IInv, Served
<1> QED BY <1>1, Invariance, PTL
------------------------------------------------------------------------------
\* Nothing is lost or repeated on the way through the queue, for any client, and what
\* is dropped is short and of the client served.
Complete == \A c \in Client : AllOf(c)

Dropped ==
    \A k \in 1..Len(discarded) : discarded[k].from = peer /\ discarded[k].short

\* A packet read from the queue keeps its place in the stream.
LEMMA HeadMoves ==
    ASSUME NEW s \in Seq(Packet), NEW q \in Seq(Packet), q # <<>>
    PROVE  Append(s, Head(q)) \o Tail(q) = s \o q
<1>1. Head(q) \in Packet /\ Tail(q) \in Seq(Packet) /\ <<Head(q)>> \in Seq(Packet)
  BY HeadTailProperties
<1>2. Append(s, Head(q)) = s \o <<Head(q)>>
  BY <1>1, AppendIsConcat
<1>3. <<Head(q)>> \o Tail(q) = q
  <2>1. /\ <<Head(q)>> \o Tail(q) \in Seq(Packet)
        /\ Len(<<Head(q)>> \o Tail(q)) = 1 + Len(Tail(q))
        /\ \A k \in 1..(1 + Len(Tail(q))) :
            (<<Head(q)>> \o Tail(q))[k] =
                IF k <= 1 THEN <<Head(q)>>[k] ELSE Tail(q)[k - 1]
    BY <1>1, ConcatProperties
  <2>2. /\ Len(Tail(q)) = Len(q) - 1 /\ Len(q) \in Nat \ {0} /\ Head(q) = q[1]
        /\ \A k \in 1..Len(Tail(q)) : Tail(q)[k] = q[k + 1]
    BY HeadTailProperties, EmptySeq
  <2>3. \A k \in 1..Len(q) : (<<Head(q)>> \o Tail(q))[k] = q[k]
    <3> SUFFICES ASSUME NEW k \in 1..Len(q)
                 PROVE  (<<Head(q)>> \o Tail(q))[k] = q[k]
      OBVIOUS
    <3>1. CASE k = 1
      BY <2>1, <2>2, <3>1
    <3>2. CASE k # 1
      <4>1. k - 1 \in 1..Len(Tail(q)) /\ ~(k <= 1) /\ (k - 1) + 1 = k
            /\ k \in 1..(1 + Len(Tail(q)))
        BY <2>2, <3>2
      <4>2. (<<Head(q)>> \o Tail(q))[k] = Tail(q)[k - 1]
        BY <2>1, <4>1
      <4> QED BY <2>2, <4>1, <4>2
    <3> QED BY <3>1, <3>2
  <2>4. Len(<<Head(q)>> \o Tail(q)) = Len(q)
    BY <2>1, <2>2
  <2> QED BY <2>1, <2>3, <2>4, SeqEqual
<1> QED BY <1>1, <1>2, <1>3, ConcatAssociative

\* Reads move a packet within the stream, and leave it the same.
LEMMA ReadStep == ASSUME IInv, Discard \/ Forward PROVE Stream' = Stream
<1>1. /\ discarded \in Seq(Packet) /\ forwarded \in Seq(Packet) /\ queue \in Seq(Packet)
      /\ <<>> \in Seq(Packet)
  BY EmptySeq DEF IInv, Types
<1>2. CASE Discard
  <2>1. /\ queue # <<>> /\ forwarded = <<>> /\ forwarded' = <<>>
        /\ queue' = Tail(queue) /\ discarded' = Append(discarded, Head(queue))
    BY <1>2 DEF Discard, IInv, HeadStays
  <2>2. discarded \o <<>> = discarded
    BY <1>1, ConcatEmptySeq
  <2>3. discarded' \o <<>> = discarded'
    <3>1. Head(queue) \in Packet
      BY <1>1, <2>1, HeadTailProperties
    <3>2. discarded' \in Seq(Packet)
      BY <1>1, <2>1, <3>1, AppendProperties
    <3> QED BY <3>2, ConcatEmptySeq
  <2>4. discarded' \o queue' = discarded \o queue
    BY <1>1, <2>1, HeadMoves
  <2> QED BY <2>1, <2>2, <2>3, <2>4 DEF Stream
<1>3. CASE Forward
  <2>1. /\ queue # <<>> /\ discarded' = discarded
        /\ queue' = Tail(queue) /\ forwarded' = Append(forwarded, Head(queue))
    BY <1>3 DEF Forward
  <2>2. Head(queue) \in Packet /\ Tail(queue) \in Seq(Packet)
        /\ Append(forwarded, Head(queue)) \in Seq(Packet)
    BY <1>1, <2>1, HeadTailProperties, AppendProperties
  <2>3. (discarded \o forwarded) \o queue = discarded \o (forwarded \o queue)
    BY <1>1, ConcatAssociative
  <2>4. (discarded \o forwarded') \o queue' = discarded \o (forwarded' \o queue')
    <3>1. forwarded' \in Seq(Packet) /\ queue' \in Seq(Packet)
      BY <2>1, <2>2
    <3> QED BY <1>1, <3>1, ConcatAssociative
  <2>5. Append(forwarded, Head(queue)) \o Tail(queue) = forwarded \o queue
    BY <1>1, <2>1, HeadMoves
  <2> QED BY <2>1, <2>3, <2>4, <2>5 DEF Stream
<1> QED BY <1>2, <1>3

\* A packet sent joins the stream at its end.
LEMMA SendAppends ==
    ASSUME IInv, NEW p \in Packet, queue' = Append(queue, p),
           UNCHANGED <<discarded, forwarded>>
    PROVE  Stream \in Seq(Packet) /\ Stream' = Append(Stream, p)
<1>1. /\ discarded \in Seq(Packet) /\ forwarded \in Seq(Packet) /\ queue \in Seq(Packet)
      /\ <<p>> \in Seq(Packet)
  BY DEF IInv, Types
<1>2. discarded \o forwarded \in Seq(Packet)
  BY <1>1, ConcatProperties
<1>3. Stream \in Seq(Packet)
  BY <1>1, <1>2, ConcatProperties DEF Stream
<1>4. queue' = queue \o <<p>> /\ Append(Stream, p) = Stream \o <<p>>
  BY <1>1, <1>3, AppendIsConcat
<1>5. ((discarded \o forwarded) \o queue) \o <<p>> =
        (discarded \o forwarded) \o (queue \o <<p>>)
  BY <1>1, <1>2, ConcatAssociative
<1>6. Stream' = (discarded \o forwarded) \o queue'
  BY DEF Stream
<1> QED BY <1>3, <1>4, <1>5, <1>6 DEF Stream

\* The packet is the next of its client, and the streams of the others stay.
LEMMA SendCompletes ==
    ASSUME IInv, Complete, NEW c \in Client, Send(c)
    PROVE  Complete'
<1>1. PICK short \in BOOLEAN :
        queue' = Append(queue, [from |-> c, number |-> sent[c] + 1, short |-> short])
  BY DEF Send
<1> DEFINE p == [from |-> c, number |-> sent[c] + 1, short |-> short]
<1>2. sent[c] \in Nat /\ sent[c] + 1 \in 1..MaxPackets
      /\ sent' = [sent EXCEPT ![c] = @ + 1] /\ sent \in [Client -> 0..MaxPackets]
  BY BoundAssumption DEF Send, IInv, Types
<1>3. p \in Packet /\ p.from = c /\ p.number = sent[c] + 1
  BY <1>2 DEF Packet
<1> HIDE DEF p
<1>4. Stream \in Seq(Packet) /\ Stream' = Append(Stream, p)
  BY <1>1, <1>3, SendAppends DEF Send, p
<1>5. /\ Len(Stream') = Len(Stream) + 1 /\ Len(Stream) \in Nat
      /\ \A k \in 1..Len(Stream) : Stream'[k] = Stream[k]
      /\ Stream'[Len(Stream) + 1] = p
  BY <1>3, <1>4, AppendProperties
<1> SUFFICES ASSUME NEW d \in Client PROVE AllOf(d)'
  BY DEF Complete
<1> DEFINE own == {k \in 1..Len(Stream) : Stream[k].from = d}
           next == {k \in 1..Len(Stream') : Stream'[k].from = d}
<1>6. /\ {Stream[k].number : k \in own} = 1..sent[d]
      /\ \A k, l \in own : k < l => Stream[k].number < Stream[l].number
  BY DEF Complete, AllOf
<1>7. next = IF d = c THEN own \cup {Len(Stream) + 1} ELSE own
  BY <1>3, <1>5
<1>8. {Stream'[k].number : k \in next} = 1..sent'[d]
  <2>1. \A k \in own : Stream'[k].number = Stream[k].number
    BY <1>5
  <2>2. CASE d = c
    <3>1. {Stream'[k].number : k \in next} =
            {Stream[k].number : k \in own} \cup {sent[c] + 1}
      BY <1>3, <1>5, <1>7, <2>1, <2>2
    <3>2. 1..(sent[c] + 1) = (1..sent[c]) \cup {sent[c] + 1}
      BY <1>2
    <3> HIDE DEF own, next
    <3> QED BY <1>2, <1>6, <2>2, <3>1, <3>2
  <2>3. CASE d # c
    <3>1. {Stream'[k].number : k \in next} = {Stream[k].number : k \in own}
      BY <1>7, <2>1, <2>3
    <3> HIDE DEF own, next
    <3> QED BY <1>2, <1>6, <2>3, <3>1
  <2> QED BY <2>2, <2>3
<1>9. ASSUME NEW k \in next, NEW l \in next, k < l
      PROVE  Stream'[k].number < Stream'[l].number
  <2>1. k \in own /\ Stream'[k] = Stream[k]
    BY <1>5, <1>9
  <2>2. CASE l \in own
    <3>1. Stream'[l] = Stream[l]
      BY <1>5, <2>2
    <3> QED BY <1>6, <1>9, <2>1, <2>2, <3>1
  <2>3. CASE l \notin own
    <3>1. d = c /\ l = Len(Stream) + 1
      BY <1>7, <2>3
    <3>2. Stream[k].number \in 1..sent[c]
      <4> HIDE DEF own
      <4> QED BY <1>6, <2>1, <3>1
    <3> QED BY <1>2, <1>3, <1>5, <2>1, <3>1, <3>2
  <2> QED BY <2>2, <2>3
<1> QED BY <1>8, <1>9 DEF AllOf

LEMMA NextComplete ==
    IInv /\ IInv' /\ Complete /\ Dropped /\ [Next]_vars => Complete' /\ Dropped'
<1> SUFFICES ASSUME IInv, IInv', Complete, Dropped, [Next]_vars
             PROVE  Complete' /\ Dropped'
  OBVIOUS
<1>1. CASE \E c \in Client : Send(c)
  <2>1. UNCHANGED <<discarded, peer>>
    BY <1>1 DEF Send
  <2> QED BY <1>1, <2>1, SendCompletes DEF Dropped
<1>2. CASE Discard \/ Forward
  <2>1. Stream' = Stream /\ UNCHANGED <<sent, peer>>
    BY <1>2, ReadStep DEF Discard, Forward, clients
  <2>2. Complete'
    BY <2>1 DEF Complete, AllOf
  <2>3. Dropped'
    <3>1. CASE Forward
      BY <2>1, <3>1 DEF Forward, Dropped
    <3>2. CASE Discard
      <4>1. /\ queue # <<>> /\ head = queue[1] /\ head.short /\ peer = head.from
            /\ discarded = <<>> /\ discarded' = Append(discarded, Head(queue))
        BY <3>2 DEF Discard, IInv, HeadStays
      <4>2. Head(queue) = queue[1] /\ discarded' = <<queue[1]>>
        BY <4>1 DEF IInv, Types
      <4> QED BY <2>1, <4>1, <4>2 DEF Dropped
    <3> QED BY <1>2, <3>1, <3>2
  <2> QED BY <2>2, <2>3
<1>3. CASE Connect
  <2>1. UNCHANGED <<discarded, forwarded, queue, sent>> /\ discarded = <<>>
    BY <1>3 DEF Connect, clients, IInv, HeadStays
  <2> QED BY <2>1 DEF Complete, AllOf, Stream, Dropped
<1>4. CASE UNCHANGED <<discarded, forwarded, queue, sent, peer>>
  BY <1>4 DEF Complete, AllOf, Stream, Dropped
<1>5. \/ \E c \in Client : Send(c)
      \/ Discard \/ Forward \/ Connect
      \/ UNCHANGED <<discarded, forwarded, queue, sent, peer>>
  BY DEF Next, Main, vars, clients, Signal, Leave, Signaled, Readable, Peek,
         ConnectFails, Fails, Stop
<1> QED BY <1>1, <1>2, <1>3, <1>4, <1>5

\* Between the calls of wait_for_client, connect_socket and read_from_vm of helper.c
\* no packet of the client served is lost, read twice or overtaken, whoever else
\* sends, and only its handshake is thrown away.
THEOREM NothingMissed == Spec => []ClientComplete
<1>1. Init => Complete /\ Dropped
  <2> SUFFICES ASSUME Init PROVE Complete /\ Dropped
    OBVIOUS
  <2>1. Stream = <<>> /\ Len(Stream) = 0
    BY ConcatEmptySeq, EmptySeq DEF Init, Stream
  <2>2. \A c \in Client : 1..sent[c] = {}
    BY DEF Init
  <2> QED BY <2>1, <2>2 DEF Init, Complete, AllOf, Dropped
<1>2. IInv /\ Complete /\ Dropped => ClientComplete
  BY DEF IInv, Types, Complete, Dropped, ClientComplete
<1> QED BY <1>1, <1>2, NextComplete, Invariance, PTL DEF Spec
==============================================================================
