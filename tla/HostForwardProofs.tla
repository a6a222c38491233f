-------------------------- MODULE HostForwardProofs --------------------------
(***************************************************************************)
(* Proofs about HostForward for every batch size, retry budget, buffer     *)
(* capacity, packet sizes and number of packets.                           *)
(***************************************************************************)
EXTENDS HostForward, SequenceTheorems, TLAPS

\* Byte counts are naturals, and adjacent runs of packets add up.
LEMMA SizeOfFacts ==
    ASSUME NEW a \in 0..MaxPackets, NEW b \in 0..MaxPackets,
           NEW c \in 0..MaxPackets, a <= b, b <= c
    PROVE  /\ SizeOf(a, b) \in Nat
           /\ SizeOf(a, b) + SizeOf(b, c) = SizeOf(a, c)
           /\ SizeOf(a, a) = 0
<1>1. Octets[a] \in Nat /\ Octets[b] \in Nat /\ Octets[c] \in Nat
  BY OctetsAssumption
<1>2. a < b => Octets[a] < Octets[b]
  BY OctetsAssumption
<1>3. Octets[a] <= Octets[b]
  <2>1. CASE a = b BY <1>1, <2>1
  <2>2. CASE a < b BY <1>1, <1>2, <2>2
  <2> QED BY <2>1, <2>2
<1> QED BY <1>1, <1>3 DEF SizeOf

\* Appending a run of consecutive numbers above everything in an increasing
\* sequence keeps it increasing.
LEMMA BurstFacts ==
    ASSUME NEW N \in Nat, NEW w \in Seq(1..N),
           NEW p \in Nat, NEW n \in Nat \ {0}, p + n <= N,
           \A j, k \in 1..Len(w) : j < k => w[j] < w[k],
           \A j \in 1..Len(w) : w[j] <= p,
           NEW v, v = w \o [k \in 1..n |-> p + k]
    PROVE  /\ v \in Seq(1..N)
           /\ Len(v) = Len(w) + n
           /\ \A j, k \in 1..Len(v) : j < k => v[j] < v[k]
           /\ \A j \in 1..Len(v) : v[j] <= p + n
<1> DEFINE burst == [k \in 1..n |-> p + k]
<1>1. burst \in Seq(1..N) /\ Len(burst) = n
  <2>1. \A k \in 1..n : p + k \in 1..N
    OBVIOUS
  <2> QED BY <2>1
<1> DEFINE L == Len(w)
<1>2. L \in Nat
  OBVIOUS
<1>3. /\ v \in Seq(1..N)
      /\ Len(v) = L + n
      /\ \A j \in 1..(L + n) : v[j] = IF j <= L THEN w[j] ELSE burst[j - L]
  <2> HIDE DEF burst
  <2>1. v = w \o burst
    BY DEF burst
  <2>2. /\ w \o burst \in Seq(1..N)
        /\ Len(w \o burst) = Len(w) + Len(burst)
        /\ \A j \in 1..(Len(w) + Len(burst)) :
             (w \o burst)[j] = IF j <= Len(w) THEN w[j] ELSE burst[j - Len(w)]
    BY <1>1, ConcatProperties
  <2> QED BY <1>1, <2>1, <2>2
<1>4. \A j \in 1..L : v[j] = w[j] /\ w[j] \in 1..N /\ w[j] <= p
  <2> TAKE j \in 1..L
  <2>1. w[j] \in 1..N
    BY ElementOfSeq
  <2>2. j \in 1..(L + n) /\ j <= L
    BY <1>2
  <2>3. v[j] = w[j]
    BY <1>3, <2>2
  <2> QED BY <2>1, <2>3
<1>5. \A j \in 1..(L + n) : j > L => v[j] = p + (j - L)
  <2> SUFFICES ASSUME NEW j \in 1..(L + n), j > L
               PROVE  v[j] = p + (j - L)
    OBVIOUS
  <2>1. j - L \in 1..n
    BY <1>2
  <2>2. v[j] = burst[j - L]
    BY <1>2, <1>3
  <2> QED BY <2>1, <2>2
<1>6. \A j, k \in 1..L : j < k => w[j] < w[k]
  OBVIOUS
<1> HIDE DEF L, burst
<1>7. \A j \in 1..Len(v) : v[j] <= p + n
  <2> TAKE j \in 1..Len(v)
  <2>1. CASE j <= L
    BY <2>1, <1>2, <1>3, <1>4
  <2>2. CASE j > L
    BY <2>2, <1>2, <1>3, <1>5
  <2> QED BY <2>1, <2>2, <1>2, <1>3
<1>8. \A j, k \in 1..Len(v) : j < k => v[j] < v[k]
  <2> SUFFICES ASSUME NEW j \in 1..Len(v), NEW k \in 1..Len(v), j < k
               PROVE  v[j] < v[k]
    OBVIOUS
  <2>0. j \in 1..(L + n) /\ k \in 1..(L + n)
    BY <1>3
  <2>1. CASE k <= L
    <3>1. j \in 1..L /\ k \in 1..L
      BY <2>0, <2>1, <1>2
    <3> QED BY <3>1, <1>4, <1>6
  <2>2. CASE j <= L /\ k > L
    <3>1. j \in 1..L
      BY <2>0, <2>2, <1>2
    <3>2. v[j] \in Nat /\ v[j] <= p
      BY <3>1, <1>4
    <3>3. v[k] = p + (k - L)
      BY <2>0, <2>2, <1>5
    <3> QED BY <2>0, <2>2, <3>2, <3>3, <1>2
  <2>3. CASE j > L
    <3>1. v[j] = p + (j - L) /\ v[k] = p + (k - L)
      BY <2>0, <2>3, <1>2, <1>5
    <3> QED BY <2>0, <3>1, <1>2
  <2> QED BY <2>0, <2>1, <2>2, <2>3, <1>2
<1> QED BY <1>3, <1>7, <1>8 DEF L

\* What sending n packets after packet p does to the wire.
LEMMA AcceptFacts ==
    ASSUME wire \in Seq(1..MaxPackets), octets \in Nat, WireInOrder,
           NEW p \in Nat, NEW n \in Nat \ {0},
           p + n <= MaxPackets,
           \A j \in 1..Len(wire) : wire[j] <= p,
           Accept(p, n)
    PROVE  /\ wire' \in Seq(1..MaxPackets)
           /\ Sent' = Sent + n
           /\ octets' \in Nat
           /\ octets' = octets + SizeOf(p, p + n)
           /\ WireInOrder'
           /\ \A j \in 1..Len(wire') : wire'[j] <= p + n
<1>0. MaxPackets \in Nat
  BY EnvAssumption
<1>1. wire' = wire \o [k \in 1..n |-> p + k]
  BY DEF Accept
<1>2. \A j, k \in 1..Len(wire) : j < k => wire[j] < wire[k]
  BY DEF WireInOrder
<1>3. /\ wire' \in Seq(1..MaxPackets)
      /\ Len(wire') = Len(wire) + n
      /\ \A j, k \in 1..Len(wire') : j < k => wire'[j] < wire'[k]
      /\ \A j \in 1..Len(wire') : wire'[j] <= p + n
  BY <1>0, <1>1, <1>2, BurstFacts
<1>4. octets' = octets + SizeOf(p, p + n) /\ octets' \in Nat
  <2>1. octets' = octets + SizeOf(p, p + n)
    BY DEF Accept
  <2>2. p \in 0..MaxPackets /\ p + n \in 0..MaxPackets
    BY <1>0
  <2>3. SizeOf(p, p + n) \in Nat
    BY <2>2, SizeOfFacts
  <2> QED BY <2>1, <2>3
<1> QED BY <1>3, <1>4 DEF WireInOrder, Sent

------------------------------------------------------------------------------
\* The ranges the arithmetic of a step needs.
Ranges ==
    /\ MaxPackets \in Nat /\ MaxPacketCount \in Nat /\ RetryMax \in Nat
    /\ arrived \in Nat /\ taken \in Nat /\ base \in Nat
    /\ taken <= MaxPackets /\ base = taken - count
    /\ count \in Nat /\ packets \in Nat /\ i \in Nat /\ drops \in Nat
    /\ packets <= count /\ i <= count /\ drops <= count
    /\ bytes \in Nat /\ retries \in Nat /\ fast \in Nat /\ slow \in Nat
    /\ octets \in Nat /\ Sent \in Nat
    /\ stats.packets \in Nat /\ stats.bytes \in Nat /\ stats.drops \in Nat
    /\ stats.fast \in Nat /\ stats.slow \in Nat

LEMMA Bounds == TypeOK => Ranges
<1> SUFFICES ASSUME TypeOK PROVE Ranges
  OBVIOUS
<1>1. Sent \in Nat
  BY DEF TypeOK, Sent
<1>2. /\ stats.packets \in Nat /\ stats.bytes \in Nat /\ stats.drops \in Nat
      /\ stats.fast \in Nat /\ stats.slow \in Nat
  BY DEF TypeOK, Stats
<1>3. base = taken - count
  BY DEF base
<1> QED BY <1>1, <1>2, <1>3, BatchAssumption, EnvAssumption DEF TypeOK, Ranges

LEMMA InitInv == Init => IInv
<1> SUFFICES ASSUME Init PROVE IInv
  OBVIOUS
<1>1. TypeOK
  <2>1. wire \in Seq(1..MaxPackets) /\ Sent = 0
    BY DEF Init, Sent
  <2>2. stats \in Stats
    BY DEF Init, Stats
  <2>3. event \in BOOLEAN /\ vmOpen \in BOOLEAN
    BY DEF Init
  <2>4. received \in 0..Sent /\ octets \in Nat
    BY <2>1 DEF Init
  <2>5. arrived \in 0..MaxPackets /\ taken \in 0..arrived
        /\ readFailures \in 0..MaxReadFailures
    BY EnvAssumption DEF Init
  <2>6. /\ pc \in {"idle", "read", "fast", "slow"}
        /\ count \in 0..MaxPacketCount /\ count <= taken
        /\ packets \in 0..count /\ bytes \in Nat /\ i \in 0..count
        /\ retries \in 0..RetryMax /\ fast \in Nat /\ slow \in Nat
        /\ drops \in 0..count
    BY BatchAssumption DEF Init
  <2> QED BY <2>1, <2>2, <2>3, <2>4, <2>5, <2>6 DEF TypeOK
<1>2. InBatch /\ Paid
  BY DEF Init, InBatch, Paid
<1>3. Accounted
  BY DEF Init, Accounted, base, Sent
<1>4. WireInOrder /\ WireHandled
  BY DEF Init, WireInOrder, WireHandled
<1> QED BY <1>1, <1>2, <1>3, <1>4 DEF IInv

\* Steps that touch neither the wire nor the locals: only types are at stake.
LEMMA QuietStep ==
    ASSUME IInv, TypeOK',
           UNCHANGED <<taken, wire, octets, locals, stats>>,
           \/ pc' = pc
           \/ pc \in {"idle", "read"} /\ pc' \in {"idle", "read"}
    PROVE  IInv'
<1> USE DEF locals
<1>1. InBatch' BY DEF IInv, InBatch
<1>2. Accounted' BY DEF IInv, Accounted, Sent, base, host_packets_size, SizeOf
<1>3. WireInOrder' BY DEF IInv, WireInOrder
<1>4. base' = base BY DEF base
<1>5. WireHandled'
  <2>1. Handled' = Handled
    <3>1. CASE pc' = pc BY <3>1, <1>4 DEF Handled
    <3>2. CASE pc \in {"idle", "read"} /\ pc' \in {"idle", "read"}
      BY <3>2, <1>4 DEF Handled
    <3> QED BY <3>1, <3>2
  <2> QED BY <2>1 DEF IInv, WireHandled
<1>6. Paid' BY DEF IInv, Paid
<1> QED BY <1>1, <1>2, <1>3, <1>5, <1>6 DEF IInv

LEMMA EnvironmentStep == IInv /\ Environment => IInv'
<1> SUFFICES ASSUME IInv, Environment PROVE IInv'
  OBVIOUS
<1> USE DEF locals, Sent
<1>1. CASE Arrive
  <2>1. event' \in BOOLEAN
    BY <1>1 DEF IInv, TypeOK, Arrive
  <2>2. arrived' \in 0..MaxPackets /\ taken' \in 0..arrived'
    BY <1>1, EnvAssumption DEF IInv, TypeOK, Arrive
  <2>3. UNCHANGED <<taken, readFailures, vmOpen, wire, octets, received, pc,
                    locals, stats>>
    BY <1>1 DEF Arrive
  <2>4. TypeOK'
    BY <2>1, <2>2, <2>3 DEF IInv, TypeOK
  <2> QED BY <1>1, <2>4, QuietStep DEF Arrive
<1>2. CASE VmReceive
  <2>1. TypeOK' BY <1>2 DEF IInv, TypeOK, VmReceive
  <2> QED BY <1>2, <2>1, QuietStep DEF VmReceive
<1>3. CASE VmClose
  <2>1. TypeOK' BY <1>3 DEF IInv, TypeOK, VmClose
  <2> QED BY <1>3, <2>1, QuietStep DEF VmClose
<1> QED BY <1>1, <1>2, <1>3 DEF Environment

LEMMA QueueStep ==
    ASSUME IInv, PacketsAvailable \/ ReadEmpty \/ ReadFails PROVE IInv'
<1> USE DEF env, locals, Sent
<1>1. CASE PacketsAvailable
  <2>1. TypeOK' BY <1>1 DEF IInv, TypeOK, PacketsAvailable
  <2> QED BY <1>1, <2>1, QuietStep DEF PacketsAvailable
<1>2. CASE ReadEmpty
  <2>1. TypeOK' BY <1>2 DEF IInv, TypeOK, ReadEmpty
  <2> QED BY <1>2, <2>1, QuietStep DEF ReadEmpty
<1>3. CASE ReadFails
  <2>1. TypeOK' BY <1>3, EnvAssumption DEF IInv, TypeOK, ReadFails
  <2> QED BY <1>3, <2>1, QuietStep DEF ReadFails
<1> QED BY <1>1, <1>2, <1>3

LEMMA ReadBatchStep ==
    ASSUME IInv, ReadBatch PROVE IInv'
<1> USE DEF env, Sent
<1>1. PICK n \in 1..MaxPacketCount :
        n <= arrived - taken /\ count' = n /\ taken' = taken + n
  BY DEF ReadBatch
<1>2. /\ pc = "read" /\ pc' \in {"fast", "slow"}
      /\ UNCHANGED <<env, wire, octets, packets, bytes, i, retries, fast, slow,
                     drops, stats>>
  BY DEF ReadBatch
<1>3. /\ count = 0 /\ bytes = 0 /\ retries = 0 /\ fast = 0 /\ slow = 0
      /\ packets = 0 /\ i = 0 /\ drops = 0
  BY <1>2 DEF IInv, InBatch, TypeOK
<1>4. /\ taken \in Nat /\ base = taken /\ base' = base
      /\ arrived \in Nat /\ taken' <= arrived /\ n \in Nat \ {0}
  BY <1>1, <1>3, BatchAssumption, EnvAssumption DEF IInv, TypeOK, base
<1>5. TypeOK'
  BY <1>1, <1>2, <1>3, <1>4, BatchAssumption DEF IInv, TypeOK
<1>6. InBatch'
  BY <1>1, <1>2, <1>3, <1>4 DEF InBatch
<1>7. Accounted'
  <2>1. host_packets_size(packets)' = 0
    <3>1. base' \in 0..MaxPackets
      BY <1>4, EnvAssumption DEF IInv, TypeOK
    <3>2. SizeOf(base', base') = 0
      BY <3>1, SizeOfFacts, EnvAssumption
    <3>3. host_packets_size(packets)' = SizeOf(base', base' + 0)
      BY <1>2, <1>3 DEF host_packets_size, SizeOf
    <3> QED BY <3>1, <3>2, <3>3
  <2> QED BY <2>1, <1>2, <1>3, <1>4 DEF IInv, Accounted, TypeOK, Stats
<1>8. WireInOrder'
  BY <1>2 DEF IInv, WireInOrder
<1>9. WireHandled'
  <2>1. Handled' = Handled
    BY <1>2, <1>3, <1>4 DEF Handled
  <2> QED BY <1>2, <2>1 DEF IInv, WireHandled
<1>10. Paid'
  BY <1>2, <1>3 DEF Paid
<1> QED BY <1>5, <1>6, <1>7, <1>8, <1>9, <1>10 DEF IInv

\* The two ends of a fast send: the batch is complete, or more of it is left.
LEMMA FastSendStep ==
    ASSUME IInv, FastSend PROVE IInv'
<1> USE DEF env
<1>0. Ranges
  BY Bounds DEF IInv
<1>1. PICK n \in 1..(count - packets) :
        /\ Accept(base + packets, n)
        /\ \/ packets + n = count /\ FastDone
           \/ packets + n < count /\ FastMore(n)
  BY DEF FastSend
<1>2. /\ pc = "fast" /\ UNCHANGED <<env, taken>>
      /\ bytes = 0 /\ i = 0 /\ slow = 0 /\ drops = 0
  BY DEF FastSend, IInv, InBatch
<1>3. n \in Nat \ {0} /\ packets + n <= count
  BY <1>1, <1>0 DEF Ranges
<1>4. Handled = base + packets
  BY <1>2 DEF Handled
<1>5. /\ wire' \in Seq(1..MaxPackets)
      /\ Sent' = Sent + n
      /\ octets' \in Nat
      /\ octets' = octets + SizeOf(base + packets, base + packets + n)
      /\ WireInOrder'
      /\ \A j \in 1..Len(wire') : wire'[j] <= base + packets + n
  <2>1. base + packets \in Nat /\ base + packets + n <= MaxPackets
    BY <1>0, <1>3 DEF Ranges
  <2>2. \A j \in 1..Len(wire) : wire[j] <= base + packets
    BY <1>4 DEF IInv, WireHandled
  <2> QED BY <1>1, <1>3, <2>1, <2>2, AcceptFacts DEF IInv, TypeOK
<1>6. /\ Sent' = Sent + n
      /\ octets' = octets + SizeOf(base + packets, base + packets + n)
  BY <1>5
<1>7. /\ SizeOf(base, base + packets) \in Nat
      /\ SizeOf(base + packets, base + packets + n) \in Nat
      /\ SizeOf(base, base + packets + n) \in Nat
      /\ SizeOf(base, base + packets) + SizeOf(base + packets, base + packets + n)
           = SizeOf(base, base + packets + n)
  <2>1. /\ base \in 0..MaxPackets /\ base + packets \in 0..MaxPackets
        /\ base + packets + n \in 0..MaxPackets
        /\ base <= base + packets /\ base + packets <= base + packets + n
    BY <1>3, <1>0 DEF Ranges
  <2> QED BY <2>1, SizeOfFacts
<1>8. /\ stats.packets + packets = Sent
      /\ stats.bytes + SizeOf(base, base + packets) = octets
      /\ stats.packets + stats.drops = base
      /\ stats.packets \in Nat /\ stats.bytes \in Nat /\ stats.drops \in Nat
      /\ stats.fast \in Nat /\ stats.slow \in Nat
  BY <1>2 DEF IInv, Accounted, TypeOK, Stats, host_packets_size
<1>9. received' \in 0..Sent'
  <2>1. received \in 0..Sent
    BY DEF IInv, TypeOK
  <2> QED BY <1>0, <1>2, <1>3, <1>6, <2>1 DEF Ranges
<1>10. CASE packets + n = count /\ FastDone
  <2>1. pc' = "read" /\ count' = 0 /\ packets' = 0 /\ bytes' = 0
        /\ i' = 0 /\ retries' = 0 /\ fast' = 0 /\ slow' = 0 /\ drops' = 0
    BY <1>10 DEF FastDone, Return
  <2>2. /\ stats'.packets = stats.packets + count
        /\ stats'.bytes = stats.bytes + SizeOf(base, base + count)
        /\ stats'.drops = stats.drops
        /\ stats'.fast = stats.fast + fast + 1
        /\ stats'.slow = stats.slow
    BY <1>10 DEF FastDone, IInv, TypeOK, Stats, host_packets_size
  <2>3. base + packets + n = taken /\ base' = taken /\ base + count = taken
    <3>1. base' = taken' - 0
      BY <2>1 DEF base
    <3> QED BY <3>1, <1>2, <1>10, <1>3, <1>0 DEF Ranges
  <2>4. stats' \in Stats
    <3>1. base + count = base + packets + n
      BY <1>10, <1>3, <1>0 DEF Ranges
    <3>2. SizeOf(base, base + count) \in Nat
      BY <3>1, <1>7
    <3>3. stats.packets + count \in Nat /\ stats.fast + fast + 1 \in Nat
      BY <1>0 DEF Ranges
    <3>4. stats.bytes + SizeOf(base, base + count) \in Nat
      BY <1>0, <3>2 DEF Ranges
    <3> QED BY <1>10, <3>3, <3>4
            DEF FastDone, IInv, TypeOK, Stats, host_packets_size
  <2>5. TypeOK'
    BY <1>2, <1>5, <1>9, <2>1, <2>4, BatchAssumption DEF IInv, TypeOK
  <2>6. InBatch' /\ Paid'
    BY <2>1 DEF InBatch, Paid
  <2>7. Accounted'
    <3>1. stats'.packets + 0 = Sent'
      BY <1>3, <1>6, <1>8, <1>10, <2>2, <1>0 DEF Ranges
    <3>2. stats'.bytes + 0 = octets'
      <4>1. stats'.bytes = stats.bytes + SizeOf(base, base + packets + n)
        BY <2>2, <2>3
      <4>2. stats.bytes \in Nat
        BY <1>8
      <4>3. octets \in Nat /\ octets = stats.bytes + SizeOf(base, base + packets)
        BY <1>0, <1>8 DEF Ranges
      <4>4. SizeOf(base + packets, base + packets + n) \in Nat
        BY <1>7
      <4> QED BY <4>1, <4>2, <4>3, <4>4, <1>6, <1>7
    <3>3. stats'.packets + stats'.drops = taken
      BY <1>8, <2>2, <2>3, <1>0 DEF Ranges
    <3> QED BY <2>1, <2>3, <3>1, <3>2, <3>3 DEF Accounted
  <2>8. WireHandled'
    <3>1. Handled' = taken
      BY <2>1, <2>3, <1>0 DEF Ranges, Handled
    <3> QED BY <3>1, <1>5, <2>3 DEF WireHandled
  <2> QED BY <1>5, <2>5, <2>6, <2>7, <2>8 DEF IInv
<1>11. CASE packets + n < count /\ FastMore(n)
  <2>1. packets' = packets + n /\ fast' = fast + 1
        /\ UNCHANGED <<pc, count, bytes, i, retries, slow, drops, stats>>
    BY <1>11 DEF FastMore
  <2>2. base' = base
    BY <1>2, <2>1 DEF base
  <2>3. packets' \in 0..count' /\ packets' < count'
    BY <1>3, <1>11, <2>1, <1>0 DEF Ranges
  <2>4. TypeOK'
    BY <1>2, <1>5, <1>9, <2>1, <2>3 DEF IInv, TypeOK
  <2>5. InBatch'
    BY <1>2, <2>1, <2>3 DEF InBatch
  <2>6. Accounted'
    <3>1. stats.packets + packets' = Sent'
      BY <1>3, <1>6, <1>8, <2>1, <1>0 DEF Ranges
    <3>2. host_packets_size(packets)' = SizeOf(base, base + packets + n)
      <4>1. base + (packets + n) = base + packets + n
        BY <1>3, <1>0 DEF Ranges
      <4>2. host_packets_size(packets)' = SizeOf(base, base + (packets + n))
        BY <2>1, <2>2 DEF host_packets_size, SizeOf
      <4> QED BY <4>1, <4>2
    <3>3. stats.bytes + host_packets_size(packets)' = octets'
      <4>1. octets \in Nat /\ octets = stats.bytes + SizeOf(base, base + packets)
            /\ stats.bytes \in Nat
        BY <1>0, <1>8 DEF Ranges
      <4>2. SizeOf(base + packets, base + packets + n) \in Nat
        BY <1>7
      <4> QED BY <4>1, <4>2, <1>6, <1>7, <3>2
    <3> QED BY <1>2, <1>8, <2>1, <2>2, <3>1, <3>3 DEF Accounted
  <2>7. WireHandled'
    <3>1. Handled' = base + packets + n
      BY <1>2, <1>3, <2>1, <2>2, <1>0 DEF Ranges, Handled
    <3> QED BY <3>1, <1>5 DEF WireHandled
  <2>8. Paid'
    BY <1>2, <1>3, <2>1, <1>0 DEF Ranges, IInv, Paid
  <2> QED BY <1>5, <2>4, <2>5, <2>6, <2>7, <2>8 DEF IInv
<1> QED BY <1>1, <1>10, <1>11

\* A retry of either path moves nothing and spends one retry and one call.
LEMMA RetryStep ==
    ASSUME IInv, FastRetry \/ SlowRetry PROVE IInv'
<1> USE DEF env
<1>0. Ranges
  BY Bounds DEF IInv
<1>1. /\ UNCHANGED <<env, taken, wire, octets, pc, count, packets, bytes, i,
                     drops, stats>>
      /\ retries < RetryMax /\ retries' = retries + 1
      /\ \/ pc = "fast" /\ fast' = fast + 1 /\ slow' = slow
         \/ pc = "slow" /\ slow' = slow + 1 /\ fast' = fast
  BY DEF FastRetry, SlowRetry
<1>2. base' = base /\ Sent' = Sent
  BY <1>1 DEF base, Sent
<1>3. retries' \in 0..RetryMax /\ fast' \in Nat /\ slow' \in Nat
  BY <1>0, <1>1 DEF Ranges
<1>4. TypeOK'
  BY <1>1, <1>2, <1>3 DEF IInv, TypeOK
<1>5. InBatch'
  BY <1>1 DEF IInv, InBatch
<1>6. Accounted'
  BY <1>1, <1>2 DEF IInv, Accounted, host_packets_size, SizeOf
<1>7. WireInOrder'
  BY <1>1 DEF IInv, WireInOrder
<1>8. WireHandled'
  <2>1. Handled' = Handled
    BY <1>1, <1>2 DEF Handled
  <2> QED BY <1>1, <2>1 DEF IInv, WireHandled
<1>9. Paid'
  BY <1>0, <1>1 DEF IInv, Paid, Ranges
<1> QED BY <1>4, <1>5, <1>6, <1>7, <1>8, <1>9 DEF IInv

\* The fallback carries the packets and bytes sent so far into the slow path.
LEMMA FastFailsStep ==
    ASSUME IInv, FastFails PROVE IInv'
<1> USE DEF env
<1>0. Ranges
  BY Bounds DEF IInv
<1>1. /\ pc = "fast" /\ pc' = "slow" /\ fast' = fast + 1
      /\ bytes' = host_packets_size(packets) /\ i' = packets
      /\ UNCHANGED <<env, taken, wire, octets, count, packets, retries, slow,
                     drops, stats>>
  BY DEF FastFails, FallBack
<1>2. base' = base /\ Sent' = Sent
  BY <1>1 DEF base, Sent
<1>3. packets < count /\ slow = 0 /\ drops = 0
  BY <1>1 DEF IInv, InBatch
<1>4. host_packets_size(packets) \in Nat
  <2>1. /\ base \in 0..MaxPackets /\ base + packets \in 0..MaxPackets
        /\ base <= base + packets
    BY <1>0, <1>3 DEF Ranges
  <2> QED BY <2>1, SizeOfFacts DEF host_packets_size
<1>5. TypeOK'
  <2>1. bytes' \in Nat /\ fast' \in Nat /\ i' \in 0..count'
    BY <1>0, <1>1, <1>3, <1>4 DEF Ranges
  <2> QED BY <1>1, <1>2, <2>1 DEF IInv, TypeOK
<1>6. InBatch'
  BY <1>0, <1>1, <1>3 DEF InBatch, Ranges
<1>7. Accounted'
  BY <1>1, <1>2 DEF IInv, Accounted
<1>8. WireInOrder'
  BY <1>1 DEF IInv, WireInOrder
<1>9. WireHandled'
  <2>1. Handled' = Handled
    BY <1>1, <1>2 DEF Handled
  <2> QED BY <1>1, <2>1 DEF IInv, WireHandled
<1>10. Paid'
  BY <1>0, <1>1, <1>3 DEF IInv, Paid, Ranges
<1> QED BY <1>5, <1>6, <1>7, <1>8, <1>9, <1>10 DEF IInv

LEMMA SlowWriteStep ==
    ASSUME IInv, SlowWrite PROVE IInv'
<1> USE DEF env
<1>0. Ranges
  BY Bounds DEF IInv
<1>1. /\ pc = "slow" /\ i < count /\ Accept(base + i, 1)
      /\ slow' = slow + 1 /\ packets' = packets + 1 /\ i' = i + 1
      /\ bytes' = bytes + SizeOf(base + i, base + i + 1)
      /\ UNCHANGED <<env, taken, pc, count, retries, fast, drops, stats>>
  BY DEF SlowWrite
<1>2. base' = base
  BY <1>1 DEF base
<1>3. packets + drops = i
  BY <1>1 DEF IInv, InBatch
<1>4. Handled = base + i
  BY <1>1 DEF Handled
<1>5. /\ wire' \in Seq(1..MaxPackets)
      /\ Sent' = Sent + 1
      /\ octets' \in Nat
      /\ octets' = octets + SizeOf(base + i, base + i + 1)
      /\ WireInOrder'
      /\ \A j \in 1..Len(wire') : wire'[j] <= base + i + 1
  <2>1. base + i \in Nat /\ base + i + 1 <= MaxPackets
    BY <1>0, <1>1 DEF Ranges
  <2>2. \A j \in 1..Len(wire) : wire[j] <= base + i
    BY <1>4 DEF IInv, WireHandled
  <2> QED BY <1>1, <2>1, <2>2, AcceptFacts DEF IInv, TypeOK
<1>6. Sent' = Sent + 1 /\ octets' = octets + SizeOf(base + i, base + i + 1)
  BY <1>5
<1>7. SizeOf(base + i, base + i + 1) \in Nat
  <2>1. /\ base + i \in 0..MaxPackets /\ base + i + 1 \in 0..MaxPackets
        /\ base + i <= base + i + 1
    BY <1>0, <1>1 DEF Ranges
  <2> QED BY <2>1, SizeOfFacts
<1>8. /\ stats.packets + packets = Sent /\ stats.bytes + bytes = octets
      /\ stats.packets + stats.drops = base
  BY <1>1 DEF IInv, Accounted
<1>9. TypeOK'
  <2>1. received' \in 0..Sent'
    <3>1. received \in 0..Sent
      BY DEF IInv, TypeOK
    <3> QED BY <1>0, <1>1, <1>6, <3>1 DEF Ranges
  <2>2. /\ packets' \in 0..count' /\ i' \in 0..count' /\ slow' \in Nat
        /\ bytes' \in Nat
    BY <1>0, <1>1, <1>3, <1>7 DEF Ranges
  <2> QED BY <1>1, <1>5, <2>1, <2>2 DEF IInv, TypeOK
<1>10. InBatch'
  BY <1>0, <1>1, <1>3 DEF InBatch, Ranges
<1>11. Accounted'
  <2>1. stats.packets + packets' = Sent'
    BY <1>0, <1>1, <1>6, <1>8 DEF Ranges
  <2>2. stats.bytes + bytes' = octets'
    BY <1>0, <1>1, <1>6, <1>7, <1>8 DEF Ranges
  <2> QED BY <1>1, <1>2, <1>8, <2>1, <2>2 DEF Accounted
<1>12. WireHandled'
  <2>1. Handled' = base + i + 1
    BY <1>0, <1>1, <1>2 DEF Handled, Ranges
  <2> QED BY <1>5, <2>1 DEF WireHandled
<1>13. Paid'
  BY <1>0, <1>1 DEF IInv, Paid, Ranges
<1> QED BY <1>5, <1>9, <1>10, <1>11, <1>12, <1>13 DEF IInv

LEMMA SlowDropStep ==
    ASSUME IInv, SlowDrop PROVE IInv'
<1> USE DEF env
<1>0. Ranges
  BY Bounds DEF IInv
<1>1. /\ pc = "slow" /\ i < count /\ slow' = slow + 1 /\ drops' = drops + 1
      /\ i' = i + 1
      /\ UNCHANGED <<env, taken, wire, octets, pc, count, packets, bytes,
                     retries, fast, stats>>
  BY DEF SlowDrop
<1>2. base' = base /\ Sent' = Sent
  BY <1>1 DEF base, Sent
<1>3. packets + drops = i
  BY <1>1 DEF IInv, InBatch
<1>4. TypeOK'
  <2>1. drops' \in 0..count' /\ i' \in 0..count' /\ slow' \in Nat
    BY <1>0, <1>1, <1>3 DEF Ranges
  <2> QED BY <1>1, <1>2, <2>1 DEF IInv, TypeOK
<1>5. InBatch'
  BY <1>0, <1>1, <1>3 DEF InBatch, Ranges
<1>6. Accounted'
  BY <1>1, <1>2 DEF IInv, Accounted
<1>7. WireInOrder'
  BY <1>1 DEF IInv, WireInOrder
<1>8. WireHandled'
  <2>1. Handled' = Handled + 1 /\ Handled \in Nat
    BY <1>0, <1>1, <1>2 DEF Handled, Ranges
  <2>2. \A j \in 1..Len(wire) : wire[j] \in Nat /\ wire[j] <= Handled
    BY EnvAssumption DEF IInv, TypeOK, WireHandled
  <2> QED BY <1>1, <2>1, <2>2 DEF WireHandled
<1>9. Paid'
  BY <1>0, <1>1 DEF IInv, Paid, Ranges
<1> QED BY <1>4, <1>5, <1>6, <1>7, <1>8, <1>9 DEF IInv

LEMMA SlowDoneStep ==
    ASSUME IInv, SlowDone PROVE IInv'
<1> USE DEF env
<1>0. Ranges
  BY Bounds DEF IInv
<1>1. /\ pc = "slow" /\ i = count /\ pc' = "read" /\ count' = 0 /\ packets' = 0
      /\ bytes' = 0 /\ i' = 0 /\ retries' = 0 /\ fast' = 0 /\ slow' = 0
      /\ drops' = 0 /\ UNCHANGED <<env, taken, wire, octets>>
  BY DEF SlowDone, Return
<1>2. /\ stats'.packets = stats.packets + packets
      /\ stats'.bytes = stats.bytes + bytes
      /\ stats'.drops = stats.drops + drops
  BY DEF SlowDone
<1>3. packets + drops = count
  BY <1>1 DEF IInv, InBatch
<1>4. base' = taken /\ base + count = taken /\ Sent' = Sent
  <2>1. base' = taken' - 0
    BY <1>1 DEF base
  <2> QED BY <1>0, <1>1, <2>1 DEF Ranges, Sent
<1>5. /\ stats.packets + packets = Sent /\ stats.bytes + bytes = octets
      /\ stats.packets + stats.drops = base
  BY <1>1 DEF IInv, Accounted
<1>6. TypeOK'
  <2>1. /\ stats.packets + packets \in Nat /\ stats.bytes + bytes \in Nat
        /\ stats.drops + drops \in Nat /\ stats.fast + fast \in Nat
        /\ stats.slow + slow \in Nat
    BY <1>0 DEF Ranges
  <2>2. stats' \in Stats
    BY <2>1 DEF SlowDone, Stats
  <2> QED BY <1>1, <1>4, <2>2, BatchAssumption DEF IInv, TypeOK
<1>7. InBatch' /\ Paid'
  BY <1>1 DEF InBatch, Paid
<1>8. Accounted'
  <2>1. stats'.packets + 0 = Sent' /\ stats'.bytes + 0 = octets'
    BY <1>0, <1>1, <1>2, <1>4, <1>5 DEF Ranges
  <2>2. stats'.packets + stats'.drops = taken
    <3>1. stats.packets + stats.drops + (packets + drops) = taken
      BY <1>0, <1>3, <1>4, <1>5 DEF Ranges
    <3> QED BY <1>0, <1>2, <3>1 DEF Ranges
  <2> QED BY <1>1, <1>4, <2>1, <2>2 DEF Accounted
<1>9. WireInOrder'
  BY <1>1 DEF IInv, WireInOrder
<1>10. WireHandled'
  <2>1. Handled' = Handled
    BY <1>0, <1>1, <1>4 DEF Handled, Ranges
  <2> QED BY <1>1, <2>1 DEF IInv, WireHandled
<1> QED BY <1>6, <1>7, <1>8, <1>9, <1>10 DEF IInv
------------------------------------------------------------------------------
\* Every step of the host thread, the VM and vmnet keeps the invariant.
LEMMA NextInv == IInv /\ [Next]_vars => IInv'
<1> SUFFICES ASSUME IInv, [Next]_vars PROVE IInv'
  OBVIOUS
<1>1. CASE HostThread
  BY <1>1, QueueStep, ReadBatchStep, FastSendStep, RetryStep, FastFailsStep,
     SlowWriteStep, SlowDropStep, SlowDoneStep DEF HostThread
<1>2. CASE Environment
  BY <1>2, EnvironmentStep
<1>3. CASE UNCHANGED vars
  <2>1. TypeOK'
    BY <1>3 DEF IInv, TypeOK, vars, Sent
  <2> QED BY <1>3, <2>1, QuietStep DEF vars, locals
<1> QED BY <1>1, <1>2, <1>3 DEF Next

\* The locals and counters of write_to_vm stay consistent in every behaviour.
THEOREM Invariance == Spec => []IInv
<1> QED BY InitInv, NextInv, PTL DEF Spec

\* Type correctness, for every batch size, retry budget and buffer capacity.
THEOREM TypeCorrect == Spec => []TypeOK
<1>1. IInv => TypeOK
  BY DEF IInv
<1> QED BY <1>1, Invariance, PTL

\* Between batches the helper's host counters are exact: what it reports as
\* forwarded is what the socket accepted, and the rest of what it read from
\* vmnet is reported as dropped.
THEOREM ExactStatistics == Spec => []StatsExact
<1>1. IInv => StatsExact
  <2> SUFFICES ASSUME IInv, pc \in {"idle", "read"}
               PROVE  /\ stats.packets = Sent
                      /\ stats.bytes = octets
                      /\ stats.drops = taken - Sent
    BY DEF StatsExact
  <2>1. Ranges
    BY Bounds DEF IInv
  <2>2. count = 0 /\ packets = 0 /\ bytes = 0
    BY <2>1 DEF IInv, InBatch, Ranges
  <2>3. /\ stats.packets + packets = Sent /\ stats.bytes + bytes = octets
        /\ stats.packets + stats.drops = base
    BY DEF IInv, Accounted
  <2> QED BY <2>1, <2>2, <2>3 DEF Ranges
<1> QED BY <1>1, Invariance, PTL

\* No packet reaches the VM's socket twice or out of order.
THEOREM OrderedDelivery == Spec => []WireInOrder
<1>1. IInv => WireInOrder
  BY DEF IInv
<1> QED BY <1>1, Invariance, PTL

\* A batch of count packets costs at most count + RetryMax + 1 system calls:
\* a VM that never reads delays the host queue by a bounded amount per batch.
THEOREM BoundedBatches == Spec => []BatchBounded
<1>1. IInv => BatchBounded
  <2> SUFFICES ASSUME IInv PROVE fast + slow <= count + RetryMax + 1
    BY DEF BatchBounded
  <2>1. Ranges /\ retries <= RetryMax
    BY Bounds, BatchAssumption DEF IInv, TypeOK
  <2>2. CASE pc \in {"idle", "read"}
    BY <2>1, <2>2 DEF IInv, InBatch, Ranges
  <2>3. CASE pc = "fast"
    BY <2>1, <2>3 DEF IInv, InBatch, Paid, Ranges
  <2>4. CASE pc = "slow"
    BY <2>1, <2>4 DEF IInv, Paid, Ranges
  <2> QED BY <2>2, <2>3, <2>4 DEF IInv, TypeOK
<1> QED BY <1>1, Invariance, PTL
\* A packet is left in the interface without a block to fetch it only after
\* vmnet_read failed: a block ends on an empty interface, and a packet that comes
\* to an empty interface queues a block.
THEOREM NoLostWakeup == Spec => []NoneStranded
<1>1. Init => NoneStranded
  BY DEF Init, NoneStranded
<1>2. IInv /\ NoneStranded /\ [Next]_vars => NoneStranded'
  <2> SUFFICES ASSUME IInv, NoneStranded, [Next]_vars PROVE NoneStranded'
    OBVIOUS
  <2> USE DEF NoneStranded
  <2>0. Ranges
    BY Bounds DEF IInv
  <2>1. CASE Arrive
    <3>1. CASE arrived = taken
      BY <2>1, <3>1 DEF Arrive
    <3>2. CASE arrived # taken
      <4>1. taken < arrived
        BY <2>0, <3>2 DEF IInv, TypeOK, Ranges
      <4> QED BY <2>1, <4>1 DEF Arrive
    <3> QED BY <3>1, <3>2
  <2>2. CASE VmReceive \/ VmClose
    BY <2>2 DEF VmReceive, VmClose
  <2>3. CASE ReadEmpty
    BY <2>3, <2>0 DEF ReadEmpty, env, Ranges
  <2>4. CASE ReadFails
    BY <2>4, <2>0 DEF ReadFails, IInv, TypeOK
  <2>5. CASE PacketsAvailable \/ ReadBatch \/ FastSend \/ FastRetry \/ FastFails
             \/ SlowWrite \/ SlowRetry \/ SlowDrop \/ SlowDone
    <3>1. pc' # "idle"
      BY <2>5 DEF PacketsAvailable, ReadBatch, FastSend, FastMore, FastDone, Return,
                  FastRetry, FastFails, FallBack, SlowWrite, SlowRetry, SlowDrop,
                  SlowDone
    <3> QED BY <3>1
  <2>6. CASE UNCHANGED vars
    BY <2>6 DEF vars
  <2> QED
    BY <2>1, <2>2, <2>3, <2>4, <2>5, <2>6 DEF Next, HostThread, Environment
<1> QED BY <1>1, <1>2, Invariance, PTL DEF Spec

------------------------------------------------------------------------------
\* Refinement: the forwarding loop implements the cable.

\* Putting the n packets after the last settled one on the wire is a Deliver.
LEMMA DeliverStep ==
    ASSUME NEW n \in Nat \ {0}, Handled \in Nat, arrived \in Nat,
           Handled + n <= arrived,
           wire' = wire \o [k \in 1..n |-> Handled + k],
           Handled' = Handled + n, arrived' = arrived
    PROVE  CABLE!Deliver
<1>1. n \in 1..(arrived - Handled)
  OBVIOUS
<1> QED BY <1>1 DEF CABLE!Deliver, CABLE!Burst

LEMMA QuietCable ==
    ASSUME UNCHANGED <<arrived, wire>>, Handled' = Handled
    PROVE  [CABLE!Next]_(CABLE!vars)
BY DEF CABLE!vars

\* A bulk send delivers the n packets it accepted, a write delivers one, and a
\* packet whose write failed is lost.
LEMMA SendCable ==
    ASSUME IInv, FastSend \/ SlowWrite \/ SlowDrop
    PROVE  CABLE!Next
<1> USE DEF env
<1>0. Ranges /\ taken <= arrived
  BY Bounds, EnvAssumption DEF IInv, TypeOK
<1>1. CASE FastSend
  <2>1. PICK n \in 1..(count - packets) :
          /\ Accept(base + packets, n)
          /\ \/ packets + n = count /\ FastDone
             \/ packets + n < count /\ FastMore(n)
    BY <1>1 DEF FastSend
  <2>2. /\ pc = "fast" /\ UNCHANGED <<arrived, taken>>
        /\ Handled = base + packets
    BY <1>1 DEF FastSend, Handled
  <2>3. n \in Nat \ {0} /\ packets + n <= count
    BY <1>0, <2>1 DEF Ranges
  <2>4. Handled' = Handled + n
    <3>1. CASE packets + n = count /\ FastDone
      <4>1. Handled' = taken
        <5>1. pc' = "read" /\ count' = 0 /\ packets' = 0
          BY <3>1 DEF FastDone, Return
        <5>2. Handled' = taken - 0 + 0
          BY <2>2, <5>1 DEF Handled, base
        <5> QED BY <1>0, <5>2 DEF Ranges
      <4> QED BY <1>0, <2>2, <2>3, <3>1, <4>1 DEF Ranges
    <3>2. CASE packets + n < count /\ FastMore(n)
      <4>1. pc' = pc /\ count' = count /\ packets' = packets + n
        BY <3>2 DEF FastMore
      <4>2. Handled' = base + (packets + n)
        BY <2>2, <4>1 DEF Handled, base
      <4> QED BY <1>0, <2>2, <2>3, <4>2 DEF Ranges
    <3> QED BY <2>1, <3>1, <3>2
  <2>5. Handled \in Nat /\ arrived \in Nat /\ Handled + n <= arrived
    BY <1>0, <2>2, <2>3 DEF Ranges
  <2>6. wire' = wire \o [k \in 1..n |-> Handled + k]
    BY <2>1, <2>2 DEF Accept
  <2> QED BY <2>2, <2>3, <2>4, <2>5, <2>6, DeliverStep
          DEF CABLE!Next, CABLE!Settle
<1>2. CASE SlowWrite
  <2>1. /\ pc = "slow" /\ i < count /\ Accept(base + i, 1) /\ i' = i + 1
        /\ UNCHANGED <<arrived, taken, pc, count>>
    BY <1>2 DEF SlowWrite
  <2>2. Handled = base + i
    BY <2>1 DEF Handled
  <2>3. Handled' = Handled + 1
    <3>1. Handled' = base + (i + 1)
      BY <2>1 DEF Handled, base
    <3> QED BY <1>0, <2>2, <3>1 DEF Ranges
  <2>4. Handled \in Nat /\ arrived \in Nat /\ Handled + 1 <= arrived
    BY <1>0, <2>1, <2>2 DEF Ranges
  <2>5. wire' = wire \o [k \in 1..1 |-> Handled + k]
    BY <2>1, <2>2 DEF Accept
  <2> QED BY <2>1, <2>3, <2>4, <2>5, DeliverStep DEF CABLE!Next, CABLE!Settle
<1>3. CASE SlowDrop
  <2>1. /\ pc = "slow" /\ i < count /\ i' = i + 1
        /\ UNCHANGED <<arrived, taken, wire, pc, count>>
    BY <1>3 DEF SlowDrop
  <2>2. Handled = base + i /\ Handled' = base + (i + 1)
    BY <2>1 DEF Handled, base
  <2>3. Handled < arrived /\ Handled' = Handled + 1
    BY <1>0, <2>1, <2>2 DEF Ranges
  <2> QED BY <2>1, <2>3 DEF CABLE!Next, CABLE!Settle, CABLE!Lose
<1> QED BY <1>1, <1>2, <1>3

\* Everything else the host thread does is invisible on the cable.
LEMMA OtherCable ==
    ASSUME IInv, \/ PacketsAvailable \/ ReadBatch \/ ReadEmpty \/ ReadFails
                 \/ FastRetry \/ FastFails \/ SlowRetry \/ SlowDone
    PROVE  [CABLE!Next]_(CABLE!vars)
<1> USE DEF env, locals
<1>0. Ranges
  BY Bounds DEF IInv
<1>1. UNCHANGED <<arrived, wire>>
  BY DEF PacketsAvailable, ReadBatch, ReadEmpty, ReadFails, FastRetry,
         FastFails, FallBack, SlowRetry, SlowDone
<1>2. Handled' = Handled
  <2>1. CASE PacketsAvailable \/ ReadEmpty \/ ReadFails
    <3>1. /\ UNCHANGED <<taken, count, packets>>
          /\ pc # "slow" /\ pc' # "slow"
      BY <2>1 DEF PacketsAvailable, ReadEmpty, ReadFails
    <3> QED BY <3>1 DEF Handled, base
  <2>2. CASE ReadBatch
    <3>1. PICK n \in 1..MaxPacketCount : count' = n /\ taken' = taken + n
      BY <2>2 DEF ReadBatch
    <3>2. /\ pc = "read" /\ count = 0 /\ packets = 0 /\ i = 0
          /\ packets' = 0 /\ i' = 0
      BY <2>2, <1>0 DEF ReadBatch, IInv, InBatch, Ranges
    <3>3. Handled = taken - 0 + 0
      BY <3>2 DEF Handled, base
    <3>4. Handled' = base' + 0
      BY <3>2 DEF Handled
    <3>5. base' = taken' - count'
      BY DEF base
    <3>6. n \in Nat
      BY BatchAssumption
    <3> QED BY <1>0, <3>1, <3>3, <3>4, <3>5, <3>6 DEF Ranges
  <2>3. CASE FastRetry \/ SlowRetry
    <3>1. UNCHANGED <<taken, count, packets, i, pc>>
      BY <2>3 DEF FastRetry, SlowRetry
    <3> QED BY <3>1 DEF Handled, base
  <2>4. CASE FastFails
    <3>1. /\ UNCHANGED <<taken, count, packets>>
          /\ pc = "fast" /\ pc' = "slow" /\ i' = packets
      BY <2>4 DEF FastFails, FallBack
    <3> QED BY <3>1 DEF Handled, base
  <2>5. CASE SlowDone
    <3>1. /\ pc = "slow" /\ i = count /\ pc' = "read" /\ count' = 0
          /\ packets' = 0 /\ taken' = taken
      BY <2>5 DEF SlowDone, Return
    <3>2. Handled = taken - count + count /\ Handled' = taken - 0 + 0
      BY <3>1 DEF Handled, base
    <3> QED BY <1>0, <3>2 DEF Ranges
  <2> QED BY <2>1, <2>2, <2>3, <2>4, <2>5
<1> QED BY <1>1, <1>2, QuietCable

LEMMA EnvironmentCable ==
    ASSUME IInv, Environment
    PROVE  [CABLE!Next]_(CABLE!vars)
<1> USE DEF locals
<1>1. UNCHANGED <<taken, wire, pc, count, packets, i>>
  BY DEF Environment, Arrive, VmReceive, VmClose
<1>2. Handled' = Handled
  BY <1>1 DEF Handled, base
<1>3. CASE Arrive
  <2>1. arrived' = arrived + 1
    BY <1>3 DEF Arrive
  <2> QED BY <1>1, <1>2, <2>1 DEF CABLE!Next, CABLE!Offer
<1>4. CASE VmReceive \/ VmClose
  <2>1. UNCHANGED <<arrived, wire>>
    BY <1>4 DEF VmReceive, VmClose
  <2> QED BY <1>2, <2>1, QuietCable
<1> QED BY <1>3, <1>4 DEF Environment

\* The host to VM direction implements a cable that may lose packets but never
\* repeats, reorders or invents one, for every choice of the constants.
THEOREM ImplementsCable == Spec => CableSafety
<1>1. Init => CABLE!Init
  BY DEF Init, CABLE!Init, Handled, base
<1>2. IInv /\ [Next]_vars => [CABLE!Next]_(CABLE!vars)
  <2> SUFFICES ASSUME IInv, [Next]_vars PROVE [CABLE!Next]_(CABLE!vars)
    OBVIOUS
  <2>1. CASE HostThread
    BY <2>1, SendCable, OtherCable DEF HostThread
  <2>2. CASE Environment
    BY <2>2, EnvironmentCable
  <2>3. CASE UNCHANGED vars
    <3>1. UNCHANGED <<arrived, wire>> /\ Handled' = Handled
      BY <2>3 DEF vars, Handled, base
    <3> QED BY <3>1, QuietCable
  <2> QED BY <2>1, <2>2, <2>3 DEF Next
<1> QED BY <1>1, <1>2, Invariance, PTL DEF Spec, CableSafety, CABLE!Spec
==============================================================================
