----------------------------- MODULE HostForward -----------------------------
(***************************************************************************)
(* The host to VM direction of vmnet-helper: the block that vmnet queues   *)
(* on host.queue when packets are available, which reads batches from the  *)
(* interface and sends them to the VM's datagram socket with sendmsg_x(),  *)
(* falling back to write() for the rest of a batch (packets_available,     *)
(* read_from_host and write_to_vm in programs/helper.c).                   *)
(*                                                                         *)
(* Every system call is one step, so the VM may drain or close the socket  *)
(* and vmnet may deliver packets between any two of them.  Packets are     *)
(* numbered from 1 in the order vmnet received them; the batch in hand is  *)
(* always the last "count" packets taken from the interface.               *)
(***************************************************************************)
EXTENDS Integers, Sequences

CONSTANTS
    MaxPacketCount,   \* host.max_packet_count: packets read in one batch
    RetryMax,         \* VM_RETRY_MAX: retries in one batch
    BulkForwarding,   \* use_bulk_forwarding
    Capacity,         \* packets that fit in the VM's receive buffer
    Octets,           \* Octets[n]: bytes in the first n packets
    Refused,          \* packets that sending always rejects (EMSGSIZE)
    MaxPackets,       \* bound: packets the host sends in a behaviour
    MaxReadFailures   \* bound: vmnet_read failures in a behaviour

ASSUME BatchAssumption == MaxPacketCount \in Nat \ {0} /\ RetryMax \in Nat
ASSUME BulkAssumption == BulkForwarding \in BOOLEAN
ASSUME EnvAssumption ==
    /\ Capacity \in Nat \ {0}
    /\ MaxPackets \in Nat
    /\ MaxReadFailures \in Nat
    /\ Refused \subseteq 1..MaxPackets
ASSUME OctetsAssumption ==
    /\ Octets \in [0..MaxPackets -> Nat]
    /\ \A m, n \in 0..MaxPackets : m < n => Octets[m] < Octets[n]

VARIABLES
    \* vmnet and host.queue
    arrived,   \* packets vmnet received for the VM
    taken,     \* packets vmnet_read returned
    event,     \* a packets_available block waits on host.queue
    readFailures,
    \* the VM's end of the socket
    vmOpen,    \* the peer has not closed
    wire,      \* history: packets the kernel accepted
    octets,    \* history: bytes the kernel accepted
    received,  \* how many accepted packets the VM has received
    \* the host thread: program counter and locals of write_to_vm
    pc, count, packets, bytes, i, retries, fast, slow, drops,
    \* host.stats
    stats

env    == <<arrived, event, readFailures, vmOpen, received>>
locals == <<count, packets, bytes, i, retries, fast, slow, drops>>
vars   == <<arrived, taken, event, readFailures, vmOpen, wire, octets,
            received, pc, count, packets, bytes, i, retries, fast, slow,
            drops, stats>>

\* The number of the first packet of the batch is base + 1.
base == taken - count

\* Bytes of packets m + 1 to n.
SizeOf(m, n) == Octets[n] - Octets[m]

host_packets_size(n) == SizeOf(base, base + n)

\* How many packets the socket accepted.
Sent == Len(wire)

Room == Capacity - (Sent - received)

------------------------------------------------------------------------------
\* The kernel and the peer.  Sending to a full receive buffer fails at once
\* with ENOBUFS, also on a blocking socket; a closed peer and a packet that is
\* too big are other errors.

NoBuffers == vmOpen /\ Room = 0

Rejects(p) == ~vmOpen \/ p \in Refused

\* The socket accepts the n packets after packet p.
Accept(p, n) ==
    /\ wire' = wire \o [k \in 1..n |-> p + k]
    /\ octets' = octets + SizeOf(p, p + n)

------------------------------------------------------------------------------
Init ==
    /\ arrived = 0 /\ taken = 0 /\ event = FALSE /\ readFailures = 0
    /\ vmOpen = TRUE /\ wire = <<>> /\ octets = 0 /\ received = 0
    /\ pc = "idle"
    /\ count = 0 /\ packets = 0 /\ bytes = 0 /\ i = 0
    /\ retries = 0 /\ fast = 0 /\ slow = 0 /\ drops = 0
    /\ stats = [packets |-> 0, bytes |-> 0, drops |-> 0, fast |-> 0, slow |-> 0]

\* vmnet receives a packet.  It signals when the interface stops being empty,
\* and may signal more often; signals that find a block waiting coalesce.
Arrive ==
    /\ arrived < MaxPackets
    /\ arrived' = arrived + 1
    /\ event' \in {TRUE, event \/ arrived = taken}
    /\ UNCHANGED <<taken, readFailures, vmOpen, wire, octets, received, pc,
                   locals, stats>>

\* The VM receives a packet from its socket.
VmReceive ==
    /\ vmOpen /\ received < Sent
    /\ received' = received + 1
    /\ UNCHANGED <<arrived, taken, event, readFailures, vmOpen, wire, octets,
                   pc, locals, stats>>

VmClose ==
    /\ vmOpen
    /\ vmOpen' = FALSE
    /\ UNCHANGED <<arrived, taken, event, readFailures, wire, octets,
                   received, pc, locals, stats>>

------------------------------------------------------------------------------
\* host.queue, a serial queue, starts a waiting block.
PacketsAvailable ==
    /\ pc = "idle" /\ event
    /\ event' = FALSE
    /\ pc' = "read"
    /\ UNCHANGED <<arrived, taken, readFailures, vmOpen, wire, octets,
                   received, locals, stats>>

\* vmnet_read returns a batch and write_to_vm starts on it.
ReadBatch ==
    /\ pc = "read"
    /\ \E n \in 1..MaxPacketCount :
        /\ n <= arrived - taken
        /\ count' = n
        /\ taken' = taken + n
    /\ pc' = IF BulkForwarding THEN "fast" ELSE "slow"
    /\ UNCHANGED <<env, wire, octets, packets, bytes, i, retries, fast, slow,
                   drops, stats>>

ReadEmpty ==
    /\ pc = "read" /\ arrived = taken
    /\ pc' = "idle"
    /\ UNCHANGED <<env, taken, wire, octets, locals, stats>>

\* A failed vmnet_read ends the block like an empty one.
ReadFails ==
    /\ pc = "read" /\ readFailures < MaxReadFailures
    /\ readFailures' = readFailures + 1
    /\ pc' = "idle"
    /\ UNCHANGED <<arrived, taken, event, vmOpen, wire, octets, received,
                   locals, stats>>

\* Mutant: the block handles one batch ("if" in place of "while (1)").
MutantReturnToQueue ==
    /\ pc' = "idle"
    /\ count' = 0 /\ packets' = 0 /\ bytes' = 0 /\ i' = 0
    /\ retries' = 0 /\ fast' = 0 /\ slow' = 0 /\ drops' = 0

\* write_to_vm returns, its locals die, and packets_available reads again.
Return ==
    /\ pc' = "read"
    /\ count' = 0 /\ packets' = 0 /\ bytes' = 0 /\ i' = 0
    /\ retries' = 0 /\ fast' = 0 /\ slow' = 0 /\ drops' = 0

\* The whole batch was sent by sendmsg_x.
FastDone ==
    /\ stats' = [stats EXCEPT !.packets = @ + count,
                              !.bytes = @ + host_packets_size(count),
                              !.fast = @ + fast + 1]
    /\ Return

FastMore(n) ==
    /\ packets' = packets + n
    /\ fast' = fast + 1
    /\ UNCHANGED <<pc, count, bytes, i, retries, slow, drops, stats>>

\* sendmsg_x accepts the next n packets; the last of them ends the batch.
FastSend ==
    /\ pc = "fast" /\ vmOpen
    /\ \E n \in 1..(count - packets) :
        /\ n <= Room
        /\ \A k \in 1..n : base + packets + k \notin Refused
        /\ Accept(base + packets, n)
        /\ \/ packets + n = count /\ FastDone
           \/ packets + n < count /\ FastMore(n)
    /\ UNCHANGED <<env, taken>>

\* sendmsg_x fails with ENOBUFS and the batch has retries left.
FastRetry ==
    /\ pc = "fast" /\ NoBuffers /\ retries < RetryMax
    /\ fast' = fast + 1
    /\ retries' = retries + 1
    /\ UNCHANGED <<env, taken, wire, octets, pc, count, packets, bytes, i,
                   slow, drops, stats>>

\* Mutant: the bytes sent so far are not carried into the slow path.
MutantFallBackNoBytes ==
    /\ fast' = fast + 1 /\ i' = packets /\ pc' = "slow"
    /\ UNCHANGED <<env, taken, wire, octets, count, packets, bytes, retries,
                   slow, drops, stats>>

\* Mutant: the slow path starts over at the first packet of the batch.
MutantFallBackStartsOver ==
    /\ fast' = fast + 1 /\ bytes' = host_packets_size(packets)
    /\ i' = 0 /\ pc' = "slow"
    /\ UNCHANGED <<env, taken, wire, octets, count, packets, retries, slow,
                   drops, stats>>

\* Mutant: each path has its own retry budget.
MutantFallBackNewBudget ==
    /\ fast' = fast + 1 /\ bytes' = host_packets_size(packets)
    /\ i' = packets /\ pc' = "slow" /\ retries' = 0
    /\ UNCHANGED <<env, taken, wire, octets, count, packets, slow, drops, stats>>

\* sendmsg_x fails for good: the slow path completes the batch.
FallBack ==
    /\ fast' = fast + 1
    /\ bytes' = host_packets_size(packets)
    /\ i' = packets
    /\ pc' = "slow"
    /\ UNCHANGED <<env, taken, wire, octets, count, packets, retries, slow,
                   drops, stats>>

FastFails ==
    /\ pc = "fast"
    /\ \/ NoBuffers /\ retries = RetryMax
       \/ Rejects(base + packets + 1)
    /\ FallBack

\* write accepts packet i of the batch.
SlowWrite ==
    /\ pc = "slow" /\ i < count
    /\ vmOpen /\ Room > 0 /\ base + i + 1 \notin Refused
    /\ Accept(base + i, 1)
    /\ slow' = slow + 1
    /\ packets' = packets + 1
    /\ bytes' = bytes + SizeOf(base + i, base + i + 1)
    /\ i' = i + 1
    /\ UNCHANGED <<env, taken, pc, count, retries, fast, drops, stats>>

\* Mutant: write is retried for as long as it fails with ENOBUFS.
MutantSlowRetryForever ==
    /\ pc = "slow" /\ i < count /\ NoBuffers /\ retries <= RetryMax
    /\ slow' = slow + 1 /\ retries' = retries + 1
    /\ UNCHANGED <<env, taken, wire, octets, pc, count, packets, bytes, i,
                   fast, drops, stats>>

\* write fails with ENOBUFS and the batch has retries left.
SlowRetry ==
    /\ pc = "slow" /\ i < count /\ NoBuffers /\ retries < RetryMax
    /\ slow' = slow + 1
    /\ retries' = retries + 1
    /\ UNCHANGED <<env, taken, wire, octets, pc, count, packets, bytes, i,
                   fast, drops, stats>>

\* write fails for good: the packet is dropped.
SlowDrop ==
    /\ pc = "slow" /\ i < count
    /\ \/ NoBuffers /\ retries = RetryMax
       \/ Rejects(base + i + 1)
    /\ slow' = slow + 1
    /\ drops' = drops + 1
    /\ i' = i + 1
    /\ UNCHANGED <<env, taken, wire, octets, pc, count, packets, bytes,
                   retries, fast, stats>>

\* The slow path has handled the whole batch.
SlowDone ==
    /\ pc = "slow" /\ i = count
    /\ stats' = [packets |-> stats.packets + packets,
                 bytes   |-> stats.bytes + bytes,
                 drops   |-> stats.drops + drops,
                 fast    |-> stats.fast + fast,
                 slow    |-> stats.slow + slow]
    /\ Return
    /\ UNCHANGED <<env, taken, wire, octets>>

HostThread ==
    \/ PacketsAvailable \/ ReadBatch \/ ReadEmpty \/ ReadFails
    \/ FastSend \/ FastRetry \/ FastFails
    \/ SlowWrite \/ SlowRetry \/ SlowDrop \/ SlowDone

Environment == Arrive \/ VmReceive \/ VmClose

Next == HostThread \/ Environment

Spec == Init /\ [][Next]_vars

\* libdispatch runs a queued block and the kernel runs its thread.  Nothing is
\* assumed of the VM: it may never read its socket.
FairSpec == Spec /\ WF_vars(HostThread)
------------------------------------------------------------------------------
\* How many packets the host thread is finished with.
Handled == base + (IF pc = "slow" THEN i ELSE packets)

Stats == [packets : Nat, bytes : Nat, drops : Nat, fast : Nat, slow : Nat]

TypeOK ==
    /\ arrived \in 0..MaxPackets
    /\ taken \in 0..arrived
    /\ event \in BOOLEAN
    /\ readFailures \in 0..MaxReadFailures
    /\ vmOpen \in BOOLEAN
    /\ wire \in Seq(1..MaxPackets)
    /\ octets \in Nat
    /\ received \in 0..Sent
    /\ pc \in {"idle", "read", "fast", "slow"}
    /\ count \in 0..MaxPacketCount /\ count <= taken
    /\ packets \in 0..count
    /\ bytes \in Nat
    /\ i \in 0..count
    /\ retries \in 0..RetryMax
    /\ fast \in Nat /\ slow \in Nat
    /\ drops \in 0..count
    /\ stats \in Stats

\* Between batches the counters that the helper reports are exact: packets and
\* bytes are what the socket accepted and every other packet read from vmnet is
\* a drop, whichever mixture of bulk sends, retries, the fallback in the middle
\* of a batch and failed writes the batches went through (the accounting of
\* write_to_vm, carried from the fast path into the slow path).
StatsExact ==
    pc \in {"idle", "read"} =>
        /\ stats.packets = Sent
        /\ stats.bytes = octets
        /\ stats.drops = taken - Sent

\* No packet reaches the VM twice or out of order, although a batch that was
\* sent in part by sendmsg_x is completed packet by packet.
WireInOrder ==
    \A j, k \in 1..Len(wire) : j < k => wire[j] < wire[k]

\* One batch costs a bounded number of system calls whatever the socket does,
\* because both paths share one retry budget ("Maximum number of retries per
\* batch, shared by fast and slow paths", helper.c:57).
BatchBounded == fast + slow <= count + RetryMax + 1

\* No wakeup is lost: when the block has returned and no other waits, the interface
\* is empty, however arrivals, coalesced signals and empty reads were interleaved.
\* Only a failed vmnet_read may leave packets behind without anybody to fetch them.
NoneStranded ==
    (pc = "idle" /\ ~event /\ taken < arrived) => readFailures > 0

\* Every step of the host thread is a step of a cable, or none.
CABLE == INSTANCE Cable WITH offered <- arrived, settled <- Handled

CableSafety == CABLE!Spec

\* A packet that vmnet received is eventually sent or counted as dropped, even
\* when the VM never reads its socket and when packets arrive while the block
\* that drains the interface is about to finish.  A failed vmnet_read ends the
\* block early and leaves packets for the next event, which need not come.
CableLiveness == [](readFailures = 0) => CABLE!Fairness
------------------------------------------------------------------------------
\* The inductive invariant behind the properties above: what the locals of
\* write_to_vm hold in the middle of a batch.

\* The fast path has sent a proper prefix of the batch; the slow path has sent
\* or dropped every packet before packet i; outside a batch no local is live.
InBatch ==
    /\ pc \in {"idle", "read"} =>
        count = 0 /\ bytes = 0 /\ retries = 0 /\ fast = 0 /\ slow = 0
    /\ pc = "fast" =>
        packets < count /\ bytes = 0 /\ i = 0 /\ slow = 0 /\ drops = 0
    /\ pc = "slow" => packets + drops = i

\* The counters and the locals together account for every packet and byte.
Accounted ==
    /\ stats.packets + packets = Sent
    /\ stats.bytes + (IF pc = "fast" THEN host_packets_size(packets) ELSE bytes)
         = octets
    /\ stats.packets + stats.drops = base

\* Only packets the host thread is finished with are on the wire.
WireHandled == \A j \in 1..Len(wire) : wire[j] <= Handled

\* Each system call of the batch moved it forward or used up a retry; one more
\* call led to the slow path.
Paid ==
    /\ pc = "fast" => fast <= packets + retries
    /\ pc = "slow" => fast + slow <= i + retries + 1

IInv == TypeOK /\ InBatch /\ Accounted /\ WireInOrder /\ WireHandled /\ Paid
==============================================================================
