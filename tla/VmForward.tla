------------------------------ MODULE VmForward ------------------------------
(***************************************************************************)
(* The VM to host direction of vmnet-helper: the loop forward_from_vm on   *)
(* vm.queue, which receives batches from the VM's socket with              *)
(* recvmsg_x(), or one packet with read() when that fails, and writes them *)
(* to the vmnet interface (read_from_vm, write_to_host and forward_from_vm *)
(* in programs/helper.c).                                                  *)
(*                                                                         *)
(* The batch lives in slots that are reused for ever: slot k has a buffer, *)
(* the length of its iovec and the length of its message.  The iovec tells *)
(* recvmsg_x() how much fits and vmnet_write() how much to write, so each  *)
(* call leaves it with a value that is wrong for the other.                *)
(***************************************************************************)
EXTENDS Integers, Sequences, Functions

CONSTANTS
    MaxPacketCount,  \* vm.max_packet_count: slots
    MaxPacketSize,   \* max_packet_size: bytes in the buffer of a slot
    BulkForwarding,  \* use_bulk_forwarding
    Size,            \* Size[p]: bytes in packet p, as the VM sent it
    MaxPackets       \* bound: packets the VM sends in a behaviour

ASSUME SlotAssumption ==
    MaxPacketCount \in Nat \ {0} /\ MaxPacketSize \in Nat \ {0}
ASSUME BulkAssumption == BulkForwarding \in BOOLEAN
ASSUME PacketAssumption ==
    MaxPackets \in Nat /\ Size \in [1..MaxPackets -> Nat \ {0}]

VARIABLES
    \* the VM's end of the socket
    sent,      \* packets the VM sent
    closed,    \* the VM closed the socket
    taken,     \* packets read from the socket
    \* the slots: buffer, iov_len and msg_len
    buf, iov, len,
    \* the thread of vm.queue
    pc, count, stats,
    \* what the helper did
    out,       \* history: the packets vmnet_write wrote, with their lengths
    shutdown   \* the shutdown event posted to the main thread, if any, or "exit"

slots == <<buf, iov, len>>
vars  == <<sent, closed, taken, slots, pc, count, stats, out, shutdown>>

Slots == 0..(MaxPacketCount - 1)

Clip(n, most) == IF n < most THEN n ELSE most

\* Where read_from_vm starts.
Top == IF BulkForwarding THEN "fast" ELSE "slow"

Queued == sent - taken

vm_msgs_size(n) == SumFunctionOnSet(len, 0..(n - 1))

------------------------------------------------------------------------------
Init ==
    /\ sent = 0 /\ closed = FALSE /\ taken = 0
    /\ buf = [k \in Slots |-> 0]
    /\ iov = [k \in Slots |-> 0]
    /\ len = [k \in Slots |-> 0]
    /\ pc = Top /\ count = 0
    /\ stats = [packets |-> 0, bytes |-> 0, fast |-> 0, slow |-> 0]
    /\ out = <<>>
    /\ shutdown = "none"

VmSend ==
    /\ ~closed /\ sent < MaxPackets
    /\ sent' = sent + 1
    /\ UNCHANGED <<closed, taken, slots, pc, count, stats, out, shutdown>>

VmClose ==
    /\ ~closed
    /\ closed' = TRUE
    /\ UNCHANGED <<sent, taken, slots, pc, count, stats, out, shutdown>>

------------------------------------------------------------------------------
\* The kernel copies the next n packets into the first n slots, each cut to the
\* length of the slot's iovec, and sets their msg_len.
Receive(n) ==
    /\ buf' = [k \in Slots |-> IF k < n THEN taken + k + 1 ELSE buf[k]]
    /\ len' = [k \in Slots |->
                IF k < n THEN Clip(Size[taken + k + 1], iov'[k]) ELSE len[k]]
    /\ taken' = taken + n
    /\ count' = n

\* Mutant: recvmsg_x is told of one message more than there are slots.
MutantFastReadOneMore ==
    /\ pc = "fast"
    /\ iov' = [k \in Slots |-> MaxPacketSize]
    /\ \E n \in 1..(MaxPacketCount + 1) : n <= Queued /\ Receive(n)
    /\ stats' = [stats EXCEPT !.fast = @ + 1]
    /\ pc' = "write"
    /\ UNCHANGED <<sent, closed, out, shutdown>>

\* Mutant: the iovecs are not reset before recvmsg_x.
MutantFastReadNoReset ==
    /\ pc = "fast"
    /\ iov' = [k \in Slots |-> IF iov[k] = 0 THEN MaxPacketSize ELSE iov[k]]
    /\ \E n \in 1..MaxPacketCount : n <= Queued /\ Receive(n)
    /\ stats' = [stats EXCEPT !.fast = @ + 1]
    /\ pc' = "write"
    /\ UNCHANGED <<sent, closed, out, shutdown>>

\* recvmsg_x returns packets, at most one for every slot.
FastRead ==
    /\ pc = "fast"
    /\ iov' = [k \in Slots |-> MaxPacketSize]
    /\ \E n \in 1..MaxPacketCount : n <= Queued /\ Receive(n)
    /\ stats' = [stats EXCEPT !.fast = @ + 1]
    /\ pc' = "write"
    /\ UNCHANGED <<sent, closed, out, shutdown>>

\* recvmsg_x fails: read_from_vm goes on with read().
FastReadFails ==
    /\ pc = "fast"
    /\ iov' = [k \in Slots |-> MaxPacketSize]
    /\ stats' = [stats EXCEPT !.fast = @ + 1]
    /\ pc' = "slow"
    /\ UNCHANGED <<sent, closed, taken, buf, len, count, out, shutdown>>

\* read returns one packet, into slot 0.
SlowRead ==
    /\ pc = "slow" /\ Queued > 0
    /\ iov' = [iov EXCEPT ![0] = MaxPacketSize]
    /\ Receive(1)
    /\ stats' = [stats EXCEPT !.slow = @ + 1]
    /\ pc' = "write"
    /\ UNCHANGED <<sent, closed, out, shutdown>>

\* trigger_shutdown, and the loop ends; when the event cannot be posted, the thread
\* calls exit().
Stop(event) ==
    /\ shutdown' \in {event, "exit"}
    /\ pc' = "done"

\* recvmsg_x or read returns 0: the peer closed and nothing is queued.
EndOfFile ==
    /\ closed /\ Queued = 0
    /\ \/ /\ pc = "fast"
          /\ iov' = [k \in Slots |-> MaxPacketSize]
          /\ stats' = [stats EXCEPT !.fast = @ + 1]
          /\ UNCHANGED len
       \/ /\ pc = "slow"
          /\ iov' = [iov EXCEPT ![0] = MaxPacketSize]
          /\ stats' = [stats EXCEPT !.slow = @ + 1]
          /\ len' = [len EXCEPT ![0] = 0]
    /\ Stop("stopped")
    /\ UNCHANGED <<sent, closed, taken, buf, count, out>>

\* Mutant: a failed read is taken for the end of the connection.
MutantSlowReadFailsStopped ==
    /\ pc = "slow"
    /\ iov' = [iov EXCEPT ![0] = MaxPacketSize]
    /\ stats' = [stats EXCEPT !.slow = @ + 1]
    /\ Stop("stopped")
    /\ UNCHANGED <<sent, closed, taken, buf, len, count, out>>

\* Mutant: a failed read ends the loop and tells nobody.
MutantSlowReadFailsSilent ==
    /\ pc = "slow"
    /\ iov' = [iov EXCEPT ![0] = MaxPacketSize]
    /\ stats' = [stats EXCEPT !.slow = @ + 1]
    /\ pc' = "done"
    /\ UNCHANGED <<sent, closed, taken, buf, len, count, out, shutdown>>

\* read fails: both ways to read from the socket have failed.
SlowReadFails ==
    /\ pc = "slow"
    /\ iov' = [iov EXCEPT ![0] = MaxPacketSize]
    /\ stats' = [stats EXCEPT !.slow = @ + 1]
    /\ Stop("failure")
    /\ UNCHANGED <<sent, closed, taken, buf, len, count, out>>

\* write_to_host cuts the iovecs to the messages before vmnet_write.
FitIovs == iov' = [k \in Slots |-> IF k < count THEN len[k] ELSE iov[k]]

\* vmnet_write writes the batch: as many bytes of each buffer as its iovec says.
WriteToHost ==
    /\ pc = "write"
    /\ FitIovs
    /\ out' = out \o [k \in 1..count |->
                        [packet |-> buf[k - 1], length |-> iov'[k - 1]]]
    /\ stats' = [stats EXCEPT !.packets = @ + count,
                              !.bytes = @ + vm_msgs_size(count)]
    /\ pc' = Top
    /\ count' = 0
    /\ UNCHANGED <<sent, closed, taken, buf, len, shutdown>>

\* Mutant: the batch is counted before the result of vmnet_write is known.
MutantWriteToHostFailsCounted ==
    /\ pc = "write"
    /\ FitIovs
    /\ stats' = [stats EXCEPT !.packets = @ + count,
                              !.bytes = @ + vm_msgs_size(count)]
    /\ Stop("failure")
    /\ UNCHANGED <<sent, closed, taken, buf, len, count, out>>

\* Mutant: the loop goes on after a failed vmnet_write.
MutantWriteToHostFailsGoesOn ==
    /\ pc = "write"
    /\ FitIovs
    /\ pc' = Top
    /\ count' = 0
    /\ UNCHANGED <<sent, closed, taken, buf, len, stats, out, shutdown>>

\* vmnet_write fails: the batch is lost and the helper gives up.
WriteToHostFails ==
    /\ pc = "write"
    /\ FitIovs
    /\ Stop("failure")
    /\ UNCHANGED <<sent, closed, taken, buf, len, count, stats, out>>

VmThread ==
    \/ FastRead \/ FastReadFails \/ SlowRead \/ SlowReadFails \/ EndOfFile
    \/ WriteToHost \/ WriteToHostFails

Environment == VmSend \/ VmClose

Next == VmThread \/ Environment

Spec == Init /\ [][Next]_vars

\* libdispatch gave the loop a thread of its own and the kernel runs it.
FairSpec == Spec /\ WF_vars(VmThread)
------------------------------------------------------------------------------
TypeOK ==
    /\ sent \in 0..MaxPackets
    /\ closed \in BOOLEAN
    /\ taken \in 0..sent
    /\ buf \in [Slots -> 0..MaxPackets]
    /\ iov \in [Slots -> 0..MaxPacketSize]
    /\ len \in [Slots -> 0..MaxPacketSize]
    /\ pc \in {"fast", "slow", "write", "done"}
    /\ count \in 0..MaxPacketCount /\ count <= taken
    /\ stats \in [packets : Nat, bytes : Nat, fast : Nat, slow : Nat]
    /\ out \in Seq([packet : 1..MaxPackets, length : 0..MaxPacketSize])
    /\ shutdown \in {"none", "stopped", "failure", "exit"}

\* A packet reaches the host with all its bytes unless it is bigger than the
\* interface takes, whatever packets passed through its slot before: the length
\* left in the iovec by a short packet never cuts a longer one ("Reset iovs -
\* must be done before reading from vm", helper.c:985).
NoStaleLength ==
    \A k \in 1..Len(out) :
        out[k].length = Clip(Size[out[k].packet], MaxPacketSize)

\* The packets on the interface are those the VM sent, none missing, repeated or
\* out of order, through any mixture of bulk and single reads.
CABLE == INSTANCE Cable WITH
    offered <- sent,
    settled <- Len(out),
    wire    <- [k \in 1..Len(out) |-> out[k].packet]

LosslessCable == CABLE!LosslessSpec

\* The counters of the VM direction equal what was written to the interface.
VmStatsExact ==
    /\ stats.packets = Len(out)
    /\ stats.bytes = SumFunction([k \in 1..Len(out) |-> out[k].length])

\* The helper reports a clean end ("socket was closed by peer") only when every
\* packet the VM sent before it closed has been written to the interface.
CleanEnd ==
    shutdown = "stopped" => closed /\ Len(out) = sent

\* While the loop runs every packet of the VM gets to the interface, and when the
\* VM closes its end the main thread is told to terminate, or the thread calls exit().
Forwards ==
    /\ \A p \in 1..MaxPackets : sent >= p ~> (Len(out) >= p \/ shutdown # "none")
    /\ closed ~> shutdown # "none"
==============================================================================
