--------------------------- MODULE VmForwardProofs ---------------------------
(***************************************************************************)
(* Proofs about VmForward for every number and size of slots and packets.  *)
(* The inductive invariant is IInv; NoStaleLength, CleanEnd and the        *)
(* refinement of the lossless cable follow from it.  With Counted, which   *)
(* rests on lemmas about sums, so do VmStatsExact and the types.           *)
(***************************************************************************)
EXTENDS VmForward, SequenceTheorems, FiniteSets, FiniteSetTheorems,
        WellFoundedInduction, TLAPS

Written == [packet : 1..MaxPackets, length : 0..MaxPacketSize]

\* The types of everything but the counters.
Shape ==
    /\ sent \in 0..MaxPackets
    /\ closed \in BOOLEAN
    /\ taken \in 0..sent
    /\ buf \in [Slots -> 0..MaxPackets]
    /\ iov \in [Slots -> 0..MaxPacketSize]
    /\ len \in [Slots -> 0..MaxPacketSize]
    /\ pc \in {"fast", "slow", "write", "done"}
    /\ count \in 0..MaxPacketCount /\ count <= taken
    /\ out \in Seq(Written)
    /\ shutdown \in {"none", "stopped", "failure", "exit"}

\* What packet p has to arrive with.
Uncut(p) == Clip(Size[p], MaxPacketSize)

\* The batch in hand is the last packets taken, each as long as it should be.
InHand ==
    \A k \in 0..(count - 1) :
        buf[k] = taken - count + k + 1 /\ len[k] = Uncut(taken - count + k + 1)

\* All packets before the batch were written, in order and uncut.
Passed ==
    /\ Len(out) = taken - count
    /\ \A k \in 1..Len(out) : out[k].packet = k /\ out[k].length = Uncut(k)

\* A batch is in hand only between a read and its write, and the thread ends once.
Ends ==
    /\ pc \in {"fast", "slow"} => count = 0
    /\ pc = "write" => count # 0
    /\ shutdown # "none" => pc = "done"
    /\ shutdown = "stopped" => closed /\ count = 0 /\ taken = sent

IInv == Shape /\ InHand /\ Passed /\ Ends
------------------------------------------------------------------------------
LEMMA ClipFacts ==
    ASSUME NEW p \in 1..MaxPackets
    PROVE  Uncut(p) \in 0..MaxPacketSize
<1>1. Size[p] \in Nat /\ MaxPacketSize \in Nat
  BY PacketAssumption, SlotAssumption
<1> QED BY <1>1 DEF Uncut, Clip

LEMMA InitInv == Init => IInv
<1> SUFFICES ASSUME Init PROVE IInv
  OBVIOUS
<1>1. /\ 0 \in 0..MaxPackets /\ 0 \in 0..MaxPacketSize /\ 0 \in 0..MaxPacketCount
      /\ 0 \in 0..0 /\ 0 <= 0
  BY SlotAssumption, PacketAssumption
<1>2. pc \in {"fast", "slow"} /\ out \in Seq(Written)
  BY DEF Init, Top
<1>3. Shape
  BY <1>1, <1>2 DEF Init, Shape
<1>4. InHand /\ Passed /\ Ends
  BY DEF Init, InHand, Passed, Ends, Top
<1> QED BY <1>3, <1>4 DEF IInv

\* A read fills the first slots, whose iovecs it has reset.
LEMMA ReceiveStep ==
    ASSUME IInv, pc \in {"fast", "slow"}, pc' = "write",
           NEW n \in 1..MaxPacketCount, n <= Queued, Receive(n),
           iov' \in [Slots -> 0..MaxPacketSize],
           \A k \in 0..(n - 1) : iov'[k] = MaxPacketSize,
           UNCHANGED <<sent, closed, out, shutdown>>
    PROVE  IInv'
<1>1. /\ count = 0 /\ taken \in Nat /\ sent \in Nat /\ sent <= MaxPackets
      /\ MaxPackets \in Nat /\ MaxPacketCount \in Nat
      /\ taken' = taken + n /\ count' = n /\ taken + n <= sent
  BY PacketAssumption, SlotAssumption DEF IInv, Shape, Ends, Queued, Receive
<1>2. \A k \in 0..(n - 1) :
        k \in Slots /\ taken + k + 1 \in 1..MaxPackets /\ k < n
  BY <1>1 DEF Slots
<1>3. \A k \in 0..(n - 1) :
        /\ buf'[k] = taken + k + 1
        /\ len'[k] = Uncut(taken + k + 1)
  BY <1>2 DEF Receive, Uncut
<1>4. buf' \in [Slots -> 0..MaxPackets]
  <2>1. \A k \in Slots : k < n => taken + k + 1 \in 0..MaxPackets
    BY <1>1 DEF Slots
  <2>2. \A k \in Slots : buf[k] \in 0..MaxPackets
    BY DEF IInv, Shape
  <2> QED BY <2>1, <2>2 DEF Receive
<1>5. len' \in [Slots -> 0..MaxPacketSize]
  <2>1. \A k \in Slots : k < n => k \in 0..(n - 1)
    BY DEF Slots
  <2>2. \A k \in Slots : k < n => len'[k] \in 0..MaxPacketSize
    BY <2>1, <1>2, <1>3, ClipFacts
  <2>3. \A k \in Slots : ~(k < n) => len'[k] \in 0..MaxPacketSize
    BY DEF Receive, IInv, Shape
  <2>4. DOMAIN len' = Slots /\ len' = [k \in Slots |-> len'[k]]
    BY DEF Receive
  <2> QED BY <2>2, <2>3, <2>4
<1>6. Shape'
  BY <1>1, <1>4, <1>5 DEF IInv, Shape
<1>7. InHand'
  <2>1. \A k \in 0..(n - 1) : taken' - count' + k + 1 = taken + k + 1
    BY <1>1
  <2> QED BY <1>1, <1>3, <2>1 DEF InHand, Uncut
<1>8. Passed'
  BY <1>1 DEF IInv, Passed, Uncut
<1>9. Ends'
  BY <1>1 DEF IInv, Ends
<1> QED BY <1>6, <1>7, <1>8, <1>9 DEF IInv

\* The batch is appended to what was written.
LEMMA WriteStep == ASSUME IInv, WriteToHost PROVE IInv'
<1> DEFINE batch == [k \in 1..count |->
                        [packet |-> buf[k - 1], length |-> iov'[k - 1]]]
           done == taken - count
<1>1. /\ count \in Nat /\ taken \in Nat /\ count <= taken /\ taken <= MaxPackets
      /\ count <= MaxPacketCount /\ MaxPackets \in Nat /\ MaxPacketCount \in Nat
      /\ out \in Seq(Written) /\ Len(out) = done
      /\ done \in Nat
  BY PacketAssumption, SlotAssumption DEF IInv, Shape, Passed
<1>2. \A k \in 1..count :
        /\ k - 1 \in 0..(count - 1) /\ k - 1 \in Slots /\ k - 1 < count
        /\ done + k \in 1..MaxPackets
        /\ done + (k - 1) + 1 = done + k
  BY <1>1 DEF Slots
<1>3. \A k \in 1..count :
        /\ buf[k - 1] = done + k
        /\ iov'[k - 1] = Uncut(done + k)
  <2>1. \A k \in 1..count : iov'[k - 1] = len[k - 1]
    BY <1>2 DEF WriteToHost, FitIovs
  <2> QED BY <1>2, <2>1 DEF IInv, InHand
<1>4. batch \in Seq(Written) /\ Len(batch) = count
  <2>1. \A k \in 1..count : batch[k] \in Written
    BY <1>2, <1>3, ClipFacts DEF Written
  <2> QED BY <1>1, <2>1
<1>5. \A k \in 1..count :
        batch[k].packet = done + k /\ batch[k].length = Uncut(done + k)
  BY <1>3
<1>6. /\ out' \in Seq(Written)
      /\ Len(out') = done + count
      /\ \A k \in 1..(done + count) :
            out'[k] = IF k <= done THEN out[k] ELSE batch[k - done]
  <2>1. out' = out \o batch
    BY DEF WriteToHost
  <2> HIDE DEF batch, done
  <2> QED BY <1>1, <1>4, <2>1, ConcatProperties
<1>7. \A k \in 1..(done + count) : out'[k].packet = k /\ out'[k].length = Uncut(k)
  <2> SUFFICES ASSUME NEW k \in 1..(done + count)
               PROVE  out'[k].packet = k /\ out'[k].length = Uncut(k)
    OBVIOUS
  <2>1. CASE k <= done
    <3>1. k \in 1..Len(out)
      BY <1>1, <2>1
    <3>2. out[k].packet = k /\ out[k].length = Uncut(k)
      BY <3>1 DEF IInv, Passed
    <3> QED BY <1>6, <2>1, <3>2
  <2>2. CASE ~(k <= done)
    <3>1. k - done \in 1..count /\ done + (k - done) = k
      BY <1>1, <2>2
    <3>2. batch[k - done].packet = k /\ batch[k - done].length = Uncut(k)
      BY <1>5, <3>1
    <3> HIDE DEF batch
    <3> QED BY <1>6, <2>2, <3>2
  <2> QED BY <2>1, <2>2
<1>8. iov' \in [Slots -> 0..MaxPacketSize]
  BY DEF WriteToHost, FitIovs, IInv, Shape
<1>9. Shape'
  BY <1>1, <1>6, <1>8 DEF WriteToHost, IInv, Shape, Top
<1>10. /\ count' = 0 /\ taken' = taken /\ done + count = taken
       /\ Len(out') = taken' - count'
  BY <1>1, <1>6 DEF WriteToHost
<1>11. Passed'
  BY <1>6, <1>7, <1>10 DEF Passed, Uncut
<1>12. InHand'
  BY <1>10 DEF InHand
<1>13. Ends'
  BY DEF WriteToHost, IInv, Ends, Top
<1> QED BY <1>9, <1>11, <1>12, <1>13 DEF IInv

\* Steps that end the loop or go on to read().
LEMMA OtherSteps ==
    ASSUME IInv, FastReadFails \/ EndOfFile \/ SlowReadFails \/ WriteToHostFails
    PROVE  IInv'
<1>1. iov' \in [Slots -> 0..MaxPacketSize]
  BY SlotAssumption DEF FastReadFails, EndOfFile, SlowReadFails, WriteToHostFails,
                        FitIovs, IInv, Shape, Slots
<1>2. len' \in [Slots -> 0..MaxPacketSize]
  <2>1. len \in [Slots -> 0..MaxPacketSize] /\ 0 \in 0..MaxPacketSize
    BY SlotAssumption DEF IInv, Shape
  <2>2. len' = len \/ len' = [len EXCEPT ![0] = 0]
    BY DEF FastReadFails, EndOfFile, SlowReadFails, WriteToHostFails
  <2>3. [len EXCEPT ![0] = 0] \in [Slots -> 0..MaxPacketSize]
    BY <2>1
  <2> QED BY <2>1, <2>2, <2>3
<1>3. UNCHANGED <<sent, closed, taken, buf, count, out>>
  BY DEF FastReadFails, EndOfFile, SlowReadFails, WriteToHostFails
<1>4. Shape'
  BY <1>1, <1>2, <1>3 DEF FastReadFails, EndOfFile, SlowReadFails, WriteToHostFails,
                          Stop, IInv, Shape
<1>5. InHand'
  <2>1. CASE EndOfFile
    <3>1. count' = 0
      BY <1>3, <2>1 DEF EndOfFile, IInv, Ends
    <3> QED BY <3>1 DEF InHand
  <2>2. CASE ~EndOfFile
    <3>1. len' = len
      BY <2>2 DEF FastReadFails, SlowReadFails, WriteToHostFails
    <3> QED BY <1>3, <3>1 DEF IInv, InHand, Uncut
  <2> QED BY <2>1, <2>2
<1>6. Passed'
  BY <1>3 DEF IInv, Passed, Uncut
<1>7. Ends'
  <2>1. CASE EndOfFile
    <3>1. taken = sent
      BY <2>1, PacketAssumption DEF EndOfFile, IInv, Shape, Queued
    <3>2. closed /\ count = 0
      BY <2>1 DEF EndOfFile, IInv, Ends
    <3> QED BY <1>3, <2>1, <3>1, <3>2 DEF EndOfFile, Stop, Ends
  <2>2. CASE ~EndOfFile
    BY <1>3, <2>2 DEF FastReadFails, SlowReadFails, WriteToHostFails, Stop, IInv, Ends
  <2> QED BY <2>1, <2>2
<1> QED BY <1>4, <1>5, <1>6, <1>7 DEF IInv

LEMMA NextInv == IInv /\ [Next]_vars => IInv'
<1> SUFFICES ASSUME IInv, [Next]_vars PROVE IInv'
  OBVIOUS
<1>1. CASE FastRead
  <2>1. PICK n \in 1..MaxPacketCount : n <= Queued /\ Receive(n)
    BY <1>1 DEF FastRead
  <2>2. /\ iov' \in [Slots -> 0..MaxPacketSize]
        /\ \A k \in 0..(n - 1) : iov'[k] = MaxPacketSize
    BY <1>1, SlotAssumption DEF FastRead, Slots
  <2> QED BY <1>1, <2>1, <2>2, ReceiveStep DEF FastRead
<1>2. CASE SlowRead
  <2>1. 1 \in 1..MaxPacketCount /\ 1 <= Queued /\ Receive(1)
    BY <1>2, SlotAssumption, PacketAssumption DEF SlowRead, Queued, IInv, Shape
  <2>2. /\ iov' \in [Slots -> 0..MaxPacketSize]
        /\ \A k \in 0..(1 - 1) : iov'[k] = MaxPacketSize
    BY <1>2, SlotAssumption DEF SlowRead, Slots, IInv, Shape
  <2> QED BY <1>2, <2>1, <2>2, ReceiveStep DEF SlowRead
<1>3. CASE WriteToHost
  BY <1>3, WriteStep
<1>4. CASE FastReadFails \/ EndOfFile \/ SlowReadFails \/ WriteToHostFails
  BY <1>4, OtherSteps
<1>5. CASE VmSend
  <2>1. UNCHANGED <<closed, taken, slots, pc, count, out, shutdown>>
        /\ ~closed /\ sent' \in 0..MaxPackets /\ taken \in 0..sent'
    BY <1>5, PacketAssumption DEF VmSend, IInv, Shape
  <2> QED BY <2>1 DEF slots, IInv, Shape, InHand, Passed, Ends, Uncut
<1>6. CASE VmClose
  BY <1>6 DEF VmClose, slots, IInv, Shape, InHand, Passed, Ends, Uncut
<1>7. CASE UNCHANGED vars
  BY <1>7 DEF vars, slots, IInv, Shape, InHand, Passed, Ends, Uncut
<1> QED BY <1>1, <1>2, <1>3, <1>4, <1>5, <1>6, <1>7 DEF Next, VmThread, Environment

\* The invariant holds in every state of every behaviour.
THEOREM SlotInvariance == Spec => []IInv
<1> QED BY InitInv, NextInv, PTL DEF Spec

\* However batches and single reads alternate, and whatever lengths passed through a
\* slot, no packet is cut by the length an earlier one left (read_from_vm and
\* write_to_host of helper.c).
THEOREM NothingCut == Spec => []NoStaleLength
<1>1. IInv => NoStaleLength
  BY DEF IInv, Passed, NoStaleLength, Uncut
<1> QED BY <1>1, SlotInvariance, PTL

\* The clean end that forward_from_vm reports leaves no packet behind.
THEOREM EndsClean == Spec => []CleanEnd
<1>1. IInv => CleanEnd
  <2> SUFFICES ASSUME IInv, shutdown = "stopped" PROVE closed /\ Len(out) = sent
    BY DEF CleanEnd
  <2> QED BY PacketAssumption DEF IInv, Shape, Passed, Ends
<1> QED BY <1>1, SlotInvariance, PTL
------------------------------------------------------------------------------
\* The packets on the interface, as the cable sees them.
Wire == [k \in 1..Len(out) |-> out[k].packet]

Count(n) == [k \in 1..n |-> k]

LEMMA CountSplits ==
    ASSUME NEW n \in Nat, NEW m \in Nat
    PROVE  Count(n + m) = Count(n) \o [k \in 1..m |-> n + k]
<1> DEFINE more == [k \in 1..m |-> n + k]
<1>1. /\ Count(n) \in Seq(Nat) /\ Len(Count(n)) = n
      /\ Count(n + m) \in Seq(Nat) /\ Len(Count(n + m)) = n + m
      /\ more \in Seq(Nat) /\ Len(more) = m
  BY DEF Count
<1>2. /\ \A k \in 1..n : Count(n)[k] = k
      /\ \A k \in 1..(n + m) : Count(n + m)[k] = k
      /\ \A k \in 1..m : more[k] = n + k
  BY DEF Count
<1> HIDE DEF more
<1>3. /\ Count(n) \o more \in Seq(Nat)
      /\ Len(Count(n) \o more) = n + m
      /\ \A k \in 1..(n + m) :
            (Count(n) \o more)[k] = IF k <= n THEN Count(n)[k] ELSE more[k - n]
  <2>1. /\ Count(n) \o more \in Seq(Nat)
        /\ Len(Count(n) \o more) = Len(Count(n)) + Len(more)
        /\ \A k \in 1..(Len(Count(n)) + Len(more)) :
              (Count(n) \o more)[k] =
                IF k <= Len(Count(n)) THEN Count(n)[k] ELSE more[k - Len(Count(n))]
    BY <1>1, ConcatProperties, Zenon
  <2> QED BY <1>1, <2>1
<1>4. \A k \in 1..(n + m) : (Count(n) \o more)[k] = k
  <2> SUFFICES ASSUME NEW k \in 1..(n + m) PROVE (Count(n) \o more)[k] = k
    OBVIOUS
  <2>1. CASE k <= n
    <3>1. k \in 1..n
      BY <2>1
    <3> QED BY <1>2, <1>3, <2>1, <3>1
  <2>2. CASE ~(k <= n)
    <3>1. k - n \in 1..m /\ n + (k - n) = k
      BY <2>2
    <3> QED BY <1>2, <1>3, <2>2, <3>1
  <2> QED BY <2>1, <2>2
<1>5. Count(n + m) = Count(n) \o more
  BY <1>1, <1>2, <1>3, <1>4, SeqEqual
<1> QED BY <1>5 DEF more

\* In a state of the invariant the wire holds the first packets, in order.
LEMMA WireCounts == IInv => Len(out) \in Nat /\ Wire = Count(Len(out))
BY DEF IInv, Shape, Passed, Wire, Count

LEMMA StepIsLossless ==
    ASSUME IInv, IInv', [Next]_vars
    PROVE  [CABLE!Offer \/ CABLE!Deliver]_(CABLE!vars)
<1> DEFINE done == Len(out)
<1>1. /\ done \in Nat /\ Wire = Count(done)
      /\ Len(out') \in Nat /\ Wire' = Count(Len(out'))
  BY WireCounts DEF Wire, Count, IInv, Shape, Passed
<1>2. CASE WriteToHost
  <2>1. /\ count \in Nat /\ count # 0 /\ done = taken - count
        /\ sent \in Nat /\ taken \in Nat /\ taken <= sent
        /\ taken' - count' = done + count /\ sent' = sent
    BY <1>2, PacketAssumption, SlotAssumption DEF WriteToHost, IInv, Shape, Passed, Ends
  <2>2. Len(out') = done + count /\ count \in 1..(sent - done)
    BY <2>1 DEF IInv, Passed
  <2>3. Wire' = Wire \o [k \in 1..count |-> done + k]
    BY <1>1, <2>1, <2>2, CountSplits
  <2>4. CABLE!Deliver
    BY <2>1, <2>2, <2>3 DEF CABLE!Deliver, CABLE!Burst, Wire
  <2> QED BY <2>4
<1>3. CASE VmSend
  BY <1>3 DEF VmSend, CABLE!Offer
<1>4. CASE UNCHANGED <<sent, out>>
  BY <1>4 DEF CABLE!vars
<1>5. WriteToHost \/ VmSend \/ UNCHANGED <<sent, out>>
  BY DEF Next, VmThread, Environment, vars, VmClose, FastRead, FastReadFails, SlowRead,
         SlowReadFails, EndOfFile, WriteToHostFails
<1> QED BY <1>2, <1>3, <1>4, <1>5

\* The direction from the VM is a cable that loses nothing: every step of
\* forward_from_vm of helper.c delivers the next packets or leaves the wire alone,
\* whichever way it reads.
THEOREM ImplementsLossless == Spec => LosslessCable
<1>1. Init => CABLE!Init
  BY DEF Init, CABLE!Init
<1>2. IInv /\ IInv' /\ [Next]_vars => [CABLE!Offer \/ CABLE!Deliver]_(CABLE!vars)
  BY StepIsLossless
<1> QED
  BY <1>1, <1>2, SlotInvariance, PTL DEF Spec, LosslessCable, CABLE!LosslessSpec
------------------------------------------------------------------------------
(***************************************************************************)
(* Sums.  The counters are sums over sets, defined by recursion; these     *)
(* lemmas say what such a sum is.  The induction is over a set of good     *)
(* numbers, or of good parts of a finite set, by NatLessThanWellFounded.   *)
(***************************************************************************)
\* Induction over the natural numbers, for a set.
LEMMA NatSets ==
    ASSUME NEW S, 0 \in S, \A n \in Nat : n \in S => n + 1 \in S
    PROVE  \A n \in Nat : n \in S
<1> DEFINE R == {ss \in Nat \X Nat : ss[1] < ss[2]}
           T == Nat \ S
<1>1. IsWellFoundedOn(R, Nat)
  <2>1. R = OpToRel(<, Nat)
    BY Zenon DEF OpToRel
  <2> QED BY <2>1, NatLessThanWellFounded, Zenon
<1> SUFFICES ASSUME T # {} PROVE FALSE
  OBVIOUS
<1>2. PICK x \in T : \A y \in T : ~ (<<y, x>> \in R)
  <2> HIDE DEF R
  <2> QED BY <1>1, WFMin
<1>3. x # 0 /\ x - 1 \in Nat /\ x - 1 < x /\ x \in Nat
  OBVIOUS
<1>4. x - 1 \in S
  BY <1>2, <1>3
<1> QED BY <1>3, <1>4

\* Induction over the parts of a finite set, in the same way.
LEMMA PartSets ==
    ASSUME NEW S, IsFiniteSet(S), NEW G,
           \A t \in SUBSET S : (\A x \in t : t \ {x} \in G) => t \in G
    PROVE  \A t \in SUBSET S : t \in G
<1> DEFINE Good == {n \in Nat : \A t \in SUBSET S : Cardinality(t) = n => t \in G}
<1>1. \A t \in SUBSET S :
        /\ Cardinality(t) \in Nat /\ (Cardinality(t) = 0 => t = {})
        /\ \A x \in t : Cardinality(t \ {x}) = Cardinality(t) - 1
  BY FS_Subset, FS_CardinalityType, FS_EmptySet, FS_RemoveElement
<1>2. 0 \in Good
  BY <1>1
<1>3. ASSUME NEW n \in Nat, n \in Good PROVE n + 1 \in Good
  <2> SUFFICES ASSUME NEW t \in SUBSET S, Cardinality(t) = n + 1 PROVE t \in G
    OBVIOUS
  <2>1. \A x \in t : t \ {x} \in SUBSET S /\ Cardinality(t \ {x}) = n
    BY <1>1
  <2> QED BY <1>3, <2>1
<1>4. \A n \in Nat : n \in Good
  <2> HIDE DEF Good
  <2> QED BY <1>2, <1>3, NatSets
<1> QED BY <1>1, <1>4

\* The element that a fold takes first.
First(s) == CHOOSE x \in s : TRUE

\* What SumFunctionOnSet(f, S) computes for every part of S.
Iter(f, S) ==
    CHOOSE it : it = [s \in SUBSET S |->
        IF s = {} THEN 0 ELSE f[First(s)] + it[s \ {First(s)}]]

Adds(it, f, s) == it[s] = IF s = {} THEN 0 ELSE f[First(s)] + it[s \ {First(s)}]

\* Functions!SumFunctionOnSet is that fold, applied to the whole set.
LEMMA SumIsIter == \A f, S : SumFunctionOnSet(f, S) = Iter(f, S)[S]
BY DEF SumFunctionOnSet, FoldFunctionOnSet, MapThenFoldSet, Iter, First

\* What is left has one element less.
LEMMA Smaller ==
    ASSUME NEW S, IsFiniteSet(S), NEW s \in SUBSET S, s # {}
    PROVE  /\ First(s) \in s /\ s \ {First(s)} \in SUBSET S
           /\ IsFiniteSet(s) /\ IsFiniteSet(s \ {First(s)})
           /\ Cardinality(s) \in Nat \ {0}
           /\ Cardinality(s \ {First(s)}) = Cardinality(s) - 1
<1>1. First(s) \in s
  BY DEF First
<1>2. IsFiniteSet(s) /\ Cardinality(s) \in Nat /\ Cardinality(s) # 0
  BY FS_Subset, FS_CardinalityType, FS_EmptySet
<1> QED BY <1>1, <1>2, FS_RemoveElement

\* The recursion of the fold has a solution.
LEMMA IterExists ==
    ASSUME NEW f, NEW S, IsFiniteSet(S)
    PROVE  \A s \in SUBSET S : Adds(Iter(f, S), f, s)
<1> DEFINE Solves(it, n) ==
                /\ it = [s \in SUBSET S |-> it[s]]
                /\ \A s \in SUBSET S : Cardinality(s) <= n => Adds(it, f, s)
           Good == {n \in Nat : \E it : Solves(it, n)}
<1>0. \A s \in SUBSET S : Cardinality(s) \in Nat /\ (Cardinality(s) = 0 <=> s = {})
  BY FS_Subset, FS_CardinalityType, FS_EmptySet
<1>1. 0 \in Good
  <2> DEFINE it == [s \in SUBSET S |-> 0]
  <2>1. Solves(it, 0)
    BY <1>0 DEF Adds
  <2> QED BY <2>1
<1>2. ASSUME NEW n \in Nat, n \in Good PROVE n + 1 \in Good
  <2>1. PICK it : Solves(it, n)
    BY <1>2
  <2> DEFINE next == [s \in SUBSET S |->
                        IF s = {} THEN 0 ELSE f[First(s)] + it[s \ {First(s)}]]
  <2>2. \A s \in SUBSET S : Cardinality(s) <= n => next[s] = it[s]
    BY <2>1 DEF Adds
  <2>3. ASSUME NEW s \in SUBSET S, Cardinality(s) <= n + 1 PROVE Adds(next, f, s)
    <3>1. CASE s = {}
      BY <3>1 DEF Adds
    <3>2. CASE s # {}
      <4>1. /\ s \ {First(s)} \in SUBSET S
            /\ Cardinality(s \ {First(s)}) <= n
        BY <1>0, <2>3, <3>2, Smaller
      <4>2. next[s \ {First(s)}] = it[s \ {First(s)}]
        BY <2>2, <4>1
      <4> QED BY <3>2, <4>2 DEF Adds
    <3> QED BY <3>1, <3>2
  <2>4. Solves(next, n + 1)
    BY <2>3
  <2> HIDE DEF Solves
  <2> QED BY <2>4
<1>3. \A n \in Nat : n \in Good
  <2> HIDE DEF Good
  <2> QED BY <1>1, <1>2, NatSets
<1>4. PICK it : Solves(it, Cardinality(S))
  BY <1>0, <1>3
<1>5. \A s \in SUBSET S : Cardinality(s) <= Cardinality(S)
  BY FS_Subset
<1>6. \A s \in SUBSET S : Adds(it, f, s)
  BY <1>4, <1>5
<1>7. it = [s \in SUBSET S |-> IF s = {} THEN 0 ELSE f[First(s)] + it[s \ {First(s)}]]
  BY <1>4, <1>6 DEF Adds
<1>8. Iter(f, S) = [s \in SUBSET S |->
        IF s = {} THEN 0 ELSE f[First(s)] + Iter(f, S)[s \ {First(s)}]]
  BY <1>7 DEF Iter
<1> QED BY <1>8 DEF Adds

\* A part is summed up in the same way whatever set it is a part of.
LEMMA IterAgrees ==
    ASSUME NEW f, NEW S, IsFiniteSet(S)
    PROVE  \A t \in SUBSET S : Iter(f, S)[t] = SumFunctionOnSet(f, t)
<1> DEFINE Good == {t \in SUBSET S : \A U \in SUBSET S :
                        t \subseteq U => Iter(f, U)[t] = Iter(f, S)[t]}
<1>1. ASSUME NEW t \in SUBSET S, \A x \in t : t \ {x} \in Good PROVE t \in Good
  <2> SUFFICES ASSUME NEW U \in SUBSET S, t \subseteq U
               PROVE  Iter(f, U)[t] = Iter(f, S)[t]
    OBVIOUS
  <2>1. Adds(Iter(f, U), f, t) /\ Adds(Iter(f, S), f, t)
    BY FS_Subset, IterExists
  <2>2. CASE t = {}
    BY <2>1, <2>2 DEF Adds
  <2>3. CASE t # {}
    <3>1. First(t) \in t
      BY <2>3 DEF First
    <3>2. Iter(f, U)[t \ {First(t)}] = Iter(f, S)[t \ {First(t)}]
      BY <1>1, <3>1
    <3> QED BY <2>1, <2>3, <3>2 DEF Adds
  <2> QED BY <2>2, <2>3
<1>2. \A t \in SUBSET S : t \in Good
  <2> HIDE DEF Good
  <2> QED BY <1>1, PartSets
<1> QED BY <1>2, SumIsIter

\* The recursion, in terms of the sum itself.
LEMMA SumStep ==
    ASSUME NEW f, NEW S, IsFiniteSet(S)
    PROVE  /\ S = {} => SumFunctionOnSet(f, S) = 0
           /\ S # {} => /\ First(S) \in S
                        /\ SumFunctionOnSet(f, S) =
                            f[First(S)] + SumFunctionOnSet(f, S \ {First(S)})
<1>1. Adds(Iter(f, S), f, S)
  BY IterExists
<1>2. S \ {First(S)} \in SUBSET S /\ (S # {} => First(S) \in S)
  BY DEF First
<1> QED BY <1>1, <1>2, IterAgrees, SumIsIter DEF Adds

\* Sums of natural numbers are natural, and depend on the numbers summed up alone.
LEMMA SumIsNat ==
    ASSUME NEW f, NEW S, IsFiniteSet(S), \A x \in S : f[x] \in Nat
    PROVE  \A t \in SUBSET S : SumFunctionOnSet(f, t) \in Nat
<1> DEFINE Good == {t \in SUBSET S : SumFunctionOnSet(f, t) \in Nat}
<1>1. ASSUME NEW t \in SUBSET S, \A x \in t : t \ {x} \in Good PROVE t \in Good
  <2>1. IsFiniteSet(t)
    BY FS_Subset
  <2>2. t # {} => First(t) \in t /\ t \ {First(t)} \in Good
    BY <1>1, <2>1, SumStep
  <2>3. CASE t = {}
    <3>1. SumFunctionOnSet(f, t) = 0
      BY <2>1, <2>3, SumStep
    <3> QED BY <3>1
  <2>4. CASE t # {}
    <3>1. /\ f[First(t)] \in Nat
          /\ SumFunctionOnSet(f, t \ {First(t)}) \in Nat
      BY <2>2, <2>4
    <3>2. SumFunctionOnSet(f, t) = f[First(t)] + SumFunctionOnSet(f, t \ {First(t)})
      BY <2>1, <2>4, SumStep
    <3> QED BY <3>1, <3>2
  <2> QED BY <2>3, <2>4
<1>2. \A t \in SUBSET S : t \in Good
  <2> HIDE DEF Good
  <2> QED BY <1>1, PartSets
<1> QED BY <1>2

\* Two functions that agree on a set have the same sum over it.
LEMMA SameSum ==
    ASSUME NEW f, NEW g, NEW S, IsFiniteSet(S), \A x \in S : f[x] = g[x]
    PROVE  SumFunctionOnSet(f, S) = SumFunctionOnSet(g, S)
<1> DEFINE Good == {t \in SUBSET S : SumFunctionOnSet(f, t) = SumFunctionOnSet(g, t)}
<1>1. ASSUME NEW t \in SUBSET S, \A x \in t : t \ {x} \in Good PROVE t \in Good
  <2>1. IsFiniteSet(t)
    BY FS_Subset
  <2>2. t # {} => First(t) \in t /\ t \ {First(t)} \in Good
    BY <1>1, <2>1, SumStep
  <2> QED BY <2>1, <2>2, SumStep
<1>2. \A t \in SUBSET S : t \in Good
  <2> HIDE DEF Good
  <2> QED BY <1>1, PartSets
<1> QED BY <1>2

\* Any element may be taken out first.
LEMMA TakeOut ==
    ASSUME NEW f, NEW S, IsFiniteSet(S), \A x \in S : f[x] \in Nat
    PROVE  \A x \in S :
            SumFunctionOnSet(f, S) = f[x] + SumFunctionOnSet(f, S \ {x})
<1> DEFINE Good == {t \in SUBSET S : \A x \in t :
                        SumFunctionOnSet(f, t) = f[x] + SumFunctionOnSet(f, t \ {x})}
<1>1. ASSUME NEW t \in SUBSET S, \A x \in t : t \ {x} \in Good PROVE t \in Good
  <2> SUFFICES ASSUME NEW x \in t
               PROVE  SumFunctionOnSet(f, t) = f[x] + SumFunctionOnSet(f, t \ {x})
    OBVIOUS
  <2> DEFINE y == First(t)
  <2>1. y \in t /\ SumFunctionOnSet(f, t) = f[y] + SumFunctionOnSet(f, t \ {y})
    BY FS_Subset, SumStep
  <2> HIDE DEF y
  <2>2. CASE x = y
    BY <2>1, <2>2
  <2>3. CASE x # y
    <3>1. SumFunctionOnSet(f, t \ {y}) = f[x] + SumFunctionOnSet(f, (t \ {y}) \ {x})
      BY <1>1, <2>1, <2>3
    <3>2. SumFunctionOnSet(f, t \ {x}) = f[y] + SumFunctionOnSet(f, (t \ {x}) \ {y})
      BY <1>1, <2>1, <2>3
    <3>3. (t \ {y}) \ {x} = (t \ {x}) \ {y} /\ (t \ {x}) \ {y} \in SUBSET S
      OBVIOUS
    <3>4. SumFunctionOnSet(f, (t \ {x}) \ {y}) \in Nat
      BY <3>3, SumIsNat
    <3>5. f[x] \in Nat /\ f[y] \in Nat
      BY <2>1
    <3>6. SumFunctionOnSet(f, t \ {y}) = f[x] + SumFunctionOnSet(f, (t \ {x}) \ {y})
      BY <3>1, <3>3
    <3> HIDE DEF Good
    <3> QED BY <2>1, <3>2, <3>4, <3>5, <3>6
  <2> QED BY <2>2, <2>3
<1>2. \A t \in SUBSET S : t \in Good
  <2> HIDE DEF Good
  <2> QED BY <1>1, PartSets
<1> QED BY <1>2

\* The sum over an interval is the sum over the shorter one and the last term.
LEMMA SumOfInterval ==
    ASSUME NEW f, NEW a \in Int, NEW b \in Int, \A k \in a..b : f[k] \in Nat
    PROVE  /\ SumFunctionOnSet(f, a..b) \in Nat
           /\ a <= b => SumFunctionOnSet(f, a..b) =
                            f[b] + SumFunctionOnSet(f, a..(b - 1))
           /\ a > b => SumFunctionOnSet(f, a..b) = 0
<1> DEFINE S == a..b
<1>1. IsFiniteSet(S)
  BY FS_Interval
<1>2. /\ a <= b => b \in S /\ S \ {b} = a..(b - 1)
      /\ a > b => S = {}
      /\ S \in SUBSET S
  OBVIOUS
<1>3. SumFunctionOnSet(f, S) \in Nat
  <2> HIDE DEF S
  <2>1. \A k \in S : f[k] \in Nat
    BY DEF S
  <2> QED BY <1>1, <1>2, <2>1, SumIsNat
<1>4. \A k \in S : SumFunctionOnSet(f, S) = f[k] + SumFunctionOnSet(f, S \ {k})
  <2> HIDE DEF S
  <2>1. \A k \in S : f[k] \in Nat
    BY DEF S
  <2> QED BY <1>1, <2>1, TakeOut
<1>5. S = {} => SumFunctionOnSet(f, S) = 0
  <2> HIDE DEF S
  <2> QED BY <1>1, SumStep
<1> QED BY <1>2, <1>3, <1>4, <1>5

\* The n terms of f come first in h, and after them the m of g, which counts from 0.
Joins(h, f, n, g, m) ==
    /\ \A k \in 1..n : f[k] \in Nat /\ h[k] = f[k]
    /\ \A k \in 1..m : g[k - 1] \in Nat /\ h[n + k] = g[k - 1]

\* The sum of the two is the sum over both, one after the other.
LEMMA SumJoins ==
    ASSUME NEW n \in Nat, NEW m \in Nat, NEW f, NEW g, NEW h,
           Joins(h, f, n, g, m)
    PROVE  SumFunctionOnSet(h, 1..(n + m)) =
            SumFunctionOnSet(f, 1..n) + SumFunctionOnSet(g, 0..(m - 1))
<1> USE DEF Joins
<1> DEFINE Good == {j \in Nat : j <= m =>
                        SumFunctionOnSet(h, 1..(n + j)) =
                            SumFunctionOnSet(f, 1..n) + SumFunctionOnSet(g, 0..(j - 1))}
<1>1. SumFunctionOnSet(f, 1..n) \in Nat
  BY SumOfInterval
<1>2. \A k \in 1..(n + m) : h[k] \in Nat
  <2> SUFFICES ASSUME NEW k \in 1..(n + m) PROVE h[k] \in Nat
    OBVIOUS
  <2>1. CASE k <= n
    BY <2>1
  <2>2. CASE ~(k <= n)
    <3>1. k - n \in 1..m /\ n + (k - n) = k
      BY <2>2
    <3> QED BY <3>1
  <2> QED BY <2>1, <2>2
<1>3. \A k \in 0..(m - 1) : g[k] \in Nat /\ h[n + (k + 1)] = g[k]
  <2> SUFFICES ASSUME NEW k \in 0..(m - 1)
               PROVE  g[k] \in Nat /\ h[n + (k + 1)] = g[k]
    OBVIOUS
  <2>1. k + 1 \in 1..m /\ (k + 1) - 1 = k
    OBVIOUS
  <2> QED BY <2>1
<1>4. 0 \in Good
  <2>1. SumFunctionOnSet(h, 1..n) = SumFunctionOnSet(f, 1..n)
    <3>1. IsFiniteSet(1..n)
      BY FS_Interval
    <3> QED BY <3>1, SameSum
  <2>2. SumFunctionOnSet(g, 0..(0 - 1)) = 0
    <3>1. \A k \in 0..(0 - 1) : g[k] \in Nat
      OBVIOUS
    <3> QED BY <3>1, SumOfInterval
  <2>3. n + 0 = n
    OBVIOUS
  <2> QED BY <1>1, <2>1, <2>2, <2>3
<1>5. ASSUME NEW j \in Nat, j \in Good PROVE j + 1 \in Good
  <2> SUFFICES ASSUME j + 1 <= m
               PROVE  SumFunctionOnSet(h, 1..(n + (j + 1))) =
                        SumFunctionOnSet(f, 1..n)
                            + SumFunctionOnSet(g, 0..((j + 1) - 1))
    OBVIOUS
  <2>1. SumFunctionOnSet(h, 1..(n + j)) =
            SumFunctionOnSet(f, 1..n) + SumFunctionOnSet(g, 0..(j - 1))
    BY <1>5
  <2>2. SumFunctionOnSet(h, 1..(n + (j + 1))) =
            h[n + (j + 1)] + SumFunctionOnSet(h, 1..(n + j))
    <3>1. \A k \in 1..(n + (j + 1)) : h[k] \in Nat
      BY <1>2
    <3>2. n + (j + 1) \in Int /\ 1 <= n + (j + 1) /\ (n + (j + 1)) - 1 = n + j
      OBVIOUS
    <3> QED BY <3>1, <3>2, SumOfInterval
  <2>3. /\ SumFunctionOnSet(g, 0..j) = g[j] + SumFunctionOnSet(g, 0..(j - 1))
        /\ SumFunctionOnSet(g, 0..(j - 1)) \in Nat
    <3>1. (\A k \in 0..j : g[k] \in Nat) /\ (\A k \in 0..(j - 1) : g[k] \in Nat)
      BY <1>3
    <3>2. j \in Int /\ j - 1 \in Int /\ 0 <= j
      OBVIOUS
    <3> QED BY <3>1, <3>2, SumOfInterval
  <2>4. h[n + (j + 1)] = g[j] /\ g[j] \in Nat
    BY <1>3
  <2>5. (j + 1) - 1 = j
    OBVIOUS
  <2> HIDE DEF Good
  <2> QED BY <1>1, <2>1, <2>2, <2>3, <2>4, <2>5
<1>6. \A j \in Nat : j \in Good
  <2> HIDE DEF Good
  <2> QED BY <1>4, <1>5, NatSets
<1> QED BY <1>6
------------------------------------------------------------------------------
\* Each read is a round of the loop, in one of the two ways; the counters of
\* packets and bytes are those of the interface.
Counted ==
    /\ stats \in [packets : Nat, bytes : Nat, fast : Nat, slow : Nat]
    /\ VmStatsExact

\* What is written, with its lengths alone.
Lengths == [k \in 1..Len(out) |-> out[k].length]

\* The bytes counted before and with the batch in hand: vm_msgs_size adds up the
\* lengths that write_to_host has put in the iovecs.
LEMMA WriteCounts ==
    ASSUME IInv, IInv', Counted, WriteToHost
    PROVE  Counted'
<1> DEFINE done == Len(out)
<1>1. /\ count \in Nat /\ count <= MaxPacketCount /\ MaxPacketCount \in Nat
      /\ taken \in Nat /\ count <= taken /\ taken <= MaxPackets
      /\ MaxPackets \in Nat
      /\ done \in Nat /\ done = taken - count /\ Len(out') = done + count
  <2>1. Len(out') = taken' - count' /\ taken' = taken /\ count' = 0
    BY DEF IInv, Passed, WriteToHost
  <2> QED
    BY <2>1, PacketAssumption, SlotAssumption DEF IInv, Shape, Passed
<1>2. /\ Lengths = [k \in 1..done |-> out[k].length]
      /\ Lengths' = [k \in 1..(done + count) |-> out'[k].length]
  BY <1>1 DEF Lengths
<1>3. \A k \in 1..done : Lengths[k] \in Nat /\ Lengths'[k] = Lengths[k]
  <2> SUFFICES ASSUME NEW k \in 1..done
               PROVE  Lengths[k] \in Nat /\ Lengths'[k] = Lengths[k]
    OBVIOUS
  <2>1. k \in 1..MaxPackets /\ k \in 1..(done + count) /\ k \in 1..Len(out')
    BY <1>1
  <2>2. out[k].length = Uncut(k) /\ out'[k].length = Uncut(k)
    BY <2>1 DEF IInv, Passed, Uncut
  <2>3. Uncut(k) \in Nat
    BY <2>1, ClipFacts, SlotAssumption
  <2> QED BY <1>2, <2>1, <2>2, <2>3
<1>4. \A k \in 1..count : len[k - 1] \in Nat /\ Lengths'[done + k] = len[k - 1]
  <2> SUFFICES ASSUME NEW k \in 1..count
               PROVE  len[k - 1] \in Nat /\ Lengths'[done + k] = len[k - 1]
    OBVIOUS
  <2>1. /\ k - 1 \in 0..(count - 1) /\ done + k \in 1..MaxPackets
        /\ done + k \in 1..(done + count) /\ done + k \in 1..Len(out')
        /\ taken - count + (k - 1) + 1 = done + k
    BY <1>1
  <2>2. len[k - 1] = Uncut(done + k)
    BY <2>1 DEF IInv, InHand
  <2>3. out'[done + k].length = Uncut(done + k)
    BY <2>1 DEF IInv, Passed, Uncut
  <2>4. Uncut(done + k) \in Nat
    BY <2>1, ClipFacts, SlotAssumption
  <2> QED BY <1>2, <2>1, <2>2, <2>3, <2>4
<1>5. SumFunctionOnSet(Lengths', 1..(done + count)) =
        SumFunctionOnSet(Lengths, 1..done) + SumFunctionOnSet(len, 0..(count - 1))
  <2> HIDE DEF done
  <2>1. done \in Nat /\ count \in Nat
    BY <1>1
  <2>2. Joins(Lengths', Lengths, done, len, count)
    BY <1>3, <1>4 DEF Joins
  <2> QED BY <2>1, <2>2, SumJoins
<1>6. SumFunctionOnSet(len, 0..(count - 1)) \in Nat
  <2>1. \A k \in 0..(count - 1) : len[k] \in Nat
    <3> SUFFICES ASSUME NEW k \in 0..(count - 1) PROVE len[k] \in Nat
      OBVIOUS
    <3>1. k + 1 \in 1..count /\ (k + 1) - 1 = k
      BY <1>1
    <3> QED BY <1>4, <3>1
  <2>2. 0 \in Int /\ count - 1 \in Int
    BY <1>1
  <2> QED BY <2>1, <2>2, SumOfInterval
<1>7. /\ DOMAIN Lengths = 1..done /\ DOMAIN Lengths' = 1..(done + count)
      /\ SumFunction(Lengths) = SumFunctionOnSet(Lengths, 1..done)
      /\ SumFunction(Lengths)' = SumFunctionOnSet(Lengths', 1..(done + count))
  <2>1. DOMAIN Lengths = 1..done /\ DOMAIN Lengths' = 1..(done + count)
    BY <1>2
  <2> QED BY <2>1 DEF SumFunction
<1>8. /\ stats \in [packets : Nat, bytes : Nat, fast : Nat, slow : Nat]
      /\ stats.packets = done /\ stats.bytes = SumFunction(Lengths)
  BY DEF Counted, VmStatsExact, Lengths
<1>9. /\ stats'.packets = stats.packets + count
      /\ stats'.bytes = stats.bytes + SumFunctionOnSet(len, 0..(count - 1))
      /\ stats' \in [packets : Nat, bytes : Nat, fast : Nat, slow : Nat]
  <2>1. stats' = [stats EXCEPT !.packets = @ + count,
                               !.bytes = @ + SumFunctionOnSet(len, 0..(count - 1))]
    BY DEF WriteToHost, vm_msgs_size
  <2>2. stats \in [packets : Nat, bytes : Nat, fast : Nat, slow : Nat]
    BY <1>8
  <2> DEFINE bytes == SumFunctionOnSet(len, 0..(count - 1))
  <2>3. count \in Nat /\ bytes \in Nat
    BY <1>1, <1>6
  <2> HIDE DEF bytes
  <2>4. stats' = [stats EXCEPT !.packets = @ + count, !.bytes = @ + bytes]
    BY <2>1 DEF bytes
  <2>5. /\ stats.packets + count \in Nat /\ stats.bytes + bytes \in Nat
        /\ stats.fast \in Nat /\ stats.slow \in Nat
    BY <2>2, <2>3
  <2>6. stats' = [packets |-> stats.packets + count, bytes |-> stats.bytes + bytes,
                  fast |-> stats.fast, slow |-> stats.slow]
    BY <2>2, <2>4
  <2> QED BY <2>5, <2>6 DEF bytes
<1>10. stats'.packets = Len(out') /\ stats'.bytes = SumFunction(Lengths)'
  <2> HIDE DEF done
  <2> QED BY <1>1, <1>5, <1>7, <1>8, <1>9
<1> QED BY <1>9, <1>10 DEF Counted, VmStatsExact, Lengths

LEMMA InitCounted == Init => Counted
<1> SUFFICES ASSUME Init PROVE Counted
  OBVIOUS
<1> DEFINE none == [k \in 1..Len(out) |-> out[k].length]
<1>1. out = <<>> /\ Len(out) = 0 /\ DOMAIN none = 1..0
  BY DEF Init
<1>2. SumFunctionOnSet(none, 1..0) = 0
  <2>1. \A k \in 1..0 : none[k] \in Nat
    OBVIOUS
  <2> HIDE DEF none
  <2> QED BY <2>1, SumOfInterval
<1>3. SumFunction(none) = 0
  BY <1>1, <1>2 DEF SumFunction
<1> QED BY <1>1, <1>3 DEF Init, Counted, VmStatsExact

LEMMA NextCounted == IInv /\ IInv' /\ Counted /\ [Next]_vars => Counted'
<1> SUFFICES ASSUME IInv, IInv', Counted, [Next]_vars PROVE Counted'
  OBVIOUS
<1>1. CASE WriteToHost
  BY <1>1, WriteCounts
<1>2. CASE ~WriteToHost
  <2>1. out' = out
    BY <1>2 DEF Next, VmThread, Environment, vars, VmSend, VmClose, FastRead,
                FastReadFails, SlowRead, SlowReadFails, EndOfFile, WriteToHostFails
  <2>2. /\ stats' \in [packets : Nat, bytes : Nat, fast : Nat, slow : Nat]
        /\ stats'.packets = stats.packets /\ stats'.bytes = stats.bytes
    BY <1>2 DEF Counted, Next, VmThread, Environment, vars, VmSend, VmClose, FastRead,
                FastReadFails, SlowRead, SlowReadFails, EndOfFile, WriteToHostFails
  <2> QED BY <2>1, <2>2 DEF Counted, VmStatsExact
<1> QED BY <1>1, <1>2

\* The counters of the VM direction are those of the interface, after any number of
\* batches of any lengths (vm_msgs_size and write_to_host of helper.c).
THEOREM StatsExact == Spec => []VmStatsExact
<1>1. Counted => VmStatsExact
  BY DEF Counted
<1> QED BY <1>1, InitCounted, NextCounted, SlotInvariance, PTL DEF Spec

\* The variables of the loop forward_from_vm of helper.c keep their ranges: no slot
\* beyond the arrays is used and no length is bigger than a slot's buffer.
THEOREM TypeInvariance == Spec => []TypeOK
<1>1. IInv /\ Counted => TypeOK
  BY DEF IInv, Shape, Counted, Written, TypeOK
<1> QED BY <1>1, InitCounted, NextCounted, SlotInvariance, PTL DEF Spec
==============================================================================
