---------------------------- MODULE HelperProofs -----------------------------
(***************************************************************************)
(* Proofs about Helper for every number of signals and events.  The        *)
(* inductive invariant IInv says, for each step of the main thread, which  *)
(* blocks can be on host.queue, which references to the network are held,  *)
(* whose rights the process has, and what made it end.                     *)
(***************************************************************************)
EXTENDS Helper, SequenceTheorems, TLAPS

\* The steps of the main thread, in their order.
Early   == {"check_os", "block_signals", "watch_signals", "acquire", "create"}
Serving == {"start_vm", "start_timer", "run"}
Ending  == {"exit", "stopping", "end"}

Blocks == {"started", "start_failed", "packets", "stopped"}

Steps ==
    /\ pc \in Early \cup {"start", "starting", "drop",
        "setuid", "setup"} \cup Serving \cup Ending
    /\ vmLoop \in {"none", "running", "ended"} \cup Ending
    /\ hostQueue \in Seq(Blocks)

------------------------------------------------------------------------------
\* host.queue.

Packets(queue) == \A k \in 1..Len(queue) : queue[k] = "packets"

\* The queue ends with this block, and only packets are before it.
EndsWith(queue, block) ==
    /\ queue # <<>> /\ queue[Len(queue)] = block
    /\ \A k \in 1..(Len(queue) - 1) : queue[k] = "packets"

Idle == hostQueue = <<>> /\ hostBlock = "none" /\ ~completed

Draining == Packets(hostQueue) /\ hostBlock \in {"none", "packets"} /\ ~completed

\* A completion handler waits its turn, or runs, or has signaled the semaphore.
Turn(block) ==
    \/ hostBlock \in {"none", "packets"} /\ EndsWith(hostQueue, block) /\ ~completed
    \/ hostBlock = block /\ hostQueue = <<>> /\ ~completed
    \/ hostBlock = "none" /\ hostQueue = <<>> /\ completed

\* The handler is off, and one of the two threads runs it or has run it.
Running ==
    /\ ~stopAtExit /\ pc # vmLoop
    /\ "stopping" \in {pc, vmLoop} /\ "end" \notin {pc, vmLoop}
Ran == ~stopAtExit /\ "end" \in {pc, vmLoop} /\ "stopping" \notin {pc, vmLoop}

\* The interface, host.queue and the handler, from the first step of the forwarding on.
StopOrder ==
    \/ /\ stopAtExit /\ {"stopping", "end"} \cap {pc, vmLoop} = {}
       /\ iface \in {"up", "watched"} /\ Draining
    \/ Running /\ iface = "stopping" /\ Draining
    \/ Running /\ iface = "down" /\ Turn("stopped")
    \/ Ran /\ iface = "down" /\ Idle
    \/ Ran /\ iface \in {"up", "watched"} /\ Draining /\ unstopped

\* exit() before there is a handler.
NoHandler ==
    /\ pc = "exit" /\ vmLoop = "none" /\ ~stopAtExit /\ Idle
    /\ iface = "none" \/ (iface = "up" /\ unstopped)

\* What the main thread's step says of the interface and of host.queue.
HostOrder ==
    /\ pc \in {"start_timer", "run"} \cup Ending \/ vmLoop = "none"
    /\ pc \in Early \cup {"start"} => Idle /\ iface = "none" /\ ~stopAtExit
    /\ pc = "starting" =>
        /\ ~stopAtExit
        /\ \/ iface = "starting" /\ Idle
           \/ iface = "up" /\ Turn("started")
           \/ iface = "none" /\ Turn("start_failed") /\ ~completed
    /\ pc \in {"drop", "setuid", "setup"} => Idle /\ iface = "up" /\ stopAtExit
    /\ pc \in Serving => StopOrder /\ iface # "up"
    /\ pc \in Ending => NoHandler \/ StopOrder

------------------------------------------------------------------------------
\* The ids of the process, the network and the exit status.

\* No id of root is left to a user.
UserOnly  == OfUser(launch.SUDO_UID, launch.ruid) => "root" \notin {creds.euid, creds.ruid}
GroupOnly == OfUser(launch.SUDO_GID, launch.rgid) => "root" \notin {creds.egid, creds.rgid}

\* The ids are those of the start until they are dropped, the group first.
Rights ==
    /\ launch \in Launches
    /\ DOMAIN creds = {"euid", "egid", "ruid", "rgid"}
    /\ pc \in Early \cup {"start", "starting", "drop"} =>
        creds = [euid |-> launch.euid, egid |-> launch.egid,
                 ruid |-> launch.ruid, rgid |-> launch.rgid]
    /\ pc = "setuid" => GroupOnly
    /\ pc \in Serving \cup {"setup"} \/ Forwarding => UserOnly /\ GroupOnly

Told == info = IF options.network_name THEN "network" ELSE "interface"

\* The references to the network, and what the caller was told of it.
NetworkHeld ==
    /\ major \in Nat
    /\ serialization = IF pc = "create" THEN 1 ELSE 0
    /\ pc \in {"acquire", "create"} => options.network_name
    /\ pc \in Early \ {"check_os"} /\ options.network_name => major >= 26
    /\ pc \in Early => network = "none"
    /\ pc \in {"start", "starting"} =>
        network = IF options.network_name THEN "live" ELSE "none"
    /\ pc \in {"drop", "setuid", "setup"} \cup Serving \cup Ending => network # "live"
    /\ Forwarding => pc \in Serving \cup Ending
    /\ pc = "starting" /\ completed => Told
    /\ pc \in {"drop", "setuid", "setup"} \cup Serving \/ Forwarding => Told

\* What every signal, flag, result and exit status goes back to.
Causes ==
    /\ sent \in Nat /\ (signal => sent > 0)
    /\ shutdown \in {0, STATUS_FAILURE, STATUS_STOPPED}
    /\ vmLoop \in Ending => failed
    /\ shutdown = STATUS_STOPPED => closed
    /\ shutdown = STATUS_FAILURE => failed
    /\ result \in {"none", "success", "failure"}
    /\ result = "success" => sent > 0 \/ closed
    /\ result = "failure" => failed
    /\ pc \in Ending => result # "none"

IInv ==
    /\ Steps /\ HostOrder /\ Rights /\ NetworkHeld /\ Causes
    /\ CleanStop /\ ExitStatus
------------------------------------------------------------------------------
\* A block that joins a queue of packets is its last.
LEMMA Appended ==
    ASSUME NEW queue \in Seq(Blocks), NEW block \in Blocks, Packets(queue)
    PROVE  /\ Append(queue, block) \in Seq(Blocks)
           /\ EndsWith(Append(queue, block), block)
           /\ block = "packets" => Packets(Append(queue, block))
<1>1. /\ Append(queue, block) \in Seq(Blocks) /\ Append(queue, block) # <<>>
      /\ Len(Append(queue, block)) = Len(queue) + 1
      /\ \A k \in 1..Len(queue) : Append(queue, block)[k] = queue[k]
      /\ Append(queue, block)[Len(queue) + 1] = block
  BY AppendProperties
<1>2. Len(queue) \in Nat
  OBVIOUS
<1> HIDE DEF Blocks
<1> QED BY <1>1, <1>2 DEF Packets, EndsWith

\* The block that starts is a packets block, or the last one.
LEMMA Taken ==
    ASSUME NEW queue \in Seq(Blocks), queue # <<>>
    PROVE  /\ Head(queue) \in Blocks /\ Tail(queue) \in Seq(Blocks)
           /\ Packets(queue) => Head(queue) = "packets" /\ Packets(Tail(queue))
           /\ \A block : EndsWith(queue, block) =>
                \/ Head(queue) = "packets" /\ EndsWith(Tail(queue), block)
                \/ Head(queue) = block /\ Tail(queue) = <<>>
<1>1. /\ Head(queue) = queue[1] /\ Head(queue) \in Blocks
      /\ Tail(queue) \in Seq(Blocks) /\ Len(Tail(queue)) = Len(queue) - 1
      /\ \A k \in 1..(Len(queue) - 1) : Tail(queue)[k] = queue[k + 1]
  BY HeadTailProperties
<1>2. Len(queue) \in Nat /\ Len(queue) >= 1
  BY EmptySeq
<1>3. Tail(queue) = <<>> <=> Len(queue) = 1
  BY <1>1, <1>2, EmptySeq
<1>4. Packets(queue) => Head(queue) = "packets" /\ Packets(Tail(queue))
  BY <1>1, <1>2 DEF Packets
<1>5. ASSUME NEW block, EndsWith(queue, block)
      PROVE  \/ Head(queue) = "packets" /\ EndsWith(Tail(queue), block)
             \/ Head(queue) = block /\ Tail(queue) = <<>>
  BY <1>1, <1>2, <1>3, <1>5 DEF EndsWith
<1> QED BY <1>1, <1>4, <1>5

------------------------------------------------------------------------------
USE DEF Early, Serving, Ending, Alive, STATUS_FAILURE, STATUS_STOPPED,
        main, given, net, start, host, past, world, quiet

\* Signals, the VM and vmnet.
LEMMA WorldStep ==
    ASSUME IInv, Signal \/ VmClose \/ Event \/ Complete \/ TimerFires \/ VmClosed
                 \/ VmFails \/ VmExits
    PROVE  IInv'
<1> USE DEF IInv, Steps, HostOrder, Rights, NetworkHeld, Causes, CleanStop,
            ExitStatus, Idle, Draining, Turn, Running, Ran, StopOrder, NoHandler,
            UserOnly, GroupOnly, OfUser, Told, Forwarding, TwoExits
<1>1. CASE Signal
  BY <1>1 DEF Signal
<1>2. CASE VmClose
  BY <1>2 DEF VmClose
<1>3. CASE Event
  <2>1. hostQueue' \in Seq(Blocks) /\ (Packets(hostQueue) => Packets(hostQueue'))
    BY <1>3, Appended DEF Event, Blocks
  <2>2. Steps' /\ HostOrder'
    BY <1>3, <2>1 DEF Event
  <2>3. Rights' /\ NetworkHeld' /\ Causes' /\ (CleanStop /\ ExitStatus)'
    BY <1>3 DEF Event
  <2> QED BY <2>2, <2>3
<1>4. CASE Complete
  <2>1. \A block \in Blocks : Packets(hostQueue) =>
            /\ Append(hostQueue, block) \in Seq(Blocks)
            /\ EndsWith(Append(hostQueue, block), block)
    BY Appended
  <2>2. Idle => Packets(hostQueue)
    BY DEF Packets
  <2>3. CASE iface = "starting"
    <3>1. pc = "starting" /\ Idle
      BY <1>4, <2>3
    <3>2. Steps' /\ HostOrder'
      BY <1>4, <2>1, <2>2, <2>3, <3>1 DEF Complete, Blocks
    <3> QED BY <1>4, <2>3, <3>1, <3>2 DEF Complete
  <2>4. CASE iface = "stopping"
    <3>1. Running /\ Draining
      BY <1>4, <2>4
    <3>2. Steps' /\ HostOrder'
      BY <1>4, <2>1, <2>4, <3>1 DEF Complete, Blocks
    <3> QED BY <1>4, <2>4, <3>1, <3>2 DEF Complete
  <2> QED BY <1>4, <2>3, <2>4 DEF Complete
<1>5. CASE TimerFires
  BY <1>5 DEF TimerFires
<1>6. CASE VmClosed
  BY <1>6 DEF VmClosed, VmEnd
<1>7. CASE VmFails
  BY <1>7 DEF VmFails, VmEnd
<1>8. CASE VmExits
  BY <1>8 DEF VmExits
<1> QED BY <1>1, <1>2, <1>3, <1>4, <1>5, <1>6, <1>7, <1>8

\* The blocks of host.queue.
LEMMA HostStep ==
    ASSUME IInv, HostStart \/ HostStarted \/ HostStartFailed \/ DrainEnds
                 \/ HostStopped
    PROVE  IInv'
<1> USE DEF IInv, Steps, HostOrder, Rights, NetworkHeld, Causes, CleanStop,
            ExitStatus, Idle, Draining, Turn, Running, Ran, StopOrder, NoHandler,
            UserOnly, GroupOnly, OfUser, Told, Forwarding, TwoExits
<1>1. CASE HostStart
  <2>1. /\ Head(hostQueue) \in Blocks /\ Tail(hostQueue) \in Seq(Blocks)
        /\ Packets(hostQueue) => Head(hostQueue) = "packets" /\ Packets(Tail(hostQueue))
        /\ \A block : EndsWith(hostQueue, block) =>
            \/ Head(hostQueue) = "packets" /\ EndsWith(Tail(hostQueue), block)
            \/ Head(hostQueue) = block /\ Tail(hostQueue) = <<>>
    BY <1>1, Taken DEF HostStart
  <2>2. Steps' /\ HostOrder'
    BY <1>1, <2>1 DEF HostStart
  <2>3. Rights' /\ NetworkHeld' /\ Causes' /\ (CleanStop /\ ExitStatus)'
    BY <1>1 DEF HostStart
  <2> QED BY <2>2, <2>3
<1>2. CASE HostStarted
  BY <1>2 DEF HostStarted, WriteInterfaceInfo
<1>3. CASE HostStartFailed
  BY <1>3 DEF HostStartFailed
<1>4. CASE DrainEnds
  BY <1>4 DEF DrainEnds
<1>5. CASE HostStopped
  BY <1>5 DEF HostStopped
<1> QED BY <1>1, <1>2, <1>3, <1>4, <1>5

\* The main thread.
LEMMA MainStep ==
    ASSUME IInv, CheckOs \/ BlockSignals \/ WatchSignals \/ AcquireNetwork
                 \/ CreateNetwork \/ StartInterfaceWithOptions
                 \/ StartInterfaceWithNetwork \/ Started \/ AtexitFails
                 \/ KeepPrivileges \/ SetGid \/ SetUid \/ StartFromHost \/ StartFromVm \/ StartStatsTimer \/ SetupFails
                 \/ RunSignaled \/ RunShutdown \/ RunTimer \/ RunFails
    PROVE  IInv'
<1> USE DEF IInv, Steps, HostOrder, Rights, NetworkHeld, Causes, CleanStop,
            ExitStatus, Idle, Draining, Turn, Running, Ran, StopOrder, NoHandler,
            UserOnly, GroupOnly, OfUser, Told, Forwarding, TwoExits
<1>1. CASE CheckOs
  BY <1>1 DEF CheckOs, TooOld, Goes, Exits
<1>2. CASE BlockSignals
  BY <1>2 DEF BlockSignals
<1>3. CASE WatchSignals
  BY <1>3 DEF WatchSignals
<1>4. CASE AcquireNetwork
  <2>1. PICK reply \in Reply :
            /\ serialization' = References(reply)
            /\ \/ BrokerStatus(reply) = VMNET_BROKER_SUCCESS /\ Goes("create")
               \/ BrokerStatus(reply) # VMNET_BROKER_SUCCESS /\ Exits
    BY <1>4 DEF AcquireNetwork
  <2>2. References(reply) = IF BrokerStatus(reply) = VMNET_BROKER_SUCCESS THEN 1 ELSE 0
    BY DEF References, Kept, Retain, Release, BrokerStatus, VMNET_BROKER_SUCCESS,
           VMNET_BROKER_INVALID_REPLY, VMNET_BROKER_XPC_FAILURE
  <2> QED BY <1>4, <2>1, <2>2 DEF AcquireNetwork, Goes, Exits
<1>5. CASE CreateNetwork
  BY <1>5 DEF CreateNetwork, Goes, Exits
<1>6. CASE StartInterfaceWithOptions
  BY <1>6 DEF StartInterfaceWithOptions, StartInterface
<1>7. CASE StartInterfaceWithNetwork
  BY <1>7 DEF StartInterfaceWithNetwork, StartInterface
<1>8. CASE Started
  <2>1. Idle' => Draining'
    BY DEF Packets
  <2> QED BY <1>8, <2>1 DEF Started, Drops
<1>9. CASE AtexitFails
  BY <1>9 DEF AtexitFails, Drops, Exits
<1>10. CASE KeepPrivileges
  BY <1>10, LaunchAssumption DEF KeepPrivileges, Privileged, Launch, Ids
<1>11. CASE SetGid
  <2>1. CASE Exits
    <3>1. Idle => Draining
      BY DEF Packets
    <3> QED BY <1>11, <2>1, <3>1 DEF SetGid, Exits
  <2>2. CASE Goes("setuid")
    <3>1. creds' = creds \/ creds' = [creds EXCEPT !.egid = Gid, !.rgid = Gid]
      BY <1>11 DEF SetGid
    <3>2. GroupOnly'
      <4>1. launch \in Launch /\ UNCHANGED launch /\ Gid \in Ids
        BY <1>11, LaunchAssumption DEF SetGid, Launch, Gid, WantedId
      <4>2. CASE Gid = "root"
        BY <4>1, <4>2 DEF Gid, WantedId, Launch
      <4>3. CASE Gid # "root"
        <5>1. creds' = [creds EXCEPT !.egid = Gid, !.rgid = Gid]
          BY <1>11, <2>2, <4>3 DEF SetGid, Goes, Exits
        <5> QED BY <4>1, <4>3, <5>1 DEF Ids
      <4> QED BY <4>2, <4>3
    <3>3. Steps' /\ HostOrder'
      BY <1>11, <2>2 DEF SetGid, Goes
    <3>4. Rights' /\ NetworkHeld'
      BY <1>11, <2>2, <3>1, <3>2 DEF SetGid, Goes
    <3>5. Causes' /\ (CleanStop /\ ExitStatus)'
      BY <1>11, <2>2 DEF SetGid, Goes
    <3> QED BY <3>3, <3>4, <3>5
  <2> QED BY <1>11, <2>1, <2>2 DEF SetGid
<1>12. CASE SetUid
  <2>1. CASE Exits
    <3>1. Idle => Draining
      BY DEF Packets
    <3> QED BY <1>12, <2>1, <3>1 DEF SetUid, Exits
  <2>2. CASE Goes("setup")
    <3>1. creds' = creds \/ creds' = [creds EXCEPT !.euid = Uid, !.ruid = Uid]
      BY <1>12 DEF SetUid
    <3>2. UserOnly' /\ GroupOnly'
      <4>1. launch \in Launch /\ UNCHANGED launch /\ Uid \in Ids
        BY <1>12, LaunchAssumption DEF SetUid, Launch, Uid, WantedId
      <4>2. GroupOnly'
        BY <1>12, <3>1 DEF SetUid
      <4>3. CASE Uid = "root"
        BY <4>1, <4>2, <4>3 DEF Uid, WantedId, Launch
      <4>4. CASE Uid # "root"
        <5>1. creds' = [creds EXCEPT !.euid = Uid, !.ruid = Uid]
          BY <1>12, <2>2, <4>4 DEF SetUid, Goes, Exits
        <5> QED BY <4>1, <4>2, <4>4, <5>1 DEF Ids
      <4> QED BY <4>3, <4>4
    <3>3. Steps' /\ HostOrder'
      BY <1>12, <2>2 DEF SetUid, Goes
    <3>4. Rights' /\ NetworkHeld'
      BY <1>12, <2>2, <3>1, <3>2 DEF SetUid, Goes
    <3>5. Causes' /\ (CleanStop /\ ExitStatus)'
      BY <1>12, <2>2 DEF SetUid, Goes
    <3> QED BY <3>3, <3>4, <3>5
  <2> QED BY <1>12, <2>1, <2>2 DEF SetUid
<1>13. CASE StartFromHost
  <2>1. Idle => Draining
    BY DEF Packets
  <2> QED BY <1>13, <2>1 DEF StartFromHost
<1>14. CASE StartFromVm
  <2>1. Steps' /\ HostOrder'
    BY <1>14 DEF StartFromVm
  <2>2. Rights' /\ NetworkHeld'
    BY <1>14 DEF StartFromVm
  <2>3. Causes' /\ (CleanStop /\ ExitStatus)'
    BY <1>14 DEF StartFromVm
  <2> QED BY <2>1, <2>2, <2>3
<1>15. CASE StartStatsTimer
  BY <1>15 DEF StartStatsTimer
<1>16. CASE SetupFails
  <2>1. Idle => Draining
    BY DEF Packets
  <2> QED BY <1>16, <2>1 DEF SetupFails, Exits
<1>17. CASE RunSignaled
  BY <1>17 DEF RunSignaled, Result
<1>18. CASE RunShutdown
  BY <1>18 DEF RunShutdown, Result
<1>19. CASE RunTimer
  BY <1>19 DEF RunTimer
<1>20. CASE RunFails
  BY <1>20 DEF RunFails, Exits
<1> QED BY <1>1, <1>2, <1>3, <1>4, <1>5, <1>6, <1>7, <1>8, <1>9, <1>10, <1>11, <1>12,
    <1>13, <1>14, <1>15, <1>16, <1>17, <1>18, <1>19, <1>20

\* exit(), in either thread.
LEMMA ExitStep ==
    ASSUME IInv, StopInterface \/ StopFails \/ Stopped \/ End
    PROVE  IInv'
<1> USE DEF IInv, Steps, HostOrder, Rights, NetworkHeld, Causes, CleanStop,
            ExitStatus, Idle, Draining, Turn, Running, Ran, StopOrder, NoHandler,
            UserOnly, GroupOnly, OfUser, Told, Forwarding, TwoExits
<1>1. CASE StopInterface
  <2>1. Steps' /\ HostOrder'
    BY <1>1 DEF StopInterface, InExit
  <2>2. Rights' /\ NetworkHeld'
    BY <1>1 DEF StopInterface, InExit
  <2>3. Causes' /\ (CleanStop /\ ExitStatus)'
    BY <1>1 DEF StopInterface, InExit
  <2> QED BY <2>1, <2>2, <2>3
<1>2. CASE StopFails
  <2>1. Steps' /\ HostOrder'
    BY <1>2 DEF StopFails, InExit
  <2>2. Rights' /\ NetworkHeld'
    BY <1>2 DEF StopFails, InExit
  <2>3. Causes' /\ (CleanStop /\ ExitStatus)'
    BY <1>2 DEF StopFails, InExit
  <2> QED BY <2>1, <2>2, <2>3
<1>3. CASE Stopped
  <2>1. Steps' /\ HostOrder'
    BY <1>3 DEF Stopped, InExit
  <2>2. Rights' /\ NetworkHeld'
    BY <1>3 DEF Stopped, InExit
  <2>3. Causes' /\ (CleanStop /\ ExitStatus)'
    BY <1>3 DEF Stopped, InExit
  <2> QED BY <2>1, <2>2, <2>3
<1>4. CASE End
  <2>1. Steps' /\ HostOrder'
    BY <1>4 DEF End, HandlersDone
  <2>2. Rights' /\ NetworkHeld'
    BY <1>4 DEF End, HandlersDone
  <2>3. Causes' /\ (CleanStop /\ ExitStatus)'
    BY <1>4 DEF End, HandlersDone
  <2> QED BY <2>1, <2>2, <2>3
<1> QED BY <1>1, <1>2, <1>3, <1>4

LEMMA InitInv == Init => IInv
<1> SUFFICES ASSUME Init PROVE IInv
  OBVIOUS
<1>1. Steps /\ HostOrder
  BY DEF Init, Steps, HostOrder, Idle
<1>2. Rights /\ NetworkHeld
  BY LaunchAssumption DEF Init, Rights, NetworkHeld, Forwarding, Launch
<1>3. Causes /\ CleanStop /\ ExitStatus
  BY DEF Init, Causes, CleanStop, ExitStatus
<1> QED BY <1>1, <1>2, <1>3 DEF IInv

LEMMA NextInv == IInv /\ [Next]_vars => IInv'
<1> SUFFICES ASSUME IInv, [Next]_vars PROVE IInv'
  OBVIOUS
<1>1. CASE UNCHANGED vars
  BY <1>1 DEF vars, IInv, Steps, HostOrder, Rights, NetworkHeld, Causes,
              CleanStop,
              ExitStatus, Idle, Draining, Turn, Running, Ran, StopOrder, NoHandler,
            UserOnly, GroupOnly, OfUser, Told, Forwarding, TwoExits
<1>2. CASE Next
  BY <1>2, WorldStep, HostStep, MainStep, ExitStep DEF Next, MainThread, HostThread,
                                                     Exit
<1> QED BY <1>1, <1>2

\* The invariant holds in every state of every behaviour.
THEOREM Invariance == Spec => []IInv
<1> QED BY InitInv, NextInv, PTL DEF Spec

\* However the helper ends by itself, on a signal, the end of the VM or any failure,
\* and however many callbacks wait on host.queue: the interface it started is stopped,
\* and the completion that stop_host_interface of helper.c waits for ran behind them.
THEOREM StopsCleanly == Spec => []CleanStop
<1>1. IInv => CleanStop
  BY DEF IInv
<1> QED BY <1>1, Invariance, PTL

\* Whichever of the signal and the shutdown event run_until_termination of helper.c
\* takes, the exit status tells a stop from a failure.
THEOREM StatusIsTrue == Spec => []ExitStatus
<1>1. IInv => ExitStatus
  BY DEF IInv
<1> QED BY <1>1, Invariance, PTL

\* Whatever the broker replies, the interface starts with a living network and every
\* reference is given back before the forwarding (start_host_interface and
\* acquire_network_from_broker of helper.c, broker/client.c).
THEOREM NetworkIsSound == Spec => []NetworkSound
<1>1. IInv => NetworkSound
  BY DEF IInv, NetworkHeld, NetworkSound, Told, Forwarding
<1> QED BY <1>1, Invariance, PTL

\* Whoever may start the helper, with whichever SUDO_UID and SUDO_GID: it forwards
\* with no id of root, effective or real, if these name a user, or are not set and the
\* real id is a user's (drop_privileges of helper.c, parse_options of options.c).
THEOREM ForwardsUnprivileged == Spec => []Unprivileged
<1>1. IInv => Unprivileged
  BY DEF IInv, Rights, Unprivileged, UserOnly, GroupOnly
<1> QED BY <1>1, Invariance, PTL
------------------------------------------------------------------------------
\* The values of everything that IInv leaves open.
Values ==
    /\ options \in [network_name : BOOLEAN, stats_interval : BOOLEAN]
    /\ creds \in [{"euid", "egid", "ruid", "rgid"} -> Ids]
    /\ network \in {"none", "live", "released"}
    /\ timer \in {"off", "armed", "fired"}
    /\ code \in {"none", "success", "failure", "killed"}
    /\ iface \in {"none", "starting", "up", "watched", "stopping", "down"}
    /\ info \in {"none", "interface", "network"}
    /\ hostBlock \in Blocks \cup {"none"}
    /\ sent \in 0..MaxSignals /\ missed \in 0..sent /\ events \in 0..MaxEvents

Booleans ==
    /\ signal \in BOOLEAN /\ closed \in BOOLEAN /\ failed \in BOOLEAN
    /\ completed \in BOOLEAN /\ stopAtExit \in BOOLEAN /\ unstopped \in BOOLEAN

LEMMA InitValues == Init => Values /\ Booleans
<1> SUFFICES ASSUME Init PROVE Values /\ Booleans
  OBVIOUS
<1>1. 0 \in 0..MaxSignals /\ 0 \in 0..0 /\ 0 \in 0..MaxEvents
  BY BoundAssumption
<1>2. creds \in [{"euid", "egid", "ruid", "rgid"} -> Ids]
  BY LaunchAssumption DEF Init, Launch
<1>3. Values
  BY <1>1, <1>2 DEF Init, Values
<1>4. Booleans
  BY Zenon DEF Init, Booleans
<1> QED BY <1>3, <1>4

LEMMA NextValues == IInv /\ Values /\ [Next]_vars => Values'
<1> SUFFICES ASSUME IInv, Values, [Next]_vars PROVE Values'
  OBVIOUS
<1>1. CASE Signal
  <2>1. sent' \in 0..MaxSignals /\ missed' \in 0..sent'
    BY <1>1, BoundAssumption DEF Signal, Values
  <2> QED BY <1>1, <2>1 DEF Signal, Values
<1>2. CASE Event
  <2>1. events' \in 0..MaxEvents
    BY <1>2, BoundAssumption DEF Event, Values
  <2> QED BY <1>2, <2>1 DEF Event, Values
<1>3. CASE KeepPrivileges \/ SetGid \/ SetUid
  <2>1. Uid \in Ids /\ Gid \in Ids
    BY LaunchAssumption DEF IInv, Rights, Launch, Uid, Gid, WantedId
  <2>2. creds' \in [{"euid", "egid", "ruid", "rgid"} -> Ids]
    BY <1>3, <2>1 DEF KeepPrivileges, SetGid, SetUid, Values
  <2> QED BY <1>3, <2>2 DEF KeepPrivileges, SetGid, SetUid, Values
<1>4. CASE HostStart
  <2>1. Head(hostQueue) \in Blocks
    BY <1>4, Taken DEF HostStart, IInv, Steps
  <2> QED BY <1>4, <2>1 DEF HostStart, Values
<1>5. CASE VmClose
  BY <1>5 DEF VmClose, Values
<1>6. CASE Complete
  BY <1>6 DEF Complete, Values
<1>7. CASE TimerFires
  BY <1>7 DEF TimerFires, Values
<1>8. CASE VmClosed
  BY <1>8 DEF VmClosed, VmEnd, Values
<1>9. CASE VmFails \/ VmExits
  BY <1>9 DEF VmFails, VmEnd, VmExits, Values
<1>10. CASE HostStarted
  BY <1>10 DEF HostStarted, WriteInterfaceInfo, Values
<1>11. CASE HostStartFailed
  BY <1>11 DEF HostStartFailed, Values
<1>12. CASE DrainEnds
  BY <1>12 DEF DrainEnds, Values
<1>13. CASE HostStopped
  BY <1>13 DEF HostStopped, Values
<1>14. CASE CheckOs
  BY <1>14 DEF CheckOs, Goes, Exits, Values
<1>15. CASE BlockSignals
  BY <1>15 DEF BlockSignals, Values
<1>16. CASE WatchSignals
  BY <1>16 DEF WatchSignals, Values
<1>17. CASE AcquireNetwork
  BY <1>17 DEF AcquireNetwork, Goes, Exits, Values
<1>18. CASE CreateNetwork
  BY <1>18 DEF CreateNetwork, Goes, Exits, Values
<1>19. CASE StartInterfaceWithOptions
  BY <1>19 DEF StartInterfaceWithOptions, StartInterface, Values
<1>20. CASE StartInterfaceWithNetwork
  BY <1>20 DEF StartInterfaceWithNetwork, StartInterface, Values
<1>21. CASE Started \/ AtexitFails
  BY <1>21 DEF Started, AtexitFails, Drops, Values
<1>22. CASE StartFromHost
  BY <1>22 DEF StartFromHost, Values
<1>23. CASE StartFromVm
  BY <1>23 DEF StartFromVm, Values
<1>24. CASE StartStatsTimer
  BY <1>24 DEF StartStatsTimer, Values
<1>25. CASE SetupFails
  BY <1>25 DEF SetupFails, Exits, Values
<1>26. CASE RunSignaled
  BY <1>26 DEF RunSignaled, Values
<1>27. CASE RunShutdown
  BY <1>27 DEF RunShutdown, Values
<1>28. CASE RunTimer
  BY <1>28 DEF RunTimer, Values
<1>29. CASE RunFails
  BY <1>29 DEF RunFails, Exits, Values
<1>30. CASE StopInterface
  BY <1>30 DEF StopInterface, Values
<1>31. CASE StopFails
  BY <1>31 DEF StopFails, Values
<1>32. CASE Stopped
  BY <1>32 DEF Stopped, Values
<1>33. CASE End
  <2>1. code' \in {"success", "failure"}
    BY <1>33 DEF End, HandlersDone, IInv, Causes
  <2> QED BY <1>33, <2>1 DEF End, Values
<1>34. CASE UNCHANGED vars
  BY <1>34 DEF vars, Values
<1> QED BY <1>1, <1>2, <1>3, <1>4, <1>5, <1>6, <1>7, <1>8, <1>9, <1>10, <1>11, <1>12,
    <1>13, <1>14, <1>15, <1>16, <1>17, <1>18, <1>19, <1>20, <1>21, <1>22, <1>23,
    <1>24, <1>25, <1>26, <1>27, <1>28, <1>29, <1>30, <1>31, <1>32, <1>33, <1>34
    DEF Next, MainThread, HostThread, Exit

\* A flag keeps its value or gets one of the two.
LEMMA NextBooleans == Booleans /\ [Next]_vars => Booleans'
<1> SUFFICES ASSUME Booleans, [Next]_vars PROVE Booleans'
  OBVIOUS
<1> USE DEF Next, MainThread, HostThread, Exit, vars, VmClosed, VmFails, VmExits, VmEnd,
        Signal, VmClose, Event, Complete, TimerFires, HostStart, HostStarted,
        HostStartFailed, DrainEnds, HostStopped, CheckOs, BlockSignals, WatchSignals,
        AcquireNetwork, CreateNetwork, StartInterfaceWithOptions,
        StartInterfaceWithNetwork, StartInterface, Started, AtexitFails,
        KeepPrivileges, SetGid, SetUid, StartFromHost, StartFromVm, StartStatsTimer,
        SetupFails, RunSignaled, RunShutdown, RunTimer, RunFails, StopInterface,
        StopFails, Stopped, End, Goes, Exits
<1>1. signal' = signal \/ signal' = TRUE \/ signal' = FALSE
  OBVIOUS
<1>2. closed' = closed \/ closed' = TRUE \/ closed' = FALSE
  OBVIOUS
<1>3. failed' = failed \/ failed' = TRUE \/ failed' = FALSE
  OBVIOUS
<1>4. completed' = completed \/ completed' = TRUE \/ completed' = FALSE
  OBVIOUS
<1>5. stopAtExit' = stopAtExit \/ stopAtExit' = TRUE \/ stopAtExit' = FALSE
  OBVIOUS
<1>6. unstopped' = unstopped \/ unstopped' = TRUE \/ unstopped' = FALSE
  OBVIOUS
<1> QED BY ONLY Booleans, <1>1, <1>2, <1>3, <1>4, <1>5, <1>6, Zenon DEF Booleans

\* The state of the three threads of helper.c keeps to its values; the semaphore that
\* the completion handlers signal is up only while start_host_interface or
\* stop_host_interface waits for it, and who leaves run_until_termination has a result.
THEOREM TypeCorrect == Spec => []TypeOK
<1>1. IInv /\ Values /\ Booleans => TypeOK
  <2> SUFFICES ASSUME IInv, Values, Booleans PROVE TypeOK
    OBVIOUS
  <2>1. completed => pc = "starting" \/ "stopping" \in {pc, vmLoop}
    BY DEF IInv, Steps, HostOrder, Running, Ran, StopOrder, NoHandler, Idle, Draining
  <2>2. launch \in Launches /\ DOMAIN options = {"network_name", "stats_interval"}
    BY DEF IInv, Rights, Values
  <2>3. serialization \in 0..1
    BY DEF IInv, NetworkHeld
  <2> QED BY <2>1, <2>2, <2>3 DEF IInv, Steps, Causes, Values, Booleans,
                                   Blocks, TypeOK
<1> QED BY <1>1, InitValues, NextValues, NextBooleans, Invariance, PTL DEF Spec
------------------------------------------------------------------------------
\* The events of the kqueue.

Unwatched == {"check_os", "block_signals", "watch_signals"}

\* No event is lost before the main thread is in kevent(), or in it.
Recorded ==
    /\ sent \in Nat /\ missed \in Nat
    /\ Alive /\ pc \in Unwatched => sent = missed
    /\ Alive /\ pc \notin Ending =>
        /\ vmLoop = "ended" => shutdown # 0
        /\ sent > missed => signal

\* The steps that touch neither the events nor what they tell of.
LEMMA RecordStays ==
    ASSUME Recorded, UNCHANGED <<signal, shutdown, vmLoop, sent, missed>>,
           code' = "none" => code = "none",
           pc' \in Unwatched => pc \in Unwatched,
           pc' \notin Ending => pc \notin Ending
    PROVE  Recorded'
BY DEF Recorded, Alive

LEMMA NextRecorded == Recorded /\ [Next]_vars => Recorded'
<1> SUFFICES ASSUME Recorded, [Next]_vars PROVE Recorded'
  OBVIOUS
<1> USE DEF Unwatched, Ending
<1>1. CASE Signal
  <2>1. CASE pc \in {"check_os", "block_signals"}
    BY <1>1, <2>1 DEF Signal, Recorded, Alive
  <2>2. CASE pc = "watch_signals"
    BY <1>1, <2>2 DEF Signal, Recorded, Alive
  <2>3. CASE pc \notin Unwatched
    BY <1>1, <2>3 DEF Signal, Recorded, Alive
  <2> QED BY <2>1, <2>2, <2>3
<1>2. CASE VmClosed \/ VmFails \/ VmExits
  BY <1>2 DEF VmClosed, VmFails, VmExits, VmEnd, past, STATUS_STOPPED, STATUS_FAILURE, Recorded, Alive
<1>3. CASE RunSignaled
  BY <1>3 DEF RunSignaled, Recorded, Alive, world
<1>4. CASE VmClose \/ Event \/ Complete \/ TimerFires
  BY <1>4, RecordStays DEF VmClose, Event, Complete, TimerFires, main, host, world
<1>5. CASE HostThread
  <2>1. /\ UNCHANGED <<signal, shutdown, vmLoop, sent, missed, pc>>
        /\ code' = "none" => code = "none"
    BY <1>5 DEF HostThread, HostStart, HostStarted, HostStartFailed, DrainEnds,
                HostStopped, main, host, world
  <2> QED BY <2>1, RecordStays
<1>6. CASE CheckOs \/ BlockSignals \/ WatchSignals \/ AcquireNetwork \/ CreateNetwork
  BY <1>6, RecordStays DEF CheckOs, BlockSignals, WatchSignals, AcquireNetwork,
        CreateNetwork, Goes, Exits, quiet, main, host, world
<1>7. CASE StartInterfaceWithOptions \/ StartInterfaceWithNetwork \/ Started
            \/ AtexitFails \/ KeepPrivileges \/ SetGid \/ SetUid \/ StartFromHost
            \/ StartStatsTimer \/ SetupFails
  BY <1>7, RecordStays DEF StartInterfaceWithOptions, StartInterfaceWithNetwork,
        StartInterface, Started, AtexitFails, KeepPrivileges, SetGid, SetUid,
        StartFromHost, StartStatsTimer, SetupFails, Goes, Exits, quiet, main, host, world
<1>8. CASE StartFromVm
  BY <1>8 DEF StartFromVm, Recorded, Alive, main, host, world
<1>9. CASE RunShutdown \/ RunTimer \/ RunFails
  BY <1>9, RecordStays DEF RunShutdown, RunTimer, RunFails, Exits, quiet, main, host,
        past, world
<1>10. CASE Exit
  <2>1. UNCHANGED <<signal, shutdown, sent, missed>>
    BY <1>10 DEF Exit, StopInterface, StopFails, Stopped, End, main, host, past, world
  <2>2. /\ vmLoop' = "ended" => vmLoop = "ended"
        /\ code' = "none" => code = "none"
        /\ pc' = pc \/ {pc, pc'} \subseteq Ending
    BY <1>10 DEF Exit, StopInterface, StopFails, Stopped, End, InExit, main, host, world
  <2> QED BY <2>1, <2>2 DEF Recorded, Alive
<1>11. CASE UNCHANGED vars
  BY <1>11, RecordStays DEF vars, main, host, world
<1> QED BY <1>1, <1>2, <1>3, <1>4, <1>5, <1>6, <1>7, <1>8, <1>9, <1>10, <1>11
        DEF Next, MainThread

\* Nobody waits in vain, which the liveness below rests on: a helper in kevent() has
\* an event for the loop of vm.queue that ended, and for a signal the kqueue watched
\* for; one that waits for the semaphore has its completion at vmnet, on host.queue,
\* or done.
EventPending ==
    Alive =>
        /\ pc = "run" /\ vmLoop = "ended" => shutdown # 0
        /\ pc = "run" /\ sent > missed => signal
        /\ pc = "starting" \/ "stopping" \in {pc, vmLoop} =>
            \/ completed \/ iface \in {"starting", "stopping"}
            \/ hostBlock # "none" \/ hostQueue # <<>>

\* Whatever number of signals and events: run_until_termination never waits in
\* kevent() for an event that was lost, and start_host_interface and
\* stop_host_interface never for a completion that nobody will signal.
THEOREM NeverWaitsInVain == Spec => []EventPending
<1>1. Init => Recorded
  BY DEF Init, Recorded, Ending
<1>2. IInv /\ Recorded => EventPending
  <2> SUFFICES ASSUME IInv, Recorded, Alive PROVE EventPending
    BY DEF EventPending
  <2>1. pc = "run" /\ vmLoop = "ended" => shutdown # 0
    BY DEF Recorded, Ending
  <2>2. pc = "run" /\ sent > missed => signal
    BY DEF Recorded, Ending
  <2>3. pc = "starting" \/ "stopping" \in {pc, vmLoop} =>
            \/ completed \/ iface \in {"starting", "stopping"}
            \/ hostBlock # "none" \/ hostQueue # <<>>
    BY DEF IInv, Steps, HostOrder, StopOrder, NoHandler, Running, Ran, Turn, EndsWith
  <2> QED BY <2>1, <2>2, <2>3 DEF EventPending
<1> QED BY <1>1, <1>2, NextRecorded, Invariance, PTL DEF Spec
==============================================================================
