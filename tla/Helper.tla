-------------------------------- MODULE Helper -------------------------------
(***************************************************************************)
(* The life of a vmnet-helper process started with --fd: the main thread   *)
(* sets up its kqueue, starts the vmnet interface, with a network from a   *)
(* broker or without, drops its privileges, starts both directions, waits  *)
(* for a signal or the shutdown event, and runs the atexit handler that    *)
(* stops the interface (main in programs/helper.c and what it calls).      *)
(*                                                                         *)
(* Three threads take part: the main thread, host.queue, a serial queue    *)
(* that runs the callbacks of vmnet, and the loop on vm.queue.  What they  *)
(* forward is in HostForward and VmForward, and setup_socket is in         *)
(* SocketLock and ClientConnect.                                           *)
(***************************************************************************)
EXTENDS BrokerClient, Sequences

CONSTANTS
    Launches,       \* who may start the helper, and with which environment
    MaxSignals,     \* bound: signals sent
    MaxEvents       \* bound: packets_available callbacks

Ids == {"root", "user"}

\* Who starts the helper: root, alone or through sudo, a user, or a user with the
\* setuid bit; SUDO_UID and SUDO_GID are of the environment, which is the caller's.
Launch ==
    {launched \in [euid : Ids, egid : Ids, ruid : Ids, rgid : Ids,
                   SUDO_UID : Ids \cup {"unset"}, SUDO_GID : Ids \cup {"unset"}] :
        /\ launched.ruid = launched.rgid /\ launched.egid = launched.rgid
        /\ launched.ruid = "root" => launched.euid = "root"}

ASSUME LaunchAssumption == Launches \subseteq Launch
ASSUME BoundAssumption == MaxSignals \in Nat /\ MaxEvents \in Nat

VARIABLES
    launch,      \* the ids and the environment the helper was started with
    options,     \* of struct options: network_name and stats_interval
    major,       \* the macOS version
    creds,       \* the effective and the real ids of the process
    serialization, \* references to the serialized network of the broker
    network,     \* the vmnet_network_ref: "none", "live" or "released"
    timer,       \* the timer of the statistics: "off", "armed" or "fired"
    pc,          \* the main thread
    signal,      \* the kqueue holds a signal
    shutdown,    \* the flags of the shutdown event in the kqueue, 0 if none
    result,      \* what exit() is called with
    code,        \* how the process ended: "none", "killed" or its exit status
    iface,       \* the vmnet interface
    info,        \* what stdout says of the interface: "none", "interface", "network"
    hostQueue,   \* the blocks waiting on host.queue, in order
    hostBlock,   \* the block running there, or "none"
    vmLoop,      \* forward_from_vm: "none", "running", "ended", or as pc in exit()
    completed,   \* the semaphore that the start or the stop waits on
    stopAtExit,  \* stop_host_interface is registered with atexit
    \* history
    sent, missed, events, closed, failed,
    unstopped    \* atexit or vmnet_stop_interface has failed

main  == <<result, code, stopAtExit>>
given == <<launch, options, major>>
net   == <<serialization, network>>
start == <<given, creds, net, timer>>
host  == <<iface, info, hostQueue, hostBlock, completed>>
past  == <<sent, missed, events, closed, unstopped>>
world == <<past, failed>>
vars  == <<start, pc, signal, shutdown, main, vmLoop, host, world>>

STATUS_FAILURE == 1
STATUS_STOPPED == 2

\* What main() returns after the event with these flags.
Result(flags) == IF flags = STATUS_STOPPED THEN "success" ELSE "failure"

\* parse_options: options.uid and options.gid, each from its own variable or else
\* the real id.
WantedId(sudo, real) == IF sudo # "unset" THEN sudo ELSE real

Uid == WantedId(launch.SUDO_UID, launch.ruid)
Gid == WantedId(launch.SUDO_GID, launch.rgid)

Init ==
    /\ launch \in Launches
    /\ creds = [euid |-> launch.euid, egid |-> launch.egid,
                ruid |-> launch.ruid, rgid |-> launch.rgid]
    /\ options \in [network_name : BOOLEAN, stats_interval : BOOLEAN]
    /\ major \in {15, 26}
    /\ serialization = 0 /\ network = "none" /\ timer = "off"
    /\ pc = "check_os"
    /\ signal = FALSE /\ shutdown = 0
    /\ result = "none" /\ code = "none" /\ stopAtExit = FALSE
    /\ iface = "none" /\ info = "none" /\ hostQueue = <<>> /\ hostBlock = "none"
    /\ completed = FALSE
    /\ vmLoop = "none"
    /\ sent = 0 /\ missed = 0 /\ events = 0 /\ closed = FALSE /\ failed = FALSE
    /\ unstopped = FALSE

Alive == code = "none"

------------------------------------------------------------------------------
\* Outside: signals, the VM, vmnet.

\* A signal kills a process that has not blocked it.  The kqueue records it from
\* the moment it watches; before that a blocked signal is never looked at.
Signal ==
    /\ Alive /\ sent < MaxSignals
    /\ sent' = sent + 1
    /\ \/ /\ pc \in {"check_os", "block_signals"}
          /\ code' = "killed"
          /\ UNCHANGED <<signal, missed>>
       \/ /\ pc = "watch_signals"
          /\ missed' = missed + 1
          /\ UNCHANGED <<code, signal>>
       \/ /\ pc \notin {"check_os", "block_signals", "watch_signals"}
          /\ signal' = TRUE
          /\ UNCHANGED <<code, missed>>
    /\ UNCHANGED <<start, pc, shutdown, result, stopAtExit, host, vmLoop, events,
                   closed, failed, unstopped>>

VmClose ==
    /\ Alive /\ ~closed
    /\ closed' = TRUE
    /\ UNCHANGED <<start, pc, signal, shutdown, main, host, vmLoop, sent, missed,
                   events, failed, unstopped>>

\* vmnet queues the packets_available callback.
Event ==
    /\ Alive /\ iface = "watched" /\ events < MaxEvents
    /\ events' = events + 1
    /\ hostQueue' = Append(hostQueue, "packets")
    /\ UNCHANGED <<start, pc, signal, shutdown, main, iface, info, hostBlock, completed,
                   vmLoop, sent, missed, closed, failed, unstopped>>

\* vmnet ends starting or stopping the interface: it queues the completion.
Complete ==
    /\ Alive /\ iface \in {"starting", "stopping"}
    /\ \/ /\ iface = "starting"
          /\ \/ iface' = "up" /\ hostQueue' = Append(hostQueue, "started")
             \/ iface' = "none" /\ hostQueue' = Append(hostQueue, "start_failed")
       \/ /\ iface = "stopping"
          /\ iface' = "down" /\ hostQueue' = Append(hostQueue, "stopped")
    /\ UNCHANGED <<start, pc, signal, shutdown, main, info, hostBlock, completed,
                   vmLoop, world>>

------------------------------------------------------------------------------
\* host.queue: one block at a time, in order.

HostStart ==
    /\ Alive /\ hostBlock = "none" /\ hostQueue # <<>>
    /\ hostBlock' = Head(hostQueue)
    /\ hostQueue' = Tail(hostQueue)
    /\ UNCHANGED <<start, pc, signal, shutdown, main, iface, info, completed, vmLoop,
                   world>>

\* The drain loop returns.
DrainEnds ==
    /\ Alive /\ hostBlock = "packets"
    /\ hostBlock' = "none"
    /\ UNCHANGED <<start, pc, signal, shutdown, main, iface, info, hostQueue, completed,
                   vmLoop, world>>

\* Mutant: the callback of the packets signals the semaphore too.
MutantHostStopped ==
    /\ Alive /\ hostBlock \in {"packets", "stopped"}
    /\ completed' = TRUE
    /\ hostBlock' = "none"
    /\ UNCHANGED <<start, pc, signal, shutdown, main, iface, info, hostQueue, vmLoop,
                   world>>

\* The completion handler of vmnet_stop_interface.
HostStopped ==
    /\ Alive /\ hostBlock = "stopped"
    /\ completed' = TRUE
    /\ hostBlock' = "none"
    /\ UNCHANGED <<start, pc, signal, shutdown, main, iface, info, hostQueue, vmLoop,
                   world>>

\* write_interface_info: one line for the program that started the helper.
WriteInterfaceInfo == info' = IF network = "live" THEN "network" ELSE "interface"

\* The completion handler of the start writes the line before it signals.
HostStarted ==
    /\ Alive /\ hostBlock = "started"
    /\ WriteInterfaceInfo
    /\ completed' = TRUE
    /\ hostBlock' = "none"
    /\ UNCHANGED <<start, pc, signal, shutdown, main, iface, hostQueue, vmLoop, world>>

\* exit(EXIT_FAILURE) in the completion handler of vmnet_start_interface: no
\* atexit handler is registered yet.
HostStartFailed ==
    /\ Alive /\ hostBlock = "start_failed"
    /\ code' = "failure"
    /\ failed' = TRUE
    /\ UNCHANGED <<start, pc, signal, shutdown, result, stopAtExit, host, vmLoop, past>>

------------------------------------------------------------------------------
\* The main thread, up to the forwarding.

quiet == <<signal, shutdown, code, stopAtExit, vmLoop, host>>

Goes(to) == pc' = to /\ UNCHANGED <<result, failed>>

\* exit(EXIT_FAILURE).
Exits == failed' = TRUE /\ result' = "failure" /\ pc' = "exit"

\* "--network requires macOS 26 or later".
TooOld == options.network_name /\ major < 26

\* check_os_version, whose sysctl may fail.
CheckOs ==
    /\ Alive /\ pc = "check_os"
    /\ \/ ~TooOld /\ Goes("block_signals")
       \/ Exits
    /\ UNCHANGED <<start, quiet, past>>

BlockSignals ==
    /\ Alive /\ pc = "block_signals"
    /\ pc' = "watch_signals"
    /\ UNCHANGED <<start, signal, shutdown, main, host, vmLoop, world>>

WatchSignals ==
    /\ Alive /\ pc = "watch_signals"
    /\ pc' = IF options.network_name THEN "acquire" ELSE "start"
    /\ UNCHANGED <<start, signal, shutdown, main, host, vmLoop, world>>

\* acquire_network_from_broker: a synchronous call.
AcquireNetwork ==
    /\ Alive /\ pc = "acquire"
    /\ \E reply \in Reply :
        /\ serialization' = References(reply)
        /\ \/ BrokerStatus(reply) = VMNET_BROKER_SUCCESS /\ Goes("create")
           \/ BrokerStatus(reply) # VMNET_BROKER_SUCCESS /\ Exits
    /\ UNCHANGED <<given, creds, network, timer, quiet, past>>

\* vmnet makes a network of the serialization, which is released, or refuses it.
CreateNetwork ==
    /\ Alive /\ pc = "create"
    /\ serialization' = serialization - 1
    /\ \/ network' = "live" /\ Goes("start")
       \/ UNCHANGED network /\ Exits
    /\ UNCHANGED <<given, creds, timer, quiet, past>>

StartInterface ==
    /\ iface' = "starting"
    /\ pc' = "starting"
    /\ UNCHANGED <<start, signal, shutdown, main, info, hostQueue, hostBlock, completed,
                   vmLoop, world>>

StartInterfaceWithOptions ==
    /\ Alive /\ pc = "start" /\ ~options.network_name
    /\ StartInterface

StartInterfaceWithNetwork ==
    /\ Alive /\ pc = "start" /\ options.network_name
    /\ StartInterface

\* The reference to the network is dropped when the interface has started.
Drops == network' = IF network = "live" THEN "released" ELSE network

\* atexit(stop_host_interface).
Started ==
    /\ Alive /\ pc = "starting" /\ completed
    /\ completed' = FALSE
    /\ Drops
    /\ stopAtExit' = TRUE
    /\ pc' = "drop"
    /\ UNCHANGED <<given, creds, serialization, timer, signal, shutdown, result, code,
                   iface, info, hostQueue, hostBlock, vmLoop, world>>

\* It fails: exit() leaves the interface to the kernel.
AtexitFails ==
    /\ Alive /\ pc = "starting" /\ completed
    /\ completed' = FALSE
    /\ Drops
    /\ Exits /\ unstopped' = TRUE
    /\ UNCHANGED <<given, creds, serialization, timer, signal, shutdown, code,
                   stopAtExit, iface, info, hostQueue, hostBlock, vmLoop, sent, missed,
                   events, closed>>

\* Mutant: the real id is tested.
MutantPrivileged == creds.ruid = "root"

\* "Only root can drop privileges."
Privileged == creds.euid = "root"

\* drop_privileges returns early.
KeepPrivileges ==
    /\ Alive /\ pc = "drop" /\ ~Privileged
    /\ pc' = "setup"
    /\ UNCHANGED <<start, signal, shutdown, main, host, vmLoop, world>>

\* setgid() sets both ids; only root may.
SetGid ==
    /\ Alive /\ pc = "drop" /\ Privileged
    /\ \/ Gid = "root" /\ Goes("setuid") /\ UNCHANGED creds
       \/ /\ Gid # "root" /\ creds.euid = "root" /\ Goes("setuid")
          /\ creds' = [creds EXCEPT !.egid = Gid, !.rgid = Gid]
       \/ Gid # "root" /\ Exits /\ UNCHANGED creds
    /\ UNCHANGED <<given, net, timer, quiet, past>>

\* setuid(), after setgid().
SetUid ==
    /\ Alive /\ pc = "setuid"
    /\ \/ Uid = "root" /\ Goes("setup") /\ UNCHANGED creds
       \/ /\ Uid # "root" /\ creds.euid = "root" /\ Goes("setup")
          /\ creds' = [creds EXCEPT !.euid = Uid, !.ruid = Uid]
       \/ Uid # "root" /\ Exits /\ UNCHANGED creds
    /\ UNCHANGED <<given, net, timer, quiet, past>>

\* setup_socket and setup_endpoints, then start_forwarding_from_host,
\* which lets vmnet queue events.
StartFromHost ==
    /\ Alive /\ pc = "setup"
    /\ iface' = "watched"
    /\ pc' = "start_vm"
    /\ UNCHANGED <<start, signal, shutdown, main, info, hostQueue, hostBlock, completed,
                   vmLoop, world>>

StartFromVm ==
    /\ Alive /\ pc = "start_vm"
    /\ vmLoop' = "running"
    /\ pc' = "start_timer"
    /\ UNCHANGED <<start, signal, shutdown, main, host, world>>

StartStatsTimer ==
    /\ Alive /\ pc = "start_timer"
    /\ timer' = IF options.stats_interval THEN "armed" ELSE "off"
    /\ pc' = "run"
    /\ UNCHANGED <<given, creds, net, signal, shutdown, main, host, vmLoop, world>>

\* A call that fails in one of these steps: exit(EXIT_FAILURE), which runs the
\* handler when it is registered.
SetupFails ==
    /\ Alive
    /\ \/ pc \in {"block_signals", "watch_signals", "setup"}
       \/ pc = "start_timer" /\ options.stats_interval
    /\ Exits
    /\ UNCHANGED <<start, quiet, past>>

------------------------------------------------------------------------------
\* forward_from_vm ends and tells the main thread (trigger_shutdown).

\* Mutant: the loop ends without an event.
MutantVmEnd(flag) ==
    /\ Alive /\ vmLoop = "running"
    /\ vmLoop' = "ended"
    /\ UNCHANGED <<start, shutdown, pc, signal, main, host, past>>

VmEnd(flag) ==
    /\ Alive /\ vmLoop = "running"
    /\ vmLoop' = "ended"
    /\ shutdown' = flag
    /\ UNCHANGED <<start, pc, signal, main, host, past>>

\* trigger_shutdown cannot add the event: exit(EXIT_FAILURE) on vm.queue.
VmExits ==
    /\ Alive /\ vmLoop = "running"
    /\ vmLoop' = "exit"
    /\ failed' = TRUE
    /\ UNCHANGED <<start, pc, signal, shutdown, main, host, past>>

VmClosed == closed /\ VmEnd(STATUS_STOPPED) /\ UNCHANGED failed

VmFails == VmEnd(STATUS_FAILURE) /\ failed' = TRUE

------------------------------------------------------------------------------
\* run_until_termination: one event ends it, in any order if there are two.

\* Mutant: a signal is logged and the loop goes on.
MutantRunSignaled ==
    /\ Alive /\ pc = "run" /\ signal
    /\ signal' = FALSE
    /\ UNCHANGED <<start, pc, result, shutdown, code, stopAtExit, host, vmLoop, world>>

RunSignaled ==
    /\ Alive /\ pc = "run" /\ signal
    /\ signal' = FALSE
    /\ result' = Result(STATUS_STOPPED)
    /\ pc' = "exit"
    /\ UNCHANGED <<start, shutdown, code, stopAtExit, host, vmLoop, world>>

\* Mutant: any shutdown event is a clean stop.
MutantRunShutdown ==
    /\ Alive /\ pc = "run" /\ shutdown # 0
    /\ result' = Result(STATUS_STOPPED)
    /\ pc' = "exit"
    /\ UNCHANGED <<start, signal, shutdown, code, stopAtExit, host, vmLoop, world>>

RunShutdown ==
    /\ Alive /\ pc = "run" /\ shutdown # 0
    /\ result' = Result(shutdown)
    /\ pc' = "exit"
    /\ UNCHANGED <<start, signal, shutdown, code, stopAtExit, host, vmLoop, world>>

\* The timer is due; it stays due until the main thread takes the event.
TimerFires ==
    /\ Alive /\ timer = "armed"
    /\ timer' = "fired"
    /\ UNCHANGED <<given, creds, net, pc, signal, shutdown, main, host, vmLoop, world>>

\* report_stats, and the loop goes on.
RunTimer ==
    /\ Alive /\ pc = "run" /\ timer = "fired"
    /\ timer' = "armed"
    /\ UNCHANGED <<given, creds, net, pc, signal, shutdown, main, host, vmLoop, world>>

RunFails ==
    /\ Alive /\ pc = "run"
    /\ Exits
    /\ UNCHANGED <<start, quiet, past>>

------------------------------------------------------------------------------
\* exit(), of the main thread or of the one on vm.queue: whoever comes first takes
\* the handler off and runs it; with none left the process ends, also when the other
\* thread is still in it (two calls of exit() are undefined, see CleanStop).

InExit(from, to) ==
    \/ pc = from /\ pc' = to /\ UNCHANGED vmLoop
    \/ vmLoop = from /\ vmLoop' = to /\ UNCHANGED pc

StopInterface ==
    /\ Alive /\ stopAtExit /\ InExit("exit", "stopping")
    /\ stopAtExit' = FALSE
    /\ iface' = "stopping"
    /\ UNCHANGED <<start, signal, shutdown, result, code, info, hostQueue, hostBlock,
                   completed, world>>

\* vmnet_stop_interface fails: the handler returns at once.
StopFails ==
    /\ Alive /\ stopAtExit /\ InExit("exit", "end")
    /\ stopAtExit' = FALSE
    /\ unstopped' = TRUE
    /\ UNCHANGED <<start, signal, shutdown, result, code, host, sent, missed, events,
                   closed, failed>>

\* Mutant: the handler does not wait for the completion.
MutantStopped ==
    /\ Alive /\ InExit("stopping", "end")
    /\ UNCHANGED <<start, signal, shutdown, main, host, world>>

Stopped ==
    /\ Alive /\ completed /\ InExit("stopping", "end")
    /\ completed' = FALSE
    /\ UNCHANGED <<start, signal, shutdown, main, iface, info, hostQueue, hostBlock,
                   world>>

HandlersDone(thread) == thread = "end" \/ (thread = "exit" /\ ~stopAtExit)

\* The process is gone, and its threads with it.
End ==
    /\ Alive
    /\ \/ HandlersDone(pc) /\ code' = result
       \/ HandlersDone(vmLoop) /\ code' = "failure"
    /\ UNCHANGED <<start, pc, signal, shutdown, result, stopAtExit, host, vmLoop, world>>

MainThread ==
    \/ CheckOs \/ BlockSignals \/ WatchSignals
    \/ AcquireNetwork \/ CreateNetwork
    \/ StartInterfaceWithOptions \/ StartInterfaceWithNetwork \/ Started
    \/ AtexitFails \/ KeepPrivileges \/ SetGid \/ SetUid
    \/ StartFromHost \/ StartFromVm \/ StartStatsTimer \/ SetupFails
    \/ RunSignaled \/ RunShutdown \/ RunTimer \/ RunFails

Exit == StopInterface \/ StopFails \/ Stopped \/ End

HostThread == HostStart \/ HostStarted \/ HostStartFailed \/ DrainEnds \/ HostStopped

Next ==
    \/ MainThread \/ HostThread \/ VmClosed \/ VmFails \/ VmExits \/ Exit
    \/ Signal \/ VmClose \/ Event \/ Complete \/ TimerFires

Spec == Init /\ [][Next]_vars

\* The kernel runs the threads, libdispatch its queue, vmnet completes what it
\* was asked, and the drain loop ends (HostForward: when the interface is empty
\* or cannot be read).  The loop on vm.queue sees that the VM closed.
FairSpec ==
    /\ Spec
    /\ WF_vars(CheckOs \/ BlockSignals \/ WatchSignals)
    /\ WF_vars(AcquireNetwork \/ CreateNetwork \/ Started)
    /\ WF_vars(StartInterfaceWithOptions \/ StartInterfaceWithNetwork)
    /\ WF_vars(KeepPrivileges \/ SetGid \/ SetUid)
    /\ WF_vars(StartFromHost \/ StartFromVm \/ StartStatsTimer)
    /\ WF_vars(RunSignaled \/ RunShutdown)
    /\ WF_vars(StopInterface \/ Stopped \/ End)
    /\ WF_vars(HostThread) /\ WF_vars(Complete) /\ WF_vars(VmClosed)
------------------------------------------------------------------------------
TypeOK ==
    /\ pc \in {"check_os", "block_signals", "watch_signals", "acquire", "create",
               "start", "starting", "drop", "setuid", "setup", "start_vm",
               "start_timer", "run", "exit", "stopping", "end"}
    /\ launch \in Launches /\ DOMAIN options = {"network_name", "stats_interval"}
    /\ creds \in [{"euid", "egid", "ruid", "rgid"} -> Ids]
    /\ serialization \in 0..1 /\ network \in {"none", "live", "released"}
    /\ timer \in {"off", "armed", "fired"}
    /\ signal \in BOOLEAN /\ closed \in BOOLEAN
    /\ failed \in BOOLEAN /\ unstopped \in BOOLEAN
    /\ completed \in BOOLEAN /\ stopAtExit \in BOOLEAN
    /\ shutdown \in {0, STATUS_FAILURE, STATUS_STOPPED}
    /\ result \in {"none", "success", "failure"}
    /\ code \in {"none", "success", "failure", "killed"}
    /\ iface \in {"none", "starting", "up", "watched", "stopping", "down"}
    /\ info \in {"none", "interface", "network"}
    /\ hostQueue \in Seq({"started", "start_failed", "packets", "stopped"})
    /\ hostBlock \in {"none", "started", "start_failed", "packets", "stopped"}
    /\ vmLoop \in {"none", "running", "ended", "exit", "stopping", "end"}
    /\ sent \in 0..MaxSignals /\ missed \in 0..sent /\ events \in 0..MaxEvents
    /\ completed => pc = "starting" \/ "stopping" \in {pc, vmLoop}
    /\ pc \in {"exit", "stopping", "end"} => result # "none"

\* Both threads are in exit().
TwoExits == pc \in {"exit", "stopping", "end"} /\ vmLoop \in {"exit", "stopping", "end"}

\* However a helper ended by itself, after a signal, a failure of a step of the setup
\* or of a thread, it has stopped the interface it had started, and not while a
\* callback was still reading from it or waiting to: the completion that
\* stop_host_interface waits for runs behind them on host.queue.  It has not if vmnet
\* or atexit() refused, or if two threads called exit().
CleanStop ==
    code \in {"success", "failure"} /\ ~unstopped /\ ~TwoExits =>
        \/ iface = "none"
        \/ iface = "down" /\ hostBlock = "none" /\ hostQueue = <<>>

\* The exit status tells a stop from a failure: success only after a signal or
\* after the VM closed its end, failure only after something failed, whichever
\* of the two threads was first.
ExitStatus ==
    /\ code = "success" => sent > 0 \/ closed
    /\ code = "failure" => failed

Forwarding == vmLoop # "none" \/ iface = "watched"

\* With --network the interface starts with a network that the broker granted and
\* that is alive, on a system that has the call ("check_os_version() already
\* verified we're on macOS 26+", helper.c:434), the serialization is alive when it
\* is read, both references are given back on every way to the forwarding, and the
\* caller has been told of the network, whatever the broker replied.
NetworkSound ==
    /\ pc = "create" => serialization = 1 /\ major >= 26
    /\ pc \in {"start", "starting"} =>
        network = IF options.network_name THEN "live" ELSE "none"
    /\ Forwarding \/ pc = "exit" => serialization = 0 /\ network # "live"
    /\ Forwarding => info = IF options.network_name THEN "network" ELSE "interface"

\* The starter is a user by an id that sudo tells, or else by the real one.
OfUser(sudo, real) == sudo = "user" \/ (sudo = "unset" /\ real = "user")

\* No packet is forwarded on behalf of a user with the rights of root, nor with the
\* real ids that would give them back, whichever way root came about, sudo or the
\* setuid bit; for the groups as for the user.  SUDO_UID and SUDO_GID are taken at
\* their word: whoever starts the helper with the id of root in them keeps it.
Unprivileged ==
    Forwarding =>
        /\ OfUser(launch.SUDO_UID, launch.ruid) =>
            "root" \notin {creds.euid, creds.ruid}
        /\ OfUser(launch.SUDO_GID, launch.rgid) =>
            "root" \notin {creds.egid, creds.rgid}

\* Whatever ended the loop of vm.queue, the main thread hears of it: a helper
\* that forwards in one direction only does not stay.
NoHalfCable == vmLoop \notin {"none", "running"} ~> ~Alive

\* "Send a SIGTERM or SIGINT signal and wait until child process terminates"
\* (docs/integration.md:340): a signal ends the helper wherever it is, but for one
\* that comes between sigprocmask() and kevent() in setup_kq.
SignalTerminates == sent > missed ~> ~Alive
==============================================================================
