# A TLA+ model of vmnet-helper and vmnet-run

This directory models the two programs of the repository, `vmnet-helper`
(`programs/helper.c`, `programs/options.c`, `broker/client.c`) and `vmnet-run`
(`programs/run.c`), and the script `run` that starts VMs with them (`run`,
`testing/`), checks the models with TLC and proves what matters most with TLAPS.
Every definition is translated from the source; the kernel, Apple's vmnet
framework, libdispatch, the broker and the VM programs appear only as the code
uses them.

    tlc -workers 2 -config MCHostForward.cfg MCHostForward.tla
    tlapm HostForwardProofs.tla

## The system

`vmnet-helper` connects a VM to a vmnet interface: it is an Ethernet cable with
a datagram socket at one end and the interface at the other. `vmnet-run` starts
a helper and a VM program as its children, joined by a socketpair, and takes
both down. Around them, Python scripts (`run`, `testing/`) start VMs for tests.

| Component | State | Operations | What is hard | What makes it correct |
|---|---|---|---|---|
| Forwarding from the host (`packets_available`, `read_from_host`, `write_to_vm`) | the locals of a batch, `host.stats` | a callback on `host.queue` drains the interface in batches and sends each with `sendmsg_x`, then with `write` | the VM's receive buffer is full, a batch is sent in part, the two ways share one retry budget, packets come while the drain ends | order, no repeats, each packet counted once, bounded work for a batch, nothing stays behind |
| Forwarding from the VM (`forward_from_vm`, `read_from_vm`, `write_to_host`) | slots reused for ever, `vm.stats` | a loop on `vm.queue` reads a batch with `recvmsg_x`, or one packet with `read`, and writes it with `vmnet_write` | lengths left in a slot by the batch before, a failure in the middle, the close of the VM | no packet cut, lost, repeated or reordered; a clean end means everything was forwarded |
| Socket and lock file (`create_socket_lockfile`, `create_socket`, exit handlers) | names in the file system, `flock` locks, the handler list | create, lock, replace, remove | several helpers on one path, names removed while another has the file open, kills | one user of the path, who finds its own socket there; nothing left |
| Connecting the client (`wait_for_client`, `connect_socket`) | receive buffer, peer | wait, peek, connect, discard a handshake | packets of other clients already queued, a client that leaves, a signal during the wait | the first client is served, with every frame it sent |
| Life of the helper (`main`, `check_os_version`, `setup_kq`, `start_host_interface`, `drop_privileges`, `run_until_termination`, `stop_host_interface`, `trigger_shutdown`) | kqueue, semaphore, interface, two queues, timer, ids | start, drop root, wait, report, stop | signals at any step, an event racing the end of the VM, callbacks queued before the stop, references owned by two objects | a signal ends it, the interface is stopped first, the exit status is true, nothing is forwarded as root |
| Helper options (`programs/options.c`) | `struct options` | `getopt_long`, checks, defaults | options that need each other | nothing undefined reaches vmnet |
| Supervision (`programs/run.c`) | pids, `terminated`, the process group | fork, exec, wait, terminate, reap | signals between any two steps and before exec | both children end with vmnet-run |
| Descriptors (`create_socketpair`, `start_*`) | three descriptor tables | socketpair, dup2, fork, close | descriptors 0 to 2 closed at the start | each child has its end and only its end |
| Runner options (`parse_options`, `build_helper_argv`) | options, two argument vectors | parse, check, rebuild | two parsers with different rules | the helper runs with what the user asked for |
| Broker client (`broker/client.c`) | one XPC connection, references | one synchronous request | the network belongs to the reply; the error is cut to 32 bits | a network that is given back once, or an error |
| Statistics report (`report_stats`), `stats`, `plot-stats` | the counters | a timer event | counters read while two threads write them | the timer holds up nothing |
| Script (`run`, `testing/`) | processes, image cache, VM files | validate, start, stop, create image | signals between start and `try`, two runs on one cache, a third validator | no process left, no partial image, no option rejected late |

The parts meet at few points, and the modules are split there: the two
directions share only the socket and the interface, both external; the VM
direction reaches the main thread through the shutdown event (`Helper`
abstracts it to "ended with this flag", `VmForward` says when and why); the
socket mode precedes the forwarding and only hands it a connected descriptor;
`vmnet-run` meets the helper through signals, two descriptors and an argument
vector, one module each.

## The modules

**Cable** is the abstract specification of one direction: packets are offered,
then settled in order, by delivery or by loss (`LosslessSpec`: by delivery
only). It models no code.

**HostForward** is the host direction. One action is one system call, so that
the VM may read or close, and vmnet may deliver, between any two: `ReadBatch`,
`ReadEmpty`, `ReadFails` are `vmnet_read`; `FastSend`, `FastMore`, `FastDone`,
`FastRetry`, `FallBack`, `FastFails` are the outcomes of `sendmsg_x`; the
`Slow` actions those of `write`. The variables `count, packets, bytes, i,
retries, fast, slow, drops` are the C locals. `arrived` and `taken` stand for
the packets: the batch in hand is the last `count` taken. `event` is a block
waiting on `host.queue`. The peer's receive buffer holds `Capacity` packets; a
full buffer gives ENOBUFS at once, a closed peer or a packet in `Refused`
another error. vmnet signals when the interface stops being empty and may signal
more often. `BulkForwarding` is `TRUE` in the code (helper.c:164) and only a
debugger makes it `FALSE`.

**VmForward** is the VM direction. Slot k has a buffer, the length of its
iovec and the length of its message. `Receive` cuts each packet to the iovec,
so a length that an earlier batch left there would show. Reads fail and the
peer closes at any time; `vmnet_write` takes a whole batch or fails.

**SocketLock** is any number of helpers started for one path. A lock file is
named after the process that created it, so that a name removed and made again
is another file. `open(O_EXLOCK)` is two steps, as it is in the kernel: it looks
up or creates the file, then locks it. Kills drop the lock and keep the names.
`raced` records that a process locked a file whose name was removed in between:
the code does not look whether the file it locked is still the one at the path.
Any call may fail; when it is the `atexit` after the lock (`LocksOnly`), the name
of the lock file stays, as after a crash.

**ClientConnect** follows one helper from `wait_for_client` to its forwarding
loop while clients send, leave, and a signal arrives. `connect()` leaves what
is queued in place; the kernel refuses packets of other senders from then on.

**Helper** is the process with `--fd`: main thread, `host.queue` (serial, in
order), the loop on `vm.queue`, the kqueue, the semaphore and the timer. It is
started by root, by a user, or with the setuid bit, with any `SUDO_UID` and
`SUDO_GID` in its environment, which is the caller's (`launch`), and with a network
name or without. `setgid` and `setuid` are two steps, each of which needs root.
EVFILT_SIGNAL records what is delivered after it was added: a signal that came
before, blocked, stays pending and unseen. Two threads may call `exit()`, the main
thread and the loop on `vm.queue`, when `trigger_shutdown` cannot add its event
(`VmExits`; it is the end of the thread in VmForward): whoever is first takes the
handler off and runs it. That both are in it at once is undefined in C; the model
then lets the process end at once, and CleanStop sets it aside (`TwoExits`).
**BrokerClient** holds what the client makes of each reply, in status and
references, with `xpc_retain` and `xpc_release` in the order of the code: an object
that was released last cannot be retained. The error, 64 bits in the reply and 32
in the client, is cut to `Word` (16 values); two of the errors do not fit.
`AcquireNetwork` of Helper applies both.

**Runner** is vmnet-run and its two children. A signal sets a flag while
vmnet-run computes and interrupts `waitpid` while it is blocked there. A forked
child has the handlers of vmnet-run until it execs, so it swallows SIGTERM, and
if exec fails it runs the inherited exit handler. `killpg` may fail: then
`terminate_process_group` returns without waiting (`unsignaled`). A SIGINT while it
waits in `wait()` ends its loop (`interrupted`). vmnet-run may be killed.
SIGSTOP and a `kill` of the group by others are left out. **Descriptors** holds
the operators of its descriptor tables; Runner has one table per process, copied
by fork, so that the close of a child and the fork of its sibling interleave. The
helper sees the end of the file when no living process holds the command's end.

**RunnerOptions** composes the script's checks (`testing/validate.py`) and
argument vectors, the option parser of vmnet-run, the construction of the
helper's arguments and the option parser of the helper. An option is unset, set,
good, bad (rejected by the parser of that option) or an operation mode. The path of
the socket follows from the name of the VM: it is short or too long for an address,
which only the helper's `parse_socket` looks at. vmnet-run may get no command.

**TestRun** is several runs of the script, each for a VM of its own, with the
steps of `Helper`, `VM`, `create_disk` and `create_image`. A signal raises
SystemExit at any step; `Unwind` says which `finally` or `except` runs next. The
cache is one image: `path` (none, partial, converted, whole) and the download
next to it. The helper and the VM are external.

**HostForwardProofs**, **VmForwardProofs**, **SocketLockProofs**,
**ClientConnectProofs**, **HelperProofs**, **RunnerProofs**,
**RunnerOptionsProofs**, **TestRunProofs** hold the theorems; the `MC` modules hold values of constants and symmetry.

## The runs

| Run | Bounds | What it shows |
|---|---|---|
| MCHostForward | 5 packets, batches of 3, 2 retries, a buffer of 2, one refused packet, one read failure | counters exact at every step, no packet stranded without a callback, one retry budget for both ways, every step a step of the cable, every packet settled |
| MCVmForward | 5 packets of 1 to 5 bytes, 2 slots of 3 bytes | no stale length, exact counters, lossless cable, clean end, progress |
| MCSocketLock | 4 helpers | exclusion, own socket, nothing left, unless `raced` or a handler could not be registered |
| MCSocketLockRaced | 3 helpers | **violated**: two helpers on one path |
| MCClientConnect | 2 clients, 2 packets each, a queue of 3 | the first client is served completely, its handshake never forwarded, a signal ends the wait |
| MCClientConnectOther | the same | **violated**: a packet of another client is forwarded |
| MCHelper | 2 signals, 2 vmnet events, every reply of the broker, a user and three environments for root and for the setuid bit, in which each of `SUDO_UID` and `SUDO_GID` is unset, a user and root (`MCLaunches`) | clean stop, true exit status, references and network sound, nothing forwarded as root for a user, no half cable, signals end it |
| MCRunner | SIGTERM, SIGINT and SIGKILL, 2 signals, descriptors 0 to 6 with every set of 0 to 4 open | each child has its end and only that, vmnet-run outlives its children or, when a Control-C ended its wait, has asked them to end; it ends when asked or with its command, but for the two windows below and a failing `killpg`; no helper is orphaned |
| MCRunnerEarlySignal | one SIGTERM | **violated**: a signal before `waitpid` blocks is forgotten |
| MCRunnerOptions | every combination of options, of vmnet-run and of the script | options reach the helper unchanged; what it accepts is defined; what the script lets through is not rejected later, but for `--network`, the interval and a socket path that is too long |
| MCRunnerOptionsNetwork | the same | **violated**: `run --network` always ends with a rejected option |
| MCTestRun | 2 runs of one kind of connection, 2 signals, kills and failing calls anywhere | no disk from a part of an image, no process left by an orderly end, a run ends with its helper as with its VM, but for the windows below |

Why the bounds are enough. Five packets in batches of three with room for two
and two retries make a batch that is sent in part, retried, goes over to
`write`, exhausts its budget and drops, with another batch after it; the sizes
of `MCOctets` are such that two different sets of packets never weigh the same.
In VmForward short, long and oversized packets alternate over two slots, so
each slot sees a long one after a short one. The lock needs three helpers to
go wrong (one leaves, one has the old file open, one makes the new file) and
is checked with four. Two signals are a signal and its repetition. Seven
descriptors leave room for every combination of 0 to 4 closed. Two runs of the
script meet only in the image cache, where kinds of connection do not matter, so
they are of one kind; two signals are one that is handled and one in the cleanup.
MCHelper leaves out other combinations of `SUDO_UID` and `SUDO_GID`, which are read
one by one, each for its own id; the theorems hold for every set of launches.

`CHECK_DEADLOCK FALSE` is set everywhere because every program ends, and because
the environment stops at the bounds.

## Fairness

Weak fairness of the threads the kernel and libdispatch run: the host thread,
the VM loop, the main thread, whichever thread is in `exit()`, the completion
handlers vmnet was asked for.
No fairness for signals, failing calls, clients, or the VM: it need never read
its socket (MCHostForward holds without it). In Runner a child that is asked to
end does end; it need not end by itself. In TestRun each run goes on, with failing
calls among its steps, and a process that is asked to end does; that either child
ends by itself is never assumed. `CableLiveness` assumes that
`vmnet_read` does not fail: a failure ends the block with packets left, and the
next event need not come.

## What the checks found

* `wait_for_command` (run.c:526-558) tests `terminated` only after `waitpid`
  was interrupted. A SIGTERM between `setup_signals` and `waitpid` is forgotten,
  and vmnet-run waits on (MCRunnerEarlySignal).
* A second window: SIGTERM sent by `terminate_process_group` to a child between
  fork and exec is swallowed by the inherited handler, and vmnet-run waits for
  it for ever. `lost` records these children; StopsUnlessMissed shows that
  there is no third window, leaving aside a `killpg` that fails.
* `terminate_process_group` takes every failure of `wait` for the end of the
  children (run.c:465): a Control-C then, also the first one if the command had
  ended by itself, ends vmnet-run before its children, after it has said that they have
  terminated (`interrupted`). OutlivesChildren shows that they have been asked to end by then. When `killpg`
  fails with anything but ESRCH it returns without waiting (run.c:458-461).
* `create_socketpair` leaves the originals of `dup2` open. They are 3 and 4 when
  0 to 2 are open; otherwise `socketpair` returns a closed standard descriptor
  and both children inherit the ends: OneOwner is conditional on `fds`, and `Leaked`
  names the case in which even the end of the VM goes unseen.
* `run --network NAME` cannot work: `--shared-interface` has a default, which the
  script passes with it, and the programs reject the two together
  (MCRunnerOptionsNetwork).
* Two runs that create the same image at once share the download file, and one
  can clone the image that the other is still converting: without `spoiled`,
  DiskWhole fails with no signal and no failing call.
* A signal at one of the steps in `Uncovered` of TestRun, after `Popen` and before
  the `try`, or in `stop`, leaves a helper or a VM behind.
* `connect` does not remove packets of other clients already queued
  (MCClientConnectOther).
* Removing the lock file on exit breaks the lock: a helper that opened the file
  before it was removed locks a file nobody else will find (MCSocketLockRaced).
  `ExclusiveUnlessRaced`, proved, says that there is no other way.
* A signal between `sigprocmask` and `kevent` in `setup_kq` is never seen:
  `missed` in Helper, which SignalTerminates sets aside.
* vmnet-run lets a bad `--stats-interval` and a part of the addresses through;
  the helper rejects them and exits, after the command was started
  (`pc = "helper_exit"` is reachable in RunnerOptions). The script takes any integer
  for the interval, which ScriptSuffices sets aside.
* The socket path grows with the name of the VM, and no check of the script limits it:
  with a long name the helper rejects the path (options.c:112-115). ScriptSuffices
  sets it aside too (`LongPath`).
* `SUDO_UID` and `SUDO_GID` are taken at their word, also from a user who starts the
  helper through the setuid bit (options.c:347-361): Unprivileged says what holds,
  that a user whose id they tell, or who does not set them, is not served as root.

## What is proved

TLAPS proves, for every value of the constants:

* **HostForwardProofs**. `IInv` adds to the type invariant what the locals hold
  in the middle of a batch: the fast way has sent a proper prefix, the slow
  way has settled every packet before `i`; counters plus locals account for every
  packet and byte (`StatsExact` holds between the system calls only with the
  locals added); all of `wire` is below the next packet to be sent; the number
  of calls is bounded by what was settled plus the retries used. From it:
  `TypeCorrect`, `ExactStatistics`, `OrderedDelivery`, `BoundedBatches`, and
  `NoLostWakeup`: an idle drain with packets in the interface and no callback
  waiting means that a read failed. And
  `ImplementsCable`: every step of the thread is a step of Cable or a stutter,
  under `offered <- arrived` and `settled <- Handled`.
* **SocketLockProofs**. `IInv`: handlers fit the program counter, always; and
  until a process locks a removed file: who uses the path holds the lock of the
  file the name refers to, and who holds that lock uses the path; a file that
  was never opened is not locked; who has bound and not removed the socket is
  its owner; without crashes, names exist only while somebody has still to
  remove them. Mutual exclusion alone is not inductive: without "the name still leads
  to my file" the next helper would make a file of its own. From it:
  `TypesHold`, `ExclusiveAccess`, `SocketIsOwn`, `LeavesNothing`, for any number of helpers.
* **VmForwardProofs**. `IInv`: the batch in hand is the last `count` packets taken,
  each with its own length in `len`; `out` is all packets before it, in order and
  uncut; a batch is in hand only between a read and its write. The lengths in
  `iov` need no invariant: each read resets them and each write sets them, which is
  what makes the code right. From it `NothingCut`, `EndsClean` and
  `ImplementsLossless`, the step to `Cable!LosslessSpec`. `StatsExact` is a
  sum over a sequence that grows by a batch: `SumOfInterval` and `SumJoins` say that
  the sum of a function on an interval is the sum of its two parts, and that only
  its values matter. `TypeInvariance` needs the same invariant for the counters.
* **ClientConnectProofs**. `IInv`: packets of one client are queued in order and
  only its first can be short; the head of the queue is the same packet from the
  peek to the read; when serving, the first packet read, or the next, is the
  client's and no packet of it in the queue is short. From it `HandshakeStays` and
  `FirstServed`. `Complete` says of every client, not only of the one served, that its
  packets in `Stream` (dropped, forwarded and queued) are those it sent, each once and
  in order: who is served is known late. With `Dropped` it gives `NothingMissed`.
* **HelperProofs**. `IInv` says for each step of the main thread what can be on
  `host.queue`: nothing, packets, or packets and behind them the one completion
  the thread waits for. CleanStop is not inductive without it: the semaphore has
  to belong to the completion that was queued last. It says the same of the thread
  on `vm.queue` when that one is in `exit()`. Further: who can still be root, group
  before user, which references are held, and what `result` and `shutdown` go back to.
  From it `StopsCleanly`, `StatusIsTrue`, `NetworkIsSound`, `ForwardsUnprivileged`.
  `Recorded` says that a signal the kqueue watched for, and the end of vm.queue's
  loop, stay in the kqueue until the main thread has left `run`; with `IInv` it gives `NeverWaitsInVain`, the safety part of NoHalfCable and
  SignalTerminates. `TypeCorrect` adds the values of the other variables.
* **RunnerProofs**. `IInv` follows both ends through the tables of the three
  processes, where they are and, when `socketpair` returned 3 and 4, that they are
  nowhere else. `LowestFree` is why the two moves cannot overwrite each other. Its part
  `Asked` says of a vmnet-run in `wait` that no child is still running that the
  SIGTERM was not lost on, so that OutlivesChildren holds when a Control-C comes there.
  From it `EndsInPlace`, `EachEndOwned`, `ChildrenEndFirst`, and, with `Values`
  and `Forked`, `TypeCorrect`.
* **RunnerOptionsProofs**. The vector is `FlattenSeq` of one piece for each option.
  Lemmas about any sequences say where each starts in the whole, that they do not
  overlap and cover it; `LaidOut` says it for any order that lists every option once,
  and `OrdersList` that `Order` and `ScriptOrder` do. The invariant `Inv` then says how
  far the helper is: `optind` is at the beginning of a piece (`Reached`), the options
  whose pieces begin before it are those it has (`HasRead`), and what the script had
  checked still holds of the options (`Route`). Faithful alone is not inductive: it
  speaks of the end, and a helper that is one element off would go on. From it
  `TypeCorrect`, `StaysInStep` (the helper never takes an argument for an option, nor
  looks for one beyond the vector), `OptionsReachHelper`, `DescriptorComplete` and
  `ScriptIsEnough`. RunnerOptions has no parameter, so TLC sees all its states; the
  proofs say why it holds, for every order of the options.
* **TestRunProofs**. `IInv` says for each step of a run which of its processes it
  has started and asked to end and, while nothing spoiled the cache, that one run
  at a time makes the image and what its step makes of `path` and `tmp`: in
  particular a path that is taken for an image is whole unless its maker is still
  there. From it `NothingLeftRunning` and `DisksAreWhole`, for any number of runs.

All invariants were first checked by TLC. The assumptions of the proofs are
the ASSUMEs of the modules, which TLC evaluates. Every invariant that a passing run
checks is a theorem, and so are the action properties and both refinements.

Induction. The library's theorems of induction take an operator, which the provers
cannot instantiate. Where a proof needs induction over numbers (sums, prefixes of
sequences) it is stated for a set instead: `NatSets`, proved from the well-foundedness
of `<` (`WFMin`, `NatLessThanWellFounded`), and then used with the set of the numbers
for which a fact holds. The recursive functions inside `SumFunction` and `FlattenSeq`
are shown to exist in the same way (`IterExists`, `PrefixExists`).

Only model-checked: all liveness, that is CableLiveness, Forwards, SignalEnds,
NoHalfCable, SignalTerminates, StopsUnlessMissed, EndsWithCommand, NoOrphanHelper and
EndsTogether, which is out of the prover's reach, as is ENABLED.

## What is not modelled

The contents of `report_stats` (a data race on plain counters, for display only)
and the tools that read them, logging, the sysctl of the version check,
`sendmsg_x` declarations, usage texts, build and installation. Of the scripts: the
kernel and initrd images of qemu and the cidata ISO, ssh configuration, MAC
addresses, benchmarks. `vmnet_write` taking a part of a batch, empty
datagrams and `vmnet_start_interface` returning NULL without calling its handler
depend on a framework this repository does not contain.

## The plan

In order of importance; what stands is marked.

1. [x] Cable, HostForward and its proofs: the data path with the retries.
2. [x] VmForward and its proofs, with the step to the lossless cable.
3. [x] SocketLock and its proofs.
4. [x] ClientConnect, Helper, BrokerClient and their proofs.
5. [x] Runner with Descriptors, and its proofs; RunnerOptions with the script
   and its proofs.
6. [x] TestRun and its proofs: the runs of the script and the image cache.
7. [ ] A VM that is started again by a next run: the cidata ISO, the boot console
   and the disk it finds.
