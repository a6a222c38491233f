------------------------------- MODULE Runner --------------------------------
(***************************************************************************)
(* vmnet-run: it forks and execs the helper and the command, waits for the *)
(* command, and on its way out terminates its process group and reaps its  *)
(* children (programs/run.c, from main on).                                *)
(*                                                                         *)
(* A signal is delivered between two steps of the process it hits: it only *)
(* sets a flag while vmnet-run computes, and interrupts waitpid() while it *)
(* is blocked there.  A forked child has the signal handler and the atexit *)
(* handler of vmnet-run until it execs.                                    *)
(*                                                                         *)
(* The helper also ends by itself, when nobody holds the command's end of  *)
(* the socketpair any more (VmForward).  Who holds it is in the descriptor *)
(* tables of the three processes, which forks copy.                        *)
(***************************************************************************)
EXTENDS Descriptors

CONSTANTS
    Signals,     \* the signals somebody sends: a subset of {"TERM", "INT", "KILL"}
    MaxSignals   \* bound: signals sent in a behaviour

ASSUME SignalAssumption == Signals \subseteq {"TERM", "INT", "KILL"} /\ MaxSignals \in Nat

VARIABLES
    pc,          \* vmnet-run
    terminated,  \* the last signal its handler saw
    child,       \* "none", "forked", "running", "asked" to end, or "ended"
    table,       \* the descriptors of each process
    fds,         \* the array that socketpair() filled
    sent,        \* signals sent so far
    \* history
    lost,        \* the children that the last SIGTERM was lost on
    killed,      \* vmnet-run was killed
    unsignaled,  \* killpg() failed
    interrupted  \* Control-C ended the wait for the children

history == <<lost, killed, unsignaled, interrupted>>
files == <<table, fds>>
vars == <<pc, terminated, child, files, sent, history>>

Child == {"helper", "command"}

Init ==
    /\ pc = "setup"
    /\ terminated = "none"
    /\ child = [c \in Child |-> "none"]
    /\ \E inherited \in Inherited :
        table = [p \in Child \cup {"run"} |->
                    IF p = "run" THEN inherited ELSE [d \in Fd |-> "closed"]]
    /\ fds = <<0, 0>>
    /\ sent = 0
    /\ lost = {}
    /\ killed = FALSE /\ unsignaled = FALSE /\ interrupted = FALSE

------------------------------------------------------------------------------
\* Signals.

\* vmnet-run gets a signal.  At first it has no handler, and dies; in "reap" it
\* ignores SIGTERM, and SIGINT interrupts wait(), which ends the loop that reaps
\* the children.
Deliver(signal) ==
    CASE pc = "setup" ->
            pc' = "dead" /\ UNCHANGED terminated
      [] pc \in {"create", "fork_helper", "forget_helper", "fork_command",
                 "forget_command", "wait", "exit"} ->
            terminated' = signal /\ pc' = pc
      [] pc = "blocked" ->
            terminated' = signal /\ pc' = "exit"
      [] pc = "kill" /\ signal = "INT" ->
            terminated' = signal /\ pc' = pc
      [] pc = "reap" /\ signal = "INT" ->
            terminated' = signal /\ pc' \in {"reap", "dead"}
      [] OTHER -> UNCHANGED <<terminated, pc>>

\* What a signal does to a child: the handler that a forked child inherited sets
\* a flag that exec() forgets; the helper and the command end when asked.
Signaled(state) == IF state = "running" THEN "asked" ELSE state

SignalChildren(states) == [c \in Child |-> Signaled(states[c])]

MaySend ==
    /\ sent < MaxSignals
    /\ pc # "dead"

\* "launchctl stop", or kill: SIGTERM to vmnet-run alone.
Terminate ==
    /\ "TERM" \in Signals /\ MaySend
    /\ Deliver("TERM")
    /\ sent' = sent + 1
    /\ UNCHANGED <<child, files, history>>

\* Control-C: SIGINT to the process group.
Interrupt ==
    /\ "INT" \in Signals /\ MaySend
    /\ Deliver("INT")
    /\ child' = SignalChildren(child)
    /\ interrupted' = (interrupted \/ (pc = "reap" /\ pc' = "dead"))
    /\ sent' = sent + 1
    /\ UNCHANGED <<files, lost, killed, unsignaled>>

\* SIGKILL, or a crash: no handler runs.
Kill ==
    /\ "KILL" \in Signals /\ MaySend
    /\ pc' = "dead"
    /\ killed' = TRUE
    /\ sent' = sent + 1
    /\ UNCHANGED <<terminated, child, files, lost, unsignaled, interrupted>>

------------------------------------------------------------------------------
\* vmnet-run.

\* setup_signals, become_process_group_leader, and the atexit handler; a call that
\* fails exits before there is a handler to run.
Setup ==
    /\ pc = "setup"
    /\ pc' \in {"create", "dead"}
    /\ UNCHANGED <<terminated, child, files, sent, history>>

\* create_socketpair.
CreateSocketpair ==
    /\ pc = "create"
    /\ LET room == MakeRoom(table["run"]) IN
        /\ fds' = Socketpair(room)
        /\ table' = [table EXCEPT !["run"] = InPlace(Opened(room, fds'), fds')]
    /\ pc' \in {"fork_helper", "exit"}
    /\ UNCHANGED <<terminated, child, sent, history>>

\* Mutant: a failed fork() is not noticed.
MutantFork(c, from, to) ==
    /\ pc = from
    /\ pc' = to
    /\ \/ /\ child' = [child EXCEPT ![c] = "forked"]
          /\ table' = [table EXCEPT ![c] = table["run"]]
       \/ UNCHANGED <<child, table>>
    /\ UNCHANGED <<terminated, fds, sent, history>>

\* start_helper and start_command, up to fork().
Fork(c, from, to) ==
    /\ pc = from
    /\ \/ /\ child' = [child EXCEPT ![c] = "forked"]
          /\ table' = [table EXCEPT ![c] = table["run"]]
          /\ pc' = to
       \/ pc' = "exit" /\ UNCHANGED <<child, table>>   \* fork fails
    /\ UNCHANGED <<terminated, fds, sent, history>>

StartHelper  == Fork("helper", "fork_helper", "forget_helper")
StartCommand == Fork("command", "fork_command", "forget_command")

\* Mutant: vmnet-run keeps the end it gave away.
MutantForget(fd, from, to) ==
    /\ pc = from
    /\ pc' = to
    /\ UNCHANGED <<table, terminated, child, fds, sent, history>>

\* "Forget the helper socket", "Forget the command socket".
Forget(fd, from, to) ==
    /\ pc = from
    /\ table' = [table EXCEPT !["run"] = Close(@, fd)]
    /\ pc' = to
    /\ UNCHANGED <<terminated, child, fds, sent, history>>

ForgetHelper  == Forget(HELPER_FD, "forget_helper", "fork_command")
ForgetCommand == Forget(COMMAND_FD, "forget_command", "wait")

\* waitpid: it blocks while the command lives, whatever "terminated" says.
Block ==
    /\ pc = "wait" /\ child["command"] # "ended"
    /\ pc' = "blocked"
    /\ UNCHANGED <<terminated, child, files, sent, history>>

CommandEnded ==
    /\ pc \in {"wait", "blocked"} /\ child["command"] = "ended"
    /\ pc' = "exit"
    /\ UNCHANGED <<terminated, child, files, sent, history>>

\* terminate_process_group, run by exit().
IgnoreTerm ==
    /\ pc = "exit"
    /\ pc' = "kill"
    /\ UNCHANGED <<terminated, child, files, sent, history>>

\* Mutant: only the helper is terminated, not the process group.
MutantKillGroup ==
    /\ pc = "kill"
    /\ child' = [child EXCEPT !["helper"] = Signaled(@)]
    /\ lost' = {c \in Child : child[c] = "forked"}
    /\ pc' = "reap"
    /\ UNCHANGED <<terminated, files, sent, killed, unsignaled, interrupted>>

KillGroup ==
    /\ pc = "kill"
    /\ child' = SignalChildren(child)
    /\ lost' = {c \in Child : child[c] = "forked"}
    /\ pc' = "reap"
    /\ UNCHANGED <<terminated, files, sent, killed, unsignaled, interrupted>>

\* killpg() fails: terminate_process_group returns, and exit() goes on.
KillGroupFails ==
    /\ pc = "kill"
    /\ pc' = "dead"
    /\ unsignaled' = TRUE
    /\ UNCHANGED <<terminated, child, files, sent, lost, killed, interrupted>>

\* Mutant: one call of wait().
MutantReap ==
    /\ pc = "reap" /\ \E c \in Child : child[c] \in {"none", "ended"}
    /\ pc' = "dead"
    /\ UNCHANGED <<terminated, child, files, sent, history>>

\* wait() until there is no child left.
Reap ==
    /\ pc = "reap" /\ \A c \in Child : child[c] \in {"none", "ended"}
    /\ pc' = "dead"
    /\ UNCHANGED <<terminated, child, files, sent, history>>

------------------------------------------------------------------------------
\* The children.

\* The descriptor a child closes before it execs: the end of the other one.
OtherFd(c) == IF c = "helper" THEN COMMAND_FD ELSE HELPER_FD

\* Mutant: the child inherits both ends.
MutantExec(c) ==
    /\ child[c] = "forked"
    /\ child' = [child EXCEPT ![c] = "running"]
    /\ UNCHANGED <<table, pc, terminated, fds, sent, history>>

Exec(c) ==
    /\ child[c] = "forked"
    /\ child' = [child EXCEPT ![c] = "running"]
    /\ table' = [table EXCEPT ![c] = Close(@, OtherFd(c))]
    /\ UNCHANGED <<pc, terminated, fds, sent, history>>

\* exec fails: the child calls exit(), and so runs the atexit handler that it
\* inherited, which sends SIGTERM to the process group, vmnet-run included, if it can.
ExecFails(c) ==
    /\ child[c] = "forked"
    /\ \/ /\ child' = [SignalChildren(child) EXCEPT ![c] = "ended"]
          /\ Deliver("TERM")
       \/ /\ child' = [child EXCEPT ![c] = "ended"]
          /\ UNCHANGED <<terminated, pc>>
    /\ UNCHANGED <<files, sent, history>>

EndWhenAsked(c) ==
    /\ child[c] = "asked"
    /\ child' = [child EXCEPT ![c] = "ended"]
    /\ UNCHANGED <<pc, terminated, files, sent, history>>

\* A child ends by itself: the guest shuts down, or the helper fails.
End(c) ==
    /\ child[c] = "running"
    /\ child' = [child EXCEPT ![c] = "ended"]
    /\ UNCHANGED <<pc, terminated, files, sent, history>>

Executing == {"running", "asked"}

Alive == {p \in Child \cup {"run"} :
            IF p = "run" THEN pc # "dead" ELSE child[p] \in Executing \cup {"forked"}}

\* Nobody has the command's end any more: the helper reads the end of the file
\* and shuts down.
HelperSeesEnd ==
    /\ child["helper"] = "running"
    /\ \A p \in Alive : ~Holds(table[p], "command_end")
    /\ child' = [child EXCEPT !["helper"] = "asked"]
    /\ UNCHANGED <<pc, terminated, files, sent, history>>

RunnerStep ==
    \/ Setup \/ CreateSocketpair
    \/ StartHelper \/ ForgetHelper \/ StartCommand \/ ForgetCommand
    \/ Block \/ CommandEnded \/ IgnoreTerm \/ KillGroup \/ KillGroupFails \/ Reap

ChildStep(c) == Exec(c) \/ ExecFails(c) \/ EndWhenAsked(c)

Next ==
    \/ RunnerStep
    \/ \E c \in Child : ChildStep(c) \/ End(c)
    \/ HelperSeesEnd
    \/ Terminate \/ Interrupt \/ Kill

Spec == Init /\ [][Next]_vars

\* The kernel runs vmnet-run, and a child up to its exec; the helper and the
\* command end when they are asked to.  Neither need ever end by itself.
FairSpec ==
    /\ Spec
    /\ WF_vars(RunnerStep)
    /\ \A c \in Child : WF_vars(ChildStep(c))
    /\ WF_vars(HelperSeesEnd)
------------------------------------------------------------------------------
TypeOK ==
    /\ pc \in {"setup", "create", "fork_helper", "forget_helper", "fork_command",
               "forget_command", "wait", "blocked", "exit", "kill", "reap", "dead"}
    /\ terminated \in {"none", "TERM", "INT"}
    /\ child \in [Child -> {"none", "forked", "running", "asked", "ended"}]
    /\ table \in [Child \cup {"run"} -> [Fd -> Target]]
    /\ fds \in Fd \X Fd
    /\ sent \in 0..MaxSignals
    /\ lost \subseteq Child
    /\ killed \in BOOLEAN /\ unsignaled \in BOOLEAN /\ interrupted \in BOOLEAN
    /\ pc = "fork_command" => child["helper"] # "none"
    /\ pc \in {"wait", "blocked"} => \A c \in Child : child[c] # "none"

\* The helper finds its end at descriptor 3 and the command its own at 4,
\* whatever descriptors vmnet-run was started with ("Moving fds[1] first to
\* ensure we don't close fds[0]", run.c:421).
RightEnds ==
    /\ child["helper"] \in Executing =>
        table["helper"][HELPER_FD] = "helper_end"
    /\ child["command"] \in Executing =>
        table["command"][COMMAND_FD] = "command_end"

\* "Don't inherit the command socket" (run.c:487), "Don't inherit the helper
\* socket" (run.c:511), "Forget the helper socket" (run.c:496), "Forget the command
\* socket" (run.c:520): each end has one owner, in every interleaving of forks,
\* closes and execs, when vmnet-run is started with its standard descriptors open.
OneOwner ==
    fds = <<HELPER_FD, COMMAND_FD>> =>
        /\ child["helper"] \in Executing => ~Holds(table["helper"], "command_end")
        /\ child["command"] \in Executing => ~Holds(table["command"], "helper_end")
        /\ pc \in {"wait", "blocked"} =>
            \A end \in {"helper_end", "command_end"} : ~Holds(table["run"], end)

\* socketpair() left the command's end at a standard descriptor, where nobody
\* closes it; it takes two closed standard descriptors.
Leaked == fds[2] < HELPER_FD

\* vmnet-run outlives its children, unless it was killed or killpg() failed.  If a
\* Control-C ended the wait for a child, the child was asked to end before, but for
\* one that the SIGTERM came to before its exec(); a Control-C at any other time
\* changes nothing ("terminates both when it exits", docs/architecture.md:81).
OutlivesChildren ==
    pc = "dead" /\ ~killed =>
        \A c \in Child :
            \/ child[c] \in {"none", "ended"}
            \/ unsignaled
            \/ interrupted /\ (child[c] = "asked" \/ c \in lost)

Gone == pc = "dead" /\ \A c \in Child : child[c] \in {"none", "ended"}

\* A signal came before vmnet-run blocked: nothing looks at "terminated" again.
Missed == pc = "blocked" /\ terminated # "none"

\* The SIGTERM for a child came before its exec() and nothing else ends that child:
\* the command, or a helper whose command was never started, since vmnet-run, which
\* waits for it, still holds the command's end, or that holds this end itself.
Swallowed ==
    \/ "command" \in lost
    \/ "helper" \in lost /\ (child["command"] = "none" \/ Leaked)

\* After a signal that can be handled, vmnet-run and its children end, but for two
\* narrow windows, a signal that came before waitpid() blocked and a child that was
\* asked to end before it called exec(), and for a killpg() that fails.
StopsUnlessMissed ==
    sent > 0 ~> (Gone \/ Missed \/ Swallowed \/ killed \/ unsignaled)

\* "launchctl stop cleanly terminates everything" (docs/launchd.md:14): leaving
\* aside a child that had not called exec() and a killpg() that fails, a signal ends
\* vmnet-run and its children, whenever it comes.
StopsWhenAsked == sent > 0 ~> (Gone \/ Swallowed \/ unsignaled)

\* When the VM ends, everything ends, even when vmnet-run was killed before, or
\* its SIGTERM to the helper came before exec().
EndsWithCommand == (child["command"] = "ended" /\ ~Leaked) ~> Gone

\* However vmnet-run ended, no helper stays behind without a VM: with nobody left to
\* signal it, it sees the end of the file, because each process has only its own end
\* of the socketpair.
NoOrphanHelper ==
    (pc = "dead" /\ child["command"] \in {"none", "ended"} /\ ~Leaked)
        ~> child["helper"] \in {"none", "ended"}
==============================================================================
