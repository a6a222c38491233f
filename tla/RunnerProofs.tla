---------------------------- MODULE RunnerProofs -----------------------------
(***************************************************************************)
(* Proofs about Runner for every set of signals and every number of        *)
(* descriptors.  The inductive invariant IInv follows the two ends of the  *)
(* socketpair through the forks, closes and execs, and the children        *)
(* through the steps of vmnet-run.                                         *)
(***************************************************************************)
EXTENDS Runner, TLAPS

States == {"none", "forked", "running", "asked", "ended"}

Tables == [Fd -> Target]

Types ==
    /\ pc \in {"setup", "create", "fork_helper", "forget_helper", "fork_command",
               "forget_command", "wait", "blocked", "exit", "kill", "reap", "dead"}
    /\ child \in [Child -> States]
    /\ table \in [Child \cup {"run"} -> Tables]

\* Which children vmnet-run has made.
Made ==
    /\ pc \in {"setup", "create", "fork_helper"} => child["helper"] = "none"
    /\ pc \in {"setup", "create", "fork_helper", "forget_helper", "fork_command"} =>
        child["command"] = "none"

\* The ends are where the children look for them.
InTheirPlaces ==
    /\ pc \in {"setup", "create"} =>
        \A end \in {"helper_end", "command_end"} : ~Holds(table["run"], end)
    /\ pc \in {"fork_helper", "forget_helper"} =>
        table["run"][HELPER_FD] = "helper_end"
    /\ pc \in {"fork_helper", "forget_helper", "fork_command", "forget_command"} =>
        table["run"][COMMAND_FD] = "command_end"
    /\ child["helper"] \in Executing \cup {"forked"} =>
        table["helper"][HELPER_FD] = "helper_end"
    /\ child["command"] \in Executing \cup {"forked"} =>
        table["command"][COMMAND_FD] = "command_end"

OnlyAt(t, end, d) == \A e \in Fd : t[e] = end => e = d

\* And nowhere else.
OnlyThere ==
    /\ pc \in {"fork_helper", "forget_helper"} =>
        OnlyAt(table["run"], "helper_end", HELPER_FD)
    /\ pc \in {"fork_command", "forget_command", "wait", "blocked"} =>
        ~Holds(table["run"], "helper_end")
    /\ pc \in {"fork_helper", "forget_helper", "fork_command", "forget_command"} =>
        OnlyAt(table["run"], "command_end", COMMAND_FD)
    /\ pc \in {"wait", "blocked"} => ~Holds(table["run"], "command_end")
    /\ child["helper"] = "forked" => OnlyAt(table["helper"], "command_end", COMMAND_FD)
    /\ child["helper"] \in Executing => ~Holds(table["helper"], "command_end")
    /\ child["command"] \in Executing \cup {"forked"} =>
        ~Holds(table["command"], "helper_end")

\* After the SIGTERM to the group, a child that lives was asked to end, or the SIGTERM
\* was lost on it.
Asked ==
    pc \in {"reap", "dead"} /\ ~killed /\ ~unsignaled =>
        \A c \in Child : child[c] \in {"none", "asked", "ended"} \/ c \in lost

IInv ==
    /\ Types /\ Made /\ InTheirPlaces
    /\ fds = <<HELPER_FD, COMMAND_FD>> => OnlyThere
    /\ Asked /\ OutlivesChildren
------------------------------------------------------------------------------
\* socketpair() takes two descriptors no higher than those made free for it.
LEMMA LowestFree ==
    ASSUME NEW t \in Tables, t[HELPER_FD] = "closed", t[COMMAND_FD] = "closed"
    PROVE  \E a \in Fd, b \in Fd :
            /\ Socketpair(t) = <<a, b>>
            /\ a < b /\ a <= HELPER_FD /\ b <= COMMAND_FD
<1> DEFINE free == Free(t)
           first == Min(free)
           second == Min(free \ {first})
<1>1. \A n \in Fd : n \in Nat
  BY FdAssumption DEF Fd
<1>2. HELPER_FD \in free /\ COMMAND_FD \in free /\ free \subseteq Fd
  BY FdAssumption DEF Free, Fd, HELPER_FD, COMMAND_FD
<1>3. ASSUME NEW S, S \subseteq Fd, NEW n \in S, n <= 4
      PROVE  Min(S) \in S /\ \A m \in S : Min(S) <= m
  <2>1. \E low \in S : \A m \in S : low <= m
    <3>1. CASE 0 \in S
      BY <1>1, <1>3, <3>1
    <3>2. CASE 1 \in S /\ 0 \notin S
      BY <1>1, <1>3, <3>2
    <3>3. CASE 2 \in S /\ 0 \notin S /\ 1 \notin S
      BY <1>1, <1>3, <3>3
    <3>4. CASE 3 \in S /\ 0 \notin S /\ 1 \notin S /\ 2 \notin S
      BY <1>1, <1>3, <3>4
    <3>5. CASE 0 \notin S /\ 1 \notin S /\ 2 \notin S /\ 3 \notin S
      BY <1>1, <1>3, <3>5
    <3> QED BY <3>1, <3>2, <3>3, <3>4, <3>5
  <2> QED BY <2>1 DEF Min
<1>4. first \in free /\ first <= HELPER_FD
  BY <1>2, <1>3 DEF HELPER_FD
<1>5. COMMAND_FD \in free \ {first} /\ free \ {first} \subseteq Fd
  BY <1>1, <1>2, <1>4 DEF HELPER_FD, COMMAND_FD
<1>6. second \in free \ {first} /\ second <= COMMAND_FD
  BY <1>3, <1>5 DEF COMMAND_FD
<1>7. first <= second /\ first # second
  BY <1>2, <1>3, <1>6 DEF HELPER_FD
<1>8. Socketpair(t) = <<first, second>>
  BY DEF Socketpair
<1> QED BY <1>1, <1>2, <1>4, <1>6, <1>7, <1>8

\* The moves put the ends at 3 and 4; if socketpair() put them there, nowhere else.
LEMMA MovedInPlace ==
    ASSUME IInv, CreateSocketpair
    PROVE  /\ fds' \in Fd \X Fd
           /\ table'["run"] \in Tables
           /\ table'["run"][HELPER_FD] = "helper_end"
           /\ table'["run"][COMMAND_FD] = "command_end"
           /\ fds' = <<HELPER_FD, COMMAND_FD>> =>
                /\ OnlyAt(table'["run"], "helper_end", HELPER_FD)
                /\ OnlyAt(table'["run"], "command_end", COMMAND_FD)
<1> DEFINE room == MakeRoom(table["run"])
<1>1. HELPER_FD \in Fd /\ COMMAND_FD \in Fd
  BY FdAssumption DEF Fd, HELPER_FD, COMMAND_FD
<1>2. /\ room \in Tables /\ room[HELPER_FD] = "closed" /\ room[COMMAND_FD] = "closed"
      /\ \A d \in Fd : room[d] \notin {"helper_end", "command_end"}
  BY <1>1 DEF MakeRoom, Close, CreateSocketpair, IInv, Types, InTheirPlaces, Holds,
              Tables, Target, HELPER_FD, COMMAND_FD
<1>3. PICK a \in Fd, b \in Fd :
        /\ Socketpair(room) = <<a, b>>
        /\ a < b /\ a <= HELPER_FD /\ b <= COMMAND_FD
  <2> HIDE DEF room
  <2> QED BY <1>2, LowestFree
<1>4. /\ fds' = <<a, b>>
      /\ table'["run"] = InPlace(Opened(room, <<a, b>>), <<a, b>>)
  BY <1>3 DEF CreateSocketpair, IInv, Types
<1>5. fds'[1] = a /\ fds'[2] = b /\ a # b /\ a # COMMAND_FD
  BY <1>3, <1>4, FdAssumption DEF Fd, HELPER_FD, COMMAND_FD
<1>6. table'["run"] =
        [room EXCEPT ![a] = "helper_end", ![b] = "command_end",
                     ![COMMAND_FD] = "command_end", ![HELPER_FD] = "helper_end"]
  <2> HIDE DEF room
  <2> QED BY <1>1, <1>2, <1>4, <1>5 DEF InPlace, Opened, Dup2, Tables, HELPER_FD,
                                       COMMAND_FD
<1> HIDE DEF room
<1>7. table'["run"] \in Tables
  BY <1>2, <1>6 DEF Tables, Target
<1>8. /\ table'["run"][HELPER_FD] = "helper_end"
      /\ table'["run"][COMMAND_FD] = "command_end"
  BY <1>1, <1>2, <1>6 DEF Tables, HELPER_FD, COMMAND_FD
<1>9. ASSUME fds' = <<HELPER_FD, COMMAND_FD>>
      PROVE  /\ OnlyAt(table'["run"], "helper_end", HELPER_FD)
             /\ OnlyAt(table'["run"], "command_end", COMMAND_FD)
  BY <1>1, <1>2, <1>5, <1>6, <1>9 DEF OnlyAt, Tables, HELPER_FD, COMMAND_FD
<1>10. fds' \in Fd \X Fd
  BY <1>3, <1>4
<1> QED BY <1>7, <1>8, <1>9, <1>10
------------------------------------------------------------------------------
\* close() changes one descriptor.
LEMMA Closed ==
    ASSUME NEW t \in Tables, NEW d \in Fd
    PROVE  /\ Close(t, d) \in Tables /\ Close(t, d)[d] = "closed"
           /\ \A e \in Fd : e # d => Close(t, d)[e] = t[e]
BY DEF Close, Tables, Target

\* vmnet-run.
LEMMA RunStep ==
    ASSUME IInv, RunnerStep
    PROVE  IInv'
<1> USE FdAssumption DEF IInv, Types, Made, InTheirPlaces, OnlyThere, Asked,
                         OutlivesChildren, Executing, Child, States, files, history, Holds, OnlyAt,
                         Tables, Target, Fd, HELPER_FD, COMMAND_FD
<1>1. CASE Setup
  BY <1>1 DEF Setup
<1>2. CASE CreateSocketpair
  BY <1>2, MovedInPlace DEF CreateSocketpair
<1>3. CASE StartHelper
  BY <1>3 DEF StartHelper, Fork
<1>4. CASE ForgetHelper
  <2>1. /\ table'["run"] \in Tables /\ table'["run"][HELPER_FD] = "closed"
        /\ \A e \in Fd : e # HELPER_FD => table'["run"][e] = table["run"][e]
    <3>1. /\ table["run"] \in Tables /\ HELPER_FD \in Fd
          /\ table'["run"] = Close(table["run"], HELPER_FD)
      BY <1>4 DEF ForgetHelper, Forget
    <3> HIDE DEF Tables, HELPER_FD, Fd
    <3> QED BY <3>1, Closed
  <2>2. \A c \in Child : table'[c] = table[c]
    BY <1>4 DEF ForgetHelper, Forget
  <2>3. Types' /\ Made' /\ Asked' /\ OutlivesChildren'
    BY <1>4, <2>1, <2>2 DEF ForgetHelper, Forget
  <2>4. InTheirPlaces'
    BY <1>4, <2>1, <2>2 DEF ForgetHelper, Forget
  <2>5. OnlyThere => OnlyThere'
    BY <1>4, <2>1, <2>2 DEF ForgetHelper, Forget
  <2> QED BY <1>4, <2>3, <2>4, <2>5 DEF ForgetHelper, Forget
<1>5. CASE StartCommand
  BY <1>5 DEF StartCommand, Fork
<1>6. CASE ForgetCommand
  BY <1>6 DEF ForgetCommand, Forget, Close
<1>7. CASE Block
  BY <1>7 DEF Block
<1>8. CASE CommandEnded
  BY <1>8 DEF CommandEnded
<1>9. CASE IgnoreTerm
  BY <1>9 DEF IgnoreTerm
<1>10. CASE KillGroup
  BY <1>10 DEF KillGroup, SignalChildren, Signaled
<1>11. CASE KillGroupFails
  BY <1>11 DEF KillGroupFails
<1>12. CASE Reap
  BY <1>12 DEF Reap
<1> QED BY <1>1, <1>2, <1>3, <1>4, <1>5, <1>6, <1>7, <1>8, <1>9, <1>10, <1>11, <1>12
    DEF RunnerStep

\* The children, and what others do to vmnet-run and to them.
LEMMA OtherStep ==
    ASSUME IInv, \/ \E c \in Child : ChildStep(c) \/ End(c)
                 \/ HelperSeesEnd \/ Terminate \/ Interrupt \/ Kill
    PROVE  IInv'
<1> USE FdAssumption DEF IInv, Types, Made, InTheirPlaces, OnlyThere, Asked,
                         OutlivesChildren, Executing, Child, States, files, history, Holds, OnlyAt,
                         Tables, Target, Fd, HELPER_FD, COMMAND_FD
<1>1. ASSUME NEW c \in Child, Exec(c) PROVE IInv'
  <2>1. OtherFd(c) \in Fd
    BY DEF OtherFd
  <2>2. /\ table'[c] \in Tables /\ table'[c][OtherFd(c)] = "closed"
        /\ \A e \in Fd : e # OtherFd(c) => table'[c][e] = table[c][e]
    <3>1. table[c] \in Tables /\ table'[c] = Close(table[c], OtherFd(c))
      BY <1>1 DEF Exec
    <3> HIDE DEF Tables, Fd
    <3> QED BY <2>1, <3>1, Closed
  <2>3. \A p \in (Child \cup {"run"}) \ {c} : table'[p] = table[p]
    BY <1>1 DEF Exec
  <2>4. Types' /\ Made' /\ Asked' /\ OutlivesChildren'
    BY <1>1, <2>2, <2>3 DEF Exec
  <2>5. InTheirPlaces'
    BY <1>1, <2>2, <2>3 DEF Exec, OtherFd
  <2>6. OnlyThere => OnlyThere'
    <3>1. CASE c = "helper"
      <4>1. OnlyThere => ~Holds(table'["helper"], "command_end")
        BY <1>1, <2>2, <3>1 DEF Exec, OtherFd
      <4>2. /\ table'["run"] = table["run"] /\ table'["command"] = table["command"]
            /\ child'["command"] = child["command"] /\ child'["helper"] = "running"
            /\ pc' = pc
        BY <1>1, <2>3, <3>1 DEF Exec
      <4> HIDE DEF IInv, Types, Made, InTheirPlaces, Asked, OutlivesChildren, Holds, OnlyAt
      <4> QED BY <4>1, <4>2
    <3>2. CASE c = "command"
      <4>1. OnlyThere => ~Holds(table'["command"], "helper_end")
        <5>1. OnlyThere => ~Holds(table["command"], "helper_end")
          BY <1>1, <3>2 DEF Exec
        <5>2. \A e \in Fd : table'["command"][e] \in {table["command"][e], "closed"}
          BY <2>2, <3>2
        <5> HIDE DEF IInv, OnlyThere
        <5> QED BY <5>1, <5>2
      <4>2. /\ table'["run"] = table["run"] /\ table'["helper"] = table["helper"]
            /\ child'["helper"] = child["helper"] /\ child'["command"] = "running"
            /\ pc' = pc
        BY <1>1, <2>3, <3>2 DEF Exec
      <4> HIDE DEF IInv, Types, Made, InTheirPlaces, Asked, OutlivesChildren, Holds, OnlyAt
      <4> QED BY <4>1, <4>2
    <3> QED BY <3>1, <3>2
  <2> QED BY <1>1, <2>4, <2>5, <2>6 DEF Exec
<1>2. ASSUME NEW c \in Child, ExecFails(c) PROVE IInv'
  <2>1. CASE child' = [child EXCEPT ![c] = "ended"] /\ UNCHANGED <<terminated, pc>>
    BY <1>2, <2>1 DEF ExecFails
  <2>2. CASE child' = [SignalChildren(child) EXCEPT ![c] = "ended"] /\ Deliver("TERM")
    <3>1. /\ child' \in [Child -> States] /\ child'[c] = "ended"
          /\ \A o \in Child \ {c} : child'[o] = Signaled(child[o])
          /\ child[c] = "forked"
      BY <1>2, <2>2 DEF ExecFails, SignalChildren, Signaled
    <3>2. /\ UNCHANGED <<table, fds, lost, killed, unsignaled, interrupted>>
          /\ pc' = pc \/ (pc = "blocked" /\ pc' = "exit")
      <4>1. pc # "setup"
        BY <1>2 DEF ExecFails
      <4>2. UNCHANGED <<table, fds, lost, killed, unsignaled, interrupted>>
        BY <1>2 DEF ExecFails
      <4>3. pc' = pc \/ (pc = "blocked" /\ pc' = "exit")
        <5>1. CASE pc = "blocked"
          BY <2>2, <5>1 DEF Deliver
        <5>2. CASE pc \in {"kill", "reap", "dead"}
          BY <2>2, <5>2 DEF Deliver
        <5>3. CASE pc \notin {"setup", "blocked", "kill", "reap", "dead"}
          BY <2>2, <5>3 DEF Deliver
        <5> QED BY <4>1, <5>1, <5>2, <5>3
      <4> QED BY <4>2, <4>3
    <3>3. Types' /\ Made' /\ Asked' /\ OutlivesChildren'
      BY <3>1, <3>2 DEF Signaled
    <3>4. InTheirPlaces'
      BY <3>1, <3>2 DEF Signaled
    <3>5. OnlyThere => OnlyThere'
      BY <3>1, <3>2 DEF Signaled
    <3> QED BY <3>2, <3>3, <3>4, <3>5
  <2> QED BY <1>2, <2>1, <2>2 DEF ExecFails
<1>3. ASSUME NEW c \in Child, EndWhenAsked(c) PROVE IInv'
  BY <1>3 DEF EndWhenAsked
<1>4. ASSUME NEW c \in Child, End(c) PROVE IInv'
  BY <1>4 DEF End
<1>5. CASE HelperSeesEnd
  BY <1>5 DEF HelperSeesEnd
<1>6. CASE Terminate
  BY <1>6 DEF Terminate, Deliver, MaySend
<1>7. CASE Interrupt
  BY <1>7 DEF Interrupt, Deliver, MaySend, SignalChildren, Signaled
<1>8. CASE Kill
  BY <1>8 DEF Kill
<1> QED BY <1>1, <1>2, <1>3, <1>4, <1>5, <1>6, <1>7, <1>8 DEF ChildStep

LEMMA InitInv == Init => IInv
<1> SUFFICES ASSUME Init PROVE IInv
  OBVIOUS
<1>1. PICK inherited \in Inherited :
        table = [p \in Child \cup {"run"} |->
                    IF p = "run" THEN inherited ELSE [d \in Fd |-> "closed"]]
  BY DEF Init
<1>2. /\ inherited \in Tables
      /\ \A d \in Fd : inherited[d] \in {"file", "closed"}
  BY DEF Inherited, Tables, Target
<1>3. Types
  BY <1>1, <1>2 DEF Init, Types, Child, States, Tables, Target
<1>4. Made /\ InTheirPlaces /\ Asked /\ OutlivesChildren
  BY <1>1, <1>2 DEF Init, Made, InTheirPlaces, Asked, OutlivesChildren, Holds, Child, Executing
<1>5. OnlyThere
  BY DEF Init, OnlyThere, Child, Executing
<1> QED BY <1>3, <1>4, <1>5 DEF IInv

LEMMA NextInv == IInv /\ [Next]_vars => IInv'
<1> SUFFICES ASSUME IInv, [Next]_vars PROVE IInv'
  OBVIOUS
<1>1. CASE UNCHANGED vars
  BY <1>1 DEF vars, files, history, IInv, Types, Made, InTheirPlaces, OnlyThere,
              Asked, OutlivesChildren, Holds, OnlyAt
<1>2. CASE Next
  BY <1>2, RunStep, OtherStep DEF Next
<1> QED BY <1>1, <1>2

\* The invariant holds in every state of every behaviour.
THEOREM Invariance == Spec => []IInv
<1> QED BY InitInv, NextInv, PTL DEF Spec

\* Whatever descriptors vmnet-run is started with, the dup2() calls of
\* create_socketpair of run.c leave the helper's end at 3 and the command's at 4, and
\* each child finds its own.
THEOREM EndsInPlace == Spec => []RightEnds
<1>1. IInv => RightEnds
  BY DEF IInv, InTheirPlaces, RightEnds
<1> QED BY <1>1, Invariance, PTL

\* In every interleaving of the forks, closes and execs of run.c, and whatever
\* signals come, each end of the socketpair has one owner.
THEOREM EachEndOwned == Spec => []OneOwner
<1>1. IInv => OneOwner
  BY DEF IInv, OnlyThere, OneOwner
<1> QED BY <1>1, Invariance, PTL

\* However many signals come and whichever fork, exec or killpg() failed, vmnet-run
\* leaves no child behind that it has not asked to end: it ends after its children
\* unless it was killed, its killpg() failed, or a Control-C interrupted the wait of
\* terminate_process_group of run.c, and then after the SIGTERM to them.
THEOREM ChildrenEndFirst == Spec => []OutlivesChildren
<1>1. IInv => OutlivesChildren
  BY DEF IInv
<1> QED BY <1>1, Invariance, PTL
------------------------------------------------------------------------------
\* The values of everything that IInv leaves open.
Values ==
    /\ terminated \in {"none", "TERM", "INT"}
    /\ fds \in Fd \X Fd
    /\ sent \in 0..MaxSignals
    /\ lost \subseteq Child
    /\ killed \in BOOLEAN /\ unsignaled \in BOOLEAN /\ interrupted \in BOOLEAN

\* A child that vmnet-run has gone past the fork of was made, and stays made.
Forked ==
    /\ pc \in {"forget_helper", "fork_command", "forget_command", "wait", "blocked"} =>
        child["helper"] # "none"
    /\ pc \in {"forget_command", "wait", "blocked"} => child["command"] # "none"

LEMMA NextValues == IInv /\ Values /\ [Next]_vars => Values'
<1> SUFFICES ASSUME IInv, Values, [Next]_vars PROVE Values'
  OBVIOUS
<1>1. /\ terminated' \in {"none", "TERM", "INT"}
      /\ sent' \in 0..MaxSignals /\ lost' \subseteq Child
  <2>1. CASE \E c \in Child : ExecFails(c)
    <3>1. terminated' \in {"none", "TERM", "INT"}
      BY <2>1 DEF ExecFails, Deliver, Values
    <3> QED BY <2>1, <3>1 DEF ExecFails, Values, history
  <2>2. CASE Terminate
    <3>1. terminated' \in {"none", "TERM", "INT"}
      BY <2>2 DEF Terminate, Deliver, Values
    <3> QED BY <2>2, <3>1, SignalAssumption DEF Terminate, MaySend, Values, history
  <2>3. CASE Interrupt
    <3>1. terminated' \in {"none", "TERM", "INT"}
      BY <2>3 DEF Interrupt, Deliver, Values
    <3> QED BY <2>3, <3>1, SignalAssumption DEF Interrupt, MaySend, Values, history
  <2>4. CASE Kill
    BY <2>4, SignalAssumption DEF Kill, MaySend, Values
  <2>5. CASE KillGroup
    BY <2>5 DEF KillGroup, Values
  <2>6. UNCHANGED <<terminated, sent, lost>>
        \/ (\E c \in Child : ExecFails(c)) \/ Terminate \/ Interrupt \/ Kill \/ KillGroup
    BY DEF Next, RunnerStep, ChildStep, vars, history, Setup, CreateSocketpair,
           StartHelper, StartCommand, Fork, ForgetHelper, ForgetCommand, Forget, Block,
           CommandEnded, IgnoreTerm, KillGroupFails, Reap, Exec, EndWhenAsked, End,
           HelperSeesEnd
  <2> QED BY <2>1, <2>2, <2>3, <2>4, <2>5, <2>6 DEF Values
<1>2. fds' \in Fd \X Fd
  <2>1. CASE CreateSocketpair
    BY <2>1, MovedInPlace
  <2>2. CASE ~CreateSocketpair
    <3>1. fds' = fds
      BY <2>2 DEF Next, RunnerStep, ChildStep, vars, files, Setup, StartHelper,
           StartCommand, Fork, ForgetHelper, ForgetCommand, Forget, Block,
           CommandEnded, IgnoreTerm, KillGroup, KillGroupFails, Reap, Exec, ExecFails,
           EndWhenAsked, End, HelperSeesEnd, Terminate, Interrupt, Kill
    <3> QED BY <3>1 DEF Values
  <2> QED BY <2>1, <2>2
<1>3. killed' \in BOOLEAN /\ unsignaled' \in BOOLEAN
  <2>1. /\ killed' = killed \/ killed' = TRUE
        /\ unsignaled' = unsignaled \/ unsignaled' = TRUE
    BY DEF Next, RunnerStep, ChildStep, vars, history, Setup, CreateSocketpair,
           StartHelper, StartCommand, Fork, ForgetHelper, ForgetCommand, Forget, Block,
           CommandEnded, IgnoreTerm, KillGroup, KillGroupFails, Reap, Exec, ExecFails,
           EndWhenAsked, End, HelperSeesEnd, Terminate, Interrupt, Kill
  <2> QED BY <2>1, Zenon DEF Values
<1>4. interrupted' \in BOOLEAN
  <2>1. CASE Interrupt
    BY <2>1, Zenon DEF Interrupt
  <2>2. CASE ~Interrupt
    <3>1. interrupted' = interrupted
      BY <2>2 DEF Next, RunnerStep, ChildStep, vars, history, Setup, CreateSocketpair,
           StartHelper, StartCommand, Fork, ForgetHelper, ForgetCommand, Forget, Block,
           CommandEnded, IgnoreTerm, KillGroup, KillGroupFails, Reap, Exec, ExecFails,
           EndWhenAsked, End, HelperSeesEnd, Terminate, Kill
    <3> QED BY <3>1, Zenon DEF Values
  <2> QED BY <2>1, <2>2
<1> QED BY <1>1, <1>2, <1>3, <1>4 DEF Values

LEMMA NextForked == IInv /\ Forked /\ [Next]_vars => Forked'
<1> SUFFICES ASSUME IInv, Forked, [Next]_vars PROVE Forked'
  OBVIOUS
<1> USE DEF Forked, IInv, Types, Child, States
<1>1. CASE \/ Setup \/ CreateSocketpair \/ Block \/ CommandEnded \/ IgnoreTerm
           \/ KillGroupFails \/ Reap
  BY <1>1 DEF Setup, CreateSocketpair, Block, CommandEnded, IgnoreTerm, KillGroupFails,
              Reap
<1>2. CASE StartHelper
  BY <1>2 DEF StartHelper, Fork
<1>3. CASE StartCommand
  BY <1>3 DEF StartCommand, Fork
<1>4. CASE ForgetHelper \/ ForgetCommand
  BY <1>4 DEF ForgetHelper, ForgetCommand, Forget
<1>5. CASE KillGroup
  BY <1>5 DEF KillGroup
<1>6. ASSUME NEW c \in Child, Exec(c) \/ EndWhenAsked(c) \/ End(c) PROVE Forked'
  BY <1>6 DEF Exec, EndWhenAsked, End
<1>7. ASSUME NEW c \in Child, ExecFails(c) PROVE Forked'
  BY <1>7 DEF ExecFails, Deliver, SignalChildren, Signaled
<1>8. CASE HelperSeesEnd
  BY <1>8 DEF HelperSeesEnd
<1>9. CASE Terminate
  BY <1>9 DEF Terminate, Deliver
<1>10. CASE Interrupt
  BY <1>10 DEF Interrupt, Deliver, SignalChildren, Signaled
<1>11. CASE Kill
  BY <1>11 DEF Kill
<1>12. CASE UNCHANGED vars
  BY <1>12 DEF vars
<1> QED BY <1>1, <1>2, <1>3, <1>4, <1>5, <1>6, <1>7, <1>8, <1>9, <1>10, <1>11, <1>12
    DEF Next, RunnerStep, ChildStep

\* vmnet-run never waits for a child that it did not make (main of run.c: a fork that
\* fails exits), and socketpair() and the moves of create_socketpair stay within the
\* descriptor table.
THEOREM TypeCorrect == Spec => []TypeOK
<1>1. Init => Values /\ Forked
  <2>1. 0 \in Fd /\ 0 \in 0..MaxSignals
    BY FdAssumption, SignalAssumption DEF Fd
  <2> SUFFICES ASSUME Init PROVE Values /\ Forked
    OBVIOUS
  <2>2. killed \in BOOLEAN /\ unsignaled \in BOOLEAN /\ interrupted \in BOOLEAN
    BY Zenon DEF Init
  <2>3. fds \in Fd \X Fd
    BY <2>1 DEF Init
  <2> QED BY <2>1, <2>2, <2>3 DEF Init, Values, Forked
<1>2. IInv /\ Values /\ Forked => TypeOK
  BY DEF IInv, Types, Values, Forked, Child, States, Tables, TypeOK
<1> QED BY <1>1, <1>2, NextValues, NextForked, Invariance, PTL DEF Spec
==============================================================================
