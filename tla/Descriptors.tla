----------------------------- MODULE Descriptors -----------------------------
(***************************************************************************)
(* How vmnet-run makes the two ends of its socketpair: create_socketpair   *)
(* moves them to descriptors 3 and 4, whatever descriptors the process was *)
(* started with (programs/run.c).  A descriptor table is a function from   *)
(* descriptors to what they refer to; Runner has one for each process.     *)
(***************************************************************************)
EXTENDS Integers, FiniteSets, FiniteSetsExt

CONSTANT MaxFd   \* bound: the highest descriptor looked at

ASSUME FdAssumption == MaxFd \in Nat /\ MaxFd >= 6

HELPER_FD == 3
COMMAND_FD == 4

Fd == 0..MaxFd

\* What a descriptor refers to: nothing, an inherited file, or an end of the pair.
Target == {"closed", "file", "helper_end", "command_end"}

Close(table, d) == [table EXCEPT ![d] = "closed"]

Free(table) == {d \in Fd : table[d] = "closed"}

Dup2(table, from, to) == [table EXCEPT ![to] = table[from]]

Holds(table, end) == \E d \in Fd : table[d] = end

\* The table vmnet-run is started with; it is a problem of its user's if a
\* standard descriptor is closed.
Inherited == {[d \in Fd |-> IF d \in open THEN "file" ELSE "closed"] :
                 open \in SUBSET (0..4)}

\* close(3) and close(4), "so socketpair() can reuse them".
MakeRoom(table) == Close(Close(table, HELPER_FD), COMMAND_FD)

\* socketpair() takes the two lowest free descriptors.
Socketpair(table) ==
    LET first == Min(Free(table)) IN <<first, Min(Free(table) \ {first})>>

Opened(table, fds) ==
    [table EXCEPT ![fds[1]] = "helper_end", ![fds[2]] = "command_end"]

\* Mutant: the helper's end is moved first.
MutantInPlace(table, fds) ==
    Dup2(Dup2(table, fds[1], HELPER_FD), fds[2], COMMAND_FD)

\* dup2() of the command's end, then of the helper's; their originals stay open.
InPlace(table, fds) ==
    Dup2(Dup2(table, fds[2], COMMAND_FD), fds[1], HELPER_FD)
==============================================================================
