------------------------------ MODULE SocketLock -----------------------------
(***************************************************************************)
(* Several vmnet-helper processes started with the same --socket.  Each    *)
(* takes the lock file, replaces the socket at the path, serves, and on    *)
(* exit runs its atexit handlers in reverse order of registration          *)
(* (create_socket_lockfile, create_socket, remove_socket_silently and      *)
(* remove_socket_lockfile in programs/helper.c).  A process may be killed  *)
(* at any point; the kernel then drops its lock and nothing else.          *)
(*                                                                         *)
(* Files are told apart from their names: the lock file a process creates  *)
(* is named after the process, so a name that was removed and created      *)
(* again refers to another file while the old one may still be locked.     *)
(***************************************************************************)
EXTENDS Integers, Sequences

CONSTANTS
    Helper,      \* bound: the processes of a behaviour; each runs once
    None

ASSUME HelperAssumption == None \notin Helper

VARIABLES
    pc,         \* what each process is about to do
    handlers,   \* its atexit handlers, the last registered last
    fd,         \* the lock file it has open
    lockfile,   \* the file that the name options.socket.lock refers to
    holder,     \* who locks each lock file
    socket,     \* who bound the socket that the name options.socket refers to
    untidy,     \* history: some process ended without its handlers
    raced       \* history: some process locked a file that was removed

vars == <<pc, handlers, fd, lockfile, holder, socket, untidy, raced>>

files == <<lockfile, holder, socket, untidy, raced>>

Init ==
    /\ pc = [h \in Helper |-> "start"]
    /\ handlers = [h \in Helper |-> <<>>]
    /\ fd = [h \in Helper |-> None]
    /\ lockfile = None
    /\ holder = [f \in Helper |-> None]
    /\ socket = None
    /\ untidy = FALSE /\ raced = FALSE

Goto(h, where) == pc' = [pc EXCEPT ![h] = where]

\* atexit
Register(h, handler) == handlers' = [handlers EXCEPT ![h] = Append(@, handler)]

\* The file that h gets when it opens the name, creating it if there is none.
Target(h) == IF lockfile = None THEN h ELSE lockfile

------------------------------------------------------------------------------
\* create_socket_lockfile.

\* The lock is free: h has it, and removes the lock file when it exits.
Locks(h, file) ==
    /\ holder[file] = None
    /\ holder' = [holder EXCEPT ![file] = h]
    /\ Register(h, "lockfile")
    /\ Goto(h, "remove")

\* The lock is free, but atexit fails: h exits, and nothing removes the lock file.
LocksOnly(h, file) ==
    /\ holder[file] = None
    /\ holder' = [holder EXCEPT ![file] = h]
    /\ Goto(h, "exit")
    /\ untidy' = TRUE
    /\ UNCHANGED handlers

\* Mutant: the handler is registered before the lock is tried.
MutantLockedOut(h, file) ==
    /\ holder[file] # None
    /\ Register(h, "lockfile")
    /\ Goto(h, "exit")
    /\ UNCHANGED holder

\* The lock is taken (O_NONBLOCK): h exits with the handlers it has.
LockedOut(h, file) ==
    /\ holder[file] # None
    /\ Goto(h, "exit")
    /\ UNCHANGED <<handlers, holder>>

\* open() with O_EXLOCK looks up or creates the file, then locks it: in between
\* the name may change hands.
Open(h) ==
    /\ pc[h] = "start"
    /\ lockfile' = Target(h)
    /\ fd' = [fd EXCEPT ![h] = Target(h)]
    /\ Goto(h, "lock")
    /\ UNCHANGED <<handlers, holder, socket, untidy, raced>>

Lock(h) ==
    /\ pc[h] = "lock"
    /\ \/ Locks(h, fd[h]) /\ UNCHANGED untidy
       \/ LocksOnly(h, fd[h])
       \/ LockedOut(h, fd[h]) /\ UNCHANGED untidy
    /\ raced' = (raced \/ (holder[fd[h]] = None /\ fd[h] # lockfile))
    /\ UNCHANGED <<fd, lockfile, socket>>

------------------------------------------------------------------------------
\* create_socket.

\* Remove what an earlier helper left at the path.
RemoveStaleSocket(h) ==
    /\ pc[h] = "remove"
    /\ socket' = None
    /\ Goto(h, "bind")
    /\ UNCHANGED <<handlers, fd, lockfile, holder, untidy, raced>>

Bind(h) ==
    /\ pc[h] = "bind" /\ socket = None
    /\ socket' = h
    /\ Goto(h, "chmod")
    /\ UNCHANGED <<handlers, fd, lockfile, holder, untidy, raced>>

\* open, socket, remove or bind fails, as bind does when the name exists: h
\* exits with the handlers it has.
SetupFails(h) ==
    /\ pc[h] \in {"start", "remove", "bind"}
    /\ Goto(h, "exit")
    /\ UNCHANGED <<handlers, fd, files>>

\* Mutant: the socket is removed by the first handler registered, so last.
MutantPublish(h) ==
    /\ pc[h] = "chmod" /\ socket # None
    /\ handlers' = [handlers EXCEPT ![h] = <<"socket">> \o @]
    /\ Goto(h, "serve")
    /\ UNCHANGED <<fd, files>>

\* Mutant: no handler removes the socket.
MutantPublishNoHandler(h) ==
    /\ pc[h] = "chmod" /\ socket # None
    /\ Goto(h, "serve")
    /\ UNCHANGED <<handlers, fd, files>>

\* chmod and atexit; then h waits for its client and serves it.
Publish(h) ==
    /\ pc[h] = "chmod" /\ socket # None
    /\ Register(h, "socket")
    /\ Goto(h, "serve")
    /\ UNCHANGED <<fd, files>>

\* chmod or atexit fails: h exits, and no handler removes the socket it bound.
PublishFails(h) ==
    /\ pc[h] = "chmod"
    /\ Goto(h, "exit")
    /\ untidy' = TRUE
    /\ UNCHANGED <<handlers, fd, lockfile, holder, socket, raced>>

------------------------------------------------------------------------------
\* The end of a process.

Stop(h) ==
    /\ pc[h] = "serve"
    /\ Goto(h, "exit")
    /\ UNCHANGED <<handlers, fd, files>>

\* exit() runs the handler registered last; both remove by name.
RunHandler(h) ==
    /\ pc[h] = "exit" /\ handlers[h] # <<>>
    /\ LET last == Len(handlers[h])
       IN  /\ \/ /\ handlers[h][last] = "socket"
                 /\ socket' = None
                 /\ UNCHANGED lockfile
              \/ /\ handlers[h][last] = "lockfile"
                 /\ lockfile' = None
                 /\ UNCHANGED socket
           /\ handlers' = [handlers EXCEPT ![h] = SubSeq(@, 1, last - 1)]
    /\ UNCHANGED <<pc, fd, holder, untidy, raced>>

\* The kernel closes the descriptors, which drops the lock.
Unlock(h) == holder' = [f \in Helper |-> IF holder[f] = h THEN None ELSE holder[f]]

Exit(h) ==
    /\ pc[h] = "exit" /\ handlers[h] = <<>>
    /\ Goto(h, "dead")
    /\ Unlock(h)
    /\ UNCHANGED <<handlers, fd, lockfile, socket, untidy, raced>>

\* SIGKILL, or a crash.
Killed(h) ==
    /\ pc[h] # "dead"
    /\ Goto(h, "dead")
    /\ Unlock(h)
    /\ handlers' = [handlers EXCEPT ![h] = <<>>]
    /\ untidy' = TRUE
    /\ UNCHANGED <<fd, lockfile, socket, raced>>

Run(h) ==
    \/ Open(h) \/ Lock(h)
    \/ RemoveStaleSocket(h) \/ Bind(h) \/ SetupFails(h)
    \/ Publish(h) \/ PublishFails(h)
    \/ Stop(h) \/ RunHandler(h) \/ Exit(h)

Next == \E h \in Helper : Run(h) \/ Killed(h)

Spec == Init /\ [][Next]_vars
------------------------------------------------------------------------------
TypeOK ==
    /\ pc \in [Helper -> {"start", "lock", "remove", "bind", "chmod", "serve",
                          "exit", "dead"}]
    /\ handlers \in [Helper -> {<<>>, <<"lockfile">>, <<"lockfile", "socket">>}]
    /\ fd \in [Helper -> Helper \cup {None}]
    /\ lockfile \in Helper \cup {None}
    /\ holder \in [Helper -> Helper \cup {None}]
    /\ socket \in Helper \cup {None}
    /\ untidy \in BOOLEAN /\ raced \in BOOLEAN

\* h is using options.socket, or has still to remove it.
Using(h) ==
    \/ pc[h] \in {"remove", "bind", "chmod", "serve"}
    \/ pc[h] = "exit" /\ handlers[h] # <<>>

\* "Ensures exclusive access to options.socket.  This protects from the user
\* error of creating multiple helpers using the same socket" (helper.c:168).
Exclusive == \A g, h \in Helper : Using(g) /\ Using(h) => g = h

\* Whatever processes start, stop and crash, at most one uses the path, until one
\* locks a lock file that was removed after it had opened it.
ExclusiveUnlessRaced == ~raced => Exclusive

\* The path leads to the helper that serves it: no helper that fails to start,
\* or that is on its way out, takes the socket away from under another one.
OwnSocket == ~raced => \A h \in Helper : pc[h] = "serve" => socket = h

\* When every helper ended by itself neither the socket nor the lock file is left
\* behind, also when some were started while another was serving or exiting.
NothingLeft ==
    (~untidy /\ ~raced /\ \A h \in Helper : pc[h] \in {"start", "dead"})
        => lockfile = None /\ socket = None
==============================================================================
