-------------------------- MODULE SocketLockProofs ---------------------------
(***************************************************************************)
(* Proofs about SocketLock for any number of helpers.  The inductive       *)
(* invariant is IInv; ExclusiveUnlessRaced, OwnSocket and NothingLeft      *)
(* follow from it.                                                         *)
(***************************************************************************)
EXTENDS SocketLock, SequenceTheorems, TLAPS

\* What atexit handlers a process has, by where it is.
HandlersFit ==
    \A h \in Helper :
        /\ pc[h] \in {"start", "lock", "dead"} => handlers[h] = <<>>
        /\ pc[h] \in {"remove", "bind", "chmod"} => handlers[h] = <<"lockfile">>
        /\ pc[h] = "serve" => handlers[h] = <<"lockfile", "socket">>

\* A process that uses the path has locked the file that the name refers to.
UserHasLock ==
    \A h \in Helper :
        Using(h) => fd[h] \in Helper /\ lockfile = fd[h] /\ holder[fd[h]] = h

\* Nobody else has: a process that ends removes the name, or has never locked, unless
\* it locked and could not register the handler.
LockerUses ==
    lockfile # None /\ holder[lockfile] # None =>
        Using(holder[lockfile]) \/ (untidy /\ pc[holder[lockfile]] = "exit")

\* No lock file is named after a process that has not opened one.
FreshFile ==
    \A h \in Helper :
        pc[h] = "start" =>
            lockfile # h /\ holder[h] = None /\ \A g \in Helper : fd[g] # h

\* A process that is about to lock has opened a file.
Opened == \A h \in Helper : pc[h] = "lock" => fd[h] \in Helper

\* From bind() until its handler has run, the socket at the path is its own.
UserHasSocket ==
    \A h \in Helper :
        /\ pc[h] = "bind" => socket = None
        /\ pc[h] \in {"chmod", "serve"} => socket = h

\* Without crashes a file is there only while somebody has still to remove it.
Tidy ==
    ~untidy =>
        /\ lockfile # None =>
            \E h \in Helper : Using(h) \/ (pc[h] = "lock" /\ fd[h] = lockfile)
        /\ socket # None =>
            \E h \in Helper :
                \/ pc[h] \in {"chmod", "serve"}
                \/ pc[h] = "exit" /\ handlers[h] = <<"lockfile", "socket">>

\* What holds until a process locks a file that was removed.
Locked ==
    /\ UserHasLock /\ LockerUses /\ FreshFile /\ Opened
    /\ UserHasSocket /\ Tidy

IInv == TypeOK /\ HandlersFit /\ (~raced => Locked)
------------------------------------------------------------------------------
\* Two short sequences are equal when their elements are.
LEMMA SameShort ==
    ASSUME NEW S, NEW s \in Seq(S), NEW t \in Seq(S), NEW n \in 1..2,
           Len(s) = n, Len(t) = n, s[1] = t[1], n = 2 => s[2] = t[2]
    PROVE  s = t
<1>1. \A i \in 1..Len(s) : s[i] = t[i]
  OBVIOUS
<1> QED BY <1>1, SeqEqual

\* Registering a second handler, and running it.
LEMMA PushSecond == ASSUME NEW a, NEW b PROVE Append(<<a>>, b) = <<a, b>>
<1> DEFINE S == {a, b}
           s == Append(<<a>>, b)
           t == <<a, b>>
<1>1. /\ <<a>> \in Seq(S) /\ b \in S /\ Len(<<a>>) = 1 /\ <<a>>[1] = a
      /\ t \in Seq(S) /\ Len(t) = 2 /\ t[1] = a /\ t[2] = b
  OBVIOUS
<1>2. s \in Seq(S) /\ Len(s) = 2 /\ s[1] = a /\ s[2] = b
  BY <1>1, AppendProperties
<1> HIDE DEF S, s, t
<1>3. s = t
  BY <1>1, <1>2, SameShort
<1> QED BY <1>3 DEF s, t

LEMMA PopSecond ==
    ASSUME NEW a, NEW b
    PROVE  /\ Len(<<a, b>>) = 2
           /\ <<a, b>>[2] = b
           /\ SubSeq(<<a, b>>, 1, 2 - 1) = <<a>>
<1> DEFINE S == {a, b}
           s == SubSeq(<<a, b>>, 1, 1)
           t == <<a>>
<1>1. /\ <<a, b>> \in Seq(S) /\ Len(<<a, b>>) = 2 /\ <<a, b>>[1] = a
      /\ t \in Seq(S) /\ Len(t) = 1 /\ t[1] = a
  OBVIOUS
<1>2. s \in Seq(S) /\ Len(s) = 1 /\ s[1] = a
  BY <1>1, SubSeqProperties
<1> HIDE DEF S, s, t
<1>3. s = t
  BY <1>1, <1>2, SameShort
<1>4. Len(<<a, b>>) = 2 /\ <<a, b>>[2] = b /\ 2 - 1 = 1
  OBVIOUS
<1> QED BY <1>3, <1>4 DEF s, t

LEMMA PopFirst ==
    ASSUME NEW a
    PROVE  /\ Len(<<a>>) = 1
           /\ <<a>>[1] = a
           /\ SubSeq(<<a>>, 1, 1 - 1) = <<>>
<1>1. <<a>> \in Seq({a}) /\ Len(<<a>>) = 1 /\ <<a>>[1] = a
  OBVIOUS
<1>2. SubSeq(<<a>>, 1, 1 - 1) \in Seq({a}) /\ Len(SubSeq(<<a>>, 1, 1 - 1)) = 0
  BY <1>1, SubSeqProperties
<1> QED BY <1>1, <1>2, EmptySeq
------------------------------------------------------------------------------
\* The steps that change the handlers, with the sequences worked out.

LEMMA LocksStep ==
    ASSUME TypeOK, HandlersFit, NEW h \in Helper, pc[h] = "lock",
           Locks(h, fd[h])
    PROVE  /\ handlers' = [handlers EXCEPT ![h] = <<"lockfile">>]
           /\ holder[fd[h]] = None /\ holder' = [holder EXCEPT ![fd[h]] = h]
           /\ pc' = [pc EXCEPT ![h] = "remove"]
<1>1. handlers[h] = <<>>
  BY DEF HandlersFit
<1>2. Append(handlers[h], "lockfile") = <<"lockfile">>
  BY <1>1
<1> QED BY <1>2 DEF Locks, Goto, Register, TypeOK

LEMMA PublishStep ==
    ASSUME TypeOK, HandlersFit, NEW h \in Helper, Publish(h)
    PROVE  /\ pc[h] = "chmod" /\ pc' = [pc EXCEPT ![h] = "serve"]
           /\ handlers' = [handlers EXCEPT ![h] = <<"lockfile", "socket">>]
           /\ UNCHANGED <<fd, lockfile, holder, socket, untidy, raced>>
<1>1. handlers[h] = <<"lockfile">>
  BY DEF HandlersFit, Publish
<1>2. Append(handlers[h], "socket") = <<"lockfile", "socket">>
  BY <1>1, PushSecond
<1> QED BY <1>2 DEF Publish, Goto, Register, files, TypeOK

\* exit() runs the handler registered last: the socket goes before the lock file.
LockfileRemoved(h) ==
    /\ handlers[h] = <<"lockfile">> /\ lockfile' = None
    /\ handlers' = [handlers EXCEPT ![h] = <<>>]
    /\ UNCHANGED socket

SocketRemoved(h) ==
    /\ handlers[h] = <<"lockfile", "socket">> /\ socket' = None
    /\ handlers' = [handlers EXCEPT ![h] = <<"lockfile">>]
    /\ UNCHANGED lockfile

LEMMA HandlerStep ==
    ASSUME TypeOK, NEW h \in Helper, RunHandler(h)
    PROVE  /\ pc[h] = "exit" /\ UNCHANGED <<pc, fd, holder, untidy, raced>>
           /\ LockfileRemoved(h) \/ SocketRemoved(h)
<1>1. CASE handlers[h] = <<"lockfile">>
  <2>1. /\ Len(handlers[h]) = 1 /\ handlers[h][1] = "lockfile"
        /\ SubSeq(handlers[h], 1, 1 - 1) = <<>>
    BY <1>1, PopFirst
  <2>2. "lockfile" # "socket"
    OBVIOUS
  <2> QED BY <1>1, <2>1, <2>2 DEF RunHandler, LockfileRemoved
<1>2. CASE handlers[h] = <<"lockfile", "socket">>
  <2>1. /\ Len(handlers[h]) = 2 /\ handlers[h][2] = "socket"
        /\ SubSeq(handlers[h], 1, 2 - 1) = <<"lockfile">>
    BY <1>2, PopSecond
  <2>2. "lockfile" # "socket"
    OBVIOUS
  <2> QED BY <1>2, <2>1, <2>2 DEF RunHandler, SocketRemoved
<1> QED BY <1>1, <1>2 DEF TypeOK, RunHandler
------------------------------------------------------------------------------
\* At most one process uses the path: two would hold the lock of one file.
LEMMA OneUser == ASSUME UserHasLock PROVE Exclusive
  BY DEF UserHasLock, Exclusive

LEMMA InitInv == ASSUME Init PROVE IInv
  BY HelperAssumption
     DEF Init, IInv, TypeOK, HandlersFit, Locked, UserHasLock, LockerUses,
         FreshFile, Opened, UserHasSocket, Tidy, Using

\* Types, and the handlers of a process, hold whatever happens to the lock.
LEMMA TypeInv ==
    ASSUME TypeOK, HandlersFit, NEW h \in Helper, Run(h) \/ Killed(h)
    PROVE  TypeOK' /\ HandlersFit' /\ (raced => raced')
<1> USE HelperAssumption
<1>1. CASE Open(h)
  BY <1>1 DEF Open, Goto, Target, TypeOK, HandlersFit
<1>2. CASE Lock(h)
  <2>1. CASE Locks(h, fd[h])
    <3>1. pc[h] = "lock"
      BY <1>2 DEF Lock
    <3>2. /\ handlers' = [handlers EXCEPT ![h] = <<"lockfile">>]
          /\ holder[fd[h]] = None /\ holder' = [holder EXCEPT ![fd[h]] = h]
          /\ pc' = [pc EXCEPT ![h] = "remove"]
      BY <2>1, <3>1, LocksStep
    <3>3. /\ UNCHANGED <<fd, lockfile, socket>> /\ untidy' \in BOOLEAN
          /\ raced' = (raced \/ fd[h] # lockfile)
      BY <1>2, <3>2 DEF Lock, LocksOnly, LockedOut, TypeOK
    <3> QED BY <3>1, <3>2, <3>3 DEF TypeOK, HandlersFit
  <2>2. CASE LockedOut(h, fd[h])
    BY <1>2, <2>2 DEF Lock, Locks, LocksOnly, LockedOut, Goto, TypeOK, HandlersFit
  <2>3. CASE LocksOnly(h, fd[h])
    <3>1. /\ pc' = [pc EXCEPT ![h] = "exit"] /\ UNCHANGED <<handlers, fd, lockfile, socket>>
          /\ holder' = [holder EXCEPT ![fd[h]] = h]
          /\ untidy' \in BOOLEAN /\ raced' = (raced \/ fd[h] # lockfile)
      BY <1>2, <2>3 DEF Lock, LocksOnly, Goto, TypeOK
    <3> QED BY <3>1 DEF TypeOK, HandlersFit
  <2> QED BY <1>2, <2>1, <2>2, <2>3 DEF Lock
<1>3. CASE RemoveStaleSocket(h)
  BY <1>3 DEF RemoveStaleSocket, Goto, TypeOK, HandlersFit
<1>4. CASE Bind(h)
  BY <1>4 DEF Bind, Goto, TypeOK, HandlersFit
<1>5. CASE SetupFails(h) \/ Stop(h)
  BY <1>5 DEF SetupFails, Stop, Goto, files, TypeOK, HandlersFit
<1>6. CASE Publish(h)
  BY <1>6, PublishStep DEF TypeOK, HandlersFit
<1>7. CASE PublishFails(h)
  BY <1>7 DEF PublishFails, Goto, TypeOK, HandlersFit
<1>8. CASE RunHandler(h)
  BY <1>8, HandlerStep DEF LockfileRemoved, SocketRemoved, TypeOK, HandlersFit
<1>9. CASE Exit(h) \/ Killed(h)
  BY <1>9 DEF Exit, Killed, Goto, Unlock, TypeOK, HandlersFit
<1> QED BY <1>1, <1>2, <1>3, <1>4, <1>5, <1>6, <1>7, <1>8, <1>9 DEF Run

\* A process opens the lock file, or makes one of its own.
LEMMA OpenInv ==
    ASSUME TypeOK, HandlersFit, Locked, NEW h \in Helper, Open(h) PROVE Locked'
<1> USE HelperAssumption DEF TypeOK, Locked
<1>1. /\ pc[h] = "start" /\ pc' = [pc EXCEPT ![h] = "lock"]
      /\ lockfile' = Target(h) /\ fd' = [fd EXCEPT ![h] = Target(h)]
      /\ UNCHANGED <<handlers, holder, socket, untidy, raced>>
  BY DEF Open, Goto
<1>2. Target(h) \in Helper /\ (lockfile # None => Target(h) = lockfile)
  BY DEF Target
<1>3. \A g \in Helper : Using(g)' <=> Using(g)
  BY <1>1 DEF Using
<1>4. UserHasLock'
  BY <1>1, <1>2, <1>3 DEF UserHasLock, Using
<1>5. LockerUses'
  BY <1>1, <1>2, <1>3 DEF LockerUses, FreshFile, Target
<1>6. FreshFile' /\ Opened'
  BY <1>1, <1>2 DEF FreshFile, Opened, Target
<1>7. UserHasSocket'
  BY <1>1 DEF UserHasSocket
<1>8. Tidy'
  BY <1>1, <1>2 DEF Tidy, Using
<1> QED BY <1>4, <1>5, <1>6, <1>7, <1>8

\* A process locks the file that the name still refers to, or is locked out.
LEMMA LockInv ==
    ASSUME TypeOK, HandlersFit, Locked, NEW h \in Helper, Lock(h), ~raced'
    PROVE  Locked'
<1> USE HelperAssumption DEF TypeOK, Locked
<1>1. pc[h] = "lock" /\ fd[h] \in Helper /\ handlers[h] = <<>>
  BY DEF Lock, Opened, HandlersFit
<1>2. CASE Locks(h, fd[h])
  <2>1. /\ handlers' = [handlers EXCEPT ![h] = <<"lockfile">>]
        /\ holder[fd[h]] = None /\ holder' = [holder EXCEPT ![fd[h]] = h]
        /\ pc' = [pc EXCEPT ![h] = "remove"]
    BY <1>1, <1>2, LocksStep
  <2>2. lockfile = fd[h] /\ UNCHANGED <<fd, lockfile, socket, untidy>>
    BY <1>1, <2>1 DEF Lock, LocksOnly, LockedOut, Goto
  <2>3. \A g \in Helper : ~Using(g)
    BY <2>1, <2>2 DEF UserHasLock
  <2>4. UserHasLock'
    BY <1>1, <2>1, <2>2, <2>3 DEF UserHasLock, Using
  <2>5. LockerUses'
    BY <1>1, <2>1, <2>2 DEF LockerUses, Using
  <2>6. FreshFile' /\ Opened'
    BY <1>1, <2>1, <2>2 DEF FreshFile, Opened
  <2>7. UserHasSocket'
    BY <2>1, <2>2 DEF UserHasSocket
  <2>8. Tidy'
    BY <2>1, <2>2, <2>3 DEF Tidy, Using
  <2> QED BY <2>4, <2>5, <2>6, <2>7, <2>8
<1>3. CASE LockedOut(h, fd[h])
  <2>1. /\ pc' = [pc EXCEPT ![h] = "exit"] /\ holder[fd[h]] # None
        /\ UNCHANGED <<handlers, fd, lockfile, holder, socket, untidy>>
    BY <1>3 DEF LockedOut, Locks, LocksOnly, Lock, Goto
  <2>2. \A g \in Helper : Using(g)' <=> Using(g)
    BY <1>1, <2>1 DEF Using
  <2>3. UserHasLock' /\ LockerUses'
    BY <2>1, <2>2 DEF UserHasLock, LockerUses
  <2>4. FreshFile' /\ Opened' /\ UserHasSocket'
    BY <2>1 DEF FreshFile, Opened, UserHasSocket
  <2>5. Tidy'
    <3>1. fd[h] = lockfile /\ ~untidy =>
            Using(holder[lockfile]) /\ holder[lockfile] \in Helper
      BY <1>1, <2>1 DEF LockerUses
    <3> QED BY <1>1, <2>1, <2>2, <3>1 DEF Tidy
  <2> QED BY <2>3, <2>4, <2>5
<1>4. CASE LocksOnly(h, fd[h])
  <2>1. /\ pc' = [pc EXCEPT ![h] = "exit"] /\ holder[fd[h]] = None
        /\ holder' = [holder EXCEPT ![fd[h]] = h] /\ untidy' = TRUE
        /\ UNCHANGED <<handlers, fd, lockfile, socket>> /\ lockfile = fd[h]
    BY <1>4 DEF LocksOnly, Lock, Goto
  <2>2. \A g \in Helper : ~Using(g) /\ ~Using(g)'
    BY <1>1, <2>1 DEF UserHasLock, Using
  <2>3. UserHasLock' /\ LockerUses'
    BY <1>1, <2>1, <2>2 DEF UserHasLock, LockerUses
  <2>4. FreshFile' /\ Opened' /\ UserHasSocket' /\ Tidy'
    BY <1>1, <2>1 DEF FreshFile, Opened, UserHasSocket, Tidy
  <2> QED BY <2>3, <2>4
<1> QED BY <1>2, <1>3, <1>4 DEF Lock

\* The steps of a process that changes the socket while it uses the path.
LEMMA SocketInv ==
    ASSUME TypeOK, HandlersFit, Locked, NEW h \in Helper,
           RemoveStaleSocket(h) \/ Bind(h) \/ Publish(h) \/ PublishFails(h)
    PROVE  Locked'
<1> USE HelperAssumption DEF TypeOK, Locked, Goto
<1>1. Using(h) /\ handlers[h] = <<"lockfile">>
  BY DEF RemoveStaleSocket, Bind, Publish, PublishFails, Using, HandlersFit
<1>2. \A g \in Helper : g # h => ~Using(g)
  BY <1>1, OneUser DEF Exclusive
<1>3. CASE RemoveStaleSocket(h)
  BY <1>1, <1>2, <1>3
     DEF RemoveStaleSocket, UserHasLock, LockerUses, FreshFile, Opened,
         UserHasSocket, Tidy, Using
<1>4. CASE Bind(h)
  BY <1>1, <1>2, <1>4
     DEF Bind, UserHasLock, LockerUses, FreshFile, Opened, UserHasSocket, Tidy,
         Using
<1>5. CASE Publish(h)
  BY <1>1, <1>2, <1>5, PublishStep
     DEF UserHasLock, LockerUses, FreshFile, Opened, UserHasSocket, Tidy, Using
<1>6. CASE PublishFails(h)
  BY <1>1, <1>2, <1>6
     DEF PublishFails, UserHasLock, LockerUses, FreshFile, Opened, UserHasSocket,
         Tidy, Using
<1> QED BY <1>3, <1>4, <1>5, <1>6

\* The steps on the way out that leave the files alone.
LEMMA EndInv ==
    ASSUME TypeOK, HandlersFit, Locked, NEW h \in Helper,
           SetupFails(h) \/ Stop(h) \/ Exit(h) \/ Killed(h)
    PROVE  Locked'
<1> USE HelperAssumption DEF TypeOK, Locked, Goto, files, Unlock
<1>1. Exclusive
  BY OneUser
<1>2. CASE SetupFails(h)
  <2>1. /\ pc' = [pc EXCEPT ![h] = "exit"] /\ pc[h] \in {"start", "remove", "bind"}
        /\ UNCHANGED <<handlers, fd, lockfile, holder, socket, untidy>>
    BY <1>2 DEF SetupFails
  <2>2. \A g \in Helper : Using(g)' <=> Using(g)
    BY <2>1 DEF Using, HandlersFit
  <2>3. UserHasLock' /\ LockerUses'
    BY <2>1, <2>2 DEF UserHasLock, LockerUses
  <2>4. FreshFile' /\ Opened' /\ UserHasSocket'
    BY <2>1 DEF FreshFile, Opened, UserHasSocket
  <2>5. Tidy'
    BY <2>1, <2>2 DEF Tidy
  <2> QED BY <2>3, <2>4, <2>5
<1>3. CASE Stop(h)
  <2>1. /\ pc[h] = "serve" /\ handlers[h] = <<"lockfile", "socket">>
        /\ pc' = [pc EXCEPT ![h] = "exit"]
        /\ UNCHANGED <<handlers, fd, lockfile, holder, socket, untidy>>
    BY <1>3 DEF Stop, HandlersFit
  <2>2. handlers[h] # <<>>
    BY <2>1
  <2>3. \A g \in Helper : Using(g)' <=> Using(g)
    BY <2>1, <2>2 DEF Using
  <2>4. UserHasLock' /\ LockerUses'
    BY <2>1, <2>3 DEF UserHasLock, LockerUses
  <2>5. FreshFile' /\ Opened' /\ UserHasSocket'
    BY <2>1 DEF FreshFile, Opened, UserHasSocket
  <2>6. Tidy'
    BY <2>1, <2>3 DEF Tidy
  <2> QED BY <2>4, <2>5, <2>6
<1>4. CASE Exit(h)
  BY <1>4
     DEF Exit, HandlersFit, UserHasLock, LockerUses, FreshFile, Opened,
         UserHasSocket, Tidy, Using
<1>5. CASE Killed(h)
  BY <1>5
     DEF Killed, HandlersFit, UserHasLock, LockerUses, FreshFile, Opened,
         UserHasSocket, Tidy, Using
<1> QED BY <1>2, <1>3, <1>4, <1>5

\* The atexit handlers remove what is theirs.
LEMMA HandlerInv ==
    ASSUME TypeOK, HandlersFit, Locked, NEW h \in Helper, RunHandler(h)
    PROVE  Locked'
<1> USE HelperAssumption DEF TypeOK, Locked
<1>1. /\ pc[h] = "exit" /\ UNCHANGED <<pc, fd, holder, untidy, raced>>
      /\ LockfileRemoved(h) \/ SocketRemoved(h)
  BY HandlerStep
<1>2. Using(h)
  BY DEF RunHandler, Using
<1>3. \A g \in Helper : g # h => ~Using(g)
  BY <1>2, OneUser DEF Exclusive
<1>4. CASE LockfileRemoved(h)
  <2>1. \A g \in Helper : ~Using(g)'
    BY <1>1, <1>3, <1>4 DEF LockfileRemoved, Using
  <2>2. lockfile' = None /\ UNCHANGED <<pc, fd, holder, socket, untidy>>
    BY <1>1, <1>4 DEF LockfileRemoved
  <2>3. UserHasLock' /\ LockerUses'
    BY <2>1, <2>2 DEF UserHasLock, LockerUses
  <2>4. FreshFile' /\ Opened' /\ UserHasSocket'
    BY <2>2 DEF FreshFile, Opened, UserHasSocket
  <2>5. Tidy'
    <3>1. handlers[h] # <<"lockfile", "socket">>
      BY <1>4, PopFirst, PopSecond DEF LockfileRemoved
    <3>2. socket # None => untidy
      BY <1>1, <1>3, <3>1 DEF Tidy, Using
    <3> QED BY <2>2, <3>2 DEF Tidy
  <2> QED BY <2>3, <2>4, <2>5
<1>5. CASE SocketRemoved(h)
  <2>1. Using(h)'
    BY <1>1, <1>5 DEF SocketRemoved, Using
  <2>2. \A g \in Helper : Using(g)' <=> Using(g)
    BY <1>1, <1>2, <1>5, <2>1 DEF SocketRemoved, Using
  <2>3. UserHasLock' /\ LockerUses'
    BY <1>1, <1>5, <2>2 DEF SocketRemoved, UserHasLock, LockerUses
  <2>4. FreshFile' /\ Opened'
    BY <1>1, <1>5 DEF SocketRemoved, FreshFile, Opened
  <2>5. UserHasSocket'
    BY <1>1, <1>3, <1>5 DEF SocketRemoved, UserHasSocket, Using
  <2>6. Tidy'
    BY <1>1, <1>2, <1>5, <2>1 DEF SocketRemoved, Tidy
  <2> QED BY <2>3, <2>4, <2>5, <2>6
<1> QED BY <1>1, <1>4, <1>5

LEMMA NextInv == ASSUME IInv, [Next]_vars PROVE IInv'
<1>1. ASSUME NEW h \in Helper, Run(h) \/ Killed(h) PROVE IInv'
  <2>1. TypeOK' /\ HandlersFit' /\ (raced => raced')
    BY <1>1, TypeInv DEF IInv
  <2>2. ASSUME ~raced' PROVE Locked'
    BY <1>1, <2>1, <2>2, OpenInv, LockInv, SocketInv, EndInv, HandlerInv
       DEF IInv, Run
  <2> QED BY <2>1, <2>2 DEF IInv
<1>2. CASE UNCHANGED vars
  BY <1>2
     DEF vars, IInv, TypeOK, HandlersFit, Locked, UserHasLock, LockerUses,
         FreshFile, Opened, UserHasSocket, Tidy, Using
<1> QED BY <1>1, <1>2 DEF Next

\* The invariant holds in every state of every behaviour.
THEOREM LockInvariance == Spec => []IInv
<1>1. Init => IInv
  BY InitInv
<1>2. IInv /\ [Next]_vars => IInv'
  BY NextInv
<1> QED BY <1>1, <1>2, PTL DEF Spec

\* The state of the helpers and the files stays in its types (struct options,
\* socket_lockfile and the handlers of atexit in helper.c), raced or not.
THEOREM TypesHold == Spec => []TypeOK
<1>1. IInv => TypeOK
  BY DEF IInv
<1> QED BY <1>1, LockInvariance, PTL

\* However many helpers start, stop and crash, at most one uses the path until
\* one locks a removed file: the exclusive access that create_socket_lockfile
\* promises (helper.c:168).
THEOREM ExclusiveAccess == Spec => []ExclusiveUnlessRaced
<1>1. IInv => ExclusiveUnlessRaced
  BY OneUser DEF IInv, Locked, ExclusiveUnlessRaced
<1> QED BY <1>1, LockInvariance, PTL

\* The path leads to the helper that serves it (create_socket).
THEOREM SocketIsOwn == Spec => []OwnSocket
<1>1. IInv => OwnSocket
  BY DEF IInv, Locked, UserHasSocket, OwnSocket
<1> QED BY <1>1, LockInvariance, PTL

\* Helpers that end by themselves leave neither file behind (the order in which
\* create_socket_lockfile and create_socket register their atexit handlers).
THEOREM LeavesNothing == Spec => []NothingLeft
<1>1. IInv => NothingLeft
  BY DEF IInv, HandlersFit, Locked, Tidy, NothingLeft, Using
<1> QED BY <1>1, LockInvariance, PTL
============================================================================
