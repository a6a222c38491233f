------------------------------- MODULE TestRun -------------------------------
(***************************************************************************)
(* The script `run` and what it calls in testing/: several runs, each for  *)
(* a VM of its own, start a helper and a VM, or a VM under vmnet-run, wait *)
(* and stop them, and share one cache of images (run, testing/helper.py,   *)
(* testing/vm.py, testing/disks.py).                                       *)
(*                                                                         *)
(* A signal raises SystemExit wherever the script is, in its cleanup too.  *)
(* The helper and the VM are external: they run, are asked to end by       *)
(* terminate(), and end, by themselves or when asked.                      *)
(***************************************************************************)
EXTENDS Naturals

CONSTANTS
    Runs,
    Connections,    \* what --connection of each run can be
    MaxSignals      \* bound: signals to all runs

ASSUME ConnectionsAssumption == Connections \subseteq [Runs -> {"fd", "socket", "runner"}]
ASSUME SignalsAssumption == MaxSignals \in Nat

VARIABLES
    connection,  \* --connection
    pc,          \* where each run is
    helper, vm,  \* its processes: "none", "running", "asked" to end or "ended"
    path, tmp,   \* the image in the cache, and the download next to it
    disk,        \* the disk of each VM
    \* history
    signals,     \* how many were handled
    uncovered,   \* the runs that were killed, or handled one at an Uncovered step
    spoiled      \* two runs were in create_image at once, or one was killed there,
                 \* or its cleanup was interrupted

vars == <<connection, pc, helper, vm, path, tmp, disk, signals, uncovered,
          spoiled>>
files == <<path, tmp, disk>>
processes == <<helper, vm>>
history == <<signals, uncovered, spoiled>>

Alive(process) == process \in {"running", "asked"}

\* The steps of create_image from the check of the path to the end of its try.
InImage == {"download", "downloading", "convert", "converting", "resize",
            "remove_image", "remove_tmp", "remove_tmp_raising"}

Init ==
    /\ connection \in Connections
    /\ pc = [r \in Runs |->
                IF connection[r] = "runner" THEN "disk" ELSE "start_helper"]
    /\ helper = [r \in Runs |-> "none"]
    /\ vm = [r \in Runs |-> "none"]
    /\ path = "none" /\ tmp = "none"
    /\ disk \in [Runs -> {"none", "whole"}]
    /\ signals = 0
    /\ uncovered = {} /\ spoiled = FALSE

\* The steps at which a signal finds a process started and not yet, or no longer,
\* covered by a try.
Uncovered == {"helper_forked", "helper_started", "stop_helper", "vm_forked",
              "stop_vm"}

Goes(r, from, to) == pc[r] = from /\ pc' = [pc EXCEPT ![r] = to]

------------------------------------------------------------------------------
\* Exceptions.

\* The finally of the function that started the helper.
Finally(r) == IF connection[r] = "runner" THEN "done" ELSE "stop_helper"

\* Mutant: the VM is started outside of the try.
MutantUnwind(r) ==
    CASE pc[r] \in {"start_helper", "helper_forked", "helper_started", "stop_helper", "wait_helper"} -> "done"
      [] pc[r] = "helper_read" -> "stop_helper"
      [] pc[r] \in {"disk", "clone", "start_vm", "vm_forked"} -> "done"
      [] pc[r] \in {"stop_vm", "wait_vm", "remove_tmp", "remove_tmp_raising"} ->
            Finally(r)
      [] pc[r] \in {"download", "downloading", "convert", "converting", "resize"} ->
            "remove_image"
      [] pc[r] = "remove_image" -> "remove_tmp_raising"
      [] pc[r] \in {"wait_ready", "os_wait"} -> "stop_vm"

\* Where an exception raised at a step leads.
Unwind(r) ==
    CASE pc[r] \in {"start_helper", "helper_forked", "helper_started", "stop_helper", "wait_helper"} -> "done"
      [] pc[r] = "helper_read" -> "stop_helper"
      [] pc[r] \in {"disk", "clone", "start_vm", "vm_forked", "stop_vm", "wait_vm",
                    "remove_tmp", "remove_tmp_raising"} -> Finally(r)
      [] pc[r] \in {"download", "downloading", "convert", "converting", "resize"} ->
            "remove_image"
      [] pc[r] = "remove_image" -> "remove_tmp_raising"
      [] pc[r] \in {"wait_ready", "os_wait"} -> "stop_vm"

Raises(r) == pc' = [pc EXCEPT ![r] = Unwind(r)]

\* terminate(), the handler of SIGTERM and SIGINT.  subprocess.run kills the tool
\* that it waits for.
terminate(r) ==
    /\ pc[r] # "done" /\ signals < MaxSignals
    /\ signals' = signals + 1
    /\ uncovered' = IF pc[r] \in Uncovered THEN uncovered \cup {r} ELSE uncovered
    /\ spoiled' = (spoiled \/ pc[r] = "remove_image")
    /\ Raises(r)
    /\ UNCHANGED <<connection, processes, files>>

\* A call fails: a process that cannot be started, a tool that ends with an error.
CallFails(r) ==
    /\ pc[r] \in {"start_helper", "downloading", "convert", "converting", "resize",
                  "clone", "start_vm"}
    /\ Raises(r)
    /\ UNCHANGED <<connection, processes, files, history>>

\* SIGKILL.
Kill(r) ==
    /\ pc[r] # "done"
    /\ pc' = [pc EXCEPT ![r] = "done"]
    /\ uncovered' = uncovered \cup {r}
    /\ spoiled' = (spoiled \/ pc[r] \in InImage)
    /\ UNCHANGED <<connection, processes, files, signals>>

------------------------------------------------------------------------------
\* Helper.start and Helper.stop.

\* Popen has forked; its value is not in self.proc yet, and the try not entered.
StartHelper(r) ==
    /\ Goes(r, "start_helper", "helper_forked")
    /\ helper' = [helper EXCEPT ![r] = "running"]
    /\ UNCHANGED <<connection, vm, files, history>>

HelperAssigned(r) ==
    /\ Goes(r, "helper_forked", "helper_read")
    /\ UNCHANGED <<connection, processes, files, history>>

\* The first line of the helper.
HelperReply(r) ==
    /\ helper[r] = "running"
    /\ Goes(r, "helper_read", "helper_started")
    /\ UNCHANGED <<connection, processes, files, history>>

\* "No response from helper", or a line that is not JSON.
NoHelperReply(r) ==
    /\ pc[r] = "helper_read"
    /\ Raises(r)
    /\ UNCHANGED <<connection, processes, files, history>>

\* Back in run_with_fd or run_with_socket: the try is entered.
HelperStarted(r) ==
    /\ Goes(r, "helper_started", "disk")
    /\ UNCHANGED <<connection, processes, files, history>>

Asked(process) == IF process = "running" THEN "asked" ELSE process

\* proc.terminate().
StopHelper(r) ==
    /\ Goes(r, "stop_helper", "wait_helper")
    /\ helper' = [helper EXCEPT ![r] = Asked(@)]
    /\ UNCHANGED <<connection, vm, files, history>>

\* proc.wait().
WaitHelper(r) ==
    /\ helper[r] = "ended"
    /\ Goes(r, "wait_helper", "done")
    /\ UNCHANGED <<connection, processes, files, history>>

------------------------------------------------------------------------------
\* create_disk and create_image.

Alone(r) == \A q \in Runs \ {r} : pc[q] \notin InImage

\* os.path.isfile(disk), the disk of an earlier run of this VM.
ReuseDisk(r) ==
    /\ disk[r] # "none"
    /\ Goes(r, "disk", "start_vm")
    /\ UNCHANGED <<connection, processes, files, history>>

\* os.path.exists(path).
CheckImage(r) ==
    /\ disk[r] = "none"
    /\ Goes(r, "disk", IF path = "none" THEN "download" ELSE "clone")
    /\ spoiled' = (spoiled \/ ~Alone(r))
    /\ UNCHANGED <<connection, processes, files, signals, uncovered>>

\* curl opens the file and cuts it to nothing.
Download(r) ==
    /\ Goes(r, "download", "downloading")
    /\ tmp' = "partial"
    /\ UNCHANGED <<connection, processes, path, disk, history>>

\* curl ends.  Another that writes the same file may still have a part of it to
\* write, and the file may have lost its name.
DownloadEnds(r) ==
    /\ Goes(r, "downloading", "convert")
    /\ tmp' \in IF tmp = "none" THEN {"none"}
                ELSE IF Alone(r) THEN {"whole"}
                ELSE {"partial", "whole"}
    /\ UNCHANGED <<connection, processes, path, disk, history>>

\* qemu-img convert creates the image under its final name.
Convert(r) ==
    /\ tmp # "none"
    /\ Goes(r, "convert", "converting")
    /\ path' = "partial"
    /\ UNCHANGED <<connection, processes, tmp, disk, history>>

\* Another may have written to either file meanwhile, or removed this one.
ConvertEnds(r) ==
    /\ Goes(r, "converting", "resize")
    /\ path' \in IF path = "none" THEN {"none"}
                 ELSE IF Alone(r) /\ tmp = "whole" THEN {"converted"}
                 ELSE {"partial", "converted"}
    /\ UNCHANGED <<connection, processes, tmp, disk, history>>

\* qemu-img resize, after which the image is complete.
Resize(r) ==
    /\ path # "none"
    /\ Goes(r, "resize", "remove_tmp")
    /\ path' = IF path = "converted" THEN "whole" ELSE path
    /\ UNCHANGED <<connection, processes, tmp, disk, history>>

\* Mutant: the image is kept when its size is wrong.
MutantRemoveImage(r) ==
    /\ Goes(r, "remove_image", "remove_tmp_raising")
    /\ path' = IF path = "converted" THEN path ELSE "none"
    /\ UNCHANGED <<connection, processes, tmp, disk, history>>

\* The except clause, whatever was raised.
RemoveImage(r) ==
    /\ Goes(r, "remove_image", "remove_tmp_raising")
    /\ path' = "none"
    /\ UNCHANGED <<connection, processes, tmp, disk, history>>

\* The finally clause, with an exception on its way or without.
RemoveTmp(r) ==
    /\ \/ Goes(r, "remove_tmp", "clone")
       \/ Goes(r, "remove_tmp_raising", Finally(r))
    /\ tmp' = "none"
    /\ UNCHANGED <<connection, processes, path, disk, history>>

\* cp -c: a copy of the file as it is now, in one step.
Clone(r) ==
    /\ path # "none"
    /\ Goes(r, "clone", "start_vm")
    /\ disk' = [disk EXCEPT ![r] = path]
    /\ UNCHANGED <<connection, processes, path, tmp, history>>

------------------------------------------------------------------------------
\* VM.start, the waits, and VM.stop.

StartVm(r) ==
    /\ Goes(r, "start_vm", "vm_forked")
    /\ vm' = [vm EXCEPT ![r] = "running"]
    /\ UNCHANGED <<connection, helper, files, history>>

\* self.proc is assigned, start() returns, and the try is entered.
VmStarted(r) ==
    /\ Goes(r, "vm_forked", "wait_ready")
    /\ UNCHANGED <<connection, processes, files, history>>

\* wait_until_ready: the VM answers, or the time is over.
Ready(r) ==
    /\ Goes(r, "wait_ready", "os_wait")
    /\ UNCHANGED <<connection, processes, files, history>>

\* check_running: "Virtual machine terminated".
NotReady(r) ==
    /\ pc[r] = "wait_ready" /\ vm[r] = "ended"
    /\ Raises(r)
    /\ UNCHANGED <<connection, processes, files, history>>

\* Mutant: it waits for the VM.
MutantOsWait(r) ==
    /\ vm[r] = "ended"
    /\ Goes(r, "os_wait", "stop_vm")
    /\ UNCHANGED <<connection, processes, files, history>>

\* os.wait() returns for either child.
OsWait(r) ==
    /\ "ended" \in {helper[r], vm[r]}
    /\ Goes(r, "os_wait", "stop_vm")
    /\ UNCHANGED <<connection, processes, files, history>>

StopVm(r) ==
    /\ Goes(r, "stop_vm", "wait_vm")
    /\ vm' = [vm EXCEPT ![r] = Asked(@)]
    /\ UNCHANGED <<connection, helper, files, history>>

WaitVm(r) ==
    /\ vm[r] = "ended"
    /\ Goes(r, "wait_vm", Finally(r))
    /\ UNCHANGED <<connection, processes, files, history>>

------------------------------------------------------------------------------
\* The processes.

VmEnds(r) ==
    /\ Alive(vm[r])
    /\ vm' = [vm EXCEPT ![r] = "ended"]
    /\ UNCHANGED <<connection, pc, helper, files, history>>

HelperEnds(r) ==
    /\ Alive(helper[r])
    /\ helper' = [helper EXCEPT ![r] = "ended"]
    /\ UNCHANGED <<connection, pc, vm, files, history>>

Script(r) ==
    \/ StartHelper(r) \/ HelperAssigned(r) \/ HelperReply(r) \/ NoHelperReply(r)
    \/ HelperStarted(r) \/ StopHelper(r) \/ WaitHelper(r)
    \/ ReuseDisk(r) \/ CheckImage(r) \/ Download(r) \/ DownloadEnds(r)
    \/ Convert(r) \/ ConvertEnds(r) \/ Resize(r) \/ RemoveImage(r) \/ RemoveTmp(r)
    \/ Clone(r)
    \/ StartVm(r) \/ VmStarted(r) \/ Ready(r) \/ NotReady(r) \/ OsWait(r)
    \/ StopVm(r) \/ WaitVm(r)
    \/ CallFails(r)

Next ==
    \E r \in Runs :
        Script(r) \/ terminate(r) \/ Kill(r) \/ VmEnds(r) \/ HelperEnds(r)

\* A run goes on, and a process that is asked to end does.  None need end by itself.
Fairness ==
    \A r \in Runs :
        /\ WF_vars(Script(r))
        /\ WF_vars(vm[r] = "asked" /\ VmEnds(r))
        /\ WF_vars(helper[r] = "asked" /\ HelperEnds(r))

Spec == Init /\ [][Next]_vars /\ Fairness
------------------------------------------------------------------------------
\* "Create a disk from image" (disks.py:59): a disk is a copy of a whole image, and no
\* failure or signal in create_image leaves another under the path that the next
\* run takes for one, unless two runs were there at once, one was killed, or a
\* second signal interrupted the cleanup of the first.
DiskWhole ==
    \A r \in Runs : disk[r] \in {"none", "whole"} \/ spoiled

\* However a run ends, it has asked its helper and its VM to end, or they have
\* ended, unless it was killed or a signal came at one of these steps.
StopsWhatItStarted ==
    \A r \in Runs :
        (pc[r] = "done" /\ r \notin uncovered) =>
            helper[r] # "running" /\ vm[r] # "running"

\* A run whose VM is started ends when either child has: os.wait() of run:224 returns
\* for the helper as for the VM, and the two finally clauses end the other one, also
\* when a call fails or a signal comes on the way, unless the run was killed or a
\* signal came at an Uncovered step.
EndsTogether ==
    \A r \in Runs :
        (pc[r] \in {"wait_ready", "os_wait"} /\ "ended" \in {helper[r], vm[r]}) ~>
            /\ pc[r] = "done"
            /\ r \in uncovered \/ {helper[r], vm[r]} \subseteq {"none", "ended"}
==============================================================================
