---------------------------- MODULE TestRunProofs ----------------------------
(***************************************************************************)
(* Proofs about TestRun for any number of runs and signals: what a run     *)
(* leaves running, and what is in the image cache.  The inductive          *)
(* invariant IInv says what each step of a run knows of its processes and, *)
(* while nothing spoiled it, of the cache.                                 *)
(***************************************************************************)
EXTENDS TestRun, TLAPS

\* The steps of the function that starts the helper, and those of the VM.
HelperSteps == {"start_helper", "helper_forked", "helper_read", "helper_started",
                "stop_helper", "wait_helper"}
BeforeVm == {"disk", "clone", "start_vm"}
VmSteps  == {"vm_forked", "wait_ready", "os_wait", "stop_vm", "wait_vm"}

States == {"none", "running", "asked", "ended"}

Types ==
    /\ connection \in [Runs -> {"fd", "socket", "runner"}]
    /\ pc \in [Runs -> HelperSteps \cup BeforeVm \cup InImage \cup VmSteps \cup {"done"}]
    /\ helper \in [Runs -> States] /\ vm \in [Runs -> States]
    /\ path \in {"none", "partial", "converted", "whole"}
    /\ tmp \in {"none", "partial", "whole"}
    /\ disk \in [Runs -> {"none", "partial", "converted", "whole"}]
    /\ uncovered \subseteq Runs /\ spoiled \in BOOLEAN

\* Which processes a run has started, and asked to end.
Processes ==
    \A r \in Runs :
        /\ connection[r] = "runner" => pc[r] \notin HelperSteps /\ helper[r] = "none"
        /\ pc[r] = "start_helper" => helper[r] = "none"
        /\ pc[r] \in (HelperSteps \ {"stop_helper", "wait_helper"})
                        \cup BeforeVm \cup InImage => vm[r] = "none"
        /\ r \notin uncovered =>
            /\ pc[r] \in {"wait_vm", "stop_helper", "wait_helper", "done"} =>
                vm[r] # "running"
            /\ pc[r] \in {"wait_helper", "done"} => helper[r] # "running"

\* What a step of create_image knows of the files.
Files(r) ==
    /\ pc[r] \in {"download", "downloading", "convert"} => path = "none"
    /\ pc[r] = "convert" => tmp = "whole"
    /\ pc[r] = "downloading" => tmp = "partial"
    /\ pc[r] = "converting" => path = "partial" /\ tmp = "whole"
    /\ pc[r] = "resize" => path = "converted"
    /\ pc[r] = "remove_image" => path # "whole"
    /\ pc[r] \in {"remove_tmp", "clone"} => path = "whole"
    /\ pc[r] = "remove_tmp_raising" => path = "none"

\* One run at a time makes the image, and nobody sees a part of it.
Cache ==
    /\ \A q, r \in Runs : pc[q] \in InImage /\ pc[r] \in InImage => q = r
    /\ \A r \in Runs : Files(r)
    /\ (\A r \in Runs : pc[r] \notin InImage) => path \in {"none", "whole"}
    /\ \A r \in Runs : disk[r] \in {"none", "whole"}

IInv == Types /\ Processes /\ (~spoiled => Cache)
------------------------------------------------------------------------------
\* No step leaves the types.
LEMMA TypesStep ==
    ASSUME IInv, NEW r \in Runs,
           Script(r) \/ terminate(r) \/ Kill(r) \/ VmEnds(r) \/ HelperEnds(r)
    PROVE  Types'
<1> USE DEF IInv, Types, States, HelperSteps, BeforeVm, VmSteps, InImage,
           Goes, files, processes, history
<1>1. CASE StartHelper(r)
  BY <1>1 DEF StartHelper
<1>2. CASE HelperAssigned(r)
  BY <1>2 DEF HelperAssigned
<1>3. CASE HelperReply(r)
  BY <1>3 DEF HelperReply
<1>4. CASE NoHelperReply(r)
  BY <1>4 DEF NoHelperReply, Raises, Unwind, Finally
<1>5. CASE HelperStarted(r)
  BY <1>5 DEF HelperStarted
<1>6. CASE StopHelper(r)
  BY <1>6 DEF StopHelper, Asked
<1>7. CASE WaitHelper(r)
  BY <1>7 DEF WaitHelper
<1>8. CASE ReuseDisk(r)
  BY <1>8 DEF ReuseDisk
<1>9. CASE CheckImage(r)
  BY <1>9 DEF CheckImage, Alone
<1>10. CASE Download(r)
  BY <1>10 DEF Download
<1>11. CASE DownloadEnds(r)
  BY <1>11 DEF DownloadEnds, Alone
<1>12. CASE Convert(r)
  BY <1>12 DEF Convert
<1>13. CASE ConvertEnds(r)
  BY <1>13 DEF ConvertEnds, Alone
<1>14. CASE Resize(r)
  BY <1>14 DEF Resize
<1>15. CASE RemoveImage(r)
  BY <1>15 DEF RemoveImage
<1>16. CASE RemoveTmp(r)
  BY <1>16 DEF RemoveTmp, Finally
<1>17. CASE Clone(r)
  BY <1>17 DEF Clone
<1>18. CASE StartVm(r)
  BY <1>18 DEF StartVm
<1>19. CASE VmStarted(r)
  BY <1>19 DEF VmStarted
<1>20. CASE Ready(r)
  BY <1>20 DEF Ready
<1>21. CASE NotReady(r)
  BY <1>21 DEF NotReady, Raises, Unwind, Finally
<1>22. CASE OsWait(r)
  BY <1>22 DEF OsWait
<1>23. CASE StopVm(r)
  BY <1>23 DEF StopVm, Asked
<1>24. CASE WaitVm(r)
  BY <1>24 DEF WaitVm, Finally
<1>25. CASE CallFails(r)
  BY <1>25 DEF CallFails, Raises, Unwind, Finally
<1>26. CASE terminate(r)
  BY <1>26 DEF terminate, Raises, Unwind, Finally, Uncovered
<1>27. CASE Kill(r)
  BY <1>27 DEF Kill
<1>28. CASE VmEnds(r)
  BY <1>28 DEF VmEnds, Alive
<1>29. CASE HelperEnds(r)
  BY <1>29 DEF HelperEnds, Alive
<1> QED BY <1>1, <1>2, <1>3, <1>4, <1>5, <1>6, <1>7, <1>8, <1>9, <1>10, <1>11,
    <1>12, <1>13, <1>14, <1>15, <1>16, <1>17, <1>18, <1>19, <1>20, <1>21,
    <1>22, <1>23, <1>24, <1>25, <1>26, <1>27, <1>28, <1>29 DEF Script

\* What a step does to the processes of its run.
LEMMA ProcessesStep ==
    ASSUME IInv, NEW r \in Runs,
           Script(r) \/ terminate(r) \/ Kill(r) \/ VmEnds(r) \/ HelperEnds(r)
    PROVE  Processes'
<1> USE DEF IInv, Types, Processes, States, HelperSteps, BeforeVm, VmSteps, InImage,
           Goes, files, processes, history
<1>1. CASE StartHelper(r)
  BY <1>1 DEF StartHelper
<1>2. CASE HelperAssigned(r)
  BY <1>2 DEF HelperAssigned
<1>3. CASE HelperReply(r)
  BY <1>3 DEF HelperReply
<1>4. CASE NoHelperReply(r)
  BY <1>4 DEF NoHelperReply, Raises, Unwind, Finally
<1>5. CASE HelperStarted(r)
  BY <1>5 DEF HelperStarted
<1>6. CASE StopHelper(r)
  BY <1>6 DEF StopHelper, Asked
<1>7. CASE WaitHelper(r)
  BY <1>7 DEF WaitHelper
<1>8. CASE ReuseDisk(r)
  BY <1>8 DEF ReuseDisk
<1>9. CASE CheckImage(r)
  BY <1>9 DEF CheckImage, Alone
<1>10. CASE Download(r)
  BY <1>10 DEF Download
<1>11. CASE DownloadEnds(r)
  BY <1>11 DEF DownloadEnds, Alone
<1>12. CASE Convert(r)
  BY <1>12 DEF Convert
<1>13. CASE ConvertEnds(r)
  BY <1>13 DEF ConvertEnds, Alone
<1>14. CASE Resize(r)
  BY <1>14 DEF Resize
<1>15. CASE RemoveImage(r)
  BY <1>15 DEF RemoveImage
<1>16. CASE RemoveTmp(r)
  BY <1>16 DEF RemoveTmp, Finally
<1>17. CASE Clone(r)
  BY <1>17 DEF Clone
<1>18. CASE StartVm(r)
  BY <1>18 DEF StartVm
<1>19. CASE VmStarted(r)
  BY <1>19 DEF VmStarted
<1>20. CASE Ready(r)
  BY <1>20 DEF Ready
<1>21. CASE NotReady(r)
  BY <1>21 DEF NotReady, Raises, Unwind, Finally
<1>22. CASE OsWait(r)
  BY <1>22 DEF OsWait
<1>23. CASE StopVm(r)
  BY <1>23 DEF StopVm, Asked
<1>24. CASE WaitVm(r)
  BY <1>24 DEF WaitVm, Finally
<1>25. CASE CallFails(r)
  BY <1>25 DEF CallFails, Raises, Unwind, Finally
<1>26. CASE terminate(r)
  BY <1>26 DEF terminate, Raises, Unwind, Finally, Uncovered
<1>27. CASE Kill(r)
  BY <1>27 DEF Kill
<1>28. CASE VmEnds(r)
  BY <1>28 DEF VmEnds, Alive
<1>29. CASE HelperEnds(r)
  BY <1>29 DEF HelperEnds, Alive
<1> QED BY <1>1, <1>2, <1>3, <1>4, <1>5, <1>6, <1>7, <1>8, <1>9, <1>10, <1>11,
    <1>12, <1>13, <1>14, <1>15, <1>16, <1>17, <1>18, <1>19, <1>20, <1>21,
    <1>22, <1>23, <1>24, <1>25, <1>26, <1>27, <1>28, <1>29 DEF Script

\* What a step does to the cache, unless it spoils it.
LEMMA CacheStep ==
    ASSUME IInv, NEW r \in Runs,
           Script(r) \/ terminate(r) \/ Kill(r) \/ VmEnds(r) \/ HelperEnds(r),
           ~spoiled'
    PROVE  Cache'
<1> USE DEF IInv, Types, Cache, Files, States, HelperSteps, BeforeVm, VmSteps, InImage,
           Goes, files, processes, history
<1>1. CASE StartHelper(r)
  BY <1>1 DEF StartHelper
<1>2. CASE HelperAssigned(r)
  BY <1>2 DEF HelperAssigned
<1>3. CASE HelperReply(r)
  BY <1>3 DEF HelperReply
<1>4. CASE NoHelperReply(r)
  BY <1>4 DEF NoHelperReply, Raises, Unwind, Finally
<1>5. CASE HelperStarted(r)
  BY <1>5 DEF HelperStarted
<1>6. CASE StopHelper(r)
  BY <1>6 DEF StopHelper, Asked
<1>7. CASE WaitHelper(r)
  BY <1>7 DEF WaitHelper
<1>8. CASE ReuseDisk(r)
  BY <1>8 DEF ReuseDisk
<1>9. CASE CheckImage(r)
  <2>1. ~spoiled /\ \A q \in Runs \ {r} : pc[q] \notin InImage
    BY <1>9 DEF CheckImage, Alone
  <2> QED BY <1>9, <2>1 DEF CheckImage
<1>10. CASE Download(r)
  BY <1>10 DEF Download
<1>11. CASE DownloadEnds(r)
  BY <1>11 DEF DownloadEnds, Alone
<1>12. CASE Convert(r)
  BY <1>12 DEF Convert
<1>13. CASE ConvertEnds(r)
  BY <1>13 DEF ConvertEnds, Alone
<1>14. CASE Resize(r)
  BY <1>14 DEF Resize
<1>15. CASE RemoveImage(r)
  BY <1>15 DEF RemoveImage
<1>16. CASE RemoveTmp(r)
  BY <1>16 DEF RemoveTmp, Finally
<1>17. CASE Clone(r)
  BY <1>17 DEF Clone
<1>18. CASE StartVm(r)
  BY <1>18 DEF StartVm
<1>19. CASE VmStarted(r)
  BY <1>19 DEF VmStarted
<1>20. CASE Ready(r)
  BY <1>20 DEF Ready
<1>21. CASE NotReady(r)
  BY <1>21 DEF NotReady, Raises, Unwind, Finally
<1>22. CASE OsWait(r)
  BY <1>22 DEF OsWait
<1>23. CASE StopVm(r)
  BY <1>23 DEF StopVm, Asked
<1>24. CASE WaitVm(r)
  BY <1>24 DEF WaitVm, Finally
<1>25. CASE CallFails(r)
  BY <1>25 DEF CallFails, Raises, Unwind, Finally
<1>26. CASE terminate(r)
  <2>1. ~spoiled /\ pc[r] # "remove_image"
    BY <1>26 DEF terminate
  <2>2. UNCHANGED <<path, tmp, disk, connection>> /\ Raises(r)
    BY <1>26 DEF terminate
  <2>3. CASE pc[r] \in InImage \ {"remove_tmp", "remove_tmp_raising"}
    BY <2>1, <2>2, <2>3 DEF Raises, Unwind
  <2>4. CASE pc[r] \notin InImage \ {"remove_tmp", "remove_tmp_raising"}
    <3>1. /\ pc' = [pc EXCEPT ![r] = Unwind(r)]
          /\ Unwind(r) \in HelperSteps \cup {"done", "stop_vm"}
      BY <1>26, <2>2, <2>4 DEF Raises, Unwind, Finally, terminate
    <3> QED BY <2>1, <2>2, <2>4, <3>1
  <2> QED BY <2>3, <2>4
<1>27. CASE Kill(r)
  <2>1. ~spoiled /\ pc[r] \notin InImage
    BY <1>27 DEF Kill
  <2> QED BY <1>27, <2>1 DEF Kill
<1>28. CASE VmEnds(r)
  BY <1>28 DEF VmEnds, Alive
<1>29. CASE HelperEnds(r)
  BY <1>29 DEF HelperEnds, Alive
<1> QED BY <1>1, <1>2, <1>3, <1>4, <1>5, <1>6, <1>7, <1>8, <1>9, <1>10, <1>11,
    <1>12, <1>13, <1>14, <1>15, <1>16, <1>17, <1>18, <1>19, <1>20, <1>21,
    <1>22, <1>23, <1>24, <1>25, <1>26, <1>27, <1>28, <1>29 DEF Script

LEMMA InitInv == Init => IInv
<1> SUFFICES ASSUME Init PROVE IInv
  OBVIOUS
<1>1. Types
  BY ConnectionsAssumption DEF Init, Types, States, HelperSteps, BeforeVm
<1>2. Processes
  BY DEF Init, Processes, HelperSteps, BeforeVm, InImage
<1>3. Cache
  BY DEF Init, Cache, Files, InImage
<1> QED BY <1>1, <1>2, <1>3 DEF IInv

LEMMA NextInv == IInv /\ [Next]_vars => IInv'
<1> SUFFICES ASSUME IInv, [Next]_vars PROVE IInv'
  OBVIOUS
<1>1. CASE UNCHANGED vars
  BY <1>1 DEF vars, IInv, Types, Processes, Cache, Files
<1>2. CASE Next
  <2>1. PICK r \in Runs :
            Script(r) \/ terminate(r) \/ Kill(r) \/ VmEnds(r) \/ HelperEnds(r)
    BY <1>2 DEF Next
  <2> QED BY <2>1, TypesStep, ProcessesStep, CacheStep DEF IInv
<1> QED BY <1>1, <1>2

\* The invariant holds in every state of every behaviour.
THEOREM Invariance == Spec => []IInv
<1> QED BY InitInv, NextInv, PTL DEF Spec

\* Through the finally clauses of run, of testing/helper.py and of testing/vm.py,
\* whichever call fails and wherever a signal comes, a run asks what it started to
\* end, unless a signal came at an Uncovered step or it was killed.
THEOREM NothingLeftRunning == Spec => []StopsWhatItStarted
<1>1. IInv => StopsWhatItStarted
  BY DEF IInv, Processes, StopsWhatItStarted
<1> QED BY <1>1, Invariance, PTL

\* However create_image of testing/disks.py fails or is interrupted, no VM gets a disk
\* made of a part of an image, for any number of runs that make it one at a time.
THEOREM DisksAreWhole == Spec => []DiskWhole
<1>1. IInv => DiskWhole
  BY DEF IInv, Cache, DiskWhole
<1> QED BY <1>1, Invariance, PTL
==============================================================================
