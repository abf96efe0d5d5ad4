------------------------- MODULE WindowsFlashProofs -------------------------
(***************************************************************************)
(* Theorems about WindowsFlash, for every set of jobs, every size limit    *)
(* and every number of runs.  Each part of the inductive invariant IInv is *)
(* shown to survive a probing step, a writing step and a new run; the      *)
(* theorems at the end combine them.                                       *)
(***************************************************************************)
EXTENDS WindowsFlash, AnswerFile, FiniteSetTheorems, WellFoundedInduction, TLAPS

-----------------------------------------------------------------------------
\* Type correctness.

LEMMA InitTypes == Init => TypeOK /\ IsoHeld /\ UsbFree
<1> SUFFICES ASSUME Init PROVE TypeOK /\ IsoHeld /\ UsbFree
  OBVIOUS
<1> USE DEF Init
<1>1. ControlOK /\ ResultOK
  BY DEF ControlOK, ResultOK, Step, Preflight
<1>2. job \in Job /\ runs \in 1..MaxRuns
  BY JobsAssumption, SizesAssumption
<1>3. disk \in Disk
  BY DEF Disk
<1>4. DataOK
  BY <1>2, <1>3 DEF DataOK
<1> QED
  BY <1>1, <1>4 DEF TypeOK, IsoHeld, UsbFree

LEMMA ProbeTypes ==
  ASSUME TypeOK, IsoHeld, UsbFree, Probe
  PROVE  TypeOK' /\ IsoHeld' /\ UsbFree'
<1> USE DEF TypeOK
<1> USE DEF Probe, AssertSafeTarget, MountIso, PickInstallImage, ValidatePlan,
            FindBootloader, MeasureContents, RequireTools, ProbeNtfs, Refuse
<1>1. ControlOK'
  BY DEF ControlOK, DataOK, Goto, Return, Step, Preflight, Destructive, Job,
         DefaultFor, Layouts
<1>2. ResultOK'
  BY DEF ResultOK, ControlOK, DataOK, Goto, Return, Refusal, Job, Verdict
<1>3. DataOK'
  <2>1. /\ job' = job /\ runs' = runs /\ todo' = todo /\ disk' = disk
        /\ usbMounts' = usbMounts /\ touched' = touched
    OBVIOUS
  <2>2. \/ isoMounts' \in {isoMounts, isoMounts + 1}
        \/ isoMounts' = isoMounts - 1 /\ pc \notin {"target", "mountIso", "ended"}
    BY DEF UnmountIso
  <2>3. isoMounts' \in Nat
    BY <2>2 DEF IsoHeld, DataOK
  <2>4. umountFailed' \in BOOLEAN
    BY DEF UnmountIso, DataOK
  <2>5. faulted' \in BOOLEAN
    BY DEF DataOK
  <2> QED
    BY <2>1, <2>3, <2>4, <2>5 DEF DataOK
<1>4. IsoHeld'
  <2>1. CASE MountIso
    <3>1. pc' = "ended" \/ isoMounts' = isoMounts + 1
      BY <2>1 DEF Goto, Return
    <3> QED
      BY <3>1 DEF IsoHeld, DataOK
  <2>2. CASE ~MountIso
    <3>1. \/ pc' \in {"mountIso", "ended"}
          \/ isoMounts' = isoMounts /\ pc \notin {"target", "mountIso", "ended"}
      BY <2>2 DEF Goto, Return
    <3> QED
      BY <3>1 DEF IsoHeld
  <2> QED
    BY <2>1, <2>2
<1>5. UsbFree'
  BY DEF UsbFree, Goto, Return
<1> QED
  BY <1>1, <1>2, <1>3, <1>4, <1>5

LEMMA WriteTypes ==
  ASSUME TypeOK, IsoHeld, UsbFree, Write
  PROVE  TypeOK' /\ IsoHeld' /\ UsbFree'
<1> USE DEF TypeOK
<1> USE DEF Write, Partition, Settle, MakeFilesystem, WriteLoader, MountUsb,
            CollectTree, CopyFile, CopyDone, SplitImage, WriteAnswerFile,
            CheckMedia, Sync, CleanupUsb, CleanupIso, Fails
<1>1. ControlOK'
  BY DEF ControlOK, Goto, Abort, Step, Preflight, Destructive
<1>2. ResultOK'
  BY DEF ResultOK, Goto, Abort, Failure
<1>3. DataOK'
  <2>1. job' = job /\ runs' = runs
    OBVIOUS
  <2>2. isoMounts' \in Nat
    <3>1. isoMounts' = isoMounts \/ (isoMounts' = isoMounts - 1 /\ pc = "cleanupIso")
      BY DEF UnmountIso
    <3> QED
      BY <3>1 DEF IsoHeld, DataOK
  <2>3. usbMounts' \in {0, 1}
    <3>1. \/ usbMounts' \in {usbMounts, 0}
          \/ usbMounts' = usbMounts + 1 /\ pc = "mountUsb"
      OBVIOUS
    <3> QED
      BY <3>1 DEF UsbFree, DataOK
  <2>4. umountFailed' \in BOOLEAN
    BY DEF UnmountIso, DataOK
  <2>5. faulted' \in BOOLEAN
    BY DEF DataOK
  <2>6. touched' \in BOOLEAN
    BY DEF DataOK
  <2>7. todo' \subseteq IsoFile
    BY DEF DataOK, Job, Iso
  <2>8. disk' \in Disk
    <3>1. CASE disk' = disk
      BY <3>1 DEF DataOK
    <3>2. CASE \E f \in UsbFile : disk' = [disk EXCEPT !.files = @ \union {f}]
      BY <3>2 DEF DataOK, Disk
    <3>3. CASE disk' = [disk EXCEPT !.table = "torn"]
      BY <3>3 DEF DataOK, Disk
    <3>4. CASE Partition /\ disk' = [table |-> layout, fs |-> "none", loader |-> FALSE,
                                     files |-> {}, synced |-> FALSE]
      <4>1. layout \in Layouts
        BY <3>4 DEF ControlOK
      <4> QED
        BY <3>4, <4>1 DEF Disk
    <3>5. CASE MakeFilesystem
      BY <3>5 DEF DataOK, Disk, FileSystemOf
    <3>6. CASE WriteLoader \/ Sync
      BY <3>6 DEF DataOK, Disk
    <3>7. CASE CopyFile \/ SplitImage \/ WriteAnswerFile
      BY <3>7, <3>1, <3>2 DEF UsbFile, DataOK
    <3> QED
      BY <3>1, <3>3, <3>4, <3>5, <3>6, <3>7
  <2> QED
    BY <2>1, <2>2, <2>3, <2>4, <2>5, <2>6, <2>7, <2>8 DEF DataOK
<1>4. IsoHeld'
  BY DEF IsoHeld, UnmountIso, Goto, Abort
<1>5. UsbFree'
  BY DEF UsbFree, Goto, Abort
<1> QED
  BY <1>1, <1>2, <1>3, <1>4, <1>5

LEMMA RunAgainTypes ==
  ASSUME TypeOK, RunAgain
  PROVE  TypeOK' /\ IsoHeld' /\ UsbFree'
<1> USE DEF RunAgain
<1>1. job' \in Job
  BY DEF TypeOK, DataOK, Job
<1>2. runs' \in 1..MaxRuns
  BY SizesAssumption DEF TypeOK, DataOK
<1>3. TypeOK'
  BY <1>1, <1>2 DEF TypeOK, ControlOK, ResultOK, DataOK, Step, Preflight
<1> QED
  BY <1>3 DEF IsoHeld, UsbFree

LEMMA NextTypes ==
  TypeOK /\ IsoHeld /\ UsbFree /\ [Next]_vars => (TypeOK /\ IsoHeld /\ UsbFree)'
<1>1. ASSUME TypeOK, IsoHeld, UsbFree, UNCHANGED vars
      PROVE  (TypeOK /\ IsoHeld /\ UsbFree)'
  BY <1>1 DEF vars, TypeOK, ControlOK, ResultOK, DataOK, IsoHeld, UsbFree
<1> QED
  BY <1>1, ProbeTypes, WriteTypes, RunAgainTypes DEF Next

\* Type correctness: the variables of flash_windows_iso keep their types, and
\* from the plan on the layout in force is a concrete one.
THEOREM TypeCorrect == Spec => []TypeOK
<1>1. Spec => [](TypeOK /\ IsoHeld /\ UsbFree)
  BY InitTypes, NextTypes, PTL DEF Spec
<1> QED
  BY <1>1, PTL

-----------------------------------------------------------------------------
\* Nothing is written unprobed.

LEMMA InitEstablished == Init => Established
  BY DEF Init, Established, Destructive

LEMMA ProbeEstablished ==
  ASSUME TypeOK, Established, Probe
  PROVE  Established'
<1> USE DEF Goto, Return, Refuse
<1>1. CASE pc' = "ended"
  BY <1>1 DEF Established, Destructive
<1>2. CASE AssertSafeTarget /\ pc' # "ended"
  BY <1>2 DEF AssertSafeTarget, Established, Destructive
<1>3. CASE MountIso /\ pc' # "ended"
  BY <1>3 DEF MountIso, Established, Destructive
<1>4. CASE PickInstallImage /\ pc' # "ended"
  BY <1>4 DEF PickInstallImage, Established, Destructive
<1>5. CASE ValidatePlan /\ pc' # "ended"
  BY <1>5 DEF ValidatePlan, Established, Destructive
<1>6. CASE FindBootloader /\ pc' # "ended"
  BY <1>6 DEF FindBootloader, Established, Destructive
<1>7. CASE MeasureContents /\ pc' # "ended"
  BY <1>7 DEF MeasureContents, Established, Destructive
<1>8. CASE RequireTools /\ pc' # "ended"
  BY <1>8 DEF RequireTools, Established, Destructive, Probed
<1>9. CASE ProbeNtfs /\ pc' # "ended"
  BY <1>9 DEF ProbeNtfs, Established, Destructive, Probed
<1> QED
  BY <1>1, <1>2, <1>3, <1>4, <1>5, <1>6, <1>7, <1>8, <1>9 DEF Probe

\* A writing step is taken in the destructive phase, stays there or ends the
\* run, and changes neither the job nor the layout.
LEMMA WriteStays ==
  ASSUME Write
  PROVE  /\ pc \in Destructive /\ pc' \in Destructive \union {"ended"}
         /\ job' = job /\ layout' = layout
<1> USE DEF Goto, Abort, Fails, Destructive
<1> USE DEF Partition, Settle, MakeFilesystem, WriteLoader, MountUsb, CollectTree,
            CopyFile, CopyDone, SplitImage, WriteAnswerFile, CheckMedia, Sync,
            CleanupUsb, CleanupIso
<1> QED
  BY DEF Write

LEMMA WriteEstablished ==
  ASSUME Established, Write
  PROVE  Established'
<1>1. CASE pc' = "ended"
  BY <1>1 DEF Established, Destructive
<1>2. CASE pc' # "ended"
  <2>1. pc \in Destructive /\ pc' \in Destructive /\ job' = job /\ layout' = layout
    BY <1>2, WriteStays
  <2> QED
    BY <2>1 DEF Established, Destructive
<1> QED
  BY <1>1, <1>2

LEMMA NextEstablished ==
  TypeOK /\ Established /\ [Next]_vars => Established'
<1>1. ASSUME RunAgain PROVE Established'
  BY <1>1 DEF RunAgain, Established, Destructive
<1>2. ASSUME Established, UNCHANGED vars PROVE Established'
  BY <1>2 DEF vars, Established
<1> QED
  BY <1>1, <1>2, ProbeEstablished, WriteEstablished DEF Next

\* The preflight guards the drive: whatever the jobs are, and however many runs
\* precede, flash_windows_iso changes the drive only when the target, the ISO,
\* the plan, the room and the host have all been found good for its layout.
THEOREM NothingWrittenUnprobed == Spec => NeverTouchUnprobed
<1>1. Established /\ [Next]_vars => [disk' # disk => Probed(job, layout)]_vars
  <2> SUFFICES ASSUME Established, Next, disk' # disk PROVE Probed(job, layout)
    BY DEF vars
  <2>1. CASE Probe
    BY <2>1 DEF Probe, AssertSafeTarget, MountIso, PickInstallImage, ValidatePlan,
                FindBootloader, MeasureContents, RequireTools, ProbeNtfs
  <2>2. CASE Write
    BY <2>2, WriteStays DEF Established
  <2>3. CASE RunAgain
    BY <2>3 DEF RunAgain
  <2> QED
    BY <2>1, <2>2, <2>3 DEF Next
<1> QED
  BY <1>1, InitTypes, NextTypes, InitEstablished, NextEstablished, PTL
  DEF Spec, NeverTouchUnprobed

-----------------------------------------------------------------------------
\* Every mount is taken off, as long as no umount fails unseen.

\* Where the drive is mounted, and how often the ISO is, at each step.
MountsKept ==
  /\ pc \notin {"list", "copy", "split", "answer", "check", "sync", "cleanup"} =>
       (usbMounts > 0 => umountFailed)
  /\ umountFailed \/ ~job.iso.readable \/
       isoMounts = IF pc \in {"target", "mountIso", "ended"} THEN 0 ELSE 1

LEMMA ProbeMountsKept ==
  ASSUME TypeOK, MountsKept, Probe
  PROVE  MountsKept'
<1> USE DEF Goto, Return, Refuse, UnmountIso, MountsKept
<1>1. job' = job /\ usbMounts' = usbMounts
  BY DEF Probe, AssertSafeTarget, MountIso, PickInstallImage, ValidatePlan,
         FindBootloader, MeasureContents, RequireTools, ProbeNtfs
<1>2. CASE AssertSafeTarget
  BY <1>1, <1>2 DEF AssertSafeTarget
<1>3. CASE MountIso
  <2>1. umountFailed' = umountFailed /\ isoMounts \in Nat /\ pc = "mountIso"
    BY <1>3 DEF MountIso, TypeOK, DataOK
  <2>2. CASE pc' = "pick" /\ isoMounts' = isoMounts + 1
    BY <1>1, <2>1, <2>2
  <2>3. CASE pc' = "ended" /\ isoMounts' = isoMounts
    BY <1>1, <2>1, <2>3
  <2> QED
    BY <1>3, <2>2, <2>3 DEF MountIso
<1>4. CASE PickInstallImage
  BY <1>1, <1>4 DEF PickInstallImage
<1>5. CASE ValidatePlan
  BY <1>1, <1>5 DEF ValidatePlan
<1>6. CASE FindBootloader
  BY <1>1, <1>6 DEF FindBootloader
<1>7. CASE MeasureContents
  BY <1>1, <1>7 DEF MeasureContents
<1>8. CASE RequireTools
  BY <1>1, <1>8 DEF RequireTools
<1>9. CASE ProbeNtfs
  BY <1>1, <1>9 DEF ProbeNtfs
<1> QED
  BY <1>2, <1>3, <1>4, <1>5, <1>6, <1>7, <1>8, <1>9 DEF Probe

LEMMA WriteMountsKept ==
  ASSUME TypeOK, MountsKept, Write
  PROVE  MountsKept'
<1> USE DEF MountsKept, Goto, Abort, Fails
<1>1. job' = job
  BY WriteStays
<1>2. CASE Partition
  <2>1. /\ pc = "partition" /\ isoMounts' = isoMounts /\ umountFailed' = umountFailed
        /\ (pc' = "settle" /\ usbMounts' = 0) \/ pc' = "cleanup"
    BY <1>2 DEF Partition
  <2> QED
    BY <1>1, <2>1
<1>3. CASE Settle \/ MakeFilesystem \/ WriteLoader
  BY <1>1, <1>3 DEF Settle, MakeFilesystem, WriteLoader
<1>4. CASE MountUsb \/ CollectTree \/ CopyFile \/ CopyDone
  BY <1>1, <1>4 DEF MountUsb, CollectTree, CopyFile, CopyDone
<1>5. CASE SplitImage \/ WriteAnswerFile \/ CheckMedia \/ Sync
  BY <1>1, <1>5 DEF SplitImage, WriteAnswerFile, CheckMedia, Sync
<1>6. CASE CleanupUsb
  <2>1. pc = "cleanup" /\ pc' = "cleanupIso" /\ isoMounts' = isoMounts
    BY <1>6 DEF CleanupUsb
  <2>2. CASE usbMounts' = 0 /\ umountFailed' = umountFailed
    BY <1>1, <2>1, <2>2
  <2>3. CASE usbMounts' = usbMounts /\ umountFailed' = (umountFailed \/ usbMounts > 0)
    <3>1. usbMounts > 0 => umountFailed'
      BY <2>3
    <3>2. umountFailed => umountFailed'
      BY <2>3
    <3> QED
      BY <1>1, <2>1, <2>3, <3>1, <3>2
  <2> QED
    BY <1>6, <2>2, <2>3 DEF CleanupUsb
<1>7. CASE CleanupIso
  BY <1>1, <1>7 DEF CleanupIso, UnmountIso
<1> QED
  BY <1>2, <1>3, <1>4, <1>5, <1>6, <1>7 DEF Write

\* flash_windows_iso leaves nothing mounted after any number of runs, except
\* where a umount failed unseen or the ISO's tree could not be walked.
THEOREM MountsAreReleased == Spec => []MountsReleased
<1>1. Init => MountsKept
  BY DEF Init, MountsKept
<1>2. ASSUME TypeOK, MountsKept, RunAgain PROVE MountsKept'
  <2>1. job'.iso = job.iso
    BY <1>2 DEF RunAgain, TypeOK, DataOK, Job
  <2> QED
    BY <1>2, <2>1 DEF RunAgain, MountsKept
<1>3. ASSUME MountsKept, UNCHANGED vars PROVE MountsKept'
  BY <1>3 DEF vars, MountsKept
<1>4. TypeOK /\ MountsKept /\ [Next]_vars => MountsKept'
  BY <1>2, <1>3, ProbeMountsKept, WriteMountsKept DEF Next
<1>5. TypeOK /\ MountsKept => MountsReleased
  BY DEF MountsKept, MountsReleased, TypeOK, DataOK
<1> QED
  BY <1>1, <1>4, <1>5, TypeCorrect, PTL DEF Spec

-----------------------------------------------------------------------------
\* What is reported is what is on the drive.

ShapeOK == TypeOK /\ IsoHeld /\ UsbFree /\ Established
MediaOK == TouchedOK /\ Built /\ SuccessIsMedia

LEMMA InitMedia == Init => MediaOK
  BY DEF Init, MediaOK, TouchedOK, Built, SuccessIsMedia, Building

LEMMA ProbeMedia ==
  ASSUME TypeOK, MediaOK, Probe
  PROVE  MediaOK'
<1> USE DEF Goto, Return, Refuse
<1>1. /\ pc \in Preflight
      /\ pc' \in Preflight \union {"partition", "ended"}
      /\ pc' # "ended" => result' = result
      /\ result' = "ok" => result = "ok"
      /\ disk' = disk /\ touched' = touched
  <2>1. CASE AssertSafeTarget
    BY <2>1 DEF AssertSafeTarget, Preflight
  <2>2. CASE MountIso
    BY <2>2 DEF MountIso, Preflight
  <2>3. CASE PickInstallImage
    BY <2>3 DEF PickInstallImage, Preflight
  <2>4. CASE ValidatePlan
    BY <2>4 DEF ValidatePlan, Preflight, TypeOK, DataOK, Job, Verdict
  <2>5. CASE FindBootloader
    BY <2>5 DEF FindBootloader, Preflight
  <2>6. CASE MeasureContents
    BY <2>6 DEF MeasureContents, Preflight
  <2>7. CASE RequireTools
    BY <2>7 DEF RequireTools, Preflight
  <2>8. CASE ProbeNtfs
    BY <2>8 DEF ProbeNtfs, Preflight
  <2> QED
    BY <2>1, <2>2, <2>3, <2>4, <2>5, <2>6, <2>7, <2>8 DEF Probe
<1> QED
  BY <1>1 DEF MediaOK, TouchedOK, Built, SuccessIsMedia, Building, Preflight

LEMMA WriteTouched ==
  ASSUME TypeOK, TouchedOK, Write
  PROVE  TouchedOK'
<1> USE DEF Goto, Abort, Fails, TouchedOK, Building, Preflight
<1>1. CASE Partition
  <2>1. CASE pc' = "settle"
    <3>1. ~disk'.synced /\ touched' /\ result' = result
      BY <1>1, <2>1 DEF Partition
    <3> QED
      BY <1>1, <2>1, <3>1 DEF Partition
  <2>2. CASE pc' = "cleanup"
    <3>1. result' = "sfdisk"
      BY <1>1, <2>2 DEF Partition
    <3>2. CASE touched' = touched
      BY <1>1, <2>2, <3>1, <3>2 DEF Partition
    <3>3. CASE disk' = [disk EXCEPT !.table = "torn"]
      BY <1>1, <2>2, <3>1, <3>3 DEF TypeOK, DataOK, Disk
    <3> QED
      BY <1>1, <2>2, <3>2, <3>3 DEF Partition
  <2> QED
    BY <1>1, <2>1, <2>2 DEF Partition
<1>2. CASE Settle
  BY <1>2 DEF Settle
<1>3. CASE MakeFilesystem
  BY <1>3 DEF MakeFilesystem, TypeOK, DataOK, Disk
<1>4. CASE WriteLoader
  BY <1>4 DEF WriteLoader, TypeOK, DataOK, Disk
<1>5. CASE MountUsb
  BY <1>5 DEF MountUsb
<1>6. CASE CollectTree
  BY <1>6 DEF CollectTree
<1>7. CASE CopyFile
  BY <1>7 DEF CopyFile, TypeOK, DataOK, Disk
<1>8. CASE CopyDone
  BY <1>8 DEF CopyDone
<1>9. CASE SplitImage
  BY <1>9 DEF SplitImage, TypeOK, DataOK, Disk
<1>10. CASE WriteAnswerFile
  BY <1>10 DEF WriteAnswerFile, TypeOK, DataOK, Disk
<1>11. CASE CheckMedia
  BY <1>11 DEF CheckMedia
<1>12. CASE Sync
  BY <1>12 DEF Sync, TypeOK, DataOK, Disk
<1>13. CASE CleanupUsb
  BY <1>13 DEF CleanupUsb
<1>14. CASE CleanupIso
  BY <1>14 DEF CleanupIso
<1> QED
  BY <1>1, <1>2, <1>3, <1>4, <1>5, <1>6, <1>7, <1>8, <1>9, <1>10, <1>11, <1>12,
     <1>13, <1>14 DEF Write

LEMMA WriteBuilt ==
  ASSUME TypeOK, Built, Write
  PROVE  Built'
<1> USE DEF Goto, Abort, Fails, Built, Building, Copied, Chunks, Answer
<1>1. job' = job /\ layout' = layout
  BY WriteStays
<1>2. CASE pc' \in {"cleanup", "cleanupIso", "ended"}
  BY <1>2
<1>3. CASE Partition /\ pc' = "settle"
  BY <1>1, <1>3 DEF Partition
<1>4. CASE Settle /\ pc' = "mkfs"
  BY <1>1, <1>4 DEF Settle
<1>5. CASE MakeFilesystem /\ pc' # "cleanup"
  <2>1. /\ disk'.table = disk.table /\ disk'.loader = disk.loader
        /\ disk'.fs = FileSystemOf(layout) /\ disk'.files = {}
    BY <1>5 DEF MakeFilesystem, TypeOK, DataOK, Disk
  <2>2. layout \in Layouts
    BY <1>5 DEF MakeFilesystem, TypeOK, ControlOK
  <2> QED
    BY <1>1, <1>5, <2>1, <2>2 DEF MakeFilesystem, TypeOK, DataOK, Disk, Layouts
<1>6. CASE WriteLoader /\ pc' # "cleanup"
  BY <1>1, <1>6 DEF WriteLoader, TypeOK, DataOK, Disk
<1>7. CASE MountUsb /\ pc' # "cleanup"
  BY <1>1, <1>7 DEF MountUsb
<1>8. CASE CollectTree /\ pc' # "cleanup"
  BY <1>1, <1>8 DEF CollectTree
<1>9. CASE CopyFile /\ pc' # "cleanup"
  <2>1. PICK f \in todo : /\ Holds(f)
                          /\ disk' = [disk EXCEPT !.files = @ \union {f}]
                          /\ todo' = todo \ {f} /\ pc' = "copy"
    BY <1>9 DEF CopyFile
  <2>2. disk'.files = disk.files \union {f} /\ disk'.table = disk.table
        /\ disk'.fs = disk.fs /\ disk'.loader = disk.loader
    BY <2>1 DEF TypeOK, DataOK, Disk
  <2>3. disk'.files \union todo' = Copied
    BY <1>9, <2>1, <2>2 DEF CopyFile
  <2> QED
    BY <1>1, <1>9, <2>1, <2>2, <2>3 DEF CopyFile, Holds
<1>10. CASE CopyDone
  BY <1>1, <1>10 DEF CopyDone, Excluded
<1>11. CASE SplitImage /\ pc' # "cleanup"
  BY <1>1, <1>11 DEF SplitImage, TypeOK, DataOK, Disk, IsoFile
<1>12. CASE WriteAnswerFile /\ pc' # "cleanup"
  <2>1. CASE job.tweaks \in {"none", "noop"}
    BY <1>1, <1>12, <2>1 DEF WriteAnswerFile
  <2>2. CASE job.tweaks = "valid"
    BY <1>1, <1>12, <2>2 DEF WriteAnswerFile, TypeOK, DataOK, Disk, IsoFile
  <2> QED
    BY <1>12, <2>1, <2>2 DEF WriteAnswerFile
<1>13. CASE CheckMedia /\ pc' # "cleanup"
  BY <1>1, <1>13 DEF CheckMedia
<1> QED
  BY <1>2, <1>3, <1>4, <1>5, <1>6, <1>7, <1>8, <1>9, <1>10, <1>11, <1>12, <1>13
  DEF Write, Partition, Settle, CopyDone, Sync, CleanupUsb, CleanupIso

LEMMA WriteSuccess ==
  ASSUME TypeOK, Established, TouchedOK, Built, SuccessIsMedia, Write
  PROVE  SuccessIsMedia'
<1> SUFFICES ASSUME result' = "ok" PROVE IsMedia(job', layout', disk')
  BY DEF SuccessIsMedia
<1>1. job' = job /\ layout' = layout
  BY WriteStays
<1>2. CASE Sync
  <2>1. disk' = [disk EXCEPT !.synced = TRUE] /\ pc = "sync"
    BY <1>2 DEF Sync, Fails, Abort
  <2>2. /\ disk'.table = disk.table /\ disk'.fs = disk.fs /\ disk'.files = disk.files
        /\ disk'.loader = disk.loader /\ disk'.synced
    BY <2>1 DEF TypeOK, DataOK, Disk
  <2>3. layout \in Layouts /\ job.layout \in {"auto", layout}
    BY <2>1 DEF TypeOK, ControlOK, Established
  <2> QED
    BY <1>1, <2>1, <2>2, <2>3 DEF IsMedia, Built, Building, Copied, Chunks, Answer
<1>3. CASE CleanupUsb \/ CleanupIso
  BY <1>1, <1>3 DEF CleanupUsb, CleanupIso, SuccessIsMedia
<1>4. CASE ~Sync /\ ~CleanupUsb /\ ~CleanupIso
  <2>1. result = "none"
    BY <1>4 DEF Write, TouchedOK, Partition, Settle, MakeFilesystem, WriteLoader,
       MountUsb, CollectTree, CopyFile, CopyDone, SplitImage, WriteAnswerFile,
       CheckMedia
  <2> QED
    BY <1>4, <2>1 DEF Write, Partition, Settle, MakeFilesystem, WriteLoader,
       MountUsb, CollectTree, CopyFile, CopyDone, SplitImage, WriteAnswerFile,
       CheckMedia, Goto, Abort, Fails
<1> QED
  BY <1>2, <1>3, <1>4

LEMMA NextMedia ==
  ShapeOK /\ MediaOK /\ [Next]_vars => MediaOK'
<1>1. ASSUME ShapeOK, MediaOK, Write PROVE MediaOK'
  BY <1>1, WriteTouched, WriteBuilt, WriteSuccess DEF ShapeOK, MediaOK
<1>2. ASSUME RunAgain PROVE MediaOK'
  BY <1>2 DEF RunAgain, MediaOK, TouchedOK, Built, SuccessIsMedia, Building, Preflight
<1>3. ASSUME MediaOK, UNCHANGED vars PROVE MediaOK'
  BY <1>3 DEF vars, MediaOK, TouchedOK, Built, SuccessIsMedia, Copied, Chunks, Answer
<1> QED
  BY <1>1, <1>2, <1>3, ProbeMedia DEF Next, ShapeOK

LEMMA Invariance == Spec => [](ShapeOK /\ MediaOK)
<1>1. Init => ShapeOK /\ MediaOK
  BY InitTypes, InitEstablished, InitMedia DEF ShapeOK
<1>2. ShapeOK /\ MediaOK /\ [Next]_vars => (ShapeOK /\ MediaOK)'
  BY NextTypes, NextEstablished, NextMedia DEF ShapeOK
<1> QED
  BY <1>1, <1>2, PTL DEF Spec

\* "ok" means the media is there: for every job and after any number of failed
\* runs, success of flash_windows_iso implies the layout's table, filesystem
\* and loader, exactly the files of this ISO and this answer file, and a sync.
THEOREM SuccessMeansMedia == Spec => []SuccessIsMedia
  BY Invariance, PTL DEF MediaOK

-----------------------------------------------------------------------------
\* What the sum over a finite set is: TreeSize, and the room CopyFile needs.

\* Every set of numbers that is not empty has a least one: with it a statement
\* about all sets is proved by looking at a smallest one that it fails for.
LEMMA Least ==
  ASSUME NEW T \in SUBSET Nat, T # {}
  PROVE  \E x \in T : \A y \in T : x <= y
<1> DEFINE R == OpToRel(<, Nat)
<1>1. IsWellFoundedOn(R, Nat)
  BY NatLessThanWellFounded
<1>2. \E x \in T : \A y \in T : ~(<<y, x>> \in R)
  <2> HIDE DEF R
  <2> QED BY <1>1, WFMin, Zenon
<1>3. PICK x \in T : \A y \in T : ~(<<y, x>> \in R)
  BY <1>2
<1>4. ASSUME NEW y \in T PROVE x <= y
  <2>1. x \in Nat /\ y \in Nat
    OBVIOUS
  <2>2. y < x => <<y, x>> \in R
    BY <2>1 DEF OpToRel
  <2> HIDE DEF R
  <2>3. ~(y < x)
    BY <2>2, <1>3
  <2> QED BY <2>1, <2>3
<1> QED
  BY <1>4

Total(g, S) == MapThenSumSet(LAMBDA f : g[f], S)

First(s) == CHOOSE x \in s : TRUE

\* The function that the sum is a value of, on the sets in D.
IsSum(h, g, D) == h = [s \in D |-> IF s = {} THEN 0 ELSE g[First(s)] + h[s \ {First(s)}]]

LEMMA FirstIsIn ==
  ASSUME NEW s, s # {}
  PROVE  First(s) \in s
BY DEF First

LEMMA OneFewer ==
  ASSUME NEW s, IsFiniteSet(s), NEW x \in s
  PROVE  /\ IsFiniteSet(s \ {x}) /\ Cardinality(s) \in Nat /\ Cardinality(s \ {x}) \in Nat
         /\ Cardinality(s \ {x}) = Cardinality(s) - 1
BY FS_RemoveElement, FS_CardinalityType

Small(U, n) == {s \in SUBSET U : Cardinality(s) <= n}

LEMMA SumsExist ==
  ASSUME NEW g, NEW U, IsFiniteSet(U), NEW N \in Nat
  PROVE  \E h : IsSum(h, g, Small(U, N))
<1> DEFINE T == {n \in Nat : ~\E h : IsSum(h, g, Small(U, n))}
<1>1. SUFFICES ASSUME T # {} PROVE FALSE
  OBVIOUS
<1>2. PICK m \in T : \A y \in T : m <= y
  BY Least, <1>1
<1>3. \A s \in SUBSET U : IsFiniteSet(s) /\ Cardinality(s) \in Nat /\ (Cardinality(s) = 0 <=> s = {})
  BY FS_Subset, FS_CardinalityType, FS_EmptySet
<1> DEFINE next(h, s) == IF s = {} THEN 0 ELSE g[First(s)] + h[s \ {First(s)}]
<1>4. m # 0
  <2> DEFINE h == [s \in Small(U, 0) |-> 0]
  <2>1. \A s \in Small(U, 0) : s = {}
    BY <1>3 DEF Small
  <2>2. \A s \in Small(U, 0) : h[s] = next(h, s)
    BY <2>1
  <2>3. h = [s \in Small(U, 0) |-> h[s]]
    OBVIOUS
  <2> HIDE DEF h
  <2>4. IsSum(h, g, Small(U, 0))
    BY <2>2, <2>3, Zenon DEF IsSum
  <2> QED BY <2>4
<1>5. m \in Nat /\ m - 1 \in Nat /\ m - 1 \notin T
  BY <1>2, <1>4
<1>6. PICK k : IsSum(k, g, Small(U, m - 1))
  BY <1>5
<1>7. \A s \in Small(U, m - 1) : k[s] = next(k, s)
  BY <1>6, Zenon DEF IsSum
<1> DEFINE h == [s \in Small(U, m) |-> IF s \in Small(U, m - 1) THEN k[s] ELSE next(k, s)]
<1>8. ASSUME NEW s \in Small(U, m) PROVE h[s] = next(h, s)
  <2>1. h[s] = next(k, s)
    BY <1>7
  <2>2. s # {} => s \ {First(s)} \in Small(U, m) /\ s \ {First(s)} \in Small(U, m - 1)
    <3>1. ASSUME s # {} PROVE s \ {First(s)} \in Small(U, m) /\ s \ {First(s)} \in Small(U, m - 1)
      <4>1. s \in SUBSET U /\ Cardinality(s) <= m
        BY DEF Small
      <4>2. /\ Cardinality(s) \in Nat /\ Cardinality(s \ {First(s)}) \in Nat
            /\ Cardinality(s \ {First(s)}) = Cardinality(s) - 1
        BY <3>1, <4>1, <1>3, FirstIsIn, OneFewer
      <4> QED BY <1>5, <4>1, <4>2 DEF Small
    <3> QED BY <3>1
  <2>3. s # {} => h[s \ {First(s)}] = k[s \ {First(s)}]
    BY <2>2
  <2> HIDE DEF h
  <2> QED BY <2>1, <2>3
<1>9. h = [s \in Small(U, m) |-> h[s]]
  OBVIOUS
<1> HIDE DEF h
<1>10. IsSum(h, g, Small(U, m))
  BY <1>8, <1>9, Zenon DEF IsSum
<1> QED BY <1>10

LEMMA SumExists ==
  ASSUME NEW g, NEW S, IsFiniteSet(S)
  PROVE  \E h : IsSum(h, g, SUBSET S)
<1>1. Cardinality(S) \in Nat
  BY FS_CardinalityType
<1>2. Small(S, Cardinality(S)) = SUBSET S
  BY FS_Subset DEF Small
<1>3. \E h : IsSum(h, g, Small(S, Cardinality(S)))
  BY <1>1, SumsExist
<1> QED BY <1>2, <1>3

\* Two of them agree where both are defined.
LEMMA SumsAgree ==
  ASSUME NEW g, NEW S, NEW A \in SUBSET S, NEW h, NEW k,
         IsFiniteSet(S), IsSum(h, g, SUBSET S), IsSum(k, g, SUBSET A)
  PROVE  h[A] = k[A]
<1> DEFINE bad(s) == h[s] # k[s]
           T == {n \in Nat : \E s \in SUBSET A : Cardinality(s) = n /\ bad(s)}
<1>1. SUFFICES ASSUME bad(A) PROVE FALSE
  OBVIOUS
<1>2. \A s \in SUBSET A : IsFiniteSet(s) /\ Cardinality(s) \in Nat
  BY FS_Subset, FS_CardinalityType
<1>3. T # {} /\ T \subseteq Nat
  BY <1>1, <1>2
<1>4. PICK m \in T : \A y \in T : m <= y
  <2> HIDE DEF T
  <2> QED BY <1>3, Least
<1>5. PICK s \in SUBSET A : Cardinality(s) = m /\ bad(s)
  OBVIOUS
<1>6. /\ h[s] = IF s = {} THEN 0 ELSE g[First(s)] + h[s \ {First(s)}]
      /\ k[s] = IF s = {} THEN 0 ELSE g[First(s)] + k[s \ {First(s)}]
  <2>1. s \in SUBSET S
    OBVIOUS
  <2> QED BY <2>1, Zenon DEF IsSum
<1>7. s # {}
  BY <1>5, <1>6
<1> DEFINE r == s \ {First(s)}
<1>8. Cardinality(r) \in Nat /\ Cardinality(r) = m - 1 /\ r \in SUBSET A
  BY <1>2, <1>5, <1>7, FirstIsIn, OneFewer
<1>9. ~bad(r)
  <2>1. Cardinality(r) \in Nat /\ Cardinality(r) < m
    BY <1>2, <1>5, <1>8
  <2>2. bad(r) => Cardinality(r) \in T
    BY <1>8
  <2> HIDE DEF T, r
  <2> QED BY <1>4, <1>3, <2>1, <2>2
<1> QED BY <1>5, <1>6, <1>7, <1>9

LEMMA TotalLaw ==
  ASSUME NEW g, NEW S, IsFiniteSet(S)
  PROVE  Total(g, S) = IF S = {} THEN 0 ELSE g[First(S)] + Total(g, S \ {First(S)})
<1>1. \A A : Total(g, A) = (CHOOSE h : IsSum(h, g, SUBSET A))[A]
  BY Zenon DEF Total, IsSum, First, MapThenSumSet, MapThenFoldSet
<1> DEFINE h == CHOOSE h : IsSum(h, g, SUBSET S)
           A == S \ {First(S)}
           k == CHOOSE k : IsSum(k, g, SUBSET A)
<1>2. IsFiniteSet(A) /\ A \in SUBSET S
  BY FS_Subset
<1>3. IsSum(h, g, SUBSET S) /\ IsSum(k, g, SUBSET A)
  BY <1>2, SumExists
<1>4. Total(g, S) = h[S] /\ Total(g, A) = k[A]
  BY <1>1
<1> HIDE DEF h, k
<1>5. h[S] = IF S = {} THEN 0 ELSE g[First(S)] + h[A]
  <2>1. S \in SUBSET S
    OBVIOUS
  <2> QED BY <1>3, <2>1, Zenon DEF IsSum
<1>6. h[A] = k[A]
  <2> HIDE DEF A
  <2> QED BY <1>2, <1>3, SumsAgree
<1> QED BY <1>4, <1>5, <1>6

LEMMA TotalIsNatural ==
  ASSUME NEW U, NEW g \in [U -> Nat], NEW S \in SUBSET U, IsFiniteSet(S)
  PROVE  Total(g, S) \in Nat
<1> DEFINE bad(s) == Total(g, s) \notin Nat
           T == {n \in Nat : \E s \in SUBSET S : Cardinality(s) = n /\ bad(s)}
<1>1. SUFFICES ASSUME bad(S) PROVE FALSE
  OBVIOUS
<1> HIDE DEF bad
<1>2. \A s \in SUBSET S : IsFiniteSet(s) /\ Cardinality(s) \in Nat
  BY FS_Subset, FS_CardinalityType
<1>3. T # {} /\ T \subseteq Nat
  BY <1>1, <1>2
<1>4. PICK m \in T : \A y \in T : m <= y
  <2> HIDE DEF T
  <2> QED BY <1>3, Least
<1>5. PICK s \in SUBSET S : Cardinality(s) = m /\ bad(s)
  OBVIOUS
<1>6. Total(g, s) = IF s = {} THEN 0 ELSE g[First(s)] + Total(g, s \ {First(s)})
  BY <1>2, TotalLaw
<1>7. s # {}
  BY <1>5, <1>6 DEF bad
<1> DEFINE r == s \ {First(s)}
<1>8. Cardinality(r) \in Nat /\ Cardinality(r) = m - 1 /\ r \in SUBSET S /\ m \in Nat
  BY <1>2, <1>5, <1>7, FirstIsIn, OneFewer
<1>9. ~bad(r)
  <2>1. bad(r) => Cardinality(r) \in T
    BY <1>8
  <2> HIDE DEF T, r
  <2> QED BY <1>4, <1>8, <2>1
<1>10. g[First(s)] \in Nat
  BY <1>7, FirstIsIn
<1> QED BY <1>5, <1>6, <1>7, <1>9, <1>10 DEF bad

\* The order of summation is of no account.
LEMMA TotalWithout ==
  ASSUME NEW U, NEW g \in [U -> Nat], NEW S \in SUBSET U, IsFiniteSet(S), NEW y \in S
  PROVE  Total(g, S) = g[y] + Total(g, S \ {y})
<1> DEFINE bad(s) == \E x \in s : Total(g, s) # g[x] + Total(g, s \ {x})
           T == {n \in Nat : \E s \in SUBSET S : Cardinality(s) = n /\ bad(s)}
<1>1. SUFFICES ASSUME bad(S) PROVE FALSE
  OBVIOUS
<1>2. \A s \in SUBSET S : IsFiniteSet(s) /\ Cardinality(s) \in Nat
  BY FS_Subset, FS_CardinalityType
<1>3. T # {} /\ T \subseteq Nat
  <2> HIDE DEF bad
  <2> QED BY <1>1, <1>2
<1>4. PICK m \in T : \A n \in T : m <= n
  <2> HIDE DEF T
  <2> QED BY <1>3, Least
<1>5. PICK s \in SUBSET S : Cardinality(s) = m /\ bad(s)
  <2> HIDE DEF bad
  <2> QED OBVIOUS
<1>6. PICK x \in s : Total(g, s) # g[x] + Total(g, s \ {x})
  BY <1>5
<1> HIDE DEF bad
<1> DEFINE c == First(s)
<1>7. c \in s /\ s \in SUBSET U /\ IsFiniteSet(s) /\ m \in Nat
  BY <1>2, <1>6, FirstIsIn
<1>8. \A e \in s : \A d \in s \ {e} : Total(g, s \ {e}) = g[d] + Total(g, (s \ {e}) \ {d})
  <2>1. ASSUME NEW e \in s PROVE ~bad(s \ {e})
    <3>1. Cardinality(s \ {e}) \in Nat /\ Cardinality(s \ {e}) = m - 1 /\ s \ {e} \in SUBSET S
      BY <1>2, <1>5, <1>7, OneFewer
    <3>2. bad(s \ {e}) => Cardinality(s \ {e}) \in T
      BY <3>1
    <3> HIDE DEF T
    <3> QED BY <1>4, <1>7, <3>1, <3>2
  <2> QED BY <2>1 DEF bad
<1>9. Total(g, s) = g[c] + Total(g, s \ {c})
  BY <1>7, TotalLaw
<1> HIDE DEF c, T
<1>10. x # c
  BY <1>6, <1>9
<1>11. /\ Total(g, s \ {c}) = g[x] + Total(g, (s \ {c}) \ {x})
       /\ Total(g, s \ {x}) = g[c] + Total(g, (s \ {x}) \ {c})
  BY <1>7, <1>8, <1>10
<1>12. (s \ {c}) \ {x} = (s \ {x}) \ {c}
  OBVIOUS
<1>13. Total(g, (s \ {x}) \ {c}) \in Nat /\ g[x] \in Nat /\ g[c] \in Nat
  <2>1. (s \ {x}) \ {c} \in SUBSET U /\ IsFiniteSet((s \ {x}) \ {c})
    BY <1>2, <1>7
  <2> QED BY <1>7, <2>1, TotalIsNatural
<1> DEFINE t == Total(g, (s \ {x}) \ {c})
<1>14. Total(g, s) = g[c] + (g[x] + t) /\ Total(g, s \ {x}) = g[c] + t
  BY <1>9, <1>11, <1>12
<1> HIDE DEF t
<1>15. Total(g, s) = g[x] + Total(g, s \ {x})
  BY <1>13, <1>14 DEF t
<1> QED BY <1>6, <1>15

LEMMA TotalIsMonotone ==
  ASSUME NEW U, NEW g \in [U -> Nat], NEW S \in SUBSET U, IsFiniteSet(S), NEW A \in SUBSET S
  PROVE  Total(g, A) <= Total(g, S)
<1> DEFINE bad(s) == A \subseteq s /\ ~(Total(g, A) <= Total(g, s))
           T == {n \in Nat : \E s \in SUBSET S : Cardinality(s) = n /\ bad(s)}
<1>1. SUFFICES ASSUME bad(S) PROVE FALSE
  OBVIOUS
<1>2. \A s \in SUBSET S : IsFiniteSet(s) /\ Cardinality(s) \in Nat
  BY FS_Subset, FS_CardinalityType
<1>3. T # {} /\ T \subseteq Nat
  <2> HIDE DEF bad
  <2> QED BY <1>1, <1>2
<1>4. PICK m \in T : \A n \in T : m <= n
  <2> HIDE DEF T
  <2> QED BY <1>3, Least
<1>5. PICK s \in SUBSET S : Cardinality(s) = m /\ bad(s)
  <2> HIDE DEF bad
  <2> QED OBVIOUS
<1>6. Total(g, A) \in Nat /\ \A r \in SUBSET s : Total(g, r) \in Nat
  BY <1>2, TotalIsNatural
<1>7. A # s
  BY <1>5, <1>6
<1>8. PICK x \in s : x \notin A
  BY <1>5, <1>7
<1> DEFINE r == s \ {x}
<1>9. Cardinality(r) \in Nat /\ Cardinality(r) = m - 1 /\ r \in SUBSET S /\ m \in Nat
  BY <1>2, <1>5, OneFewer
<1>10. ~bad(r)
  <2> HIDE DEF bad
  <2>1. bad(r) => Cardinality(r) \in T
    BY <1>9
  <2> HIDE DEF T, r
  <2> QED BY <1>4, <1>9, <2>1
<1>11. Total(g, A) <= Total(g, r)
  BY <1>5, <1>8, <1>10
<1>12. Total(g, s) = g[x] + Total(g, r) /\ g[x] \in Nat
  BY <1>2, TotalWithout
<1> QED BY <1>5, <1>6, <1>11, <1>12

-----------------------------------------------------------------------------
\* A job that can become media does.

LayoutFor(j) ==
  IF j.layout # "auto" THEN j.layout
  ELSE IF j.iso.size[InstallImage(j.iso)] > MaxFatFile THEN Ntfs ELSE Fat

CanSucceed(j) == Feasible(j, LayoutFor(j))

\* Nothing has failed so far: the layout is the one wanted, and no step has
\* given up.
OnCourse ==
  ~faulted /\ CanSucceed(job) =>
    /\ pc \notin {"target", "mountIso", "pick"} => layout = LayoutFor(job)
    /\ pc = "probe" => layout = Ntfs
    /\ pc \in {"cleanup", "cleanupIso", "ended"} => result = "ok"

LEMMA FilesAreFinite == \A S \in SUBSET IsoFile : IsFiniteSet(S)
<1>1. IsFiniteSet({"bootloader"} \union {"boot.wim"})
  BY FS_AddElement, FS_Singleton
<1>2. IsFiniteSet(({"bootloader"} \union {"boot.wim"}) \union {"install.wim"})
  BY <1>1, FS_AddElement
<1>3. IsFiniteSet((({"bootloader"} \union {"boot.wim"}) \union {"install.wim"}) \union {"install.esd"})
  BY <1>2, FS_AddElement
<1>4. IsFiniteSet(((({"bootloader"} \union {"boot.wim"}) \union {"install.wim"}) \union {"install.esd"})
                    \union {"other"})
  BY <1>3, FS_AddElement
<1>5. IsoFile = ((({"bootloader"} \union {"boot.wim"}) \union {"install.wim"}) \union {"install.esd"})
                    \union {"other"}
  BY DEF IsoFile
<1>6. IsFiniteSet(IsoFile)
  BY <1>4, <1>5
<1> QED BY <1>6, FS_Subset

\* The room that any of the ISO's files take is no more than all of them take.
LEMMA PartFits ==
  ASSUME NEW j \in Job, NEW S \in SUBSET j.iso.files
  PROVE  /\ TreeSize(j.iso) \in Nat
         /\ MapThenSumSet(LAMBDA g : j.iso.size[g], S) <= TreeSize(j.iso)
         /\ MapThenSumSet(LAMBDA g : j.iso.size[g], S) \in Nat
<1>1. j.iso.size \in [IsoFile -> Nat] /\ j.iso.files \in SUBSET IsoFile
  BY DEF Job, Iso
<1>2. TreeSize(j.iso) = Total(j.iso.size, j.iso.files)
  BY DEF TreeSize, Total
<1>3. MapThenSumSet(LAMBDA g : j.iso.size[g], S) = Total(j.iso.size, S)
  BY DEF Total
<1>4. IsFiniteSet(S) /\ IsFiniteSet(j.iso.files) /\ S \in SUBSET IsoFile
  BY <1>1, FilesAreFinite
<1>5. Total(j.iso.size, S) <= Total(j.iso.size, j.iso.files)
  BY <1>1, <1>4, TotalIsMonotone
<1>6. Total(j.iso.size, S) \in Nat /\ Total(j.iso.size, j.iso.files) \in Nat
  BY <1>1, <1>4, TotalIsNatural
<1> QED BY <1>2, <1>3, <1>5, <1>6

\* What the checks will find of a job that can succeed.
LEMMA FeasibleFacts ==
  ASSUME NEW j \in Job, CanSucceed(j)
  PROVE  LET l == LayoutFor(j)
         IN  /\ l \in Layouts /\ (j.layout = "auto" => l = DefaultFor(ImageSize(j.iso)))
             /\ Probed(j, l)
             /\ TreeSize(j.iso) <= VolumeSize(j.dev)
             /\ {"bootloader", "boot.wim", InstallImage(j.iso)} \subseteq j.iso.files
             /\ l = Fat => \A f \in j.iso.files \ Excluded(j.iso, l) : j.iso.size[f] <= MaxFatFile
             /\ j.tweaks # "badAccount"
             /\ {"mount", "umount"} \subseteq j.host.tools
<1> DEFINE l == LayoutFor(j)
           image == InstallImage(j.iso)
           spare == IF l = Ntfs THEN {"mkfs.fat", "wimlib-imagex"}
                    ELSE {"mkfs.ntfs"} \union
                         (IF j.iso.size[image] <= MaxFatFile THEN {"wimlib-imagex"} ELSE {})
<1>1. /\ j.dev.removable /\ MinDevice <= j.dev.size /\ j.dev.size <= MaxDevice
      /\ {image, "bootloader", "boot.wim"} \subseteq j.iso.files /\ j.iso.readable
      /\ 100 * TreeSize(j.iso) <= 99 * VolumeSize(j.dev)
      /\ l = Fat => \A f \in j.iso.files \ {image} : j.iso.size[f] <= MaxFatFile
      /\ j.plan[l] = "ok" /\ j.tweaks # "badAccount"
      /\ Tool \ spare \subseteq j.host.tools
      /\ l = Ntfs => j.host.ntfsMounts /\ j.host.loaderIntact
  BY DEF CanSucceed, Feasible
<1>2. l \in Layouts
  BY DEF LayoutFor, Job, Layouts
<1>3. image \in {"install.wim", "install.esd"}
  BY DEF InstallImage
<1>4. j.iso.size[image] \in Nat /\ MaxFatFile \in Nat
  BY <1>3, SizesAssumption DEF Job, Iso, IsoFile
<1>5. TreeSize(j.iso) \in Nat
  BY PartFits
<1>6. VolumeSize(j.dev) \in Nat /\ j.dev.size \in Nat /\ MinDevice \in Nat /\ MaxDevice \in Nat
  BY SizesAssumption DEF VolumeSize, Job, Device
<1>7. TreeSize(j.iso) <= Usable(j.dev) /\ TreeSize(j.iso) <= VolumeSize(j.dev)
  <2>1. ASSUME NEW t \in Nat, NEW v \in Nat, 100 * t <= 99 * v PROVE t <= (v * 99) \div 100 /\ t <= v
    BY <2>1
  <2> QED BY <1>1, <1>5, <1>6, <2>1 DEF Usable
<1>8. HasInstallImage(j.iso) /\ "bootloader" \in j.iso.files
  BY <1>1, <1>3 DEF HasInstallImage
<1>9. SafeTarget(j.dev)
  BY <1>1, <1>6 DEF SafeTarget
<1>10. Needed(l, ImageSize(j.iso)) \subseteq j.host.tools
  <2>1. "wimlib-imagex" \in spare => ~NeedsSplitter(l, ImageSize(j.iso))
    BY <1>2, <1>4 DEF NeedsSplitter, ImageSize, Layouts, Fat, Ntfs
  <2>2. "mkfs.ntfs" \in spare => l # Ntfs
    OBVIOUS
  <2>3. "mkfs.fat" \in spare => l = Ntfs
    OBVIOUS
  <2>4. spare \subseteq {"mkfs.fat", "mkfs.ntfs", "wimlib-imagex"}
    OBVIOUS
  <2> HIDE DEF spare, l
  <2> QED BY <1>1, <2>1, <2>2, <2>3, <2>4 DEF Needed, Tool
<1>11. {"mount", "umount"} \subseteq j.host.tools
  BY <1>1 DEF Tool
<1>12. j.layout = "auto" => l = DefaultFor(ImageSize(j.iso))
  BY DEF LayoutFor, DefaultFor, ImageSize
<1>13. l = Fat => \A f \in j.iso.files \ Excluded(j.iso, l) : j.iso.size[f] <= MaxFatFile
  <2>1. image \in Excluded(j.iso, l) \/ l # Fat \/ ~(j.iso.size[image] > MaxFatFile)
    BY DEF Excluded, NeedsSplitter, ImageSize
  <2> HIDE DEF image, l
  <2> QED BY <1>1, <1>4, <2>1
<1>14. Probed(j, l)
  BY <1>1, <1>7, <1>8, <1>9, <1>10 DEF Probed
<1> HIDE DEF l, image
<1>15. {"bootloader", "boot.wim", image} \subseteq j.iso.files /\ j.tweaks # "badAccount"
  BY <1>1
<1> QED BY <1>2, <1>7, <1>11, <1>12, <1>13, <1>14, <1>15 DEF l, image

LEMMA ProbeOnCourse ==
  ASSUME ShapeOK, OnCourse, Probe
  PROVE  OnCourse'
<1> SUFFICES ASSUME ~faulted', CanSucceed(job')
             PROVE  /\ pc' \notin {"target", "mountIso", "pick"} => layout' = LayoutFor(job')
                    /\ pc' = "probe" => layout' = Ntfs
                    /\ pc' \in {"cleanup", "cleanupIso", "ended"} => result' = "ok"
  BY DEF OnCourse
<1>1. job' = job /\ job \in Job
  BY DEF Probe, AssertSafeTarget, MountIso, PickInstallImage, ValidatePlan,
         FindBootloader, MeasureContents, RequireTools, ProbeNtfs, ShapeOK, TypeOK, DataOK
<1> DEFINE l == LayoutFor(job)
<1>2. /\ l \in Layouts /\ (job.layout = "auto" => l = DefaultFor(ImageSize(job.iso)))
      /\ Probed(job, l) /\ {"mount", "umount"} \subseteq job.host.tools
  BY <1>1, FeasibleFacts
<1>3. job.layout # "auto" => l = job.layout
  BY DEF LayoutFor
<1>4. LayoutFor(job') = l
  BY <1>1
<1>5. ~faulted => (pc \notin {"target", "mountIso", "pick"} => layout = l)
  BY <1>1 DEF OnCourse
<1> HIDE DEF l
<1> USE DEF Goto, Return, Refuse
<1>6. CASE AssertSafeTarget
  BY <1>1, <1>2, <1>6 DEF AssertSafeTarget, Probed
<1>7. CASE MountIso
  BY <1>1, <1>2, <1>7 DEF MountIso
<1>8. CASE PickInstallImage
  BY <1>1, <1>2, <1>3, <1>4, <1>8 DEF PickInstallImage, Probed
<1>9. CASE ValidatePlan
  BY <1>1, <1>2, <1>4, <1>5, <1>9 DEF ValidatePlan, Probed
<1>10. CASE FindBootloader
  BY <1>1, <1>2, <1>4, <1>5, <1>10 DEF FindBootloader, Probed
<1>11. CASE MeasureContents
  <2>1. TreeSize(job.iso) \in Nat /\ Usable(job.dev) \in Nat
    <3>1. VolumeSize(job.dev) \in Nat
      BY <1>1, SizesAssumption DEF VolumeSize, Job, Device
    <3>2. \A v \in Nat : (v * 99) \div 100 \in Nat
      OBVIOUS
    <3> QED BY <1>1, <3>1, <3>2, PartFits DEF Usable
  <2> QED BY <1>1, <1>2, <1>4, <1>5, <1>11, <2>1 DEF MeasureContents, Probed
<1>12. CASE RequireTools
  BY <1>1, <1>2, <1>4, <1>5, <1>12 DEF RequireTools, Probed
<1>13. CASE ProbeNtfs
  <2>1. ~faulted => layout = Ntfs
    BY <1>1, <1>13 DEF ProbeNtfs, OnCourse
  <2> QED BY <1>1, <1>2, <1>4, <1>5, <1>13, <2>1 DEF ProbeNtfs, Probed
<1> QED
  BY <1>6, <1>7, <1>8, <1>9, <1>10, <1>11, <1>12, <1>13 DEF Probe

LEMMA WriteOnCourse ==
  ASSUME ShapeOK, MediaOK, OnCourse, Write
  PROVE  OnCourse'
<1> SUFFICES ASSUME ~faulted', CanSucceed(job')
             PROVE  /\ pc' \notin {"target", "mountIso", "pick"} => layout' = LayoutFor(job')
                    /\ pc' = "probe" => layout' = Ntfs
                    /\ pc' \in {"cleanup", "cleanupIso", "ended"} => result' = "ok"
  BY DEF OnCourse
<1>1. job' = job /\ layout' = layout /\ job \in Job /\ pc \in Destructive
  BY WriteStays DEF ShapeOK, TypeOK, DataOK
<1> DEFINE l == LayoutFor(job)
<1>2. /\ l \in Layouts /\ Probed(job, l)
      /\ TreeSize(job.iso) <= VolumeSize(job.dev)
      /\ {"bootloader", "boot.wim", InstallImage(job.iso)} \subseteq job.iso.files
      /\ l = Fat => \A f \in job.iso.files \ Excluded(job.iso, l) : job.iso.size[f] <= MaxFatFile
      /\ job.tweaks # "badAccount"
      /\ {"mount", "umount"} \subseteq job.host.tools
  BY <1>1, FeasibleFacts
<1>3. ~faulted => layout = l /\ (pc \in {"cleanup", "cleanupIso"} => result = "ok")
  BY <1>1 DEF OnCourse, Destructive
<1>4. LayoutFor(job') = l
  BY <1>1
<1> HIDE DEF l
<1>5. Needed(l, ImageSize(job.iso)) \subseteq job.host.tools
  BY <1>2 DEF Probed
<1>6. ~faulted
  BY DEF Write, Partition, Settle, MakeFilesystem, WriteLoader, MountUsb, CollectTree, CopyFile,
         CopyDone, SplitImage, WriteAnswerFile, CheckMedia, Sync, CleanupUsb, CleanupIso, Fails
<1>7. SUFFICES ASSUME pc' \in {"cleanup", "cleanupIso", "ended"} PROVE result' = "ok"
  BY <1>1, <1>3, <1>4, <1>6, WriteStays DEF Destructive
<1> USE DEF Goto, Abort, Fails, Missing
<1>8. CASE Partition \/ Settle
  BY <1>5, <1>6, <1>7, <1>8 DEF Partition, Settle, Needed
<1>9. CASE MakeFilesystem
  <2>1. Mkfs(layout) \in job.host.tools
    BY <1>2, <1>3, <1>5, <1>6 DEF Mkfs, Needed
  <2> QED BY <1>6, <1>7, <1>9, <2>1 DEF MakeFilesystem
<1>10. CASE WriteLoader
  <2>1. layout = Ntfs
    BY <1>10 DEF WriteLoader, MediaOK, Built
  <2> QED BY <1>2, <1>3, <1>6, <1>7, <1>10, <2>1 DEF WriteLoader, Probed
<1>11. CASE MountUsb
  <2>1. disk.fs = FileSystemOf(layout)
    BY <1>11 DEF MountUsb, MediaOK, Built, Building
  <2>2. Mountable
    BY <1>2, <1>3, <1>6, <2>1 DEF Mountable, FileSystemOf, Probed, Layouts
  <2> QED BY <1>6, <1>7, <1>11, <2>2 DEF MountUsb
<1>12. CASE CollectTree
  BY <1>2, <1>6, <1>7, <1>12 DEF CollectTree, Probed
<1>13. CASE CopyFile
  <2>1. PICK file \in todo : Holds(file) \/ (faulted' = (IF ~Holds(file) THEN faulted ELSE TRUE))
    BY <1>6, <1>7, <1>13 DEF CopyFile
  <2>2. \A f \in todo : Holds(f)
    <3> SUFFICES ASSUME NEW f \in todo PROVE Holds(f)
      OBVIOUS
    <3>1. /\ disk.files \union todo = job.iso.files \ Excluded(job.iso, l)
          /\ disk.fs = FileSystemOf(l)
      BY <1>3, <1>6, <1>13 DEF CopyFile, MediaOK, Built, Building, Copied
    <3>2. disk.fs = "fat32" => job.iso.size[f] <= MaxFatFile
      BY <1>2, <3>1 DEF FileSystemOf, Layouts
    <3> DEFINE S == (disk.files \intersect IsoFile) \union {f}
    <3>3. S \in SUBSET job.iso.files
      BY <3>1
    <3> HIDE DEF S
    <3>4. /\ TreeSize(job.iso) \in Nat
          /\ MapThenSumSet(LAMBDA g : job.iso.size[g], S) <= TreeSize(job.iso)
          /\ MapThenSumSet(LAMBDA g : job.iso.size[g], S) \in Nat
      BY <1>1, <3>3, PartFits
    <3>5. VolumeSize(job.dev) \in Nat
      BY <1>1, SizesAssumption DEF VolumeSize, Job, Device
    <3> DEFINE room == MapThenSumSet(LAMBDA g : job.iso.size[g], S)
    <3>6. room <= VolumeSize(job.dev)
      <4>1. room \in Nat /\ room <= TreeSize(job.iso)
        BY <3>4
      <4> HIDE DEF room
      <4> QED BY <1>2, <3>4, <3>5, <4>1
    <3> QED BY <3>2, <3>6 DEF Holds, S
  <2> QED BY <1>6, <1>7, <1>13, <2>2 DEF CopyFile
<1>14. CASE SplitImage
  <2>1. NeedsSplitter(l, ImageSize(job.iso))
    BY <1>3, <1>6, <1>14 DEF SplitImage, MediaOK, Built, Chunks, Excluded
  <2> QED BY <1>5, <1>6, <1>7, <1>14, <2>1 DEF SplitImage, Needed
<1>15. CASE WriteAnswerFile
  BY <1>2, <1>6, <1>7, <1>15 DEF WriteAnswerFile
<1>16. CASE CheckMedia
  <2>1. {"bootloader", "boot.wim"} \subseteq disk.files
    BY <1>2, <1>3, <1>6, <1>16
    DEF CheckMedia, MediaOK, Built, Copied, Chunks, Answer, Excluded, InstallImage
  <2> QED BY <1>7, <1>16, <2>1 DEF CheckMedia
<1>17. CASE Sync
  BY <1>5, <1>6, <1>7, <1>17 DEF Sync, Needed
<1>18. CASE CleanupUsb \/ CleanupIso
  BY <1>3, <1>6, <1>18 DEF CleanupUsb, CleanupIso
<1>19. CASE CopyDone
  BY <1>7, <1>19 DEF CopyDone
<1> QED
  BY <1>8, <1>9, <1>10, <1>11, <1>12, <1>13, <1>14, <1>15, <1>16, <1>17, <1>18, <1>19 DEF Write

\* flash_windows_iso refuses nothing that works: for every job that can become
\* media, however many runs precede, a run in which no command fails succeeds,
\* and an unasked-for layout is NTFS exactly when FAT32 cannot hold the image.
THEOREM GoodJobsSucceed == Spec => []GoodJobSucceeds
<1>1. Init => OnCourse
  BY DEF Init, OnCourse
<1>2. ASSUME RunAgain PROVE OnCourse'
  BY <1>2 DEF RunAgain, OnCourse
<1>3. ASSUME OnCourse, UNCHANGED vars PROVE OnCourse'
  BY <1>3 DEF vars, OnCourse
<1>4. ShapeOK /\ MediaOK /\ OnCourse /\ [Next]_vars => OnCourse'
  BY <1>2, <1>3, ProbeOnCourse, WriteOnCourse DEF Next
<1>5. OnCourse => GoodJobSucceeds
  BY DEF OnCourse, GoodJobSucceeds, CanSucceed, LayoutFor
<1> QED
  BY <1>1, <1>4, <1>5, Invariance, PTL DEF Spec

-----------------------------------------------------------------------------
\* Refinement of FlashPromise.

\* While the media is being built the drive counts as erased, and once the
\* outcome is known it counts as good exactly when that outcome is "ok".
Shown ==
  /\ pc \in Preflight \union {"partition"} => Drive = "kept"
  /\ pc \in Building => touched /\ Drive = "erased"
  /\ pc \in {"cleanup", "cleanupIso", "ended"} => (result = "ok" <=> Drive = "good")
  /\ pc \notin {"cleanup", "cleanupIso", "ended"} => result = "none"

LEMMA DriveShown == MediaOK => Shown
<1> SUFFICES ASSUME MediaOK PROVE Shown
  OBVIOUS
<1>1. pc \in Building => touched /\ Drive = "erased"
  BY DEF MediaOK, Drive, TouchedOK, IsMedia
<1>2. pc \in Preflight \union {"partition"} => Drive = "kept"
  BY DEF MediaOK, Drive, TouchedOK
<1>3. ASSUME result = "ok" PROVE Drive = "good"
  BY <1>3 DEF MediaOK, Drive, TouchedOK, SuccessIsMedia
<1>4. ASSUME touched, result # "ok" PROVE ~IsMedia(job, layout, disk)
  BY <1>4 DEF MediaOK, TouchedOK, IsMedia, Layouts, Fat, Ntfs
<1>5. pc \notin {"cleanup", "cleanupIso", "ended"} => result = "none"
  BY DEF MediaOK, TouchedOK
<1> QED
  BY <1>1, <1>2, <1>3, <1>4, <1>5 DEF Drive, Shown

\* A probing step stutters, commits or refuses, with the drive kept.
LEMMA ProbeKeepsPromise ==
  ASSUME TypeOK, Shown, Shown', Probe
  PROVE  [Promise!Next]_(Promise!vars)
<1>1. /\ pc \in Preflight /\ pc' \in Preflight \union {"partition", "ended"}
      /\ disk' = disk /\ touched' = touched
  BY DEF Probe, AssertSafeTarget, MountIso, PickInstallImage, ValidatePlan,
         FindBootloader, MeasureContents, RequireTools, ProbeNtfs, Goto, Return,
         Refuse, Preflight
<1>2. Drive = "kept" /\ Drive' = "kept"
  BY <1>1 DEF Shown, TypeOK, DataOK, Drive
<1>3. Outcome = "none" /\ Phase = "probing"
  BY <1>1 DEF Outcome, Phase, Preflight
<1>4. CASE pc' \in Preflight
  BY <1>2, <1>3, <1>4 DEF Outcome, Phase, Preflight, Promise!vars
<1>5. CASE pc' = "partition"
  BY <1>2, <1>3, <1>5 DEF Outcome, Phase, Preflight, Promise!Next, Promise!Commit
<1>6. CASE pc' = "ended"
  <2>1. Outcome' = "error" /\ Phase' = "ended"
    BY <1>2, <1>6 DEF Outcome, Phase, Preflight, Shown
  <2> QED
    BY <1>2, <1>3, <2>1 DEF Promise!Next, Promise!Refuse
<1> QED
  BY <1>1, <1>4, <1>5, <1>6

\* A writing step erases, completes, ends the run or stutters.
LEMMA WriteKeepsPromise ==
  ASSUME TypeOK, Shown, Shown', Write
  PROVE  [Promise!Next]_(Promise!vars)
<1> USE DEF Goto, Abort, Fails
<1>1. CASE Partition
  <2>1. Drive = "kept" /\ Phase = "writing" /\ Outcome = "none"
    BY <1>1 DEF Partition, Shown, Phase, Preflight, Outcome
  <2>2. Drive' \in {"kept", "erased"} /\ Phase' = "writing" /\ Outcome' = "none"
    BY <1>1 DEF Partition, Shown, Phase, Preflight, Outcome, Building, Drive
  <2> QED
    BY <2>1, <2>2 DEF Promise!Next, Promise!Erase, Promise!vars
<1>2. CASE pc \in Building
  <2>1. Drive = "erased" /\ Phase = "writing" /\ Outcome = "none"
    BY <1>2 DEF Shown, Phase, Preflight, Outcome, Building
  <2>2. pc' \in Building \union {"cleanup"} /\ touched' = touched
    BY <1>2 DEF Building, Write, Partition, Settle, MakeFilesystem, WriteLoader,
       MountUsb, CollectTree, CopyFile, CopyDone, SplitImage, WriteAnswerFile,
       CheckMedia, Sync, CleanupUsb, CleanupIso
  <2>3. Drive' \in {"good", "erased"} /\ Phase' = "writing" /\ Outcome' = "none"
    BY <1>2, <2>2 DEF Shown, Drive, Phase, Preflight, Outcome, Building
  <2> QED
    BY <2>1, <2>3 DEF Promise!Next, Promise!Complete, Promise!vars
<1>3. CASE CleanupUsb
  <2>1. Drive' = Drive /\ Phase' = Phase /\ Outcome' = Outcome
    BY <1>3 DEF CleanupUsb, Drive, Phase, Preflight, Outcome
  <2> QED
    BY <2>1 DEF Promise!vars
<1>4. CASE CleanupIso
  <2>1. Drive' = Drive /\ Phase = "writing" /\ Phase' = "ended"
    BY <1>4 DEF CleanupIso, Drive, Phase, Preflight
  <2>2. Outcome' = IF Drive = "good" THEN "ok" ELSE "error"
    BY <1>4 DEF CleanupIso, Outcome, Shown
  <2> QED
    BY <2>1, <2>2 DEF Promise!Next, Promise!Succeed, Promise!Fail
<1> QED
  BY <1>1, <1>2, <1>3, <1>4 DEF Write, Building, Settle, MakeFilesystem, WriteLoader,
     MountUsb, CollectTree, CopyFile, CopyDone, SplitImage, WriteAnswerFile,
     CheckMedia, Sync

LEMMA RunAgainKeepsPromise ==
  ASSUME RunAgain
  PROVE  [Promise!Next]_(Promise!vars)
  BY DEF RunAgain, Promise!Next, Promise!Again, Phase, Drive, Outcome, Preflight

\* The whole of flash_windows_iso, run as often as the user likes, implements
\* FlashPromise: it probes first, erases only then, and reports what it did.
THEOREM PromiseKept == Spec => KeepsPromise
<1>1. Init => Promise!Init
  BY DEF Init, Promise!Init, Phase, Drive, Outcome, Preflight
<1>2. ASSUME UNCHANGED vars PROVE UNCHANGED Promise!vars
  BY <1>2 DEF vars, Promise!vars, Phase, Drive, Outcome, IsMedia
<1>3. (TypeOK /\ Shown) /\ (TypeOK /\ Shown)' /\ [Next]_vars
        => [Promise!Next]_(Promise!vars)
  BY <1>2, ProbeKeepsPromise, WriteKeepsPromise, RunAgainKeepsPromise DEF Next
<1>4. ShapeOK /\ MediaOK => TypeOK /\ Shown
  BY DriveShown DEF ShapeOK
<1> QED
  BY <1>1, <1>3, <1>4, Invariance, PTL DEF Spec, KeepsPromise, Promise!Spec

-----------------------------------------------------------------------------
\* The answer file, which this path writes last: AnswerFile's own state, from
\* the form or the terminal to the drive.

\* What is in a list put together of two, and in one that holds its item or
\* nothing.
LEMMA HasJoined ==
  ASSUME NEW S, NEW s \in Seq(S), NEW t \in Seq(S), NEW x
  PROVE  s \o t \in Seq(S) /\ (Has(s \o t, x) <=> Has(s, x) \/ Has(t, x))
<1>1. s \o t \in Seq(S)
  OBVIOUS
<1>2. Has(s \o t, x) => Has(s, x) \/ Has(t, x)
  <2>1. ASSUME NEW i \in DOMAIN (s \o t), (s \o t)[i] = x PROVE Has(s, x) \/ Has(t, x)
    <3>1. i \in 1..Len(s) + Len(t)
      OBVIOUS
    <3>2. CASE i <= Len(s)
      <4>1. i \in DOMAIN s /\ s[i] = x
        BY <2>1, <3>1, <3>2
      <4> QED BY <4>1 DEF Has
    <3>3. CASE ~(i <= Len(s))
      <4>1. i - Len(s) \in DOMAIN t /\ t[i - Len(s)] = x
        BY <2>1, <3>1, <3>3
      <4> QED BY <4>1 DEF Has
    <3> QED BY <3>2, <3>3
  <2> QED BY <2>1, Zenon DEF Has
<1>3. Has(s, x) => Has(s \o t, x)
  <2>1. ASSUME NEW i \in DOMAIN s, s[i] = x PROVE i \in DOMAIN (s \o t) /\ (s \o t)[i] = x
    BY <2>1
  <2> QED BY <2>1, Zenon DEF Has
<1>4. Has(t, x) => Has(s \o t, x)
  <2>1. ASSUME NEW i \in DOMAIN t, t[i] = x
        PROVE Len(s) + i \in DOMAIN (s \o t) /\ (s \o t)[Len(s) + i] = x
    BY <2>1
  <2> QED BY <2>1, Zenon DEF Has
<1> QED BY <1>1, <1>2, <1>3, <1>4

LEMMA IfHas ==
  ASSUME NEW S, NEW item \in S, NEW x, NEW condition \in BOOLEAN
  PROVE  /\ If(condition, item) \in Seq(S)
         /\ Has(If(condition, item), x) <=> condition /\ x = item
<1>1. CASE condition
  <2>1. If(condition, item) = <<item>>
    BY <1>1 DEF If
  <2>2. <<item>> \in Seq(S) /\ DOMAIN <<item>> = {1} /\ <<item>>[1] = item
    OBVIOUS
  <2>3. Has(<<item>>, x) <=> <<item>>[1] = x
    BY <2>2, Zenon DEF Has
  <2> QED BY <1>1, <2>1, <2>2, <2>3
<1>2. CASE ~condition
  <2>1. If(condition, item) = <<>>
    BY <1>2 DEF If
  <2>2. <<>> \in Seq(S) /\ DOMAIN <<>> = {}
    OBVIOUS
  <2>3. ~Has(<<>>, x)
    BY <2>2, Zenon DEF Has
  <2> QED BY <1>2, <2>1, <2>2, <2>3
<1> QED BY <1>1, <1>2

\* What each list has in it.
LEMMA WindowsPEHas ==
  ASSUME NEW t, NEW x
  PROVE  /\ Has(WindowsPE(t), x) <=>
              \/ "tpm" \in t.on /\ x = "BypassTPMCheck"
              \/ "secureBoot" \in t.on /\ x = "BypassSecureBootCheck"
              \/ "ram" \in t.on /\ x = "BypassRAMCheck"
              \/ "cpu" \in t.on /\ x = "BypassCPUCheck"
              \/ "storage" \in t.on /\ x = "BypassStorageCheck"
         /\ Has(WindowsPE(t), x) => WindowsPE(t) # <<>>
<1> DEFINE S == {"BypassTPMCheck", "BypassSecureBootCheck", "BypassRAMCheck", "BypassCPUCheck", "BypassStorageCheck"}
           a == If("tpm" \in t.on, "BypassTPMCheck")
           b == If("secureBoot" \in t.on, "BypassSecureBootCheck")
           c == If("ram" \in t.on, "BypassRAMCheck")
           d == If("cpu" \in t.on, "BypassCPUCheck")
           e == If("storage" \in t.on, "BypassStorageCheck")
<1>1. WindowsPE(t) = (((a \o b) \o c) \o d) \o e
  BY DEF WindowsPE
<1>2. a \in Seq(S) /\ (Has(a, x) <=> "tpm" \in t.on /\ x = "BypassTPMCheck")
  <2>1. "BypassTPMCheck" \in S /\ ("tpm" \in t.on) \in BOOLEAN
    OBVIOUS
  <2> QED BY <2>1, IfHas, Zenon
<1>3. b \in Seq(S) /\ (Has(b, x) <=> "secureBoot" \in t.on /\ x = "BypassSecureBootCheck")
  <2>1. "BypassSecureBootCheck" \in S /\ ("secureBoot" \in t.on) \in BOOLEAN
    OBVIOUS
  <2> QED BY <2>1, IfHas, Zenon
<1>4. c \in Seq(S) /\ (Has(c, x) <=> "ram" \in t.on /\ x = "BypassRAMCheck")
  <2>1. "BypassRAMCheck" \in S /\ ("ram" \in t.on) \in BOOLEAN
    OBVIOUS
  <2> QED BY <2>1, IfHas, Zenon
<1>5. d \in Seq(S) /\ (Has(d, x) <=> "cpu" \in t.on /\ x = "BypassCPUCheck")
  <2>1. "BypassCPUCheck" \in S /\ ("cpu" \in t.on) \in BOOLEAN
    OBVIOUS
  <2> QED BY <2>1, IfHas, Zenon
<1>6. e \in Seq(S) /\ (Has(e, x) <=> "storage" \in t.on /\ x = "BypassStorageCheck")
  <2>1. "BypassStorageCheck" \in S /\ ("storage" \in t.on) \in BOOLEAN
    OBVIOUS
  <2> QED BY <2>1, IfHas, Zenon
<1> HIDE DEF S, a, b, c, d, e
<1> DEFINE ab == a \o b
<1>7. ab \in Seq(S) /\ (Has(ab, x) <=> Has(a, x) \/ Has(b, x))
  BY <1>2, <1>3, HasJoined
<1> HIDE DEF ab
<1> DEFINE abc == ab \o c
<1>8. abc \in Seq(S) /\ (Has(abc, x) <=> Has(ab, x) \/ Has(c, x))
  BY <1>7, <1>4, HasJoined
<1> HIDE DEF abc
<1> DEFINE abcd == abc \o d
<1>9. abcd \in Seq(S) /\ (Has(abcd, x) <=> Has(abc, x) \/ Has(d, x))
  BY <1>8, <1>5, HasJoined
<1> HIDE DEF abcd
<1> DEFINE abcde == abcd \o e
<1>10. abcde \in Seq(S) /\ (Has(abcde, x) <=> Has(abcd, x) \/ Has(e, x))
  BY <1>9, <1>6, HasJoined
<1>11. WindowsPE(t) = abcde
  BY <1>1 DEF ab, abc, abcd, abcde
<1> HIDE DEF abcde
<1>12. ~Has(<<>>, x)
  BY DEF Has
<1> QED BY <1>2, <1>3, <1>4, <1>5, <1>6, <1>7, <1>8, <1>9, <1>10, <1>11, <1>12

LEMMA WindowsPEEmpty ==
  ASSUME NEW t, t.on \intersect Hardware = {}
  PROVE  WindowsPE(t) = <<>>
<1>1. /\ ("tpm" \in t.on) = FALSE /\ ("secureBoot" \in t.on) = FALSE /\ ("ram" \in t.on) = FALSE
      /\ ("cpu" \in t.on) = FALSE /\ ("storage" \in t.on) = FALSE
  BY DEF Hardware
<1>2. <<>> \o <<>> = <<>>
  OBVIOUS
<1> QED BY <1>1, <1>2 DEF WindowsPE, If

LEMMA SpecializeHas ==
  ASSUME NEW t, NEW x
  PROVE  Has(Specialize(t), x) <=>
           \/ ("skipMsAccount" \in t.on \/ t.account # None) /\ x = "BypassNRO"
           \/ "data" \in t.on /\ x = "AllowTelemetry"
           \/ "bitlocker" \in t.on /\ x = "PreventDeviceEncryption"
           \/ "qol" \in t.on /\ x = "machineKeys"
<1> DEFINE S == {"BypassNRO", "AllowTelemetry", "PreventDeviceEncryption", "machineKeys"}
           a == If("skipMsAccount" \in t.on \/ t.account # None, "BypassNRO")
           b == If("data" \in t.on, "AllowTelemetry")
           c == If("bitlocker" \in t.on, "PreventDeviceEncryption")
           d == If("qol" \in t.on, "machineKeys")
<1>1. Specialize(t) = ((a \o b) \o c) \o d
  BY DEF Specialize
<1>2. a \in Seq(S) /\ (Has(a, x) <=> ("skipMsAccount" \in t.on \/ t.account # None) /\ x = "BypassNRO")
  <2>1. "BypassNRO" \in S /\ ("skipMsAccount" \in t.on \/ t.account # None) \in BOOLEAN
    OBVIOUS
  <2> QED BY <2>1, IfHas, Zenon
<1>3. b \in Seq(S) /\ (Has(b, x) <=> "data" \in t.on /\ x = "AllowTelemetry")
  <2>1. "AllowTelemetry" \in S /\ ("data" \in t.on) \in BOOLEAN
    OBVIOUS
  <2> QED BY <2>1, IfHas, Zenon
<1>4. c \in Seq(S) /\ (Has(c, x) <=> "bitlocker" \in t.on /\ x = "PreventDeviceEncryption")
  <2>1. "PreventDeviceEncryption" \in S /\ ("bitlocker" \in t.on) \in BOOLEAN
    OBVIOUS
  <2> QED BY <2>1, IfHas, Zenon
<1>5. d \in Seq(S) /\ (Has(d, x) <=> "qol" \in t.on /\ x = "machineKeys")
  <2>1. "machineKeys" \in S /\ ("qol" \in t.on) \in BOOLEAN
    OBVIOUS
  <2> QED BY <2>1, IfHas, Zenon
<1> HIDE DEF S, a, b, c, d
<1> DEFINE ab == a \o b
<1>6. ab \in Seq(S) /\ (Has(ab, x) <=> Has(a, x) \/ Has(b, x))
  BY <1>2, <1>3, HasJoined
<1> HIDE DEF ab
<1> DEFINE abc == ab \o c
<1>7. abc \in Seq(S) /\ (Has(abc, x) <=> Has(ab, x) \/ Has(c, x))
  BY <1>6, <1>4, HasJoined
<1> HIDE DEF abc
<1> DEFINE abcd == abc \o d
<1>8. abcd \in Seq(S) /\ (Has(abcd, x) <=> Has(abc, x) \/ Has(d, x))
  BY <1>7, <1>5, HasJoined
<1>9. Specialize(t) = abcd
  BY <1>1 DEF ab, abc, abcd
<1> HIDE DEF abcd
<1> QED BY <1>2, <1>3, <1>4, <1>5, <1>6, <1>7, <1>8, <1>9

LEMMA FirstLogonHas ==
  ASSUME NEW t, NEW x
  PROVE  Has(FirstLogon(t), x) <=>
           \/ t.account # None /\ BlankPassword(t) /\ x = <<"changePassword", Stripped[t.account]>>
           \/ t.account # None /\ BlankPassword(t) /\ x = <<"noExpiry">>
           \/ "qol" \in t.on /\ x = <<"userKeys">>
<1> DEFINE change == t.account # None /\ BlankPassword(t)
           rename == <<"changePassword", Stripped[t.account]>>
           S == {rename, <<"noExpiry">>, <<"userKeys">>}
           a == If(change, rename)
           b == If(change, <<"noExpiry">>)
           c == If("qol" \in t.on, <<"userKeys">>)
<1>1. FirstLogon(t) = (a \o b) \o c
  BY DEF FirstLogon
<1>2. change \in BOOLEAN
  OBVIOUS
<1> HIDE DEF change, rename
<1>3. a \in Seq(S) /\ (Has(a, x) <=> change /\ x = rename)
  <2>1. rename \in S
    OBVIOUS
  <2> QED BY <1>2, <2>1, IfHas, Zenon
<1>4. b \in Seq(S) /\ (Has(b, x) <=> change /\ x = <<"noExpiry">>)
  <2>1. <<"noExpiry">> \in S
    OBVIOUS
  <2> QED BY <1>2, <2>1, IfHas, Zenon
<1>5. c \in Seq(S) /\ (Has(c, x) <=> "qol" \in t.on /\ x = <<"userKeys">>)
  <2>1. <<"userKeys">> \in S /\ ("qol" \in t.on) \in BOOLEAN
    OBVIOUS
  <2> QED BY <2>1, IfHas, Zenon
<1> HIDE DEF S, a, b, c
<1> DEFINE ab == a \o b
<1>6. ab \in Seq(S) /\ (Has(ab, x) <=> Has(a, x) \/ Has(b, x))
  BY <1>3, <1>4, HasJoined
<1> HIDE DEF ab
<1> DEFINE abc == ab \o c
<1>7. abc \in Seq(S) /\ (Has(abc, x) <=> Has(ab, x) \/ Has(c, x))
  BY <1>5, <1>6, HasJoined
<1>8. FirstLogon(t) = abc
  BY <1>1 DEF ab, abc
<1> HIDE DEF abc
<1> QED BY <1>3, <1>4, <1>5, <1>6, <1>7, <1>8 DEF change, rename

\* Setup does with the file what the options want.
LEMMA FileDoesWhatIsWanted ==
  ASSUME NEW t \in Tweaks, ValidAccount(t), GenerateAutounattend(t) # None
  PROVE  /\ SetupDoes(GenerateAutounattend(t)) = Wanted(t)
         /\ AlsoWanted(t) \subseteq AlsoDoes(GenerateAutounattend(t))
         /\ AlsoDoes(GenerateAutounattend(t)) \subseteq ComesAlong(t)
<1> DEFINE file == GenerateAutounattend(t)
<1>1. file = [windowsPE |-> WindowsPE(t), userData |-> UserData(t),
              specialize |-> Specialize(t),
              oobe |-> Oobe(t), timezone |-> t.timezone,
              account |-> IF t.account = None THEN <<>>
                          ELSE <<[name |-> Stripped[t.account],
                                  password |-> IF t.password = None THEN Blank ELSE t.password]>>,
              firstLogon |-> FirstLogon(t), region |-> t.region]
  BY DEF GenerateAutounattend
<1>2. /\ file.windowsPE = WindowsPE(t) /\ file.userData = UserData(t)
      /\ file.specialize = Specialize(t) /\ file.oobe = Oobe(t)
      /\ file.timezone = t.timezone /\ file.firstLogon = FirstLogon(t) /\ file.region = t.region
      /\ file.account = IF t.account = None THEN <<>>
                        ELSE <<[name |-> Stripped[t.account],
                                password |-> IF t.password = None THEN Blank ELSE t.password]>>
  BY <1>1
<1>3. file # None
  OBVIOUS
<1> HIDE DEF file
<1>4. {h \in Hardware : "ProductKey" \in file.userData /\ Has(file.windowsPE, Bypass[h])} = t.on \intersect Hardware
  <2>1. \A h \in Hardware : Has(WindowsPE(t), Bypass[h]) <=> h \in t.on
    BY WindowsPEHas DEF Hardware, Bypass
  <2>2. \A h \in Hardware : Has(WindowsPE(t), Bypass[h]) => WindowsPE(t) # <<>>
    BY WindowsPEHas
  <2>3. WindowsPE(t) # <<>> => "ProductKey" \in file.userData
    BY <1>2 DEF UserData
  <2> QED BY <1>2, <2>1, <2>2, <2>3
<1>5. {s \in {"data", "bitlocker", "qol"} :
          CASE s = "data" -> "ProtectYourPC" \in file.oobe /\ Has(file.specialize, "AllowTelemetry")
            [] s = "bitlocker" -> Has(file.specialize, "PreventDeviceEncryption")
            [] s = "qol" -> Has(file.specialize, "machineKeys") /\ Has(file.firstLogon, <<"userKeys">>)}
        = t.on \intersect {"data", "bitlocker", "qol"}
  <2>1. /\ Has(file.specialize, "AllowTelemetry") <=> "data" \in t.on
        /\ Has(file.specialize, "PreventDeviceEncryption") <=> "bitlocker" \in t.on
        /\ Has(file.specialize, "machineKeys") <=> "qol" \in t.on
    BY <1>2, SpecializeHas
  <2>2. "qol" \in t.on => Has(file.firstLogon, <<"userKeys">>)
    BY <1>2, FirstLogonHas
  <2>3. "ProtectYourPC" \in file.oobe <=> "data" \in t.on
    BY <1>2 DEF Oobe
  <2> QED BY <2>1, <2>2, <2>3
<1>6. Has(file.specialize, "BypassNRO") = ("skipMsAccount" \in t.on \/ t.account # None)
  <2>1. Has(file.specialize, "BypassNRO") <=> ("skipMsAccount" \in t.on \/ t.account # None)
    BY <1>2, SpecializeHas
  <2>2. Has(file.specialize, "BypassNRO") \in BOOLEAN
    BY DEF Has
  <2> QED BY <2>1, <2>2
<1> DEFINE accounts == {[name |-> a.name, change |-> Has(file.firstLogon, <<"changePassword", a.name>>),
                         password |-> a.password] : a \in {file.account[i] : i \in DOMAIN file.account}}
<1>7. accounts = IF t.account = None THEN {}
                 ELSE {[name |-> Stripped[t.account], change |-> BlankPassword(t),
                        password |-> IF BlankPassword(t) THEN Blank ELSE t.password]}
  <2>1. CASE t.account = None
    <3>1. file.account = <<>>
      BY <1>2, <2>1
    <3>2. {file.account[i] : i \in DOMAIN file.account} = {}
      BY <3>1
    <3> QED BY <2>1, <3>2
  <2>2. CASE t.account # None
    <3> DEFINE n == Stripped[t.account]
               p == IF t.password = None THEN Blank ELSE t.password
               r == [name |-> n, password |-> p]
    <3>1. file.account = <<r>>
      BY <1>2, <2>2
    <3>2. {file.account[i] : i \in DOMAIN file.account} = {r}
      BY <3>1
    <3>3. accounts = {[name |-> r.name, change |-> Has(file.firstLogon, <<"changePassword", r.name>>),
                       password |-> r.password]}
      BY <3>2
    <3>4. Has(file.firstLogon, <<"changePassword", n>>) = BlankPassword(t)
      <4>1. Has(file.firstLogon, <<"changePassword", n>>) <=> BlankPassword(t)
        <5>1. <<"changePassword", n>> # <<"userKeys">>
          OBVIOUS
        <5> QED BY <1>2, <2>2, <5>1, FirstLogonHas
      <4>2. Has(file.firstLogon, <<"changePassword", n>>) \in BOOLEAN /\ BlankPassword(t) \in BOOLEAN
        BY DEF Has, BlankPassword
      <4> QED BY <4>1, <4>2
    <3>5. p = IF BlankPassword(t) THEN Blank ELSE t.password
      BY DEF BlankPassword
    <3>6. r.name = n /\ r.password = p
      OBVIOUS
    <3> HIDE DEF accounts, n, p, r
    <3>7. accounts = {[name |-> n, change |-> BlankPassword(t), password |-> p]}
      BY <3>3, <3>4, <3>6
    <3> QED BY <2>2, <3>5, <3>7 DEF n
  <2> QED BY <2>1, <2>2
<1>8. /\ "AcceptEula" \in file.userData => t.on \intersect Hardware # {}
      /\ "HideEULAPage" \in file.oobe <=> "data" \in t.on
      /\ "HideOnlineAccountScreens" \in file.oobe => "data" \in t.on
      /\ "HideWirelessSetupInOOBE" \in file.oobe => "data" \in t.on
  <2>1. "AcceptEula" \in file.userData => WindowsPE(t) # <<>>
    BY <1>2 DEF UserData
  <2>2. WindowsPE(t) # <<>> => t.on \intersect Hardware # {}
    BY WindowsPEEmpty
  <2> QED BY <1>2, <2>1, <2>2 DEF Oobe
<1>9. /\ Has(file.firstLogon, <<"noExpiry">>) => t.account # None /\ BlankPassword(t)
      /\ Has(file.specialize, "machineKeys") => "qol" \in t.on
      /\ Has(file.firstLogon, <<"userKeys">>) => "qol" \in t.on
  <2>1. /\ <<"noExpiry">> # <<"userKeys">>
        /\ <<"noExpiry">> # <<"changePassword", Stripped[t.account]>>
        /\ <<"userKeys">> # <<"changePassword", Stripped[t.account]>>
    OBVIOUS
  <2> QED BY <1>2, <2>1, SpecializeHas, FirstLogonHas
<1>10. AlsoWanted(t) \subseteq AlsoDoes(file)
  BY <1>3, <1>8 DEF AlsoWanted, AlsoDoes, Besides
<1>11. AlsoDoes(file) \subseteq ComesAlong(t)
  <2> SUFFICES ASSUME NEW b \in AlsoDoes(file) PROVE b \in ComesAlong(t)
    OBVIOUS
  <2>1. b \in Besides
    BY DEF AlsoDoes
  <2>2. CASE b = "installerLicence"
    BY <1>8, <2>2 DEF AlsoDoes, ComesAlong
  <2>3. CASE b \in {"startLicence", "onlineAccount", "wireless"}
    BY <1>8, <2>3 DEF AlsoDoes, ComesAlong, AlsoWanted
  <2>4. CASE b = "passwordAge"
    BY <1>9, <2>4 DEF AlsoDoes, ComesAlong
  <2>5. CASE b \in {"edgeFirstRun", "searchBox"}
    BY <1>9, <2>5 DEF AlsoDoes, ComesAlong
  <2> QED BY <2>1, <2>2, <2>3, <2>4, <2>5 DEF Besides
<1>12. SetupDoes(file) = Wanted(t)
  BY <1>2, <1>3, <1>4, <1>5, <1>6, <1>7 DEF SetupDoes, Wanted
<1> QED
  BY <1>10, <1>11, <1>12 DEF file

-----------------------------------------------------------------------------
\* Where the options are, at each step of the way.
OnTheWay ==
  /\ via \in {"application", "terminal"}
  /\ via = "application" => form \in Forms
  /\ via = "terminal" => args \in Lines /\ preview = None /\ step # "page"
  /\ via = "application" /\ step \notin {"page", "failed"} => args = ToArgs(CurrentTweaks(form))
  /\ preview # None =>
       \E f \in Forms : preview = [form |-> f, file |-> GenerateAutounattend(ToCore(CurrentTweaks(f)))]
  /\ step \in {"checks", "prepared", "copied", "done"} => tweaks = ToTweaks(args)
  /\ step \in {"prepared", "copied", "done"} \/ erased => ValidAccount(Asked)
  /\ erased => step \in {"copied", "done", "failed"}
  /\ step # "done" => media = None
  /\ step = "done" => IF IsNoop(tweaks) THEN media = None
                      ELSE media = GenerateAutounattend(tweaks) /\ media # None

\* What the page sends is what it asks for, and what the command makes of it.
LEMMA PageAsks ==
  ASSUME NEW f \in Forms, via = "application", form = f
  PROVE  /\ Asked \in Tweaks
         /\ ToCore(CurrentTweaks(f)) = Asked
         /\ ToTweaks(ToArgs(CurrentTweaks(f))) = Asked
<1> DEFINE on == f.on \union {h \in Hardware : IF h \in {"cpu", "storage"} THEN f.extra ELSE f.hw}
           account == IF f.user /\ Trimmed[f.name] # Blank THEN Trimmed[f.name] ELSE None
<1>1. f \in FormType /\ f.name \in Texts /\ Trimmed[f.name] \in Texts
  <2>1. f \in FormType
    BY FormsAssumption
  <2> QED BY <2>1, TextsAssumption DEF FormType
<1>2. Asked = [on |-> on, account |-> account, password |-> None, region |-> None, timezone |-> None]
  BY DEF Asked
<1>3. on \in SUBSET Flags /\ account \in Texts \union {None}
  BY <1>1 DEF FormType, Flags
<1>4. CurrentTweaks(f) = [on |-> on, account |-> account, password |-> None, region |-> None,
                          timezone |-> None]
  <2>1. f.on \union (IF f.hw THEN {"tpm", "secureBoot", "ram"} ELSE {})
             \union (IF f.extra THEN {"cpu", "storage"} ELSE {}) = on
    BY <1>1 DEF FormType, Hardware
  <2>2. (IF f.user THEN NonEmpty(f.name) ELSE None) = account
    BY <1>1, TextsAssumption DEF NonEmpty
  <2> QED BY <2>1, <2>2 DEF CurrentTweaks
<1>5. NonEmpty(account) = account /\ NonEmpty(None) = None
  BY <1>1, TextsAssumption DEF NonEmpty
<1> HIDE DEF on, account
<1>6. ToCore(CurrentTweaks(f)) = Asked
  <2>1. CurrentTweaks(f) = Asked
    BY <1>2, <1>4
  <2>2. /\ Asked.account = account /\ Asked.password = None
        /\ Asked.region = None /\ Asked.timezone = None
    BY <1>2
  <2>3. ToCore(Asked) = [Asked EXCEPT !.account = account, !.password = None,
                                      !.region = None, !.timezone = None]
    BY <1>5, <2>2 DEF ToCore
  <2> DEFINE a == [on |-> on, account |-> account, password |-> None, region |-> None,
                   timezone |-> None]
  <2>4. [a EXCEPT !.account = account, !.password = None, !.region = None, !.timezone = None] = a
    <3>1. a.account = account /\ a.password = None /\ a.region = None /\ a.timezone = None
      OBVIOUS
    <3>2. a \in [on : {on}, account : {account}, password : {None}, region : {None},
                 timezone : {None}]
      OBVIOUS
    <3> HIDE DEF a
    <3>3. [a EXCEPT !.account = account] = a /\ [a EXCEPT !.password = None] = a
          /\ [a EXCEPT !.region = None] = a /\ [a EXCEPT !.timezone = None] = a
      BY <3>1, <3>2
    <3> QED BY <3>3
  <2>5. Asked = a
    BY <1>2
  <2> HIDE DEF a
  <2> QED BY <2>1, <2>3, <2>4, <2>5
<1>7. ToTweaks(ToArgs(CurrentTweaks(f))) = Asked
  BY <1>2, <1>6 DEF ToArgs, ToTweaks
<1>8. Asked \in Tweaks
  BY <1>2, <1>3 DEF Tweaks
<1> QED BY <1>6, <1>7, <1>8

LEMMA TerminalAsks ==
  ASSUME via = "terminal", args \in Lines
  PROVE  Asked \in Tweaks /\ ToTweaks(args) = Asked
<1>1. args \in LineType /\ args.tweaks \in Tweaks /\ args.all \in BOOLEAN
  <2>1. args \in LineType
    BY FormsAssumption
  <2> QED BY <2>1 DEF LineType
<1>2. ToTweaks(args) = Asked
  BY <1>1 DEF ToTweaks, Asked, Tweaks
<1>3. ToTweaks(args) \in Tweaks
  BY <1>1 DEF ToTweaks, Tweaks, Flags
<1> QED BY <1>2, <1>3

\* Options that ask for nothing have no file, and need none.
LEMMA NothingIsWanted ==
  /\ ValidAccount(NoTweaks)
  /\ SetupDoes(None) = Wanted(NoTweaks)
  /\ AlsoWanted(NoTweaks) = {} /\ AlsoDoes(None) = {} /\ ComesAlong(NoTweaks) = {}
<1>1. NoTweaks.on = {} /\ NoTweaks.account = None /\ NoTweaks.region = None /\ NoTweaks.timezone = None
  BY DEF NoTweaks
<1>2. ("skipMsAccount" \in NoTweaks.on \/ NoTweaks.account # None) = FALSE
  BY <1>1
<1>3. ValidAccount(NoTweaks) /\ SetupDoes(None) = Wanted(NoTweaks)
  BY <1>1, <1>2 DEF ValidAccount, SetupDoes, Wanted
<1>4. AlsoDoes(None) = {}
  BY DEF AlsoDoes
<1>5. AlsoWanted(NoTweaks) = {} /\ ComesAlong(NoTweaks) = {}
  BY <1>1 DEF AlsoWanted, ComesAlong
<1> QED BY <1>3, <1>4, <1>5

\* The way of the options, from the start through every step.
LEMMA AnswerStarts == AnswerInit => OnTheWay
BY DEF AnswerInit, OnTheWay

LEMMA AnswerGoesOn == OnTheWay /\ [AnswerNext]_answerVars => OnTheWay'
<1> SUFFICES ASSUME OnTheWay, [AnswerNext]_answerVars PROVE OnTheWay'
  OBVIOUS
<1>1. CASE Edit
  BY <1>1, Zenon DEF Edit, OnTheWay
<1>2. CASE Preview
  BY <1>2 DEF Preview, OnTheWay
<1>3. CASE Confirm
  BY <1>3 DEF Confirm, OnTheWay, Fail
<1>4. CASE Parse
  BY <1>4 DEF Parse, OnTheWay, Fail
<1>5. CASE Check
  <2>1. UNCHANGED <<via, form, args, tweaks, preview, media, erased>>
    BY <1>5 DEF Check
  <2>2. Asked' = Asked
    BY <2>1 DEF Asked
  <2>3. step = "checks" /\ tweaks = ToTweaks(args)
    BY <1>5 DEF Check, OnTheWay
  <2>4. tweaks = Asked
    BY <2>3, PageAsks, TerminalAsks DEF OnTheWay
  <2>5. step' = "prepared" => ValidAccount(Asked)
    BY <1>5, <2>4, NothingIsWanted DEF Check, Fail, IsNoop, GenerateAutounattend
  <2>6. step' \in {"prepared", "failed"}
    BY <1>5 DEF Check, Fail
  <2> QED BY <2>1, <2>2, <2>3, <2>5, <2>6 DEF OnTheWay
<1>6. CASE Copy
  BY <1>6 DEF Copy, OnTheWay, Fail, Asked
<1>7. CASE WriteAnswer
  BY <1>7 DEF WriteAnswer, OnTheWay, Fail, Asked
<1>8. CASE UNCHANGED answerVars
  BY <1>8 DEF answerVars, OnTheWay, Asked
<1> QED
  BY <1>1, <1>2, <1>3, <1>4, <1>5, <1>6, <1>7, <1>8 DEF AnswerNext

\* What it says of the file on the drive and of the file shown.
LEMMA TheWayIsAsAsked == OnTheWay => AsAsked
<1> SUFFICES ASSUME OnTheWay PROVE AsAsked
  OBVIOUS
<1>1. erased => ValidAccount(Asked)
  BY DEF OnTheWay
<1>2. ASSUME step = "done"
      PROVE  /\ SetupDoes(media) = Wanted(Asked)
             /\ AlsoWanted(Asked) \subseteq AlsoDoes(media)
             /\ AlsoDoes(media) \subseteq ComesAlong(Asked)
             /\ preview # None => (preview.form = form =>
                  /\ SetupDoes(preview.file) = SetupDoes(media)
                  /\ AlsoDoes(preview.file) = AlsoDoes(media))
  <2>1. tweaks = Asked /\ Asked \in Tweaks /\ ValidAccount(Asked)
    <3>1. tweaks = ToTweaks(args) /\ ValidAccount(Asked)
      BY <1>2 DEF OnTheWay
    <3>2. CASE via = "application"
      <4>1. form \in Forms /\ args = ToArgs(CurrentTweaks(form))
        BY <1>2, <3>2 DEF OnTheWay
      <4> QED BY <3>1, <3>2, <4>1, PageAsks
    <3>3. CASE via = "terminal"
      BY <3>1, <3>3, TerminalAsks DEF OnTheWay
    <3> QED BY <3>1, <3>2, <3>3 DEF OnTheWay
  <2>2. /\ SetupDoes(media) = Wanted(Asked)
        /\ AlsoWanted(Asked) \subseteq AlsoDoes(media)
        /\ AlsoDoes(media) \subseteq ComesAlong(Asked)
    <3>1. CASE IsNoop(tweaks)
      <4>1. media = None /\ Asked = NoTweaks
        BY <1>2, <2>1, <3>1 DEF OnTheWay, IsNoop
      <4> QED BY <4>1, NothingIsWanted
    <3>2. CASE ~IsNoop(tweaks)
      <4>1. media = GenerateAutounattend(Asked) /\ media # None
        BY <1>2, <2>1, <3>2 DEF OnTheWay
      <4> QED BY <2>1, <4>1, FileDoesWhatIsWanted
    <3> QED BY <3>1, <3>2
  <2>3. ASSUME preview # None, preview.form = form
        PROVE  /\ SetupDoes(preview.file) = SetupDoes(media)
               /\ AlsoDoes(preview.file) = AlsoDoes(media)
    <3>1. via = "application" /\ form \in Forms
      BY <2>3 DEF OnTheWay
    <3>2. PICK f \in Forms :
            preview = [form |-> f, file |-> GenerateAutounattend(ToCore(CurrentTweaks(f)))]
      BY <2>3 DEF OnTheWay
    <3>3. f = form /\ preview.file = GenerateAutounattend(ToCore(CurrentTweaks(form)))
      BY <2>3, <3>2
    <3>4. preview.file = GenerateAutounattend(Asked)
      BY <3>1, <3>3, PageAsks
    <3>5. CASE IsNoop(tweaks)
      <4>1. Asked = NoTweaks /\ AlsoDoes(media) = {}
        BY <2>1, <2>2, <3>5, NothingIsWanted DEF IsNoop
      <4>2. CASE preview.file = None
        BY <2>2, <4>1, <4>2, NothingIsWanted
      <4>3. CASE preview.file # None
        BY <2>1, <2>2, <3>4, <4>1, <4>3, FileDoesWhatIsWanted, NothingIsWanted
      <4> QED BY <4>2, <4>3
    <3>6. CASE ~IsNoop(tweaks)
      <4>1. media = GenerateAutounattend(Asked)
        BY <1>2, <2>1, <3>6 DEF OnTheWay
      <4> QED BY <3>4, <4>1
    <3> QED BY <3>5, <3>6
  <2> QED BY <2>2, <2>3
<1> QED BY <1>1, <1>2 DEF AsAsked

\* Setup does with a finished drive everything that was asked for and nothing
\* else, save what comes along with the options that were on; the preview of an
\* unchanged form said so; and no drive is erased for a name of which no file
\* can be made.
THEOREM SetupDoesWhatWasAsked == AnswerSpec => []AsAsked
<1>1. AnswerSpec => []OnTheWay
  BY AnswerStarts, AnswerGoesOn, PTL DEF AnswerSpec
<1> QED
  BY <1>1, TheWayIsAsAsked, PTL
=============================================================================
