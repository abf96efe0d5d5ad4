---------------------------- MODULE WindowsFlash ----------------------------
(***************************************************************************)
(* flash_windows_iso (crates/core/src/lib.rs): turning a Windows installer *)
(* ISO into bootable media.                                                *)
(*                                                                         *)
(* One run first probes everything it can while the drive is intact (the   *)
(* mounted ISO, the plan, the room, the tools of the host) and only then   *)
(* enters the destructive phase: partition, format, copy, split, answer    *)
(* file, check, sync.  Every external command may fail; the results of the *)
(* umount commands are ignored by the code and may fail unseen.  A user    *)
(* may run the program again on the same drive after it ended, with        *)
(* another layout.                                                         *)
(*                                                                         *)
(* Sizes are natural numbers of an arbitrary unit.  A job is everything    *)
(* the run is given: the ISO, the device, the host, and the arguments.     *)
(***************************************************************************)
EXTENDS Integers, FiniteSetsExt

CONSTANTS
  Jobs,            \* the invocations considered
  MinDevice,       \* smallest device assert_safe_target accepts (2 GiB)
  MaxDevice,       \* largest device it accepts (512 GiB)
  PartitionStart,  \* WINDOWS_PARTITION_START (1 MiB)
  MaxFatFile,      \* FAT32_MAX_FILE (4 GiB - 1)
  MaxRuns          \* bound: runs of the program on this drive

Fat  == "fat32-split"
Ntfs == "ntfs-uefi-ntfs"
Layouts == {Fat, Ntfs}

\* What the ISO may carry, as far as the code tells files apart.
IsoFile == {"bootloader", "boot.wim", "install.wim", "install.esd", "other"}
UsbFile == IsoFile \union {"install.swm", "autounattend.xml"}

Tool == {"sfdisk", "udevadm", "mount", "umount", "sync",
         "mkfs.fat", "wimlib-imagex", "mkfs.ntfs"}

Iso    == [files : SUBSET IsoFile, size : [IsoFile -> Nat], readable : BOOLEAN]
Device == [removable : BOOLEAN, size : Nat]
Host   == [tools : SUBSET Tool, ntfsMounts : BOOLEAN, loaderIntact : BOOLEAN]

\* The format request is judged by FormatRequest::validate and
\* FormatPlan::buildable once the layout has fixed its filesystem.
Verdict == {"ok", "invalid", "unbuildable"}

Job == [iso : Iso, dev : Device, host : Host,
        layout : Layouts \union {"auto"},
        plan : [Layouts -> Verdict],
        tweaks : {"none", "noop", "valid", "badAccount"}]

ASSUME JobsAssumption == Jobs \subseteq Job
ASSUME SizesAssumption ==
  /\ MinDevice \in Nat /\ MaxDevice \in Nat
  /\ PartitionStart \in Nat /\ MaxFatFile \in Nat
  /\ MaxRuns \in Nat \ {0}

VARIABLES
  job,           \* the arguments of this run
  pc,            \* the step the run is about to take
  layout,        \* the layout in force, "auto" until it is resolved
  isoMounts,     \* ISO mounts stacked on /run/sirius-flash-iso
  usbMounts,     \* mounts stacked on /run/sirius-flash-usb
  todo,          \* files copy_tree has still to copy
  disk,          \* what is on the drive
  result,        \* "none" until the run returns, then "ok" or the error
  touched,       \* has this run changed the drive
  faulted,       \* has an external command or the hardware failed in this run
  umountFailed,  \* has an ignored umount failed, in any run
  runs           \* runs started

vars == <<job, pc, layout, isoMounts, usbMounts, todo, disk, result,
          touched, faulted, umountFailed, runs>>

Preflight == {"target", "mountIso", "pick", "plan", "bootloader", "measure",
              "tools", "probe"}
Destructive == {"partition", "settle", "mkfs", "loader", "mountUsb", "list",
                "copy", "split", "answer", "check", "sync", "cleanup", "cleanupIso"}
Step == Preflight \union Destructive \union {"ended"}

Disk == [table : Layouts \union {"user", "torn"},
         fs : {"none", "fat32", "ntfs"},
         loader : BOOLEAN,
         files : SUBSET UsbFile,
         synced : BOOLEAN]

\* The refusals of the preflight, and the failures of the destructive phase.
Refusal == {"unsafeTarget", "mount", "noInstallImage", "invalid", "unbuildable",
            "noBootloader", "unreadableTree", "doesNotFit", "missingTools",
            "ntfsNotMountable", "loaderHash"}
Failure == {"sfdisk", "udevadm", "mkfs", "loader", "mountUsbFailed", "copy",
            "wimlib-imagex", "answerFile", "bootloaderMissing",
            "bootWimMissing", "sync"}

-----------------------------------------------------------------------------
\* The rules the steps consult.

HasInstallImage(iso) == {"install.wim", "install.esd"} \intersect iso.files # {}

\* pick_install_image: the .wim wins when the ISO carries both.
InstallImage(iso) ==
  IF "install.wim" \in iso.files THEN "install.wim" ELSE "install.esd"

ImageSize(iso) == iso.size[InstallImage(iso)]

DefaultFor(largest) == IF largest > MaxFatFile THEN Ntfs ELSE Fat

NeedsSplitter(l, largest) == l = Fat /\ largest > MaxFatFile

FileSystemOf(l) == IF l = Fat THEN "fat32" ELSE "ntfs"

SafeTarget(dev) == dev.removable /\ dev.size \in MinDevice..MaxDevice

\* tree_size: every regular file, the install image included.
TreeSize(iso) == MapThenSumSet(LAMBDA f : iso.size[f], iso.files)

VolumeSize(dev) ==
  IF dev.size < PartitionStart THEN 0 ELSE dev.size - PartitionStart

Usable(dev) == (VolumeSize(dev) * 99) \div 100

\* Mutant of Needed: wimlib-imagex is asked for whether it will be used or not.
NeededEager(l, largest) ==
  {"sfdisk", "udevadm", "mount", "umount", "sync", "wimlib-imagex"}
    \union (IF l = Ntfs THEN {"mkfs.ntfs"} ELSE {"mkfs.fat"})

Needed(l, largest) ==
  {"sfdisk", "udevadm", "mount", "umount", "sync"}
    \union (IF l = Ntfs THEN {"mkfs.ntfs"} ELSE {"mkfs.fat"})
    \union (IF NeedsSplitter(l, largest) THEN {"wimlib-imagex"} ELSE {})

\* The files copy_tree is told to leave out: the image that will be split.
Excluded(iso, l) ==
  IF NeedsSplitter(l, ImageSize(iso)) THEN {InstallImage(iso)} ELSE {}

-----------------------------------------------------------------------------
Init ==
  /\ job \in Jobs
  /\ pc = "target"
  /\ layout = "auto"
  /\ isoMounts = 0 /\ usbMounts = 0
  /\ todo = {}
  /\ disk = [table |-> "user", fs |-> "none", loader |-> FALSE,
             files |-> {}, synced |-> TRUE]
  /\ result = "none"
  /\ touched = FALSE /\ faulted = FALSE /\ umountFailed = FALSE
  /\ runs = 1

\* The next step, with nothing else decided.
Goto(step) == pc' = step /\ UNCHANGED result

\* The function returns this error at once.
Return(error) == pc' = "ended" /\ result' = error

\* The destructive closure is left; the two umounts still follow.
Abort(outcome) == pc' = "cleanup" /\ result' = outcome

\* Mutant of UnmountIso: the umount is repeated until it succeeds.
UnmountIsoRetried ==
  /\ "umount" \in job.host.tools
  /\ isoMounts' = isoMounts - 1
  /\ UNCHANGED umountFailed

\* A umount of the ISO whose status is ignored: it may fail unseen.
UnmountIso ==
  \/ /\ "umount" \in job.host.tools
     /\ isoMounts' = isoMounts - 1
     /\ UNCHANGED umountFailed
  \/ UNCHANGED isoMounts /\ umountFailed' = TRUE

\* A preflight refusal: the ISO is unmounted and the drive is as it was.
Refuse(error) == UnmountIso /\ Return(error)

-----------------------------------------------------------------------------
\* The preflight.  No step of it writes to the drive.

AssertSafeTarget ==
  /\ pc = "target"
  /\ IF SafeTarget(job.dev) THEN Goto("mountIso") ELSE Return("unsafeTarget")
  /\ UNCHANGED <<job, layout, isoMounts, usbMounts, todo, disk,
                 touched, faulted, umountFailed, runs>>

\* Creating the mount points and mounting the ISO read-only; either may fail.
MountIso ==
  /\ pc = "mountIso"
  /\ \/ /\ "mount" \in job.host.tools
        /\ Goto("pick")
        /\ isoMounts' = isoMounts + 1
        /\ UNCHANGED faulted
     \/ /\ Return("mount")
        /\ faulted' = IF "mount" \in job.host.tools THEN TRUE ELSE faulted
        /\ UNCHANGED isoMounts
  /\ UNCHANGED <<job, layout, usbMounts, todo, disk, touched, umountFailed, runs>>

\* The install image decides the layout when the user did not.
PickInstallImage ==
  /\ pc = "pick"
  /\ \/ /\ HasInstallImage(job.iso)
        /\ layout' = IF job.layout = "auto" THEN DefaultFor(ImageSize(job.iso))
                                            ELSE job.layout
        /\ Goto("plan")
        /\ UNCHANGED <<isoMounts, umountFailed>>
     \/ /\ ~HasInstallImage(job.iso)
        /\ Refuse("noInstallImage")
        /\ UNCHANGED layout
  /\ UNCHANGED <<job, usbMounts, todo, disk, touched, faulted, runs>>

ValidatePlan ==
  /\ pc = "plan"
  /\ \/ /\ job.plan[layout] = "ok"
        /\ Goto("bootloader")
        /\ UNCHANGED <<isoMounts, umountFailed>>
     \/ /\ job.plan[layout] # "ok"
        /\ Refuse(job.plan[layout])
  /\ UNCHANGED <<job, layout, usbMounts, todo, disk, touched, faulted, runs>>

\* Mutant of FindBootloader: the refusal forgets the mounted ISO.
FindBootloaderLeaks ==
  /\ pc = "bootloader"
  /\ IF "bootloader" \in job.iso.files THEN Goto("measure") ELSE Return("noBootloader")
  /\ UNCHANGED <<job, layout, isoMounts, usbMounts, todo, disk, touched, faulted,
                 umountFailed, runs>>

FindBootloader ==
  /\ pc = "bootloader"
  /\ \/ /\ "bootloader" \in job.iso.files
        /\ Goto("measure")
        /\ UNCHANGED <<isoMounts, umountFailed>>
     \/ /\ "bootloader" \notin job.iso.files
        /\ Refuse("noBootloader")
  /\ UNCHANGED <<job, layout, usbMounts, todo, disk, touched, faulted, runs>>

\* Mutant of MeasureContents: the contents are compared with the whole drive.
MeasureAgainstDevice ==
  /\ pc = "measure"
  /\ \/ /\ ~job.iso.readable
        /\ Return("unreadableTree")
        /\ UNCHANGED <<isoMounts, umountFailed>>
     \/ /\ job.iso.readable /\ TreeSize(job.iso) > job.dev.size
        /\ Refuse("doesNotFit")
     \/ /\ job.iso.readable /\ TreeSize(job.iso) <= job.dev.size
        /\ Goto("tools")
        /\ UNCHANGED <<isoMounts, umountFailed>>
  /\ UNCHANGED <<job, layout, usbMounts, todo, disk, touched, faulted, runs>>

\* An ISO whose tree cannot be walked leaves through `?`, past the umount.
MeasureContents ==
  /\ pc = "measure"
  /\ \/ /\ ~job.iso.readable
        /\ Return("unreadableTree")
        /\ UNCHANGED <<isoMounts, umountFailed>>
     \/ /\ job.iso.readable /\ TreeSize(job.iso) > Usable(job.dev)
        /\ Refuse("doesNotFit")
     \/ /\ job.iso.readable /\ TreeSize(job.iso) <= Usable(job.dev)
        /\ Goto("tools")
        /\ UNCHANGED <<isoMounts, umountFailed>>
  /\ UNCHANGED <<job, layout, usbMounts, todo, disk, touched, faulted, runs>>

RequireTools ==
  /\ pc = "tools"
  /\ \/ /\ Needed(layout, ImageSize(job.iso)) \subseteq job.host.tools
        /\ Goto(IF layout = Ntfs THEN "probe" ELSE "partition")
        /\ UNCHANGED <<isoMounts, umountFailed>>
     \/ /\ ~(Needed(layout, ImageSize(job.iso)) \subseteq job.host.tools)
        /\ Refuse("missingTools")
  /\ UNCHANGED <<job, layout, usbMounts, todo, disk, touched, faulted, runs>>

\* probe_ntfs_mountable, then verify_uefi_ntfs_image.
ProbeNtfs ==
  /\ pc = "probe"
  /\ \/ /\ job.host.ntfsMounts /\ job.host.loaderIntact
        /\ Goto("partition")
        /\ UNCHANGED <<isoMounts, umountFailed>>
     \/ /\ ~job.host.ntfsMounts
        /\ Refuse("ntfsNotMountable")
     \/ /\ job.host.ntfsMounts /\ ~job.host.loaderIntact
        /\ Refuse("loaderHash")
  /\ UNCHANGED <<job, layout, usbMounts, todo, disk, touched, faulted, runs>>

-----------------------------------------------------------------------------
\* The destructive phase.

\* A command of the closure fails.  Unless the tool is simply not there, or
\* the host could never have done it, that is a fault of this run.
Fails(error, foreseeable) ==
  /\ Abort(error)
  /\ faulted' = IF foreseeable THEN faulted ELSE TRUE

Missing(tool) == tool \notin job.host.tools

\* Mutant of Partition: nothing unmounts what an earlier run left mounted.
PartitionInUse ==
  /\ pc = "partition"
  /\ \/ /\ ~Missing("sfdisk")
        /\ disk' = [table |-> layout, fs |-> "none", loader |-> FALSE,
                    files |-> {}, synced |-> FALSE]
        /\ touched' = TRUE
        /\ Goto("settle")
        /\ UNCHANGED faulted
     \/ Fails("sfdisk", Missing("sfdisk")) /\ UNCHANGED <<disk, touched>>
  /\ UNCHANGED <<job, layout, isoMounts, usbMounts, todo, umountFailed, runs>>

\* The drive's partitions are unmounted (failures ignored) and sfdisk replaces
\* the table, which it refuses to do on a drive still in use.  A failing sfdisk
\* may have written part of the table or nothing.
Partition ==
  /\ pc = "partition"
  /\ \/ /\ ~Missing("sfdisk") /\ usbMounts > 0 => ~Missing("umount")
        /\ disk' = [table |-> layout, fs |-> "none", loader |-> FALSE,
                    files |-> {}, synced |-> FALSE]
        /\ touched' = TRUE
        /\ usbMounts' = 0
        /\ Goto("settle")
        /\ UNCHANGED faulted
     \/ /\ Fails("sfdisk", Missing("sfdisk"))
        /\ usbMounts' \in {usbMounts, 0}
        /\ \/ UNCHANGED <<disk, touched>>
           \/ /\ ~Missing("sfdisk") /\ usbMounts' = 0
              /\ disk' = [disk EXCEPT !.table = "torn"]
              /\ touched' = TRUE
  /\ UNCHANGED <<job, layout, isoMounts, todo, umountFailed, runs>>

Settle ==
  /\ pc = "settle"
  /\ \/ ~Missing("udevadm") /\ Goto("mkfs") /\ UNCHANGED faulted
     \/ Fails("udevadm", Missing("udevadm"))
  /\ UNCHANGED <<job, layout, isoMounts, usbMounts, todo, disk, touched,
                 umountFailed, runs>>

Mkfs(l) == IF l = Ntfs THEN "mkfs.ntfs" ELSE "mkfs.fat"

MakeFilesystem ==
  /\ pc = "mkfs"
  /\ \/ /\ ~Missing(Mkfs(layout))
        /\ disk' = [disk EXCEPT !.fs = FileSystemOf(layout), !.files = {}]
        /\ Goto(IF layout = Ntfs THEN "loader" ELSE "mountUsb")
        /\ UNCHANGED faulted
     \/ Fails("mkfs", Missing(Mkfs(layout))) /\ UNCHANGED disk
  /\ UNCHANGED <<job, layout, isoMounts, usbMounts, todo, touched, umountFailed,
                 runs>>

\* write_uefi_ntfs verifies the hash again before it opens the partition.
WriteLoader ==
  /\ pc = "loader"
  /\ \/ /\ job.host.loaderIntact
        /\ disk' = [disk EXCEPT !.loader = TRUE]
        /\ Goto("mountUsb")
        /\ UNCHANGED faulted
     \/ Fails("loader", ~job.host.loaderIntact) /\ UNCHANGED disk
  /\ UNCHANGED <<job, layout, isoMounts, usbMounts, todo, touched, umountFailed,
                 runs>>

Mountable == disk.fs = "ntfs" => job.host.ntfsMounts

MountUsb ==
  /\ pc = "mountUsb"
  /\ \/ /\ Mountable
        /\ Goto("list")
        /\ usbMounts' = usbMounts + 1
        /\ UNCHANGED faulted
     \/ Fails("mountUsbFailed", ~Mountable) /\ UNCHANGED usbMounts
  /\ UNCHANGED <<job, layout, isoMounts, todo, disk, touched, umountFailed, runs>>

\* copy_tree collects the whole tree before it copies the first file.
CollectTree ==
  /\ pc = "list"
  /\ \/ /\ job.iso.readable
        /\ todo' = job.iso.files \ Excluded(job.iso, layout)
        /\ Goto("copy")
        /\ UNCHANGED faulted
     \/ Fails("copy", ~job.iso.readable) /\ UNCHANGED todo
  /\ UNCHANGED <<job, layout, isoMounts, usbMounts, disk, touched, umountFailed,
                 runs>>

\* The volume takes another file: FAT32 caps its size, and what the ISO's files
\* occupy may not exceed the volume.
Holds(f) ==
  /\ disk.fs = "fat32" => job.iso.size[f] <= MaxFatFile
  /\ MapThenSumSet(LAMBDA g : job.iso.size[g], (disk.files \intersect IsoFile) \union {f})
       <= VolumeSize(job.dev)

\* Files arrive in whatever order the directories list them.
CopyFile ==
  /\ pc = "copy"
  /\ \E f \in todo :
       \/ /\ Holds(f)
          /\ disk' = [disk EXCEPT !.files = @ \union {f}]
          /\ todo' = todo \ {f}
          /\ Goto("copy")
          /\ UNCHANGED faulted
       \/ Fails("copy", ~Holds(f)) /\ UNCHANGED <<disk, todo>>
  /\ UNCHANGED <<job, layout, isoMounts, usbMounts, touched, umountFailed, runs>>

\* Mutant of CopyDone: the image left out of the copy is never split.
CopyDoneNoSplit ==
  /\ pc = "copy" /\ todo = {}
  /\ Goto("answer")
  /\ UNCHANGED <<job, layout, isoMounts, usbMounts, todo, disk, touched, faulted,
                 umountFailed, runs>>

CopyDone ==
  /\ pc = "copy" /\ todo = {}
  /\ Goto(IF NeedsSplitter(layout, ImageSize(job.iso)) THEN "split" ELSE "answer")
  /\ UNCHANGED <<job, layout, isoMounts, usbMounts, todo, disk, touched, faulted,
                 umountFailed, runs>>

SplitImage ==
  /\ pc = "split"
  /\ \/ /\ ~Missing("wimlib-imagex")
        /\ disk' = [disk EXCEPT !.files = @ \union {"install.swm"}]
        /\ Goto("answer")
        /\ UNCHANGED faulted
     \/ Fails("wimlib-imagex", Missing("wimlib-imagex")) /\ UNCHANGED disk
  /\ UNCHANGED <<job, layout, isoMounts, usbMounts, todo, touched, umountFailed,
                 runs>>

\* generate_autounattend refuses an account name Windows would not accept.
WriteAnswerFile ==
  /\ pc = "answer"
  /\ \/ /\ job.tweaks \in {"none", "noop"}
        /\ Goto("check")
        /\ UNCHANGED <<disk, faulted>>
     \/ /\ job.tweaks = "valid"
        /\ disk' = [disk EXCEPT !.files = @ \union {"autounattend.xml"}]
        /\ Goto("check")
        /\ UNCHANGED faulted
     \/ /\ job.tweaks \in {"valid", "badAccount"}
        /\ Fails("answerFile", job.tweaks = "badAccount")
        /\ UNCHANGED disk
  /\ UNCHANGED <<job, layout, isoMounts, usbMounts, todo, touched, umountFailed,
                 runs>>

\* Mutant of CheckMedia: boot.wim is not looked for.
CheckLoaderOnly ==
  /\ pc = "check"
  /\ IF "bootloader" \in disk.files THEN Goto("sync") ELSE Abort("bootloaderMissing")
  /\ UNCHANGED <<job, layout, isoMounts, usbMounts, todo, disk, touched, faulted,
                 umountFailed, runs>>

CheckMedia ==
  /\ pc = "check"
  /\ \/ {"bootloader", "boot.wim"} \subseteq disk.files /\ Goto("sync")
     \/ "bootloader" \notin disk.files /\ Abort("bootloaderMissing")
     \/ /\ "bootloader" \in disk.files /\ "boot.wim" \notin disk.files
        /\ Abort("bootWimMissing")
  /\ UNCHANGED <<job, layout, isoMounts, usbMounts, todo, disk, touched, faulted,
                 umountFailed, runs>>

Sync ==
  /\ pc = "sync"
  /\ \/ /\ ~Missing("sync")
        /\ disk' = [disk EXCEPT !.synced = TRUE]
        /\ Abort("ok")
        /\ UNCHANGED faulted
     \/ Fails("sync", Missing("sync")) /\ UNCHANGED disk
  /\ UNCHANGED <<job, layout, isoMounts, usbMounts, todo, touched, umountFailed,
                 runs>>

\* Both umounts follow whatever the closure returned; their results are
\* ignored, and the first has nothing to do when the volume was never mounted.
CleanupUsb ==
  /\ pc = "cleanup"
  /\ pc' = "cleanupIso"
  /\ \/ ~Missing("umount") /\ usbMounts' = 0 /\ UNCHANGED umountFailed
     \/ UNCHANGED usbMounts /\ umountFailed' = (umountFailed \/ usbMounts > 0)
  /\ UNCHANGED <<job, layout, isoMounts, todo, disk, result, touched, faulted, runs>>

CleanupIso ==
  /\ pc = "cleanupIso"
  /\ pc' = "ended"
  /\ UnmountIso
  /\ UNCHANGED <<job, layout, usbMounts, todo, disk, result, touched, faulted, runs>>

\* The user runs the program again on the same drive and ISO, with any layout.
RunAgain ==
  /\ pc = "ended" /\ runs < MaxRuns
  /\ \E l \in Layouts \union {"auto"} : job' = [job EXCEPT !.layout = l]
  /\ pc' = "target" /\ layout' = "auto" /\ todo' = {} /\ result' = "none"
  /\ touched' = FALSE /\ faulted' = FALSE
  /\ runs' = runs + 1
  /\ UNCHANGED <<isoMounts, usbMounts, disk, umountFailed>>

-----------------------------------------------------------------------------
Probe ==
  \/ AssertSafeTarget \/ MountIso \/ PickInstallImage \/ ValidatePlan
  \/ FindBootloader \/ MeasureContents \/ RequireTools \/ ProbeNtfs

Write ==
  \/ Partition \/ Settle \/ MakeFilesystem \/ WriteLoader \/ MountUsb
  \/ CollectTree \/ CopyFile \/ CopyDone \/ SplitImage \/ WriteAnswerFile
  \/ CheckMedia \/ Sync \/ CleanupUsb \/ CleanupIso

Next == Probe \/ Write \/ RunAgain

Spec == Init /\ [][Next]_vars

\* A run that has started keeps taking steps: it is one sequential program and
\* every command it waits for returns.  Nothing obliges the user to run again.
FairSpec == Spec /\ WF_vars(Probe) /\ WF_vars(Write)

-----------------------------------------------------------------------------
\* Properties.

ControlOK ==
  /\ pc \in Step
  /\ layout \in Layouts \union {"auto"}
  /\ pc \notin {"target", "mountIso", "pick", "ended"} => layout \in Layouts

ResultOK == result \in {"none", "ok"} \union Refusal \union Failure

DataOK ==
  /\ job \in Job /\ runs \in 1..MaxRuns
  /\ isoMounts \in Nat /\ usbMounts \in {0, 1}
  /\ todo \subseteq IsoFile /\ disk \in Disk
  /\ touched \in BOOLEAN /\ faulted \in BOOLEAN /\ umountFailed \in BOOLEAN

TypeOK == ControlOK /\ ResultOK /\ DataOK

\* From the mount to the last umount the ISO of this run stays mounted.
IsoHeld == pc \notin {"target", "mountIso", "ended"} => isoMounts > 0

\* The new volume is mounted where nothing of this program is mounted already.
UsbFree == pc \in {"settle", "mkfs", "loader", "mountUsb"} => usbMounts = 0

\* Everything that can be known of a job before the drive is touched.
Probed(j, l) ==
  /\ SafeTarget(j.dev)
  /\ HasInstallImage(j.iso) /\ "bootloader" \in j.iso.files /\ j.iso.readable
  /\ TreeSize(j.iso) <= Usable(j.dev)
  /\ j.plan[l] = "ok"
  /\ Needed(l, ImageSize(j.iso)) \subseteq j.host.tools
  /\ l = Ntfs => j.host.ntfsMounts /\ j.host.loaderIntact

\* No step of any run changes the drive unless the target is safe and the ISO,
\* the plan, the room, the tools and, for NTFS, the mount probe and the loader
\* hash have all been found good for the layout about to be written.
NeverTouchUnprobed == [][disk' # disk => Probed(job, layout)]_vars

\* The media the user asked for: the layout's table and filesystem, the loader
\* exactly where NTFS needs it, every file of the ISO (an image too big for
\* FAT32 as .swm chunks instead), the answer file exactly when tweaks ask for
\* one, nothing left of an earlier run, and all of it on the medium.
IsMedia(j, l, d) ==
  /\ l \in Layouts /\ j.layout \in {"auto", l}
  /\ d.table = l /\ d.fs = FileSystemOf(l) /\ d.loader = (l = Ntfs) /\ d.synced
  /\ {"bootloader", "boot.wim"} \subseteq d.files
  /\ d.files = (j.iso.files \ Excluded(j.iso, l))
                 \union (IF Excluded(j.iso, l) # {} THEN {"install.swm"} ELSE {})
                 \union (IF j.tweaks = "valid" THEN {"autounattend.xml"} ELSE {})
  /\ d.fs = "fat32" => \A f \in d.files \intersect IsoFile : j.iso.size[f] <= MaxFatFile

\* A run that reports success leaves exactly the media that was asked for, also
\* when an earlier run on the drive failed half-way or used the other layout.
SuccessIsMedia == result = "ok" => IsMedia(job, layout, disk)

\* A job that can become bootable media with layout l: the ISO is a complete
\* installer and fits, no file but the install image defeats FAT32, the answer
\* file can be made, and the host has the tools for this layout and this image.
Feasible(j, l) ==
  LET image == InstallImage(j.iso)
      spare == IF l = Ntfs THEN {"mkfs.fat", "wimlib-imagex"}
               ELSE {"mkfs.ntfs"} \union
                    (IF j.iso.size[image] <= MaxFatFile THEN {"wimlib-imagex"} ELSE {})
  IN  /\ j.dev.removable /\ MinDevice <= j.dev.size /\ j.dev.size <= MaxDevice
      /\ {image, "bootloader", "boot.wim"} \subseteq j.iso.files /\ j.iso.readable
      /\ 100 * TreeSize(j.iso) <= 99 * VolumeSize(j.dev)
      /\ l = Fat => \A f \in j.iso.files \ {image} : j.iso.size[f] <= MaxFatFile
      /\ j.plan[l] = "ok" /\ j.tweaks # "badAccount"
      /\ Tool \ spare \subseteq j.host.tools
      /\ l = Ntfs => j.host.ntfsMounts /\ j.host.loaderIntact

\* The checks refuse nothing that works: a feasible job succeeds unless a
\* command or the hardware fails.  With no layout asked for, NTFS is the choice
\* exactly when FAT32 cannot hold the install image.
GoodJobSucceeds ==
  LET auto == IF job.iso.size[InstallImage(job.iso)] > MaxFatFile THEN Ntfs ELSE Fat
      l    == IF job.layout = "auto" THEN auto ELSE job.layout
  IN  pc = "ended" /\ ~faulted /\ Feasible(job, l) => result = "ok" /\ layout = l

\* A run that has returned left nothing mounted, except where a umount failed
\* unseen or the tree of the ISO could not be walked.
MountsReleased ==
  pc = "ended" => /\ usbMounts > 0 => umountFailed
                  /\ isoMounts > 0 => umountFailed \/ ~job.iso.readable

\* Every run returns: no order of failures leaves it going round or stuck.
Terminates == (pc # "ended") ~> (pc = "ended")

-----------------------------------------------------------------------------
\* The inductive invariant behind the safety properties, in parts.

\* What the checks have established by the time a step is due.
Established ==
  /\ pc \notin {"target", "ended"} => SafeTarget(job.dev)
  /\ pc \notin {"target", "mountIso", "pick", "ended"} =>
       HasInstallImage(job.iso) /\ job.layout \in {"auto", layout}
  /\ pc \notin {"target", "mountIso", "pick", "plan", "ended"} =>
       job.plan[layout] = "ok"
  /\ pc \in {"measure", "tools", "probe"} => "bootloader" \in job.iso.files
  /\ pc \in {"tools", "probe"} =>
       job.iso.readable /\ TreeSize(job.iso) <= Usable(job.dev)
  /\ pc = "probe" => Needed(layout, ImageSize(job.iso)) \subseteq job.host.tools
  /\ pc \in Destructive => Probed(job, layout)

Building == {"settle", "mkfs", "loader", "mountUsb", "list", "copy", "split",
             "answer", "check", "sync"}

\* Before the partitioning the drive is untouched; from then on it is not, and
\* until the final sync it does not count as written.
TouchedOK ==
  /\ pc \in Preflight \union {"partition"} => ~touched
  /\ pc \in Building => touched /\ ~disk.synced
  /\ pc \notin {"cleanup", "cleanupIso", "ended"} => result = "none"
  /\ touched /\ result # "ok" => disk.table = "torn" \/ ~disk.synced
  /\ result = "ok" => touched

Copied == job.iso.files \ Excluded(job.iso, layout)
Chunks == IF Excluded(job.iso, layout) # {} THEN {"install.swm"} ELSE {}
Answer == IF job.tweaks = "valid" THEN {"autounattend.xml"} ELSE {}

\* What is on the new volume by the time a step is due.
Built ==
  /\ pc \in Building => disk.table = layout
  /\ pc \in {"settle", "mkfs", "loader"} => ~disk.loader
  /\ pc = "loader" => layout = Ntfs
  /\ pc \in Building \ {"settle", "mkfs"} => disk.fs = FileSystemOf(layout)
  /\ pc \in Building \ {"settle", "mkfs", "loader"} => disk.loader = (layout = Ntfs)
  /\ pc \in {"settle", "mkfs", "loader", "mountUsb", "list"} => disk.files = {}
  /\ pc = "copy" => disk.files \union todo = Copied
  /\ pc = "split" => disk.files = Copied /\ Chunks # {}
  /\ pc = "answer" => disk.files = Copied \union Chunks
  /\ pc \in {"check", "sync"} => disk.files = Copied \union Chunks \union Answer
  /\ pc = "sync" => {"bootloader", "boot.wim"} \subseteq disk.files
  /\ pc \in Building /\ disk.fs = "fat32" =>
       \A f \in disk.files \intersect IsoFile : job.iso.size[f] <= MaxFatFile

IInv == TypeOK /\ IsoHeld /\ UsbFree /\ Established /\ TouchedOK /\ Built /\ SuccessIsMedia

-----------------------------------------------------------------------------
\* The abstract promise, and how a run's state shows it.
Phase == IF pc \in Preflight THEN "probing"
         ELSE IF pc = "ended" THEN "ended" ELSE "writing"

Drive == IF ~touched THEN "kept"
         ELSE IF IsMedia(job, layout, disk) THEN "good" ELSE "erased"

Outcome == IF pc # "ended" THEN "none" ELSE IF result = "ok" THEN "ok" ELSE "error"

Promise == INSTANCE FlashPromise WITH
             phase <- Phase, drive <- Drive, outcome <- Outcome

\* A run implements the promise of FlashPromise: it probes with the drive kept,
\* erases only once it has stopped probing, and says "ok" only of a good drive.
KeepsPromise == Promise!Spec
=============================================================================
