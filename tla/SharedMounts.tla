---------------------------- MODULE SharedMounts ----------------------------
(***************************************************************************)
(* Several runs of the write command on one host, of a Windows ISO each:   *)
(* windows_install_image_size, flash_windows_iso and probe_ntfs_mountable  *)
(* (crates/core/src/lib.rs).  Each has a drive and an ISO of its own, but  *)
(* all of them mount at /run/sirius-flash-inspect, /run/sirius-flash-iso   *)
(* and /run/sirius-flash-usb, and probe for NTFS in one directory under    *)
(* the temporary directory; nothing keeps two of them apart.  The kernel   *)
(* stacks mounts: a path leads to the last one mounted, and umount of a    *)
(* path takes that one off.                                                *)
(*                                                                         *)
(* A run is taken here in the steps between which another can act on the   *)
(* mount points; the checks inside the steps are those of WindowsFlash.    *)
(***************************************************************************)
EXTENDS Integers, SequencesExt

CONSTANTS
  Runs,       \* the users of the host: each has one drive and one ISO
  IsoFiles,   \* the files on the ISO of each
  Large,      \* those whose install image is larger than FAT32 takes
  MaxStarts   \* bound: invocations in all

Name == {"bootloader", "other"}

ASSUME RunsAssumption      == IsFiniteSet(Runs)
ASSUME IsoFilesAssumption  == IsoFiles \in [Runs -> SUBSET Name]
ASSUME LargeAssumption     == Large \subseteq Runs
ASSUME MaxStartsAssumption == MaxStarts \in Nat \ {0}

VARIABLES
  pc,            \* the step each run is about to take
  inspectStack,  \* whose ISO is mounted on /run/sirius-flash-inspect, the last first
  layout,        \* the layout each run has settled on, if it has
  probeImage,    \* probe.img in the directory of the NTFS probe
  probeMounts,   \* how often it is mounted there
  isoStack,      \* whose ISO is mounted on /run/sirius-flash-iso, the last first
  usbStack,      \* whose drive is mounted on /run/sirius-flash-usb, the last first
  todo,          \* the files each run has still to copy
  content,       \* what each drive holds: files, and whose ISO they came from
  result,        \* what each run is about to return
  starts,        \* invocations so far
  alone,         \* has no other run been active during this one
  umountFailed   \* has a mount been left behind, in any run

locals     == <<layout, todo>>
probing    == <<probeImage, probeMounts>>
vars == <<pc, locals, inspectStack, probing, isoStack, usbStack, content, result, starts, alone, umountFailed>>

Active(r) == pc[r] # "idle"

Goto(r, step) == pc' = [pc EXCEPT ![r] = step] /\ UNCHANGED result
Return(r) ==
  /\ pc' = [pc EXCEPT ![r] = "idle"] /\ result' = [result EXCEPT ![r] = "none"]
  /\ layout' = [layout EXCEPT ![r] = "none"] /\ todo' = [todo EXCEPT ![r] = {}]
Abort(r, outcome) ==
  pc' = [pc EXCEPT ![r] = "cleanup"] /\ result' = [result EXCEPT ![r] = outcome]

\* What the files under a mount point are: those of the last mount, if any.
Top(stack) == IF stack = <<>> THEN {} ELSE {Head(stack)}

LayoutFor(s) == IF s \in Large THEN "ntfs" ELSE "fat32"

\* A umount whose status is ignored.  On a bare directory it does nothing; a
\* busy mount stays.
Umount(stack) ==
  \/ stack # <<>> /\ stack' = Tail(stack) /\ UNCHANGED umountFailed
  \/ UNCHANGED stack /\ umountFailed' = (umountFailed \/ stack # <<>>)

-----------------------------------------------------------------------------
Init ==
  /\ pc = [r \in Runs |-> "idle"]
  /\ inspectStack = <<>> /\ isoStack = <<>> /\ usbStack = <<>>
  /\ layout = [r \in Runs |-> "none"] /\ probeImage = "none" /\ probeMounts = 0
  /\ todo = [r \in Runs |-> {}] /\ content = [r \in Runs |-> {}]
  /\ result = [r \in Runs |-> "none"] /\ starts = 0
  /\ alone = [r \in Runs |-> TRUE] /\ umountFailed = FALSE

Start(r) ==
  /\ ~Active(r) /\ starts < MaxStarts
  /\ pc' = [pc EXCEPT ![r] = "inspectMount"]
  /\ UNCHANGED result
  /\ starts' = starts + 1
  /\ alone' = [s \in Runs |-> s = r /\ \A q \in Runs : ~Active(q)]
  /\ UNCHANGED <<locals, inspectStack, probing, isoStack, usbStack, content, umountFailed>>

\* windows_install_image_size: the layout is that of whatever is mounted.  A
\* mount that fails leaves the choice to flash_windows_iso.
InspectMount(r) ==
  /\ pc[r] = "inspectMount"
  /\ \/ Goto(r, "inspectRead") /\ inspectStack' = <<r>> \o inspectStack
     \/ Goto(r, "mountIso") /\ UNCHANGED inspectStack
  /\ UNCHANGED <<locals, probing, isoStack, usbStack, content, starts, alone, umountFailed>>

InspectRead(r) ==
  /\ pc[r] = "inspectRead"
  /\ layout' = [s \in Runs |-> IF s = r /\ inspectStack # <<>> THEN LayoutFor(Head(inspectStack))
                                ELSE layout[s]]
  /\ Goto(r, "inspectUmount")
  /\ UNCHANGED <<inspectStack, probing, isoStack, usbStack, todo, content, starts, alone, umountFailed>>

InspectUmount(r) ==
  /\ pc[r] = "inspectUmount"
  /\ Goto(r, "mountIso")
  /\ Umount(inspectStack)
  /\ UNCHANGED <<locals, probing, isoStack, usbStack, content, starts, alone>>

\* Mutant of MountIso: an ISO already mounted there is used as it is.
MountIsoReuses(r) ==
  /\ pc[r] = "mountIso"
  /\ Goto(r, "probe")
  /\ isoStack' = IF isoStack = <<>> THEN <<r>> ELSE isoStack
  /\ UNCHANGED <<locals, inspectStack, probing, usbStack, content, starts, alone, umountFailed>>

MountIso(r) ==
  /\ pc[r] = "mountIso"
  /\ \/ Goto(r, "probe") /\ isoStack' = <<r>> \o isoStack /\ UNCHANGED locals
     \/ Return(r) /\ UNCHANGED isoStack
  /\ UNCHANGED <<inspectStack, probing, usbStack, content, starts, alone, umountFailed>>

\* What the preflight finds on the ISO that is mounted passes, and settles the
\* layout if nothing has.
Passes(r) ==
  \E s \in Top(isoStack) :
    /\ "bootloader" \in IsoFiles[s]
    /\ layout' = [layout EXCEPT ![r] = IF @ = "none" THEN LayoutFor(s) ELSE @]
    /\ Goto(r, IF layout'[r] = "ntfs" THEN "ntfsMake" ELSE "partition")
    /\ UNCHANGED todo

\* Mutant of Probe: the refusal forgets the mounted ISO.
ProbeLeaks(r) ==
  /\ pc[r] = "probe"
  /\ \/ Passes(r)
     \/ Return(r)
  /\ UNCHANGED <<inspectStack, probing, isoStack, usbStack, content, starts, alone, umountFailed>>

\* The checks of the preflight read whatever is mounted.  They pass, or refuse
\* and unmount; a tree that cannot be walked is left mounted.
Probe(r) ==
  /\ pc[r] = "probe"
  /\ \/ Passes(r) /\ UNCHANGED <<isoStack, umountFailed>>
     \/ Return(r) /\ Umount(isoStack)
     \/ Return(r) /\ umountFailed' = TRUE /\ UNCHANGED isoStack
  /\ UNCHANGED <<inspectStack, probing, usbStack, content, starts, alone>>

\* probe_ntfs_mountable: what an earlier probe left is removed, that of another
\* run too, and an empty image made.
NtfsMake(r) ==
  /\ pc[r] = "ntfsMake"
  /\ \/ Goto(r, "ntfsMkfs") /\ probeImage' = "empty"
     \/ Goto(r, "refuse") /\ probeImage' = "none"
  /\ UNCHANGED <<locals, inspectStack, probeMounts, isoStack, usbStack, content, starts, alone, umountFailed>>

NtfsMkfs(r) ==
  /\ pc[r] = "ntfsMkfs"
  /\ \/ probeImage # "none" /\ Goto(r, "ntfsMount") /\ probeImage' = "ntfs"
     \/ Goto(r, "ntfsNo") /\ UNCHANGED probeImage
  /\ UNCHANGED <<locals, inspectStack, probeMounts, isoStack, usbStack, content, starts, alone, umountFailed>>

NtfsMount(r) ==
  /\ pc[r] = "ntfsMount"
  /\ \/ probeImage = "ntfs" /\ Goto(r, "ntfsYes") /\ probeMounts' = probeMounts + 1
     \/ Goto(r, "ntfsNo") /\ UNCHANGED probeMounts
  /\ UNCHANGED <<locals, inspectStack, probeImage, isoStack, usbStack, content, starts, alone, umountFailed>>

\* The probe unmounts, whether it has mounted or not, and removes its files.
NtfsCleanup(r) ==
  /\ pc[r] \in {"ntfsYes", "ntfsNo"}
  /\ Goto(r, IF pc[r] = "ntfsYes" THEN "partition" ELSE "refuse")
  /\ probeImage' = "none"
  /\ \/ probeMounts > 0 /\ probeMounts' = probeMounts - 1 /\ UNCHANGED umountFailed
     \/ umountFailed' = (umountFailed \/ probeMounts > 0) /\ UNCHANGED probeMounts
  /\ UNCHANGED <<locals, inspectStack, isoStack, usbStack, content, starts, alone>>

Refuse(r) ==
  /\ pc[r] = "refuse"
  /\ Return(r) /\ Umount(isoStack)
  /\ UNCHANGED <<inspectStack, probing, usbStack, content, starts, alone>>

\* Mutant of Partition: a drive left mounted is partitioned as it is.
PartitionInUse(r) ==
  /\ pc[r] = "partition"
  /\ Goto(r, "mountUsb")
  /\ content' = [content EXCEPT ![r] = {}]
  /\ UNCHANGED <<locals, inspectStack, probing, isoStack, usbStack, starts, alone, umountFailed>>

\* The own drive is unmounted, if it can be, whichever mount of it is meant.
Released(r) ==
  \/ \E i \in DOMAIN usbStack : usbStack[i] = r /\ usbStack' = RemoveAt(usbStack, i)
  \/ r \notin Range(usbStack) /\ UNCHANGED usbStack

\* The partitions of the own drive are unmounted wherever they are, then the
\* drive is partitioned and formatted by its by-id path.  sfdisk refuses a
\* drive that could not be unmounted.
Partition(r) ==
  /\ pc[r] = "partition"
  /\ \/ /\ Released(r)
        /\ Goto(r, "mountUsb")
        /\ content' = [content EXCEPT ![r] = {}]
     \/ /\ Released(r) \/ UNCHANGED usbStack
        /\ Abort(r, "error")
        /\ UNCHANGED content
  /\ UNCHANGED <<locals, inspectStack, probing, isoStack, starts, alone, umountFailed>>

MountUsb(r) ==
  /\ pc[r] = "mountUsb"
  /\ \/ Goto(r, "list") /\ usbStack' = <<r>> \o usbStack
     \/ Abort(r, "error") /\ UNCHANGED usbStack
  /\ UNCHANGED <<locals, inspectStack, probing, isoStack, content, starts, alone, umountFailed>>

CollectTree(r) ==
  /\ pc[r] = "list"
  /\ todo' = [todo EXCEPT ![r] = UNION {IsoFiles[s] : s \in Top(isoStack)}]
  /\ Goto(r, "copy")
  /\ UNCHANGED <<layout, inspectStack, probing, isoStack, usbStack, content, starts, alone, umountFailed>>

\* Each file is opened by its path, on both sides, when its turn comes.  With
\* no drive mounted the copy fills the bare directory under /run instead.
CopyFile(r) ==
  /\ pc[r] = "copy"
  /\ \E name \in todo[r] :
       \/ \E s \in Top(isoStack) :
            /\ name \in IsoFiles[s]
            /\ content' = [d \in Runs |-> IF d \in Top(usbStack)
                             THEN content[d] \union {<<s, name>>} ELSE content[d]]
            /\ todo' = [todo EXCEPT ![r] = @ \ {name}]
            /\ Goto(r, "copy")
       \/ Abort(r, "error") /\ UNCHANGED <<content, todo>>
  /\ UNCHANGED <<layout, inspectStack, probing, isoStack, usbStack, starts, alone, umountFailed>>

\* The check and the sync that end the copy.  The bare directory may hold the
\* files of an earlier copy that went astray, and then passes for the drive.
CheckMedia(r) ==
  /\ pc[r] = "copy" /\ todo[r] = {}
  /\ \/ /\ \A d \in Top(usbStack) : \E s \in Runs : <<s, "bootloader">> \in content[d]
        /\ Abort(r, "ok")
     \/ Abort(r, "error")
  /\ UNCHANGED <<locals, inspectStack, probing, isoStack, usbStack, content, starts, alone, umountFailed>>

\* Both umounts are by mount point, whether or not this run mounted anything.
CleanupUsb(r) ==
  /\ pc[r] = "cleanup"
  /\ Goto(r, "cleanupIso")
  /\ Umount(usbStack)
  /\ UNCHANGED <<locals, inspectStack, probing, isoStack, content, starts, alone>>

CleanupIso(r) ==
  /\ pc[r] = "cleanupIso"
  /\ Return(r)
  /\ Umount(isoStack)
  /\ UNCHANGED <<inspectStack, probing, usbStack, content, starts, alone>>

Step(r) == \/ InspectMount(r) \/ InspectRead(r) \/ InspectUmount(r)
           \/ NtfsMake(r) \/ NtfsMkfs(r) \/ NtfsMount(r) \/ NtfsCleanup(r) \/ Refuse(r)
           \/ MountIso(r) \/ Probe(r) \/ Partition(r) \/ MountUsb(r) \/ CollectTree(r)
           \/ CopyFile(r) \/ CheckMedia(r) \/ CleanupUsb(r) \/ CleanupIso(r)

Next == \E r \in Runs : Start(r) \/ Step(r)

Spec == Init /\ [][Next]_vars

-----------------------------------------------------------------------------
\* Properties.

\* No drive is mounted twice, and no more ISOs are than runs have mounted.
TypeOK ==
  /\ pc \in [Runs -> {"idle", "inspectMount", "inspectRead", "inspectUmount", "mountIso", "probe",
                      "ntfsMake", "ntfsMkfs", "ntfsMount", "ntfsYes", "ntfsNo", "refuse",
                      "partition", "mountUsb", "list", "copy", "cleanup", "cleanupIso"}]
  /\ inspectStack \in Seq(Runs) /\ isoStack \in Seq(Runs)
  /\ layout \in [Runs -> {"none", "fat32", "ntfs"}]
  /\ probeImage \in {"none", "empty", "ntfs"} /\ probeMounts \in Nat
  /\ usbStack \in Seq(Runs) /\ IsInjective(usbStack)
  /\ todo \in [Runs -> SUBSET Name] /\ content \in [Runs -> SUBSET (Runs \X Name)]
  /\ result \in [Runs -> {"none", "ok", "error"}] /\ starts \in 0..MaxStarts
  /\ alone \in [Runs -> BOOLEAN] /\ umountFailed \in BOOLEAN

\* A run no other overlaps, and which says ok, leaves its own files on its own
\* drive and nothing else, in the layout its own ISO calls for, and the drive
\* unmounted if its umount worked: also when earlier runs have left their
\* mounts on the shared mount points.
AloneIsRight ==
  [][\A r \in Runs : Active(r) /\ pc'[r] = "idle" /\ alone[r] /\ result[r] = "ok" =>
       /\ content'[r] = {r} \X IsoFiles[r] /\ layout[r] = LayoutFor(r)
       /\ ~umountFailed' => r \notin Top(usbStack') \union Top(isoStack')]_vars

\* However the runs overlap and fail, when all have returned and every umount
\* worked nothing is left on any of the mount points.
StacksEmptied ==
  (\A r \in Runs : ~Active(r)) /\ ~umountFailed =>
    inspectStack = <<>> /\ isoStack = <<>> /\ usbStack = <<>> /\ probeMounts = 0
=============================================================================
