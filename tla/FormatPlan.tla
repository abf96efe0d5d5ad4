----------------------------- MODULE FormatPlan -----------------------------
(***************************************************************************)
(* The format rules (crates/core/src/format.rs) and what is made of a plan *)
(* on the Windows path (crates/core/src/lib.rs): the volume it is checked  *)
(* against, the partitions, mkfs.fat, and whether what passed the fit      *)
(* check then fits.  The format-options command of the CLI is modelled     *)
(* beside it.  Whatever else can stop a flash is in WindowsFlash.          *)
(*                                                                         *)
(* Sizes are in units of 512 bytes; a cluster size is the n of 2^n bytes.  *)
(* Sizes stay below 1 TiB, so the limits of the code at 2, 16 and 256 TiB  *)
(* are never met and are left out.                                         *)
(***************************************************************************)
EXTENDS Integers, FiniteSetsExt

CONSTANTS
  Volumes,      \* [size, sector] of the volumes format-options is asked about
  Drives,       \* [size, sector] of the drives to be flashed
  Clusters,     \* the cluster sizes a user may ask for
  Trees,        \* what may be on the ISO: how much less than there is room for, in
                \* how many files, and the clusters its directories take
  None

MB == 2048
GB == 1024 * MB

Volume == [size : 1..512 * GB, sector : {2^k : k \in 9..16}]

ASSUME VolumesAssumption == Volumes \subseteq Volume /\ Drives \subseteq Volume
ASSUME ClustersAssumption == Clusters \subseteq 0..31 /\ None \notin Clusters
ASSUME TreesAssumption ==
  Trees \subseteq [short : Nat \union {-1}, files : Nat, others : Nat]

\* What the theorems need of drives: 33 sectors of a larger size are more than
\* the first mebibyte.  Drives have sectors of 512 or 4096 bytes.
ASSUME SectorsAssumption == \A d \in Drives : d.sector <= 16384

VARIABLES
  phase,     \* how far the flash, or the listing, has come
  drive,     \* the drive, or the volume asked about
  request,   \* the cluster size asked for and the layout, None to leave them open
  oversized, \* has the ISO a file that FAT32 cannot hold
  plan,      \* what validate returned
  contents,  \* the sum of the lengths of the files on the ISO, their number, and
             \* the clusters that no length counts
  parts,     \* the partitions, in sectors of the drive
  made       \* the number of clusters mkfs.fat made

vars == <<phase, drive, request, oversized, plan, contents, parts, made>>

Scheme     == {"mbr", "gpt"}
Target     == {"bios", "uefi", "biosOrUefi"}
FileSystem == {"fat32", "ntfs", "exfat"}
Layout     == {"fat32Split", "ntfsUefiNtfs"}
Plan       == [layout : Layout, cluster : 9..16]
Contents   == [length : 0..512 * GB, files : Nat, others : Nat]

ASSUME NoneAssumption == None \notin Plan

-----------------------------------------------------------------------------
\* The rules.

TargetSystemsFor(scheme) == IF scheme = "mbr" THEN Target ELSE {"uefi"}

NeedsUefi(target) == target \in {"uefi", "biosOrUefi"}
UefiBootableUnaided(fs) == fs = "fat32"

\* Mutant of Threshold: the sizes change on the power of two itself.
ThresholdExact(mb) == mb * MB

\* FAT32_CLUSTER_THRESHOLD: the cluster sizes change 1.1% above mb MB.
Threshold(mb) == mb * MB + (mb * MB * 11 + 999) \div 1000

\* How many of the thresholds at 32, 64, ... 32768 MB a size has passed.
Shifts(size) == Cardinality({k \in 0..10 : size >= Threshold(32 * 2^k)})

\* Mutant of RufusMask: FAT32's sizes are not cut at 64 KiB.
UncutMask(fs, size) ==
  CASE fs = "fat32" /\ size >= 32 * MB ->
         {n \in (3 + Shifts(size))..(8 + Shifts(size)) : n >= 9}
    [] fs = "ntfs"  /\ size >= 8 * MB -> 12..16
    [] fs = "exfat" /\ size >= 8 * MB -> 9..25
    [] OTHER -> {}

\* The sizes Rufus's masks allow, before sector and volume are looked at.
RufusMask(fs, size) ==
  CASE fs = "fat32" /\ size >= 32 * MB ->
         {n \in (3 + Shifts(size))..(8 + Shifts(size)) :
            n \in 9..16 /\ (size >= 32 * GB => n >= 14)}
    [] fs = "ntfs"  /\ size >= 8 * MB -> 12..16
    [] fs = "exfat" /\ size >= 8 * MB -> 9..25
    [] OTHER -> {}

\* cluster_mask: no smaller than a sector, and four of them fit.
ClusterMask(fs, volume) ==
  {n \in RufusMask(fs, volume.size) :
     2^n >= volume.sector /\ 2^(n - 9) <= volume.size \div 4}

\* What is preferred for FAT32 where the user does not care.
Fat32Preferred(size) ==
  CASE size >= 32 * GB -> 15
    [] size < 256 * MB -> 8 + Shifts(size)
    [] OTHER -> 12 + Cardinality({k \in 0..1 : size >= Threshold(8 * 1024 * 2^k)})

DefaultClusterSize(fs, volume) ==
  LET preferred == CASE fs = "fat32" -> Fat32Preferred(volume.size)
                     [] fs = "ntfs"  -> 12
                     [] fs = "exfat" -> IF volume.size < 256 * MB THEN 12
                                        ELSE IF volume.size < 32 * GB THEN 15 ELSE 17
      allowed == ClusterMask(fs, volume)
  IN  IF preferred \in allowed THEN preferred ELSE Min(allowed)

\* Mutant of FilesystemsFor: lists what the volume is too small for.
FilesystemsOfAnySize(scheme, target, volume) ==
  {fs \in FileSystem : /\ target \in TargetSystemsFor(scheme)
                       /\ NeedsUefi(target) => UefiBootableUnaided(fs)}

FilesystemsFor(scheme, target, volume) ==
  {fs \in FileSystem : /\ target \in TargetSystemsFor(scheme)
                       /\ NeedsUefi(target) => UefiBootableUnaided(fs)
                       /\ ClusterMask(fs, volume) # {}}

\* FormatRequest::validate, true where it returns a plan.
Valid(r, volume) ==
  /\ r.target \in TargetSystemsFor(r.scheme)
  /\ NeedsUefi(r.target) /\ ~UefiBootableUnaided(r.fs) => r.helper
  /\ ClusterMask(r.fs, volume) # {}
  /\ r.cluster = None \/ r.cluster \in ClusterMask(r.fs, volume)

\* and the cluster size of that plan.
PlannedCluster(r, volume) ==
  IF r.cluster = None THEN DefaultClusterSize(r.fs, volume) ELSE r.cluster

\* FormatPlan::buildable
Buildable(r) ==
  /\ r.target = "uefi" /\ r.scheme = "gpt"
  /\ r.fs = "fat32" \/ r.helper

DefaultFor(large) == IF large THEN "ntfsUefiNtfs" ELSE "fat32Split"

-----------------------------------------------------------------------------
\* partition_for_layout, in sectors of the drive.

Mib(d)        == 2^20 \div d.sector
Total(d)      == d.size \div (d.sector \div 512)
LastUsable(d) == Total(d) - 34
Helper(d)     == Mib(d)         \* the UEFI:NTFS image is 1 MiB

\* Mutant of HelperStart: the partition starts where it should have ended.
HelperStartLate(d) == (LastUsable(d) \div Mib(d)) * Mib(d)

\* Down to a mebibyte, the helper partition being the last.
HelperStart(d) == ((LastUsable(d) - Helper(d) + 1) \div Mib(d)) * Mib(d)

\* Both partitions as [start, size]; a FAT32 medium has no helper.
PartitionsFor(layout, d) ==
  IF layout = "ntfsUefiNtfs"
  THEN [data   |-> [start |-> Mib(d), size |-> HelperStart(d) - Mib(d)],
        helper |-> [start |-> HelperStart(d), size |-> Helper(d)]]
  ELSE [data   |-> [start |-> Mib(d), size |-> LastUsable(d) - Mib(d) + 1],
        helper |-> None]

\* windows_volume_size: the drive without its first MiB.
WindowsVolumeSize(d) == d.size - MB

\* Mutant of Usable: nothing is left for the tables of the filesystem.
UsableWhole(d) == WindowsVolumeSize(d)

\* 99% of that.
Usable(d) == LET v == WindowsVolumeSize(d)
             IN  (v \div 100) * 99 + ((v % 100) * 99) \div 100

\* mkfs.fat -F 32: the clusters left beside the reserved sectors and two FATs of
\* four bytes a cluster.
Fat32Clusters(sectors, sector, cluster) ==
  LET spc == 2^cluster \div sector
      fat == ((sectors \div spc + 2) * 4 + sector - 1) \div sector
  IN  (sectors - 32 - 2 * fat) \div spc

-----------------------------------------------------------------------------
NoContents == [length |-> 0, files |-> 0, others |-> 0]

Init ==
  /\ phase = "start" /\ plan = None /\ contents = NoContents /\ parts = None /\ made = 0
  /\ drive \in Volumes \union Drives
  /\ request \in [cluster : Clusters \union {None}, layout : Layout \union {None}]
  /\ oversized \in BOOLEAN

Stop(outcome) == phase' = outcome /\ UNCHANGED <<plan, contents, parts, made>>
Inputs == <<drive, request, oversized>>

\* show_format_options: every pair listed is validated; `?` ends the listing.
ShowOptions ==
  /\ phase = "start" /\ drive \in Volumes
  /\ LET rows == {[scheme |-> s, target |-> t, fs |-> f, cluster |-> None,
                   helper |-> FALSE] : s \in Scheme, t \in Target, f \in FileSystem}
         listed == {r \in rows : r.fs \in FilesystemsFor(r.scheme, r.target, drive)}
     IN  Stop(CASE listed = {} -> "nothing"
                [] \A r \in listed : Valid(r, drive) -> "listed"
                [] OTHER -> "contradicted")
  /\ UNCHANGED Inputs

\* assert_safe_target
Safe(d) == d.size \in 2 * GB..512 * GB

\* flash_windows_iso settles the layout and makes the request a plan.
Validate ==
  /\ phase = "start" /\ drive \in Drives
  /\ LET layout == IF request.layout = None THEN DefaultFor(oversized) ELSE request.layout
         r == [scheme |-> "gpt", target |-> "uefi", cluster |-> request.cluster,
               fs |-> IF layout = "fat32Split" THEN "fat32" ELSE "ntfs",
               helper |-> layout = "ntfsUefiNtfs"]
         volume == [drive EXCEPT !.size = WindowsVolumeSize(drive)]
     IN  IF Safe(drive) /\ Valid(r, volume) /\ Buildable(r)
         THEN /\ phase' = "planned"
              /\ plan' = [layout |-> layout, cluster |-> PlannedCluster(r, volume)]
              /\ UNCHANGED <<contents, parts, made>>
         ELSE Stop("refused")
  /\ UNCHANGED Inputs

\* tree_size: the sum of the lengths and no more.  What the copy will put beside
\* the files, the install image in parts and autounattend.xml, is not counted,
\* nor is what the files take beyond their lengths.
Measure ==
  /\ phase = "planned"
  /\ \E t \in Trees :
       /\ t.short <= Usable(drive)
       /\ contents' = [length |-> Usable(drive) - t.short, files |-> t.files, others |-> t.others]
  /\ phase' = IF contents'.length > Usable(drive) THEN "refused" ELSE "checked"
  /\ UNCHANGED <<Inputs, plan, parts, made>>

\* sfdisk; from here on the drive is gone.
Partition ==
  /\ phase = "checked"
  /\ IF plan.layout = "ntfsUefiNtfs" /\ LastUsable(drive) <= Mib(drive) + Helper(drive)
     THEN Stop("failed")
     ELSE /\ phase' = "partitioned" /\ parts' = PartitionsFor(plan.layout, drive)
          /\ UNCHANGED <<plan, contents, made>>
  /\ UNCHANGED Inputs

\* mkfs.fat -s takes 1 to 128 sectors a cluster.
MkfsFat ==
  /\ phase = "partitioned" /\ plan.layout = "fat32Split"
  /\ IF 2^plan.cluster \div drive.sector \in 1..128
     THEN /\ phase' = "formatted"
          /\ made' = Fat32Clusters(parts.data.size, drive.sector, plan.cluster)
          /\ UNCHANGED <<plan, contents, parts>>
     ELSE Stop("failed")
  /\ UNCHANGED Inputs

\* mkfs.ntfs takes the size in bytes; what it leaves for files is not modelled.
MkfsNtfs ==
  /\ phase = "partitioned" /\ plan.layout = "ntfsUefiNtfs"
  /\ phase' = "done"
  /\ UNCHANGED <<Inputs, plan, contents, parts, made>>

\* The files are copied one by one, each to whole clusters, and the directories
\* take clusters of their own.  By how the lengths fall, the clusters needed are
\* as few as hold the sum of the lengths, or as many as there are when each file
\* but one is a byte, or a byte past its clusters.
Fewest(c, cluster) == (c.length + 2^(cluster - 9) - 1) \div 2^(cluster - 9) + c.others
Most(c, cluster)   == c.files + c.others
                      + (c.length - (c.files + 511) \div 512) \div 2^(cluster - 9)

Copy ==
  /\ phase = "formatted"
  /\ \/ phase' = "done" /\ Fewest(contents, plan.cluster) <= made
     \/ phase' = "full" /\ Most(contents, plan.cluster) > made
  /\ UNCHANGED <<Inputs, plan, contents, parts, made>>

Next == ShowOptions \/ Validate \/ Measure \/ Partition \/ MkfsFat \/ MkfsNtfs \/ Copy

Spec == Init /\ [][Next]_vars

-----------------------------------------------------------------------------
\* Properties.

\* The range of every variable; a plan is only there once it was validated.
TypeOK ==
  /\ phase \in {"start", "nothing", "listed", "contradicted", "planned", "refused",
                "checked", "partitioned", "formatted", "done", "full", "failed"}
  /\ drive \in Volumes \union Drives /\ oversized \in BOOLEAN
  /\ request \in [cluster : Clusters \union {None}, layout : Layout \union {None}]
  /\ plan \in Plan \union {None}
  /\ phase \in {"start", "nothing", "listed", "contradicted"} => plan = None
  /\ phase \in {"planned", "checked", "partitioned", "formatted", "full"} => plan # None
  /\ contents \in Contents /\ made \in 0..128 * GB

\* "Everything advertised must validate" (show_format_options): the queries a
\* list of options is made from never offer what validate then refuses.
AdvertisedValidates == phase # "contradicted"

\* The partitions lie within the usable sectors, in order and apart, and start on
\* a mebibyte; the helper holds its image, whatever the sector size and however
\* the drive ends.
PartitionsHold ==
  parts # None =>
    LET data == parts.data  helper == parts.helper
    IN  /\ data.start % Mib(drive) = 0 /\ data.start > 33 /\ data.size > 0
        /\ data.start + data.size - 1 <= Total(drive) - 34
        /\ helper # None =>
             /\ data.start + data.size <= helper.start /\ helper.start % Mib(drive) = 0
             /\ helper.start + Helper(drive) - 1 <= Total(drive) - 34

\* A plan that was validated can be formatted: mkfs.fat takes its cluster size,
\* and the volume has as many clusters as make it a FAT32 one, no fewer and no
\* more, though it is a little smaller than the volume the plan was checked against.
PlanFormats ==
  /\ phase # "failed"
  /\ phase = "formatted" => made >= 65525 /\ made <= 2^28 - 12

\* "1% is a safe margin" (flash_windows_iso): what is left of one cluster in a
\* hundred when the two FATs have taken eight bytes for each, and the reserved
\* sectors, the backup GPT and the rounding of all this some seventy more.
Spare == LET n == WindowsVolumeSize(drive) \div 2^(plan.cluster - 9)
         IN  n \div 100 - n \div 2^(plan.cluster - 3) - 72

\* The copy runs out of room, on a drive already erased, only where the check
\* cannot tell: it adds up lengths, and there are more files and directories to
\* round up to whole clusters than it leaves clusters to spare.  Of a plan whose
\* cluster size was left to the program that takes more than 4000 of them; a size
\* that was asked for may leave fewer than 700 (64 KiB, on a little over 4 GiB) or
\* none at all (512 bytes).
CheckedFits ==
  phase = "full" =>
    /\ contents.files + contents.others > Spare
    /\ request.cluster = None /\ drive.sector <= 4096 => contents.files + contents.others > 4000
=============================================================================
