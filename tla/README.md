# A TLA+ verification of sirius-flash

sirius-flash writes operating system images to USB sticks: Linux images
verbatim or decompressed on the fly, Windows installers by partitioning the
stick and copying files.  This directory holds TLA+ specifications of its
core, TLC configurations that check them on small instances, and proofs that
the TLA+ proof system checks for all instances.  `PROJECT.json` says for every
definition which lines of the source it models.

* [1 The system](#1-the-system)
* [2 Modules](#2-modules)
* [3 What the runs show](#3-what-the-runs-show)
* [4 What is proved](#4-what-is-proved)
* [5 Where code and documents differ](#5-where-code-and-documents-differ)
* [6 Not modelled](#6-not-modelled)
* [7 Plan](#7-plan)

Run `tlc -config WindowsFlash.cfg MCWindowsFlash`, and likewise each pair of
cfg and module in the table of section 3; `tlapm` checks the proofs in
`WindowsFlashProofs` (with those of `AnswerFile`), `ImageWriteProofs` (of `Lzw`),
`ContainersProofs`, `SharedMountsProofs`, `CommandProofs` (with those of `Pumps`),
`GuiProofs`, `FormatPlanProofs` and `BootProofs`.

## 1 The system

| Component | State it keeps | Operations | Hard behaviour | Correct when |
|---|---|---|---|---|
| **Windows flash path** `core/src/lib.rs` `flash_windows_iso` | mounts on two fixed paths; partition table, filesystem and files of the drive | probe, partition, format, write the UEFI:NTFS loader, copy, split the image, answer file, check, sync, clean up | every external command can fail; exits by `?`; ignored umounts; rerun on a half-written drive | nothing written before all probes passed; success means exactly the media asked for; mounts taken off |
| **Direct image write** `blockio.rs` `write_image`, `verify_written`, `drop_cache`; `lib.rs` `flash_linux_iso` | bytes written, two digests, the kernel's page cache, the medium | decode, write, hash, sync, drop the cache, read back, compare | write-back in any order, counterfeit or lossy drives, truncated streams, images at the drive's size | a verified success is on the medium; no false alarm |
| **Shared mount points** `lib.rs` | the kernel's mount stacks at `/run/sirius-flash-inspect`, `-iso` and `-usb`; the NTFS probe's directory | mount, read through it, umount | overlapping invocations, mounts left behind | each run works on its own ISO and drive |
| **Image containers** `blockio.rs` `detect_compression`, `open_image`, `Exact`, `ZstdFrames`, VHD footer | what has been peeked and decoded | detection in layers, member selection, decoding | order of the layers, several frames, sizes that lie | what is decoded is the image, all of it |
| **LZW decoder** `lzw.rs` | dictionary, code width, position in the group | one code at a time, reset, widening | full dictionary, the code of the entry not yet made, padding, hostile streams | it inverts the encoder; its chains end |
| **Format rules** `format.rs` | none (pure functions) | options for a drive, defaults, `validate`, `buildable` | cluster masks with limits 1.1% above powers of two, sector sizes | what is offered validates; what validates can be made |
| **Partitioning and formatting** `lib.rs` | sectors | place partitions, mkfs | rounding to mebibytes, 4096 byte sectors, room for the tables | partitions are apart and inside; what passed the fit check fits |
| **Device discovery and safety gate** `lib.rs` `list_removable_devices`, `assert_safe_target` | none | read sysfs; refuse fixed or odd-sized drives | drives come and go | only a removable drive of 2 to 512 GiB is written |
| **ISO kind detection** `lib.rs` `detect_iso_kind`, `inspect_install_image` | a mount on a third path | bsdtar, 7z, blkid, file name; mount and measure | tools missing, or seeing only the stub of a UDF volume; run by the user in the application and by root in the CLI | Windows media is never written verbatim |
| **CLI** `cli/src/main.rs` | kind, target, layout of one call | `write`, `list`, `detect`, `format-options`, `unattend` | a prompt during which drives and the image change | what was agreed to is what is done |
| **Windows answer file** form, DTO, arguments, `WindowsTweaks`, `generate_autounattend` | none | turn options into `autounattend.xml` | four representations in two programs; names that come to nothing | Windows Setup does what was asked for |
| **GUI page** `app/src/main.ts` | image, kind, caveat, drive, button, tweak form, preview | browse, rescan, select, FLASH, events | clicks between a request and its answer | what was confirmed is what is written |
| **GUI backend** `app/src-tauri/src/lib.rs` | the CLI started under pkexec, two pumps | detect, list, flash, relay output | a child that blocks on a full pipe, the order of events | every write ends in exactly one event |
| **BIOS boot code** `core/boot/*.asm` | drive, sector read, FAT sector held | MBR, volume boot record | a BIOS that fails or lies, FAT chains; not written to a drive by the program yet | boots the active partition, or says why not |

Who calls whom: the page sends requests to the backend and gets answers and
events; the backend starts the CLI under `pkexec` with `--yes`; the CLI lists
the drives, picks one and calls `flash_windows_iso` or `flash_linux_iso`.
Both paths begin with `assert_safe_target`.  The Windows path asks the format
rules for a plan, then runs external commands (sfdisk, mkfs, mount, wimlib);
the direct path opens a container decoder and streams from it.  Nothing
but the kernel's mount table is shared between two invocations, and nothing
locks it.

## 2 Modules

| Module | Models | Its state and actions, and the code |
|---|---|---|
| `FlashPromise` | what any flash owes its user (abstract) | `phase`, `drive`, `outcome`; refuse while probing, commit, erase, complete, succeed or fail |
| `WindowsFlash` | `flash_windows_iso`; implements `FlashPromise` | one action per step, in the order of the code; `pc` names the step; `Fails` is an error inside the closure (the umounts follow), the early refusals unmount first or, for the one `?` before the closure, do not |
| `ImageSource` | what an image file is to its writer (abstract) | open, deliver cells in order, end when all are out; refuse or fail |
| `Containers` | `detect_compression`, `payload_len`, `open_image` and its readers; implements `ImageSource` | detection as operators, in the code's order of layers; `Measure`, one `Open*` per kind of reader, `Read`, `NextStream`, and the ways a reader ends |
| `ImageWrite` | `flash_linux_iso` and the verification | one action per turn of the loops; `WriteBack` and `Evict` are the kernel; `job.dev.cell` says which cell of the medium a block reaches |
| `Lzw` | `lzw.rs` and an encoder for it | `Encode*` write a bit stream by the format's own description; `Decode*` are the branches of `Decoder::step` |
| `SharedMounts` | several runs of the Windows path at once | the inspection of the CLI, the NTFS probe, and the steps of `WindowsFlash` between which another run can change a mount point, over three stacks of mounts and the probe's directory |
| `FormatPlan` | `format.rs`, `partition_for_layout`, the fit check | the rules as operators; one flash from validated request to full or finished volume; the listing of `format-options` |
| `Command` | the `write` command and `detect_iso_kind` | `AppDetect` and `AppConfirm` are the application before it starts the command; then one action per decision of the command, `ReplaceImage` and `Replug` while it waits at the prompt, and either flash as one step |
| `AnswerFile` | the Windows options from the form or the command line to `autounattend.xml` | `CurrentTweaks`, `ToCore`, `ToArgs`, `ToTweaks`, `GenerateAutounattend` are the functions of these names; the actions are where they are called, `Edit` a box of the form |
| `Gui` | page, backend and CLI | each handler of the page split at its `await`; requests in a queue; the CLI as a child with an exit status |
| `Pumps` | the thread of `flash` in the backend | the command writes to two bounded pipes, ends or dies; a pump for each splits what it reads into lines; `Finish` sends the one event |
| `Boot` | `mbr.asm`, `fat32.asm` | one action per call of the BIOS, which may fail, or lie; `pc` is a place in the code or the message it stopped with |
| `*Proofs` | theorems and their proofs | section 4 |
| `MC*` | small instances | section 3 |

How they fit together: `Containers` ends where `ImageWrite` begins (a job's
image is a sequence of blocks with a good or bad end, and a length that is known
or not: what `ImageSource` delivers); `WindowsFlash` takes the verdict `FormatPlan`
computes, and `SharedMounts` runs its steps beside each other; `Command`
takes both flash paths as one step that refuses, fails on an erased drive or
succeeds, which is what `FlashPromise` allows; `Gui` takes from `Pumps` that the
CLI's end is heard, and from `Command` that there is an answer to its detection.

How the data is abstracted:

* Sizes in `WindowsFlash` are numbers of an arbitrary unit; a file system holds
  files by name; the contents of a file are not looked at.  The verdict of the
  format rules is an input of the job (`plan`), computed in `FormatPlan`.  That
  the NTFS volume of the probe mounts, and that the loader embedded in the
  binary has its hash, are facts about the host (`host`).
* In `ImageWrite` a block is a model value, the drive has a few of them, and a
  digest is the sequence of blocks that were hashed, so SHA-256 is taken to be
  free of collisions.
* In `Containers` a file is what the program can see of it: the magic number,
  the footer and the copy of it, the three facts the LZMA guess looks at, and its
  streams or members with the damage each has.  A VHD footer is two cells, or one
  for the old 511 byte form, so that a slip of one byte shows.  What was packed
  (`packed`) is a fact of its own, which no operator of the program looks at: a
  stream that was cut short yields a beginning of it, an altered one anything.
  What a decoder takes for the end of a stream is `EndsWell`: that of `lzw.rs` takes
  every end of its input (`BitReader::code`), the libraries know better.
* `Lzw` is scaled down: 2 literals, codes of 2 or 3 bits, groups of 4 codes,
  bytes of 2 bits, slots counted in `CodeBits` bits (4, or 3 in `LzwFull`).  Every proportion the
  algorithm uses is kept and stated in `ShapeAssumption`, which the sizes of the code
  satisfy too; the theorems are about all that do.
* `FormatPlan` counts in units of 512 bytes and stays below 1 TiB: TLC's
  integers have 32 bits, and no drive above 512 GiB is accepted.  The tree of an ISO
  is the sum of its lengths, as the check adds it up, its number of files, and the
  clusters of its directories (`others`); how the lengths fall is
  left open between the fewest clusters they may need and the most.
* `SharedMounts` tells files by name and by whose ISO they came from.
* `Command` has an image as what each tool makes of it.  A kernel name leads to
  whatever disk has it now, the by-id path to the one disk it names.
* `AnswerFile` has a text as a model value with what trimming and stripping make of
  it; the file as its sections, the commands in them, and the elements of the blocks
  `UserData` and `OOBE`.  `SetupDoes` and `AlsoDoes`, which only the property uses, are
  what Windows Setup does with them: what the options name, and what comes besides.
* `Gui` leaves out the tweak form (`AnswerFile`), the relay of lines (`Pumps`) and
  the progress display.  Answers come in the order of the requests, because the
  backend's commands are not async and run on its main thread.
* `Boot` has a sector as the volume boot record, another boot sector, or none, and a
  directory sector as its entries; cylinders wrap where the BIOS's ten bits do.

## 3 What the runs show

| Run | Module | Question | States |
|---|---|---|---|
| `WindowsFlash` | `MCWindowsFlash` | does every job, on a drive in any condition and with any command failing, keep the promise? | 239 000 |
| `ImageWrite` | `MCImageWrite` | what does a success say of the medium? | 117 000 |
| `Containers` | `MCContainers` | is what is read the image, whatever it is packed in? | 12 400 |
| `SharedMounts` | `MCSharedMounts` | do mounts balance out, and is a run that nobody overlaps right? | 9 000 000 |
| `Command` | `MCCommand` | is what was agreed to what is done, whichever tools work? | 761 000 |
| `AnswerFile` | `MCAnswerFile` | does Windows Setup do what was asked for? | 61 400 |
| `Gui` | `MCGui` | one write at a time, of what was confirmed, and reported? | 243 000 |
| `Pumps` | `MCPumps` | is the command never stuck, and heard to its last line? | 365 000 |
| `FormatPlan` | `MCFormatPlan` | can every plan be made, and does what was checked fit? | 95 600 |
| `Lzw` | `MCLzw` | does the decoder give back what was compressed? | 80 000 |
| `LzwFull` | `MCLzw` | also when the slot counter is as wide as the codes? (no) | |
| `Boot` | `MCBoot` | does every start end in the right boot, or in a message? | 42 600 |

`SharedMounts` takes about two minutes, the others less than one each.

`WindowsFlash`:

* `SuccessIsMedia`: what a run calls a success is exactly the media of its
  layout: the files of the ISO and no others, the image split where FAT32 needs
  it, the loader where NTFS needs it, the answer file where it was asked for,
  synced — whatever an earlier run had left on the drive.
* `NeverTouchUnprobed`: a step that changes the drive comes after every probe,
  made for the layout now being written.  `KeepsPromise` says the same, and
  more, as a refinement of `FlashPromise`.
* `GoodJobSucceeds`: a job the rules allow fails only by a command that failed.
* `MountsReleased`: a run that ends has taken its mounts off, except where a
  umount failed or the tree of the ISO could not be read: `tree_size` is left
  by `?` (`lib.rs:1038`) before the closure whose end unmounts, and the ISO
  stays mounted.  The property names this exception.
* `Terminates`: a run ends.  `Probe` and `Write` are weakly fair: a sequential
  program goes on, and each of its commands returns.  `RunAgain` is not fair:
  nobody makes the user start over.

`ImageWrite`:

* `VerifiedMeansStored`: a verified success is on the medium, for drives that
  wrap around and drives that lose blocks, provided the page cache was dropped.
* `SuccessMeansWhole`, `GoodWriteSucceeds`: nothing truncated or empty is a
  success; a good write never fails its verification.  Truncated is here what the
  decoder reports as such: the verdict on the stream is an input.  What the decoders
  report, and that the one of `.Z` does not, is the subject of `Containers`.

`Containers`:

* `DeliversImage`: the readers implement `ImageSource`.  The writer is given the
  image that was packed, in order and whole, before it sees an end; an
  archive is never delivered in place of its contents; a file of several
  streams never passes for its first; a member that is longer, shorter or other
  than its index says ends in an error; and a file that holds a sound image is
  not refused.  What the image is, `Image` and `Verdict` say from what the file
  was `made` as and from what was `packed`, which no operator of the program looks
  at.  Two verdicts promise less, because no byte of the file shows what is wrong.
  Of a file that is "cut" the writer is given a beginning of the image and told
  that it has ended: a `.Z` broken off anywhere (`lzw.rs:93`), a file of several
  streams that lost whole ones.  Of one that is "altered" it is given something else:
  a `.Z` or LZMA file, which have no checksum, that still decodes.  The mutant
  `EndsCut`, by which the other decoders take a stream that breaks off for its end as
  well, violates the property.
* `MeasuredIsDelivered`: the length that was compared with the drive before it
  was opened is the length that is delivered.

`SharedMounts`:

* `AloneIsRight` — a run that no other overlapped, and which says ok, has used the
  layout its own ISO calls for and written its own files, and only those, to its
  own drive, also on top of mounts that earlier runs left behind.
* `StacksEmptied` — when all have returned, and no umount failed, the three mount
  points and the probe's directory are bare again, however they overlapped.

`Command`:

* `WindowsNeverRaw`: a Windows image is written raw only if the user said
  `linux`, or if no tool that works could have told.
* `NtfsIsAnnounced`: what the NTFS layout asks of the target machine is said
  before the drive gets it.  From a terminal the exception is an image that
  could not be inspected; from the application, a detection that failed or
  whose tools, the user's, could not tell what root's then can.
* `AgreedDiskOnly`: whatever is unplugged and plugged in at the prompt, also
  under the same kernel name, only the stick the prompt was about is changed.

`AnswerFile`: `AsAsked` — what Windows Setup does with the finished drive is what
the form or the command line asked for, all of it, and nothing else but what
`ComesAlong` names of the options that were on; the preview, if the form is still the
one it was made for, says the same; and no drive is erased for a name of which no
file can be made.  What comes along is not asked for by the words of any option: with
`data` the pages for an online account and for Wi-Fi are hidden, with any hardware
bypass the installer's licence is accepted, an account without a password lifts the
age limit of all passwords, and `qol` skips Edge's first start and changes the
taskbar's search box.  The property holds each to its option: `OobeNoAccount`, which
hides the pages for `skipMsAccount` too, violates it.

`Gui`: `OneWrite`; `KindSettles` — with all answers in, kind and caveat are those
of the image shown; `SettledIsTruthful` — what was confirmed with all answers in is
what is written; `WriteIsReported` — every write is reported, as DONE only if it
succeeded — under weak fairness of the backend's answers, of the CLI (which ends:
`Terminates`, and `ChildIsHeard` below) and of the events.  Clicks and plugging
are not fair.

`Pumps`: `AllForwarded` — when the event that ends a write is sent, each line the
command wrote has been sent to the page before it, a last one without a line end
too; `ChildIsHeard` — the event comes.  Weakly fair are the command, each pump
and `Finish`: processes and threads run.  That the command dies, or that a read
fails, may happen and need not.

`FormatPlan`: `AdvertisedValidates` — `format-options` lists nothing that
`validate` refuses; `PartitionsHold`; `PlanFormats` — mkfs.fat takes the planned
cluster size and the volume is FAT32 by its number of clusters, though the
partition is smaller than the volume the plan was made for.  `CheckedFits` — the
check compares the sum of the lengths with 99% of the volume, the copy takes whole
clusters for each file and directory; it runs out of room only if there are more of
them than `Spare`, the clusters that 1% leaves when the FATs have their share.  For a
cluster size the program chose itself that takes more than 4000 files and
directories, where a Windows medium has some 1200; for one that was asked for less may do
(section 5).

`Lzw`: `RoundTrip` for every input of up to six literals and for longer runs,
alternations and triples that fill the dictionary, with the encoder starting
over anywhere once, and archives broken off after any byte; `ChainsEnd` on these
and on streams of arbitrary bits.

`Boot`:

* `BootsWhatIsActive`: control passes only to the first sector of the one active
  partition, just read, on the drive DL then names; another drive than the one
  handed over is taken only when that one has no geometry; the boot record is
  never run again in place of a sector that was not read; BOOTMGR is entered only
  with what its volume has of it in memory, in order.
* `BootsOrSays`: unless the BIOS fails, a medium that is marked as it should be
  and has BOOTMGR boots; and every start ends in a boot or a message.  Weakly
  fair is the processor.  The property names an exception: a root directory whose
  chain comes back to itself, with neither BOOTMGR nor an end, is searched for
  ever.

Bounds, and why they are enough:

* `WindowsFlash`: 10 ISOs (sound ones with small and large images, and one for
  each way an ISO can be odd), hosts that lack one tool or one ability each,
  drives on both sides of each limit, two runs on a drive.  A run reads no
  more of its past than the drive and mounts it finds, and those take all their
  values after one run.
* `ImageWrite`: drives of two and three blocks, images of zero to four, two
  contents.  Two blocks are needed to collide on one cell, three to lose one
  between two that are kept, two contents to tell whether a collision shows.
* `Containers`: files of each format; every LZMA properties byte; footers of both
  lengths, with each flaw; up to three streams, each sound, broken or empty, and
  archives of up to four members (one more than `MaxEntries`) with each member
  damaged in each way the code tells apart, lengths off by one cell included.
* `SharedMounts`: two users, three invocations between them: one to overlap with,
  one to come after what a failed one left.  The two ISOs differ in one file and
  in the layout they call for.
* `Command`: two kernel names, two sticks and a fixed disk to take them; eight
  ways to call; each image with every subset of the tools for the user and for root.
* `AnswerFile`: every set of boxes; names that are plain, padded, empty, reserved as
  typed or only when stripped, nothing when stripped, or begin with a hyphen, as an
  argument of their own or behind an equals sign.
* `Gui`: two images, two drives, two requests out: a second request while the
  first is unanswered.
* `Pumps`: pipes of two bytes, reads of up to two, four bytes in any mixture, or
  five to one stream: the pipe fills, a line spans two reads, both streams wait.
* `FormatPlan`: sizes one unit to each side of every limit of the rules, and of
  the partition's size against it; trees that miss the limit of the check by one unit
  either way, or by 32 MiB, of one file and of 500 to 5000.
* `Lzw`: eight slots fill after five or six entries, and codes widen from two bits to
  three on the way; with a maximum of two bits they never do and the four slots fill
  at once; one reset anywhere.
* `Boot`: two hard disks and a floppy's number, any of which may be missing;
  tables with an entry of each kind; volumes of four clusters over two FAT sectors, so
  that a chain leaves the FAT sector held and comes back; files of up to four sectors,
  one more than there is room for.

Deadlock is not checked where `CHECK_DEADLOCK FALSE` stands: there a run ends
and nothing is left to do.  `Gui` never stops, and is checked.

Every property of a passing run has a mutant, a definition that changes one
mapped definition as a plausible slip would; TLC finds the property violated
with it.  `PROJECT.json` pairs them.

## 4 What is proved

TLC's instances are small; `tlapm` proves these for every value of the
constants, that is, for every catalogue of jobs, any limits, any number of runs,
users, requests, disks.

| Module | Theorem | Says |
|---|---|---|
| `WindowsFlashProofs` | `TypeCorrect` | every variable stays in its range |
| | `NothingWrittenUnprobed` | no step changes the drive before all probes have passed for the layout being written |
| | `SuccessMeansMedia` | success is exactly the media asked for |
| | `PromiseKept` | `WindowsFlash` implements `FlashPromise` |
| | `MountsAreReleased` | `MountsReleased`, after any number of runs |
| | `GoodJobsSucceed` | `GoodJobSucceeds`: no job that passes the probes is refused or runs out of room |
| | `SetupDoesWhatWasAsked` | `AsAsked` of `AnswerFile` |
| `ImageWriteProofs` | `TypeCorrect` | every variable stays in its range |
| | `VerifiedIsStored` | a verified success is on the medium, whatever the drive does with blocks |
| | `SuccessIsWhole` | success is of a sound, complete, non-empty image |
| | `GoodWritePasses` | no false alarm |
| | `LargeIsRefused` | a verbatim image that is too large leaves the drive as it was (no run asks this) |
| | `LzwTypeCorrect` | `LzwTypeOK`: no slot past the last is filled, whatever the stream |
| | `LinksLeadDown` | `ChainsEnd`, whatever the stream |
| | `WhatIsPackedComesBack` | `RoundTrip`, where codes are narrower than the slot counter |
| `ContainersProofs` | `KindIsDetected` | detection finds what the file was made as, or refuses one that is damaged or hopeless |
| | `TypeCorrect` | every variable stays in its range |
| | `MeasuredLengthIsDelivered` | `MeasuredIsDelivered` |
| | `ImageIsDelivered` | `DeliversImage`: `Containers` implements `ImageSource` |
| `SharedMountsProofs` | `TypeCorrect` | no drive is mounted twice, however many runs overlap |
| | `StacksAreEmptied` | `StacksEmptied` |
| | `AloneWritesItsOwn` | `AloneIsRight` |
| `CommandProofs` | `TypeCorrect` | two disks are never changed by one call |
| | `NeverRaw` | `WindowsNeverRaw` |
| | `Announced` | `NtfsIsAnnounced` |
| | `AgreedDisk` | `AgreedDiskOnly` |
| | `AllLinesAreForwarded` | `AllForwarded` of `Pumps` |
| `GuiProofs` | `TypeCorrect` | every variable stays in its range |
| | `OneWriteAtATime` | `OneWrite` |
| | `KindIsSettled` | `KindSettles` |
| | `ConfirmedIsWritten` | `SettledIsTruthful` |
| `FormatPlanProofs` | `TypeCorrect` | a cluster size can always be found |
| | `ListedIsValid` | `AdvertisedValidates` |
| | `PartitionsAreApart` | `PartitionsHold` |
| | `PlansFormat` | `PlanFormats` |
| | `FitsAsChecked` | `CheckedFits` |
| `BootProofs` | `TypeCorrect` | the load stays within its memory, no cluster that is none is read |
| | `BootsFromTheActivePartition` | `BootsWhatIsActive` |

**WindowsFlash.**  `SuccessIsMedia` is not inductive: that the files are right
at the end depends on what each step found.  The invariant is

    IInv == TypeOK /\ IsoHeld /\ UsbFree /\ Established /\ TouchedOK /\ Built
              /\ SuccessIsMedia

`IsoHeld` and `UsbFree` say when the ISO is mounted and the drive is not (the
ranges of the mount counters, part of `TypeOK`, rest on them).  `Established`
collects what each probe that has been passed guarantees, for the layout in
force; at the first destructive step it is `Probed`.  `TouchedOK` relates the
flag `touched` to the drive: once touched it is torn or unsynced until the last
sync, so no half-written drive is media.  `Built` says what is on the volume
when a step is due: table, filesystem, loader, and the files copied so far.
The proof has one lemma per action; `PromiseKept` then maps each step to a step
of `FlashPromise` or to a stutter.  `MountsAreReleased` carries `MountsKept` beside
it: unless a umount failed or the tree could not be read, the ISO is mounted
once between the steps that mount and unmount it, and the drive only while it is
written.  Assumptions: `JobsAssumption` (jobs are jobs) and `SizesAssumption`
(sizes are natural numbers).

`GoodJobsSucceed` needs more than an invariant: that the tree measured before
the drive is wiped fits what is made of it compares two sums over sets of
files.  `Total` is a fold, which takes the files in an order nobody knows; the
lemmas from `SumsExist` to `TotalIsMonotone` show that the order does not
matter, that a file taken out lowers the sum by its size, and that a part of a
finite set sums to no more than the whole.  With them `OnCourse` is carried
along: a feasible job with no fault so far has its layout, and no probe or
write refuses it.

`SetupDoesWhatWasAsked` is the theorem of `AnswerFile`, in the same module because
that path writes the file last.  `OnTheWay` says in which of its four forms the
options are at each step; `PageAsks` and `TerminalAsks` that the last of them is
what was asked for; and `FileDoesWhatIsWanted`, over lists put together of five
optional commands and two blocks of elements, that a file made of options does what
they want and nothing else but what comes along.  Assumptions: `FormsAssumption`, and of `TextsAssumption` that no text is
None and that trimming a trimmed text changes nothing.

**ImageWrite.**  The invariant is

    IInv == TypeOK /\ Progress /\ Fits /\ Written /\ ReadBack
              /\ VerifiedMeansStored /\ SuccessMeansWhole /\ GoodWriteSucceeds

`Written` is its centre: a block handed to the kernel waits in the cache or, on
an honest drive, has reached its cell, and the cache never holds anything but the
image.  `ReadBack` says that with the cache dropped what is read is what the
medium stores; with `Progress` (nothing is dirty once synced) equality of the two
digests becomes equality of the image and the medium, which needs no honesty of
the drive.  `Fits` gives `LargeIsRefused`.  Assumptions: `JobsAssumption`,
`BlankAssumption` (what was on the drive is none of the image's contents) and
`SizesAssumption`.

**Lzw**, in `ImageWriteProofs`.  `LzwInv` carries the types and the links: `Behind`
(the previous code is below the next free slot, unless the counter has just wrapped)
makes each new link lead down, and `IsTable` gives the shape of the encoder's table.
`WhatIsPackedComesBack` needs a relation between the decoder and an encoder that is
long done, so the invariant `SyncInv` keeps a record of the stream: `Recorded`, the
states the encoder went through between two codes, each step of it a `StringStep` or
a `ClearStep`.  While the decoder runs it stands at one of them:

* `InStep`: width and place in the group are the encoder's, what is decoded and what
  the encoder still had to write are together the text, and the decoder's entries
  spell what the encoder's table holds, up to the last one, which is `Due`: its first
  bytes are the previous code's string and its last is the first byte to come.
* `Ahead`: what is left of the stream is what the encoder wrote from there on, less
  what was cut off, plus the padding of the last byte.

`NextCodeIs` reads one code and the zeros behind it off the front of the stream;
`ExpandSpells` says that following the links gives the string of the encoder's table;
`ClearIsFollowed`, `FirstIsFollowed` and `NextIsFollowed` are the steps, the code of
the entry that is only just due (`NextIsFollowed`, step `<1>16`) among them.  The provers know
no powers of two: `PowerNext` and `PowerGrows` come from the number of subsets of an
interval.  `CodeSurvives` is that reading a code's bits gives the code.  Assumptions:
`ShapeAssumption`, `StreamsAssumption`, and for the round trip `CounterHolds`: no header
declares codes as wide as the slot counter.

**Containers.**  `KindIsDetected` needs no induction: layer by layer, a file that was
made as one format is not taken by a layer above its own.  It rests on
`KindsAssumption`, which says what files of each kind are like, in words the comments
of the detection use: an encoder writes a properties byte of the form
`(pb * 5 + lp) * 9 + lc`, a raw image that clears the LZMA gate by chance decodes
to nothing, a footer that checks is a footer.  It also ties the streams to what was
packed: without damage they are a beginning of it, all of it for a `.Z` or LZMA file,
and a member with the length and the checksum of the index is what was packed.
The refinement then has the invariant

    IInv == TypeOK /\ Recognised /\ Verbatim /\ Streaming /\ Unzipping /\ Finished

one part per kind of reader, each saying that what was delivered and what is
still to come are together the image: for `Streaming` the first streams of the
file joined, up to the one being read, which is why the image is defined by a
function of how many streams are joined and not by a fold; for `Unzipping` what is still
promised is the size less what was delivered.  `MemberPicked` says that the member the
code picks, by sorting the index, is the first of the largest.

**SharedMounts.**  `StacksEmptied` speaks of the moment when all have returned;
in between the mounts of one run are unmounted by another.  The invariant is

    IInv == TypeOK /\ Balanced /\ UsbApart /\ ResultOK /\ AloneOK

`Balanced` does not ask whose a mount is: as long as no umount has failed, a
mount point has no more mounts than there are runs between their mount and
their umount of it, counted by cardinality, and this is what each step
preserves.  `UsbApart` says that a drive just partitioned is mounted nowhere, from which
no drive is mounted twice.  `AloneOK` says of a run that is alone that the mounts on
top are its own, that its layout is its own ISO's, and what it has copied so far.
Assumption: there are finitely many users (`RunsAssumption`), with whatever ISOs.

**Command.**  The invariant is `Ranges`, `OnlyTarget`, `KindFounded`, `LayoutSaid` and the
three properties: one part for each thing settled before the prompt and used
after it, the disk, the kind and the layout.  `DetectionSound` is the lemma about
`DetectIsoKind`.  Assumptions: the ranges of images, disks and requests, and
`NoneAssumption` (no layout is none).

**Pumps**, in `CommandProofs`.  What the lines of a text are is said without running
through it: the pieces between neighbouring line ends that are not empty
(`Bounds`, `AreLines`).  The invariant, `InHand`, says of a stream that what was
written is a text, of which the pump has sent the ended lines and holds the begun
one, followed by what is still in the pipe.  `FeedCuts` is the one byte, `FedCuts`
the chunk, by induction over its bytes, so that where the reads fall does not
matter.  A stream of which a read failed is only known to be done.  Assumptions:
`BytesAssumption`, `ScriptsAssumption`, `BoundsAssumption`.

**Gui.**  The invariant is about the queue: what is still to be answered says which of
the page's state is final already.  `OneAfterOther`: the click, its request, the
CLI and its event follow each other.  `LastDetected`: the last detection asked for is
that of the image shown, and when none is awaited its answer is what the page goes
by.  `ShownIsChosen` is the same of the list.  `ConfirmedIsTrue` holds what the dialog
said from the click to the end of the CLI.

**FormatPlan.**  Here the induction is simple (`Planned`, `Staged`) and the arithmetic is
not: TLC looks at the sizes about the limits, the proofs cover those in between.
`FewShifts` bounds how many limits a size has passed, `MaskBounds` turns that into
bounds between size and cluster size, `PartitionsFit` and `VolumeHolds` do the
rounding, `FatRoom` bounds what the FATs take from a volume, and what is left of the
1% for rounding files up; with sector and cluster sizes distinguished by cases each is
linear.  Assumptions: `VolumesAssumption`,
`SectorsAssumption` (no sector is above 16 KiB) and `NoneAssumption` (no plan is none).

**Boot.**  The invariant is

    IInv == TypeOK /\ Chosen /\ Fresh /\ Loaded

`Chosen` says how the drive in DL came about, `Fresh` that with the signature in
place the sector at 0x7C00 has just been read from there (the signature is
cleared before each read; without it `boot` may be anything).  `Loaded` relates
what is in memory to the chain of clusters: it is the beginning of `BOOTMGR`, and
the cluster being read is the one its next sector is in.  The chain is a function of
how far it is followed, with the lemmas that it goes on by the FAT and stays at its end.
Assumptions: `MachinesAssumption`, `BoundsAssumption`, `NoneAssumption`.

**Induction.**  The library's induction theorems take an operator and are not
to be had.  Where a proof goes by induction over data it takes the least
counterexample instead: `Least` (that a set of natural numbers that is not empty has a
least member, from the well-foundedness of `<`) is stated for a set, and the
set of the numbers for which a statement fails is one.

Only model-checked:

* `Terminates`, `WriteIsReported`, `ChildIsHeard`, `BootsOrSays`: liveness under
  fairness is out of the prover's reach.
* That `RoundTrip` fails where codes are as wide as the slot counter: `LzwFull` is the
  counterexample, and `CounterHolds` the hypothesis of the theorem that it refutes.

## 5 Where code and documents differ

`LzwFull` is a counterexample TLC finds: the next free slot of the dictionary is
a `u16`; with 16-bit codes it reaches 65536 (`lzw.rs:297`).  A debug build panics, a
release build wraps to 0: nearly every code after that is refused as past the
dictionary, which now seems empty, and the write of a sound image fails half-way.  The `compress` default is
16 bits, the test of the full dictionary uses 10.

The others are part of the models, mostly as the exception a property names, and
have no run of their own:

* `SECURITY.md:39` says a bad input never leaves a wiped drive; an ISO without
  `sources/boot.wim`, or one with a file over 4 GiB that is not the install image
  when `fat32-split` is asked for, is found out afterwards (`WindowsFlash`).
* The comment at `lib.rs:1223` says an image too large is caught before anything is
  wiped; a compressed one is caught by `ENOSPC`, on a drive overwritten to its end
  (`ImageWrite`).
* `SECURITY.md:42` says the verification reads the medium and not RAM; `drop_cache`
  ignores that blockdev is missing or fails, and then it may read RAM
  (`VerifiedMeansStored`).
* `SECURITY.md:34` says writes are addressed only by the drive's `by-id` path; the
  files are copied through a mount point shared by all runs, so runs that overlap
  may write to each other's drive (`AloneIsRight` speaks of runs alone).
* `PROJECT-STATE.md:204` says what the user might act on is in the confirm dialog;
  FLASH can be clicked while the detection is out, or after it failed, with the caveat
  cleared (`SettledIsTruthful` speaks of clicks with all answers in; `NtfsIsAnnounced`).
* The comment at `lib.rs:499` has the kind never decided on the word of a tool that
  saw only the stub; with 7z missing and blkid failing, bsdtar's listing of the stub
  still makes the image "other" (`WindowsNeverRaw`).
* An account name that begins with a hyphen is previewed and accepted by the backend, and
  refused by the command's argument parser, before anything is erased (`AnswerFile`):
  the backend passes it as an argument of its own, from a terminal `--local-account=-x`
  is taken.
* The help of `--disable-data-collection` (`main.rs:273`) says it auto-accepts the EULA.
  It hides the licence page of the first start; the installer's is accepted only along
  with a hardware bypass (`lib.rs:279`), which says nothing of it.  Nothing says that it
  hides the pages for an online account and for Wi-Fi (`lib.rs:331`), on which a machine
  without a cable depends (`AsAsked`, `ComesAlong`).
* A comment in `lzw.rs:94` calls what is left of a stream that ends inside a code "the
  encoder's padding of the final byte, not a truncated stream", and the test at
  `lzw.rs:481` takes a short read of a truncated archive.  Nothing after the decoder can
  tell: part of the image is written, verified and reported as a success
  (`DeliversImage`, verdict "cut").  For the other containers `PROJECT-STATE.md:180`
  makes this an invariant; there it holds, except for whole streams that are missing.
* With a detection that failed, the page keeps the kind of the image before and clears
  the caveat (`main.ts:167`); `KindSettles`, `SettledIsTruthful` and `NtfsIsAnnounced`
  leave that case out, and none of them covers it.
* The preview of the answer file stays as it was when the form is edited (`AsAsked`).
* The page's kind "other" is passed to the command as `auto`, which detects again, as
  root (`Command`).
* "1% is a safe margin" (`lib.rs:1039`) adds up lengths, not clusters.  64 KiB clusters,
  which may be asked for on a little over 4 GiB, leave fewer than 700 to spare, and a
  Windows medium of some 1200 files wastes half a cluster on each: contents close to
  the limit pass and do not fit.  512 byte clusters, possible below 2.03 GiB, leave
  none at all, for the FATs alone take 1.5%.  `CheckedFits` says how many files it takes.
* During a rescan the dialog names the entry of the list, "Scanning…", and the
  write goes to the drive chosen before (`main.ts:90`).
* The closing umounts of the Windows path are ignored, yet the CLI says the drive
  is safe to remove.
* The Windows path is not read back; `SECURITY.md` speaks of writes without
  exception.
* `windows_volume_size` is described as the size of the volume; the partition is
  33 sectors smaller, and with the helper partition a mebibyte or more.  `PlanFormats`
  shows that this does no harm.

## 6 Not modelled

* An image file that grows or shrinks between the measuring and the reading of it.
* The decoders of gzip, xz, zstd, bzip2, LZMA and deflate, which are libraries: a
  stream yields its cells and then ends well or not, by the damage it has.  That they
  tell a stream that breaks off from one that ends, and that their checksums tell an
  altered one, is assumed; a collision of a checksum is not modelled.
* In the fit check, that splitting the install image makes several files of one, and
  the answer file: a few clusters more.
* Whether the ISO brings an `autounattend.xml` of its own; the commands `unattend`,
  `list` and `detect`, which print what other commands decide by; how XML and base64 spell
  what the answer file says.
* The flag of `format-options` that names a sector size, and the product of its
  `--size-gb`; volume labels and warnings.  No other decision depends on them.
* Limits at 2, 16 and 256 TiB: the gate refuses such drives long before.
* What NTFS needs for its own files in the fit check.
* sysfs: which drives are removable is an input.
* In `Boot`, that a drive for which the BIOS gives no geometry (AH=08h sets carry) is not
  there is an assumption on the BIOS; what BOOTMGR does once entered is not modelled.
* Progress and its wording; no decision depends on them.
* The macOS and Windows stubs, which return an error at once; the scripts.

## 7 Plan

Done: `FlashPromise`, `WindowsFlash`, `ImageWrite`, `SharedMounts` with all its
mount points, `Lzw`, `FormatPlan`, `Gui`, `ImageSource` and `Containers`, `Command` with the
detection, `AnswerFile`, `Pumps`, `Boot`; proofs for all of them.  Every invariant a run checks is
now also a theorem.

Left, the most important first:

1. `ImageWrite` as a second implementation of `FlashPromise`, for verbatim images
   and honest drives, and with it one composition of `Containers` and `ImageWrite`.
2. An ISO's own answer file in `WindowsFlash` and `AnswerFile`.
