------------------------------ MODULE Command ------------------------------
(***************************************************************************)
(* The write command (crates/cli/src/main.rs) from its arguments to its    *)
(* last line, started at a terminal or by the desktop application          *)
(* (app/src-tauri/src/lib.rs), with the detection of the kind of an image  *)
(* by external tools (detect_iso_kind in crates/core/src/lib.rs).  The two *)
(* ways to start it differ in what decides: at a terminal the command asks *)
(* and waits; the application asks before it starts the command, with the  *)
(* tools of the user, and the command runs with those of root.             *)
(*                                                                         *)
(* The flash operations have modules of their own and are one step here.   *)
(***************************************************************************)
EXTENDS Integers

CONSTANTS
  Images,     \* image files: what they hold, and what each tool makes of them
  Disks,      \* the disks of the host
  DiskKind,   \* what each of them is
  Names,      \* kernel names such as /dev/sdb: a disk has one while plugged in
  Requests,   \* the invocations
  None

Tools   == {"bsdtar", "7z", "blkid"}
Layouts == {"fat32-split", "ntfs-uefi-ntfs"}

\* windows: holds an install image, larger than FAT32 takes if big.  packed:
\* compressed.  bsdtar, seven: what the two list of it, a stub being files that
\* are not those of the installer.  udf: blkid calls it UDF.  win: named so.
ImageType == [windows : BOOLEAN, big : BOOLEAN, packed : BOOLEAN,
              bsdtar : {"fails", "stub", "files"}, seven : {"fails", "stub", "files"},
              udf : BOOLEAN, win : BOOLEAN]

RequestType == [via : {"terminal", "application"}, kind : {"auto", "windows", "linux"},
                yes : BOOLEAN, layout : Layouts \union {None}, device : Names \union Disks]

ASSUME ImagesAssumption == Images \subseteq ImageType
ASSUME DisksAssumption ==
  DiskKind \in [Disks -> {"stick", "fixed", "outOfRange", "partition", "internal"}]
ASSUME RequestsAssumption == Requests \subseteq RequestType
ASSUME NoneAssumption == None \notin Layouts

VARIABLES
  image,      \* the image file
  user, root, \* the tools that work for the user, and for root
  request,    \* how the command is started
  port,       \* which disk has each kernel name
  step,       \* where the application or the command is
  detected,   \* what the application has detected: a kind, "failed", or "nothing" yet
  kind,       \* the kind the command goes by, "unknown" before it is decided
  target,     \* the disk and its name, as list_removable_devices gave them
  layout,     \* chosen_layout
  told,       \* has the user been shown the caveat of the NTFS layout
  inspected,  \* did the look into the image succeed, if there was one
  disk,       \* what each disk holds
  outcome     \* how the command ended

vars == <<image, user, root, request, port, step, detected, kind, target, layout, told, inspected,
          disk, outcome>>
given == <<user, root, request>>

-----------------------------------------------------------------------------
\* What a tool lists of an image.  Only the files of the installer themselves
\* name the install image.
ListsWindowsImage(i, listing) == i.windows /\ listing = "files"

Read(i, tools) ==
  ("bsdtar" \in tools /\ i.bsdtar # "fails") \/ ("7z" \in tools /\ i.seven # "fails")

\* Mutant of DetectIsoKind: the first tool that reads the image decides.
DetectByFirst(i, tools) ==
  IF "bsdtar" \in tools /\ i.bsdtar # "fails"
  THEN IF ListsWindowsImage(i, i.bsdtar) THEN "windows" ELSE "other"
  ELSE IF "7z" \in tools /\ ListsWindowsImage(i, i.seven) THEN "windows" ELSE "other"

\* A listing with the install image in it, then a UDF volume, make it Windows;
\* then any listing makes it something else; the name decides last.
DetectIsoKind(i, tools) ==
  IF \/ "bsdtar" \in tools /\ ListsWindowsImage(i, i.bsdtar)
     \/ "7z" \in tools /\ ListsWindowsImage(i, i.seven)
     \/ "blkid" \in tools /\ i.udf
  THEN "windows"
  ELSE IF Read(i, tools) THEN "other"
  ELSE IF i.win THEN "windows" ELSE "other"

\* Of what is plugged in, whole disks on USB are listed.
Listed(d) == d # None /\ DiskKind[d] \notin {"partition", "internal"}

\* assert_safe_target: removable, and of a size a stick has.
SafeTarget(d) == DiskKind[d] = "stick"

DefaultFor(i) == IF i.big THEN "ntfs-uefi-ntfs" ELSE "fat32-split"

-----------------------------------------------------------------------------
Init ==
  /\ image \in Images /\ request \in Requests
  /\ user \in SUBSET Tools /\ root \in SUBSET Tools
  /\ request.via = "terminal" => user = root
  /\ port \in [Names -> Disks \union {None}]
  /\ \A m, n \in Names : m # n /\ port[m] = port[n] => port[m] = None
  /\ step = IF request.via = "application" THEN "detect" ELSE "find"
  /\ detected = "nothing" /\ kind = "unknown" /\ target = None /\ layout = None
  /\ told = FALSE /\ inspected = FALSE
  /\ disk = [d \in Disks |-> "kept"] /\ outcome = "none"

Goto(s) == step' = s /\ UNCHANGED outcome
Exit(how) == step' = "ended" /\ outcome' = how

\* The application detects the kind of the image and says in its dialog what a
\* Windows image may cost; a compressed image is none to it.  When detection
\* fails the page keeps "auto".  What is not Windows is passed on as "auto".
AppDetect ==
  /\ step = "detect"
  /\ \/ detected' = IF image.packed THEN "other" ELSE DetectIsoKind(image, user)
     \/ detected' = "failed"
  /\ told' = (detected' = "windows")
  /\ Goto("dialog")
  /\ UNCHANGED <<image, given, port, kind, target, layout, inspected, disk>>

\* The backend may not find the command, get no leave to start it, or know that
\* the tweaks make no answer file.
AppConfirm ==
  /\ step = "dialog"
  /\ \/ Goto("find") \/ Exit("aborted") \/ Exit("error")
  /\ UNCHANGED <<image, given, port, detected, kind, target, layout, told, inspected, disk>>

\* The device named, by its kernel name or by the disk's own, is looked up in
\* the list and checked.
Eligible(n) ==
  request.device \in {n, port[n]} /\ Listed(port[n]) /\ SafeTarget(port[n])

FindDevice ==
  /\ step = "find"
  /\ \/ \E n \in Names :
          /\ Eligible(n)
          /\ target' = [name |-> n, byId |-> port[n]]
          /\ Goto("kind")
     \/ ~(\E n \in Names : Eligible(n)) /\ Exit("error") /\ UNCHANGED target
  /\ UNCHANGED <<image, given, port, detected, kind, layout, told, inspected, disk>>

KindArg == IF request.via = "terminal" THEN request.kind
           ELSE IF detected = "windows" THEN "windows" ELSE "auto"

DecideKind ==
  /\ step = "kind"
  /\ kind' = CASE KindArg = "auto" -> DetectIsoKind(image, root)
               [] KindArg = "windows" -> "windows"
               [] OTHER -> "other"
  /\ \/ Goto("layout")
     \/ kind' = "windows" /\ request.via = "terminal"    \* the tweaks are refused
        /\ Exit("error")
  /\ UNCHANGED <<image, given, port, detected, target, layout, told, inspected, disk>>

\* The layout is settled and its caveat shown before anything is asked.  An
\* image that cannot be inspected is left to the flasher.  The application's
\* user sees nothing of this: the command has been started.
DecideLayout ==
  /\ step = "layout"
  /\ IF kind # "windows" THEN UNCHANGED <<layout, inspected>>
     ELSE IF request.layout # None THEN layout' = request.layout /\ UNCHANGED inspected
     ELSE \/ /\ image.windows /\ ~image.packed
             /\ layout' = DefaultFor(image) /\ inspected' = TRUE
          \/ UNCHANGED <<layout, inspected>>
  /\ told' = (told \/ (request.via = "terminal" /\ layout' = "ntfs-uefi-ntfs"))
  /\ Goto(IF request.via = "terminal" /\ ~request.yes THEN "prompt" ELSE "flash")
  /\ UNCHANGED <<image, given, port, detected, kind, target, disk>>

\* While the command waits for YES the file may be replaced by another
\* edition of the image, and drives pulled and plugged in.
ReplaceImage ==
  /\ step = "prompt"
  /\ image' = [image EXCEPT !.big = ~@] /\ image' \in Images
  /\ UNCHANGED <<given, port, step, detected, kind, target, layout, told, inspected, disk, outcome>>

Replug ==
  /\ step = "prompt"
  /\ \E n \in Names, d \in Disks \union {None} :
       /\ d # None => \A m \in Names : port[m] # d
       /\ port' = [port EXCEPT ![n] = d]
  /\ UNCHANGED <<image, given, step, detected, kind, target, layout, told, inspected, disk, outcome>>

Prompt ==
  /\ step = "prompt"
  /\ \/ Goto("flash") \/ Exit("aborted")
  /\ UNCHANGED <<image, given, port, detected, kind, target, layout, told, inspected, disk>>

\* Mutant of Written: the drive is addressed by its kernel name.
WrittenByName == IF port[target.name] = None THEN {} ELSE {port[target.name]}

\* The disk the flash operations write to: that of the by-id path, if it is
\* still there.
Written == {d \in {target.byId} : \E n \in Names : port[n] = d}

\* Mutants of FlashLayout: the core is given the option and decides for itself;
\* it is not ready for an image that was not inspected.
FlashLayoutAgain == IF request.layout # None THEN request.layout ELSE DefaultFor(image)
FlashLayoutAsGiven == layout

\* The layout that was shown; the core decides only if there was none.
FlashLayout == IF layout # None THEN layout ELSE DefaultFor(image)

\* What must hold before the Windows path erases the drive.
Probed == ~image.packed /\ image.windows

\* Either flash operation: a refusal, a failure on the erased drive, or a drive
\* that holds what the kind and the layout say.
Flash ==
  /\ step = "flash"
  /\ \/ Exit("error") /\ UNCHANGED disk
     \/ \E d \in Written :
          /\ kind = "windows" => Probed
          /\ \/ Exit("error") /\ disk' = [disk EXCEPT ![d] = "erased"]
             \/ Exit("ok") /\ disk' = [disk EXCEPT ![d] =
                                         IF kind = "windows" THEN FlashLayout ELSE "raw"]
  /\ UNCHANGED <<image, given, port, detected, kind, target, layout, told, inspected>>

Next == AppDetect \/ AppConfirm \/ FindDevice \/ DecideKind \/ DecideLayout \/ ReplaceImage
        \/ Replug \/ Prompt \/ Flash

Spec == Init /\ [][Next]_vars

-----------------------------------------------------------------------------
\* Properties.

\* Only one disk is ever changed.
TypeOK ==
  /\ image \in Images /\ request \in Requests
  /\ user \subseteq Tools /\ root \subseteq Tools
  /\ port \in [Names -> Disks \union {None}]
  /\ step \in {"detect", "dialog", "find", "kind", "layout", "prompt", "flash", "ended"}
  /\ detected \in {"nothing", "windows", "other", "failed"}
  /\ kind \in {"unknown", "windows", "other"} /\ layout \in Layouts \union {None}
  /\ target \in [name : Names, byId : Disks] \union {None}
  /\ told \in BOOLEAN /\ inspected \in BOOLEAN
  /\ disk \in [Disks -> {"kept", "erased", "raw"} \union Layouts]
  /\ \A d, e \in Disks : disk[d] # "kept" /\ disk[e] # "kept" => d = e
  /\ outcome \in {"none", "ok", "error", "aborted"}

\* One that shows an image to be a Windows installer, among these tools.
CanTell(i, tools) ==
  \E t \in tools : \/ t = "bsdtar" /\ i.bsdtar = "files"
                   \/ t = "7z" /\ i.seven = "files"
                   \/ t = "blkid" /\ i.udf

\* The comment above detect_iso_kind: a Windows ISO is never written raw on the
\* word of a tool that saw only the stub of it.  It is when the user asked for
\* that, and when no tool that works shows what it is: the kind is then taken
\* to be something else, on the word of a tool that saw only the stub too.
WindowsNeverRaw ==
  \A d \in Disks : disk[d] = "raw" /\ image.windows =>
    \/ request.via = "terminal" /\ request.kind = "linux"
    \/ ~CanTell(image, root)

\* The comment in the write command: what the NTFS layout requires of the
\* target machine is said before the user commits.  The drive gets that layout
\* unannounced only where the image could not be inspected, or where no tool of
\* the user could tell the application what it is, and those of root could.
NtfsIsAnnounced ==
  \A d \in Disks : disk[d] = "ntfs-uefi-ntfs" /\ ~told =>
    IF request.via = "terminal" THEN ~inspected
    ELSE detected = "failed" \/ ~CanTell(image, user)

\* SECURITY.md, device-safety invariant 1: writes go to the stable by-id path.
\* Whatever is plugged in and out while the user reads the prompt, the disk
\* written is the removable one the prompt was about.
AgreedDiskOnly ==
  \A d \in Disks : disk[d] # "kept" => d = target.byId /\ DiskKind[d] = "stick"
=============================================================================
