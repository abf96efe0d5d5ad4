--------------------------- MODULE CommandProofs ---------------------------
(***************************************************************************)
(* Theorems about Command, for every set of images, disks, names and       *)
(* invocations and whichever tools work: the properties its run checks.    *)
(* The inductive invariant has one part for each thing that is settled     *)
(* before the prompt and used after it: the disk, the kind and the layout. *)
(***************************************************************************)
EXTENDS Command, Pumps, WellFoundedInduction, SequenceTheorems, TLAPS

\* The steps behind the choice of the disk, of the kind, of the layout.
Laid   == {"prompt", "flash"}
Sorted == {"layout"} \union Laid
Aimed  == {"kind"} \union Sorted

Target == [name : Names, byId : Disks]

Ranges ==
  /\ image \in Images /\ request \in Requests
  /\ user \subseteq Tools /\ root \subseteq Tools
  /\ port \in [Names -> Disks \union {None}]
  /\ step \in {"detect", "dialog", "find", "ended"} \union Aimed
  /\ detected \in {"nothing", "windows", "other", "failed"}
  /\ kind \in {"unknown", "windows", "other"} /\ layout \in Layouts \union {None}
  /\ target \in Target \union {None}
  /\ told \in BOOLEAN /\ inspected \in BOOLEAN
  /\ disk \in [Disks -> {"kept", "erased", "raw"} \union Layouts]
  /\ outcome \in {"none", "ok", "error", "aborted"}

\* No disk is changed before the last step, and by it only a stick.
OnlyTarget ==
  /\ step # "ended" => \A d \in Disks : disk[d] = "kept"
  /\ step \in Aimed => target \in Target /\ DiskKind[target.byId] = "stick"

\* An image goes by "other" only at the user's word, or if no tool could tell.
KindFounded ==
  /\ step \in Sorted => kind # "unknown"
  /\ kind = "other" /\ image.windows =>
       \/ request.via = "terminal" /\ request.kind = "linux"
       \/ ~CanTell(image, root)

\* What has been said of the layout that will be used, and what the
\* application knew when it spoke.
LayoutSaid ==
  /\ step \notin Laid \union {"ended"} => layout = None /\ ~inspected
  /\ request.via = "terminal" =>
       /\ step \in Laid => (layout = "ntfs-uefi-ntfs" => told)
       /\ layout = None => ~inspected
  /\ request.via = "application" =>
       /\ step \in {"dialog", "find"} \union Aimed => detected # "nothing"
       /\ detected = "windows" => told
       /\ detected = "other" => image.packed \/ ~image.windows \/ ~CanTell(image, user)

IInv == /\ Ranges /\ OnlyTarget /\ KindFounded /\ LayoutSaid
        /\ AgreedDiskOnly /\ WindowsNeverRaw /\ NtfsIsAnnounced

-----------------------------------------------------------------------------
\* Detection gives a kind, and gives "other" to a Windows image only if none
\* of the tools it had could have told.
LEMMA DetectionSound ==
  ASSUME NEW i \in ImageType, NEW tools
  PROVE  /\ DetectIsoKind(i, tools) \in {"windows", "other"}
         /\ i.windows /\ DetectIsoKind(i, tools) = "other" => ~CanTell(i, tools)
BY DEF DetectIsoKind, ListsWindowsImage, Read, CanTell

LEMMA InitIInv == Init => IInv
<1> SUFFICES ASSUME Init PROVE IInv
  OBVIOUS
<1> USE DEF Init
<1>1. Ranges
  BY DEF Ranges, Aimed
<1>2. \A d \in Disks : disk[d] = "kept"
  OBVIOUS
<1>3. OnlyTarget /\ KindFounded /\ LayoutSaid
  BY <1>2 DEF OnlyTarget, KindFounded, LayoutSaid, Aimed, Sorted, Laid
<1>4. AgreedDiskOnly /\ WindowsNeverRaw /\ NtfsIsAnnounced
  BY <1>2 DEF AgreedDiskOnly, WindowsNeverRaw, NtfsIsAnnounced
<1> QED
  BY <1>1, <1>3, <1>4 DEF IInv

\* While no disk has been changed, nothing can be wrong with any.
LEMMA UntouchedIsFine ==
  ASSUME \A d \in Disks : disk[d] = "kept"
  PROVE  AgreedDiskOnly /\ WindowsNeverRaw /\ NtfsIsAnnounced
BY DEF AgreedDiskOnly, WindowsNeverRaw, NtfsIsAnnounced

LEMMA RangesKept ==
  ASSUME IInv, Next
  PROVE  Ranges'
<1> USE DEF IInv, Ranges, Goto, Exit, given, Aimed, Sorted, Laid
<1> image \in ImageType /\ request \in RequestType
  BY ImagesAssumption, RequestsAssumption
<1>1. CASE AppDetect
  BY <1>1, DetectionSound DEF AppDetect
<1>2. CASE AppConfirm
  BY <1>2 DEF AppConfirm
<1>3. CASE FindDevice
  BY <1>3 DEF FindDevice, Eligible, Listed, Target
<1>4. CASE DecideKind
  BY <1>4, DetectionSound DEF DecideKind
<1>5. CASE DecideLayout
  BY <1>5 DEF DecideLayout, DefaultFor, Layouts, RequestType
<1>6. CASE ReplaceImage
  BY <1>6 DEF ReplaceImage
<1>7. CASE Replug
  BY <1>7 DEF Replug
<1>8. CASE Prompt
  BY <1>8 DEF Prompt
<1>9. CASE Flash
  <2>1. FlashLayout \in Layouts
    BY DEF FlashLayout, DefaultFor, Layouts
  <2> QED
    BY <1>9, <2>1 DEF Flash
<1> QED
  BY <1>1, <1>2, <1>3, <1>4, <1>5, <1>6, <1>7, <1>8, <1>9 DEF Next

\* No step but Flash touches a disk.
LEMMA OnlyFlashWrites ==
  ASSUME IInv, Next, ~Flash
  PROVE  disk' = disk /\ step # "ended"
<1> USE DEF AppDetect, AppConfirm, FindDevice, DecideKind, DecideLayout, ReplaceImage, Replug,
            Prompt
<1> QED
  BY DEF Next

LEMMA TargetKept ==
  ASSUME IInv, Next
  PROVE  OnlyTarget' /\ AgreedDiskOnly'
<1> USE DEF IInv, OnlyTarget, Goto, Exit, given, Aimed, Sorted, Laid
<1>1. CASE ~Flash
  <2>1. \A d \in Disks : disk'[d] = "kept"
    BY <1>1, OnlyFlashWrites
  <2>2. AgreedDiskOnly'
    BY <2>1 DEF AgreedDiskOnly
  <2>3. step' \in Aimed => target' \in Target /\ DiskKind[target'.byId] = "stick"
    <3>1. CASE FindDevice
      BY <3>1 DEF FindDevice, Eligible, Listed, SafeTarget, Target, Ranges
    <3>2. CASE ~FindDevice
      <4>1. target' = target /\ (step' \in Aimed => step \in Aimed)
        BY <1>1, <3>2 DEF Next, AppDetect, AppConfirm, DecideKind, DecideLayout, ReplaceImage,
                          Replug, Prompt
      <4> QED
        BY <4>1
    <3> QED
      BY <3>1, <3>2
  <2> QED
    BY <2>1, <2>2, <2>3
<1>2. CASE Flash
  <2>1. step = "flash" /\ step' = "ended" /\ target' = target
    BY <1>2 DEF Flash
  <2>2. target.byId \in Disks /\ DiskKind[target.byId] = "stick"
    BY <2>1 DEF Target
  <2>3. \A d \in Disks : disk'[d] # "kept" => d = target.byId
    BY <1>2, <2>1 DEF Flash, Written, Ranges
  <2> QED
    BY <2>1, <2>2, <2>3 DEF AgreedDiskOnly
<1> QED
  BY <1>1, <1>2

\* A file is replaced at the prompt by one that the tools take for the same.
LEMMA SameTraits ==
  ASSUME Ranges, Next
  PROVE  /\ image' \in ImageType
         /\ image'.windows = image.windows /\ image'.packed = image.packed
         /\ CanTell(image', root) = CanTell(image, root)
         /\ CanTell(image', user) = CanTell(image, user)
<1> image \in ImageType
  BY ImagesAssumption DEF Ranges
<1>1. CASE ReplaceImage
  <2>1. image' = [image EXCEPT !.big = ~image.big] /\ image' \in ImageType
    BY <1>1, ImagesAssumption DEF ReplaceImage
  <2>2. /\ image'.windows = image.windows /\ image'.packed = image.packed
        /\ image'.bsdtar = image.bsdtar /\ image'.seven = image.seven /\ image'.udf = image.udf
    BY <2>1 DEF ImageType
  <2> QED
    BY <2>1, <2>2 DEF CanTell
<1>2. CASE ~ReplaceImage
  BY <1>2 DEF Next, AppDetect, AppConfirm, FindDevice, DecideKind, DecideLayout, Replug, Prompt,
              Flash
<1> QED
  BY <1>1, <1>2

LEMMA KindKept ==
  ASSUME IInv, Next
  PROVE  KindFounded' /\ WindowsNeverRaw'
<1> USE DEF IInv
<1>1. root' = root /\ request' = request /\ user' = user
  BY DEF Next, AppDetect, AppConfirm, FindDevice, DecideKind, DecideLayout, ReplaceImage, Replug,
         Prompt, Flash, given
<1>2. /\ image'.windows = image.windows
      /\ CanTell(image', root') = CanTell(image, root)
  BY <1>1, SameTraits DEF CanTell
<1>3. KindFounded'
  <2>1. CASE DecideKind
    <3>1. image' = image /\ kind' \in {"windows", "other"}
      BY <2>1, DetectionSound, ImagesAssumption DEF DecideKind, Ranges
    <3>2. kind' = "other" => \/ request.via = "terminal" /\ request.kind = "linux"
                             \/ DetectIsoKind(image, root) = "other"
      <4>1. KindArg \notin {"auto", "windows"} => request.via = "terminal" /\ request.kind = "linux"
        BY RequestsAssumption DEF KindArg, Ranges, RequestType
      <4> QED
        BY <2>1, <4>1 DEF DecideKind
    <3> QED
      BY <1>1, <3>1, <3>2, DetectionSound, ImagesAssumption DEF KindFounded, Ranges
  <2>2. CASE ~DecideKind
    <3>1. kind' = kind /\ (step' \in Sorted => step \in Sorted)
      BY <2>2 DEF Next, AppDetect, AppConfirm, FindDevice, DecideLayout, ReplaceImage, Replug,
                  Prompt, Flash, Goto, Exit, Sorted, Laid
    <3> QED
      BY <1>1, <1>2, <3>1 DEF KindFounded
  <2> QED
    BY <2>1, <2>2
<1>4. WindowsNeverRaw'
  <2>1. CASE Flash
    <3>1. \A d \in Disks : disk'[d] = "raw" => kind = "other"
      <4>1. FlashLayout # "raw"
        BY DEF FlashLayout, DefaultFor, Layouts, Ranges
      <4>2. step = "flash" /\ \A d \in Disks : disk[d] = "kept"
        BY <2>1 DEF Flash, OnlyTarget
      <4>3. kind \in {"windows", "other"}
        BY <4>2 DEF KindFounded, Sorted, Laid, Ranges
      <4> QED
        BY <2>1, <4>1, <4>2, <4>3 DEF Flash, Ranges
    <3> QED
      BY <1>1, <1>2, <3>1 DEF WindowsNeverRaw, KindFounded
  <2>2. CASE ~Flash
    BY <2>2, OnlyFlashWrites DEF WindowsNeverRaw, OnlyTarget
  <2> QED
    BY <2>1, <2>2
<1> QED
  BY <1>3, <1>4

\* What was inspected or said before the prompt is what the flasher goes by.
LEMMA SaidKept ==
  ASSUME IInv, Next
  PROVE  LayoutSaid'
<1> USE DEF IInv, Goto, Exit, given, Aimed, Sorted, Laid
<1> image \in ImageType /\ request \in RequestType
  BY ImagesAssumption, RequestsAssumption DEF Ranges
<1>0. /\ request' = request /\ user' = user
      /\ image'.windows = image.windows /\ image'.packed = image.packed
      /\ CanTell(image', user') = CanTell(image, user)
  <2>1. request' = request /\ user' = user
    BY DEF Next, AppDetect, AppConfirm, FindDevice, DecideKind, DecideLayout, ReplaceImage,
           Replug, Prompt, Flash
  <2> QED
    BY <2>1, SameTraits DEF CanTell
<1>1. CASE AppDetect
  <2>1. step = "detect" /\ step' = "dialog" /\ layout' = layout /\ inspected' = inspected
        /\ image' = image /\ told' = (detected' = "windows")
    BY <1>1 DEF AppDetect
  <2>2. detected' = "other" => image.packed \/ DetectIsoKind(image, user) = "other"
    BY <1>1 DEF AppDetect
  <2>3. detected' # "nothing"
    BY <1>1, DetectionSound DEF AppDetect
  <2> QED
    BY <1>0, <2>1, <2>2, <2>3, DetectionSound DEF LayoutSaid
<1>2. CASE DecideLayout
  <2>1. step = "layout" /\ step' \in Laid /\ detected' = detected /\ image' = image
        /\ told' = (told \/ (request.via = "terminal" /\ layout' = "ntfs-uefi-ntfs"))
    BY <1>2 DEF DecideLayout
  <2>2. layout = None /\ ~inspected
    BY <2>1 DEF LayoutSaid
  <2>3. layout' = None => ~inspected'
    BY <1>2, <2>2, NoneAssumption DEF DecideLayout, DefaultFor, Layouts
  <2>4. told => told'
    BY <2>1 DEF Ranges
  <2>5. request.via = "terminal" => (layout' = "ntfs-uefi-ntfs" => told')
    BY <2>1
  <2> QED
    BY <1>0, <2>1, <2>3, <2>4, <2>5 DEF LayoutSaid
<1>3. CASE ~AppDetect /\ ~DecideLayout
  <2>1. /\ layout' = layout /\ inspected' = inspected /\ told' = told /\ detected' = detected
        /\ step' \in Laid => step \in Laid
        /\ step' \notin Laid \union {"ended"} => step \notin Laid \union {"ended"}
        /\ step' \in {"dialog", "find"} \union Aimed => step \in {"dialog", "find"} \union Aimed
    BY <1>3 DEF Next, AppConfirm, FindDevice, DecideKind, ReplaceImage, Replug, Prompt, Flash
  <2> QED
    BY <1>0, <2>1 DEF LayoutSaid
<1> QED
  BY <1>1, <1>2, <1>3

LEMMA AnnouncedKept ==
  ASSUME IInv, Next
  PROVE  NtfsIsAnnounced'
<1> USE DEF IInv
<1>1. CASE Flash
  <2>1. step = "flash" /\ \A d \in Disks : disk[d] = "kept"
    BY <1>1 DEF Flash, OnlyTarget
  <2>2. UNCHANGED <<image, user, request, told, detected, inspected>>
    BY <1>1 DEF Flash, given
  <2>3. SUFFICES ASSUME NEW d \in Disks, disk'[d] = "ntfs-uefi-ntfs", ~told
                 PROVE  IF request.via = "terminal" THEN ~inspected
                        ELSE detected = "failed" \/ ~CanTell(image, user)
    BY <2>2 DEF NtfsIsAnnounced, CanTell
  <2>4. FlashLayout = "ntfs-uefi-ntfs" /\ image.windows /\ ~image.packed
    BY <1>1, <2>1, <2>3 DEF Flash, Probed, Ranges
  <2>5. request.via \in {"terminal", "application"}
    BY RequestsAssumption DEF Ranges, RequestType
  <2>6. CASE request.via = "terminal"
    BY <2>1, <2>3, <2>4, <2>6 DEF LayoutSaid, FlashLayout, Laid
  <2>7. CASE request.via = "application"
    <3>1. detected \in {"windows", "other", "failed"}
      BY <2>1, <2>7 DEF LayoutSaid, Ranges, Aimed, Sorted, Laid
    <3> QED
      BY <2>3, <2>4, <2>7, <3>1 DEF LayoutSaid
  <2> QED
    BY <2>5, <2>6, <2>7
<1>2. CASE ~Flash
  BY <1>2, OnlyFlashWrites DEF NtfsIsAnnounced, OnlyTarget
<1> QED
  BY <1>1, <1>2

LEMMA StepIInv == IInv /\ [Next]_vars => IInv'
<1> SUFFICES ASSUME IInv, [Next]_vars PROVE IInv'
  OBVIOUS
<1>1. CASE Next
  BY <1>1, RangesKept, TargetKept, KindKept, SaidKept, AnnouncedKept DEF IInv
<1>2. CASE UNCHANGED vars
  BY <1>2 DEF IInv, Ranges, OnlyTarget, KindFounded, LayoutSaid, AgreedDiskOnly, WindowsNeverRaw,
              NtfsIsAnnounced, CanTell, vars
<1> QED
  BY <1>1, <1>2

-----------------------------------------------------------------------------
LEMMA Invariance == Spec => []IInv
BY InitIInv, StepIInv, PTL DEF Spec

\* Every variable stays in its range, and never are two disks changed.
THEOREM TypeCorrect == Spec => []TypeOK
<1>1. ASSUME IInv PROVE TypeOK
  BY <1>1 DEF IInv, Ranges, AgreedDiskOnly, TypeOK, Target, Aimed, Sorted, Laid
<1> QED
  BY <1>1, Invariance, PTL

\* detect_iso_kind: a Windows image is written raw only at the user's word, or
\* where no tool that works could tell what it is.
THEOREM NeverRaw == Spec => []WindowsNeverRaw
<1>1. IInv => WindowsNeverRaw
  BY DEF IInv
<1> QED
  BY <1>1, Invariance, PTL

\* The write command says what the NTFS layout costs before it is agreed to.
THEOREM Announced == Spec => []NtfsIsAnnounced
<1>1. IInv => NtfsIsAnnounced
  BY DEF IInv
<1> QED
  BY <1>1, Invariance, PTL

\* Only the stick the prompt was about is changed, whatever is plugged in and
\* out meanwhile.
THEOREM AgreedDisk == Spec => []AgreedDiskOnly
<1>1. IInv => AgreedDiskOnly
  BY DEF IInv
<1> QED
  BY <1>1, Invariance, PTL

-----------------------------------------------------------------------------
\* The pipes between the command and the application (Pumps): what the command
\* writes reaches the page line by line.

\* Every set of numbers that is not empty has a least one: with it a statement
\* about all chunks is proved by looking at a shortest one that it fails for.
LEMMA Least ==
  ASSUME NEW T \in SUBSET Nat, T # {}
  PROVE  \E x \in T : \A y \in T : x <= y
<1> DEFINE R == OpToRel(<, Nat)
<1>1. IsWellFoundedOn(R, Nat)
  BY NatLessThanWellFounded
<1>2. \E x \in T : \A y \in T : ~(<<y, x>> \in R)
  <2> HIDE DEF R
  <2> QED BY <1>1, WFMin, Zenon
<1>3. PICK x \in T : \A y \in T : ~(<<y, x>> \in R)
  BY <1>2
<1>4. ASSUME NEW y \in T PROVE x <= y
  <2>1. x \in Nat /\ y \in Nat
    OBVIOUS
  <2>2. y < x => <<y, x>> \in R
    BY <2>1 DEF OpToRel
  <2> HIDE DEF R
  <2>3. ~(y < x)
    BY <2>2, <1>3
  <2> QED BY <2>1, <2>3
<1> QED
  BY <1>4

-----------------------------------------------------------------------------
\* What was begun and what was ended of a text.
Closed(text) == text = <<>> \/ text[Len(text)] \in Ends

Cut(text, lines, last) ==
  \E front \in Seq(Bytes) :
    front \o last = text /\ Closed(front) /\ last \in Seq(Text) /\ AreLines(lines, front)

Cuts(text, i) == i \in {0, Len(text) + 1} \/ text[i] \in Ends

LEMMA BoundsDef ==
  ASSUME NEW text \in Seq(Bytes), NEW i \in Nat, NEW j \in Nat
  PROVE  <<i, j>> \in Bounds(text) <=>
           /\ i + 1 < j /\ j <= Len(text) + 1 /\ Cuts(text, i) /\ Cuts(text, j)
           /\ \A k \in i + 1 .. j - 1 : text[k] \notin Ends
<1>1. \A k \in i + 1 .. j - 1 : j <= Len(text) + 1 => (~Cuts(text, k) <=> text[k] \notin Ends)
  BY DEF Cuts
<1>2. i + 1 < j /\ j <= Len(text) + 1 => <<i, j>> \in (0..Len(text)) \X (1..Len(text) + 1)
  OBVIOUS
<1>3. <<i, j>> \in Bounds(text) <=>
         /\ <<i, j>> \in (0..Len(text)) \X (1..Len(text) + 1)
         /\ i + 1 < j /\ Cuts(text, i) /\ Cuts(text, j) /\ \A k \in i + 1 .. j - 1 : ~Cuts(text, k)
  BY DEF Bounds, Cuts
<1> QED BY <1>1, <1>2, <1>3

LEMMA BoundsType ==
  ASSUME NEW text \in Seq(Bytes), NEW b \in Bounds(text)
  PROVE  b[1] \in Nat /\ b[2] \in Nat /\ b = <<b[1], b[2]>>
BY DEF Bounds

\* A line end put behind a text ends its last line and begins none.
LEMMA BoundsEnd ==
  ASSUME NEW text \in Seq(Bytes), NEW e \in Ends
  PROVE  Bounds(Append(text, e)) = Bounds(text)
<1> DEFINE longer == Append(text, e)
<1>1. /\ longer \in Seq(Bytes) /\ Len(longer) = Len(text) + 1
      /\ \A i \in 1..Len(text) : longer[i] = text[i]
      /\ longer[Len(text) + 1] = e
  BY DEF Bytes
<1> HIDE DEF longer
<1>2. ASSUME NEW i \in Nat, NEW j \in Nat
      PROVE  <<i, j>> \in Bounds(longer) <=> <<i, j>> \in Bounds(text)
  <2>1. ASSUME <<i, j>> \in Bounds(text) PROVE <<i, j>> \in Bounds(longer)
    <3>1. /\ i + 1 < j /\ j <= Len(text) + 1 /\ Cuts(text, i) /\ Cuts(text, j)
          /\ \A k \in i + 1 .. j - 1 : text[k] \notin Ends
      BY <2>1, BoundsDef
    <3>2. i + 1 < j /\ j <= Len(longer) + 1 /\ \A k \in i + 1 .. j - 1 : longer[k] \notin Ends
      BY <1>1, <3>1
    <3>3. Cuts(longer, i) /\ Cuts(longer, j)
      BY <1>1, <3>1 DEF Cuts
    <3> QED BY <1>1, <3>2, <3>3, BoundsDef
  <2>2. ASSUME <<i, j>> \in Bounds(longer) PROVE <<i, j>> \in Bounds(text)
    <3>1. /\ i + 1 < j /\ j <= Len(text) + 2 /\ Cuts(longer, i) /\ Cuts(longer, j)
          /\ \A k \in i + 1 .. j - 1 : longer[k] \notin Ends
      BY <1>1, <2>2, BoundsDef
    <3>2. j <= Len(text) + 1
      <4>1. SUFFICES ASSUME j = Len(text) + 2 PROVE FALSE
        BY <3>1
      <4>2. Len(text) + 1 \in i + 1 .. j - 1
        BY <3>1, <4>1
      <4> QED BY <1>1, <3>1, <4>2
    <3>3. i + 1 < j /\ \A k \in i + 1 .. j - 1 : text[k] \notin Ends
      BY <1>1, <3>1, <3>2
    <3>4. Cuts(text, i) /\ Cuts(text, j)
      BY <1>1, <3>1, <3>2 DEF Cuts
    <3> QED BY <3>2, <3>3, <3>4, BoundsDef
  <2> QED BY <2>1, <2>2
<1>3. \A b : b \in Bounds(longer) <=> b \in Bounds(text)
  <2>1. \A b \in Bounds(longer) : b \in Bounds(text)
    BY <1>1, <1>2, BoundsType
  <2>2. \A b \in Bounds(text) : b \in Bounds(longer)
    BY <1>2, BoundsType
  <2> QED BY <2>1, <2>2
<1> QED BY <1>3 DEF longer

\* A line begun is one more line.
LEMMA BoundsMore ==
  ASSUME NEW front \in Seq(Bytes), Closed(front), NEW last \in Seq(Text), last # <<>>
  PROVE  /\ Bounds(front \o last) = Bounds(front) \union {<<Len(front), Len(front) + Len(last) + 1>>}
         /\ \A b \in Bounds(front) : b[1] < Len(front)
<1> DEFINE text == front \o last
           new == <<Len(front), Len(front) + Len(last) + 1>>
<1>1. /\ text \in Seq(Bytes) /\ Len(text) = Len(front) + Len(last)
      /\ \A i \in 1..Len(front) : text[i] = front[i]
      /\ \A i \in Len(front) + 1 .. Len(text) : text[i] \notin Ends
      /\ Len(front) \in Nat /\ Len(last) \in Nat \ {0}
  BY BytesAssumption DEF Bytes
<1>2. Len(front) = 0 \/ text[Len(front)] \in Ends
  BY <1>1 DEF Closed
<1>0. Len(front) = 0 \/ front[Len(front)] \in Ends
  BY DEF Closed
<1>6. Len(front) \in Nat
  OBVIOUS
<1> HIDE DEF text
<1>3. ASSUME NEW i \in Nat, NEW j \in Nat
      PROVE  <<i, j>> \in Bounds(text) <=> <<i, j>> \in Bounds(front) \/ <<i, j>> = new
  <2>1. ASSUME <<i, j>> \in Bounds(front) PROVE <<i, j>> \in Bounds(text) /\ i < Len(front)
    <3>1. /\ i + 1 < j /\ j <= Len(front) + 1 /\ Cuts(front, i) /\ Cuts(front, j)
          /\ \A k \in i + 1 .. j - 1 : front[k] \notin Ends
      BY <2>1, BoundsDef
    <3>2. j <= Len(front)
      <4>1. SUFFICES ASSUME j = Len(front) + 1 PROVE FALSE
        BY <1>6, <3>1
      <4>2. Len(front) \in i + 1 .. j - 1
        BY <1>1, <3>1, <4>1
      <4> QED BY <1>0, <3>1, <4>1, <4>2
    <3>3. i + 1 < j /\ j <= Len(text) + 1 /\ \A k \in i + 1 .. j - 1 : text[k] \notin Ends
      BY <1>1, <3>1, <3>2
    <3>4. Cuts(text, i) /\ Cuts(text, j)
      BY <1>1, <3>1, <3>2 DEF Cuts
    <3>5. i < Len(front)
      BY <1>6, <3>1, <3>2
    <3>6. <<i, j>> \in Bounds(text)
      BY <1>1, <3>3, <3>4, BoundsDef
    <3> QED BY <3>5, <3>6
  <2>2. ASSUME <<i, j>> = new PROVE <<i, j>> \in Bounds(text)
    <3>1. i = Len(front) /\ j = Len(text) + 1
      BY <1>1, <2>2
    <3>2. Cuts(text, i) /\ Cuts(text, j)
      BY <1>2, <3>1 DEF Cuts
    <3>3. i + 1 < j /\ \A k \in i + 1 .. j - 1 : text[k] \notin Ends
      BY <1>1, <3>1
    <3> QED BY <1>1, <3>1, <3>2, <3>3, BoundsDef
  <2>3. ASSUME <<i, j>> \in Bounds(text) PROVE <<i, j>> \in Bounds(front) \/ <<i, j>> = new
    <3>1. /\ i + 1 < j /\ j <= Len(text) + 1 /\ Cuts(text, i) /\ Cuts(text, j)
          /\ \A k \in i + 1 .. j - 1 : text[k] \notin Ends
      BY <1>1, <2>3, BoundsDef
    <3>2. CASE i >= Len(front)
      <4>1. i = Len(front)
        BY <1>1, <3>1, <3>2 DEF Cuts
      <4>2. j = Len(text) + 1
        BY <1>1, <3>1, <3>2 DEF Cuts
      <4> QED BY <1>1, <4>1, <4>2
    <3>3. CASE i < Len(front)
      <4>1. Len(front) # 0
        BY <3>3
      <4>2. j <= Len(front)
        <5>1. SUFFICES ASSUME j > Len(front) PROVE FALSE
          BY <1>1
        <5>2. Len(front) \in i + 1 .. j - 1
          BY <1>1, <3>3, <5>1
        <5> QED BY <1>2, <3>1, <4>1, <5>2
      <4>3. \A k \in i + 1 .. j - 1 : front[k] \notin Ends
        BY <1>1, <3>1, <4>2
      <4>4. Cuts(front, i) /\ Cuts(front, j)
        BY <1>1, <3>1, <3>3, <4>2 DEF Cuts
      <4> QED BY <1>1, <3>1, <4>2, <4>3, <4>4, BoundsDef
    <3> QED BY <1>1, <3>2, <3>3
  <2> QED BY <2>1, <2>2, <2>3
<1>4. \A b \in Bounds(front) : b[1] < Len(front)
  <2>1. ASSUME NEW b \in Bounds(front) PROVE b[1] < Len(front)
    <3>1. b[1] \in Nat /\ b[2] \in Nat /\ b = <<b[1], b[2]>>
      BY BoundsType
    <3>2. /\ b[1] + 1 < b[2] /\ b[2] <= Len(front) + 1
          /\ \A k \in b[1] + 1 .. b[2] - 1 : front[k] \notin Ends
      BY <3>1, BoundsDef
    <3>3. b[1] + 1 <= Len(front)
      BY <1>1, <3>1, <3>2
    <3> QED BY <1>1, <3>1, <3>3
  <2> QED BY <2>1
<1>5. \A b : b \in Bounds(text) <=> b \in Bounds(front) \/ b = new
  <2>1. \A b \in Bounds(text) : b \in Bounds(front) \/ b = new
    BY <1>1, <1>3, BoundsType
  <2>2. \A b \in Bounds(front) : b \in Bounds(text)
    BY <1>3, BoundsType
  <2>3. new \in Bounds(text)
    BY <1>1, <1>3
  <2> QED BY <2>1, <2>2, <2>3
<1> QED BY <1>4, <1>5 DEF text

\* The lines of a text stay what they are when it goes on with a line end, and
\* are one more when what was begun behind them is ended.
LEMMA LinesEnd ==
  ASSUME NEW text \in Seq(Bytes), NEW lines, NEW e \in Ends, AreLines(lines, text)
  PROVE  AreLines(lines, Append(text, e))
<1> DEFINE longer == Append(text, e)
<1>1. PICK at \in [DOMAIN lines -> Bounds(text)] :
        /\ \A m, n \in DOMAIN lines : m < n => at[m][1] < at[n][1]
        /\ \A b \in Bounds(text) : \E n \in DOMAIN lines : at[n] = b
        /\ \A n \in DOMAIN lines : lines[n] = SubSeq(text, at[n][1] + 1, at[n][2] - 1)
  BY DEF AreLines
<1>2. Bounds(longer) = Bounds(text)
  BY BoundsEnd
<1>3. ASSUME NEW b \in Bounds(text)
      PROVE  SubSeq(longer, b[1] + 1, b[2] - 1) = SubSeq(text, b[1] + 1, b[2] - 1)
  <2>1. b[1] \in Nat /\ b[2] \in Nat /\ b[1] + 1 < b[2] /\ b[2] <= Len(text) + 1
    BY BoundsType, BoundsDef
  <2> DEFINE i == b[1] + 1
             j == b[2] - 1
  <2>2. i \in 1..Len(text) /\ j \in i..Len(text)
    BY <2>1
  <2> HIDE DEF i, j
  <2>3. SubSeq(longer, i, j) = SubSeq(text, i, j)
    BY <2>2 DEF Bytes
  <2> QED BY <2>3 DEF i, j
<1>4. \A n \in DOMAIN lines : lines[n] = SubSeq(longer, at[n][1] + 1, at[n][2] - 1)
  BY <1>1, <1>3
<1> HIDE DEF longer
<1>5. AreLines(lines, longer)
  BY <1>1, <1>2, <1>4, Zenon DEF AreLines
<1> QED BY <1>5 DEF longer

LEMMA LinesMore ==
  ASSUME NEW front \in Seq(Bytes), NEW last \in Seq(Text), NEW lines \in Seq(Seq(Bytes)),
         Closed(front), last # <<>>, AreLines(lines, front)
  PROVE  AreLines(Append(lines, last), front \o last)
<1> DEFINE text == front \o last
           more == Append(lines, last)
           new == <<Len(front), Len(front) + Len(last) + 1>>
<1>1. PICK at \in [DOMAIN lines -> Bounds(front)] :
        /\ \A m, n \in DOMAIN lines : m < n => at[m][1] < at[n][1]
        /\ \A b \in Bounds(front) : \E n \in DOMAIN lines : at[n] = b
        /\ \A n \in DOMAIN lines : lines[n] = SubSeq(front, at[n][1] + 1, at[n][2] - 1)
  BY DEF AreLines
<1>2. Bounds(text) = Bounds(front) \union {new} /\ \A b \in Bounds(front) : b[1] < Len(front)
  BY BoundsMore
<1>3. /\ DOMAIN lines = 1..Len(lines) /\ DOMAIN more = 1..Len(lines) + 1 /\ Len(lines) \in Nat
      /\ \A n \in 1..Len(lines) : more[n] = lines[n]
      /\ more[Len(lines) + 1] = last
  <2>1. last \in Seq(Bytes)
    BY DEF Bytes
  <2> QED BY <2>1
<1>4. ASSUME NEW b \in Bounds(front)
      PROVE  SubSeq(text, b[1] + 1, b[2] - 1) = SubSeq(front, b[1] + 1, b[2] - 1)
  <2>1. b[1] \in Nat /\ b[2] \in Nat /\ b[1] + 1 < b[2] /\ b[2] <= Len(front) + 1
    BY BoundsType, BoundsDef
  <2> DEFINE i == b[1] + 1
             j == b[2] - 1
  <2>2. i \in 1..Len(front) /\ j \in i..Len(front)
    BY <2>1
  <2> HIDE DEF i, j
  <2>3. last \in Seq(Bytes)
    BY DEF Bytes
  <2>4. SubSeq(text, i, j) = SubSeq(front, i, j)
    BY <2>2, <2>3
  <2> QED BY <2>4 DEF i, j
<1>5. SubSeq(text, new[1] + 1, new[2] - 1) = last
  <2>1. last \in Seq(Bytes)
    BY DEF Bytes
  <2>2. new[1] + 1 = Len(front) + 1 /\ new[2] - 1 = Len(front) + Len(last)
    OBVIOUS
  <2>3. SubSeq(text, Len(front) + 1, Len(front) + Len(last)) = last
    BY <2>1
  <2> QED BY <2>2, <2>3
<1> HIDE DEF text, more, new
<1> DEFINE to == [n \in DOMAIN more |-> IF n = Len(lines) + 1 THEN new ELSE at[n]]
<1>6. to \in [DOMAIN more -> Bounds(text)] /\ to[Len(lines) + 1] = new
      /\ \A n \in 1..Len(lines) : to[n] = at[n]
  BY <1>2, <1>3
<1> HIDE DEF to
<1>7. \A m, n \in DOMAIN more : m < n => to[m][1] < to[n][1]
  <2> SUFFICES ASSUME NEW m \in DOMAIN more, NEW n \in DOMAIN more, m < n PROVE to[m][1] < to[n][1]
    OBVIOUS
  <2>1. m \in DOMAIN lines /\ to[m] = at[m]
    BY <1>3, <1>6
  <2>2. CASE n \in DOMAIN lines
    BY <1>1, <1>3, <1>6, <2>1, <2>2
  <2>3. CASE n = Len(lines) + 1
    <3>1. to[n][1] = Len(front)
      BY <1>6, <2>3 DEF new
    <3> QED BY <1>2, <2>1, <3>1
  <2> QED BY <1>3, <2>2, <2>3
<1>8. \A b \in Bounds(text) : \E n \in DOMAIN more : to[n] = b
  <2> SUFFICES ASSUME NEW b \in Bounds(text) PROVE \E n \in DOMAIN more : to[n] = b
    OBVIOUS
  <2>1. CASE b \in Bounds(front)
    <3>1. PICK n \in DOMAIN lines : at[n] = b
      BY <1>1, <2>1
    <3>2. n \in DOMAIN more /\ to[n] = b
      BY <1>3, <1>6, <3>1
    <3> QED BY <3>2
  <2>2. CASE b = new
    <3>1. Len(lines) + 1 \in DOMAIN more
      BY <1>3
    <3> QED BY <1>6, <2>2, <3>1
  <2> QED BY <1>2, <2>1, <2>2
<1>9. \A n \in DOMAIN more : more[n] = SubSeq(text, to[n][1] + 1, to[n][2] - 1)
  <2> SUFFICES ASSUME NEW n \in DOMAIN more PROVE more[n] = SubSeq(text, to[n][1] + 1, to[n][2] - 1)
    OBVIOUS
  <2>1. CASE n \in DOMAIN lines
    BY <1>1, <1>3, <1>4, <1>6, <2>1
  <2>2. CASE n = Len(lines) + 1
    BY <1>3, <1>5, <1>6, <2>2
  <2> QED BY <1>3, <2>1, <2>2
<1>10. AreLines(more, text)
  BY <1>6, <1>7, <1>8, <1>9, Zenon DEF AreLines
<1> QED BY <1>10 DEF more, text

-----------------------------------------------------------------------------
\* A byte, and then a chunk, fed to a pump.
Begun == [line : Seq(Text), log : Seq(Seq(Bytes))]

LEMMA FeedCuts ==
  ASSUME NEW text \in Seq(Bytes), NEW st \in Begun, NEW b \in Bytes, Cut(text, st.log, st.line)
  PROVE  /\ Feed(st, b) \in Begun
         /\ Cut(Append(text, b), Feed(st, b).log, Feed(st, b).line)
<1>1. PICK front \in Seq(Bytes) :
        front \o st.line = text /\ Closed(front) /\ AreLines(st.log, front)
  BY DEF Cut
<1>2. st.line \in Seq(Text) /\ st.line \in Seq(Bytes) /\ st.log \in Seq(Seq(Bytes))
  BY DEF Begun, Bytes
<1>3. CASE b \notin Ends
  <2>1. b \in Text
    BY <1>3 DEF Bytes
  <2>2. /\ Feed(st, b) \in Begun
        /\ Feed(st, b).log = st.log /\ Feed(st, b).line = Append(st.line, b)
    <3>1. Feed(st, b) = [st EXCEPT !.line = Append(st.line, b)]
      BY <1>3 DEF Feed
    <3>2. Append(st.line, b) \in Seq(Text)
      BY <1>2, <2>1
    <3> QED BY <3>1, <3>2 DEF Begun
  <2>3. front \o Append(st.line, b) = Append(text, b) /\ Append(st.line, b) \in Seq(Text)
    BY <1>1, <1>2, <2>1
  <2> QED BY <1>1, <2>2, <2>3 DEF Cut
<1>4. CASE b \in Ends /\ st.line = <<>>
  <2>1. Feed(st, b) = st
    BY <1>4 DEF Feed
  <2>2. front = text
    BY <1>1, <1>4
  <2>3. Append(text, b) \in Seq(Bytes) /\ Append(text, b) \o <<>> = Append(text, b)
        /\ <<>> \in Seq(Text)
    OBVIOUS
  <2>4. Closed(Append(text, b))
    BY <1>4 DEF Closed
  <2>5. AreLines(st.log, Append(text, b))
    BY <1>1, <1>4, <2>2, LinesEnd
  <2> QED BY <1>4, <2>1, <2>3, <2>4, <2>5 DEF Cut
<1>5. CASE b \in Ends /\ st.line # <<>>
  <2>1. /\ Feed(st, b).log = Append(st.log, st.line) /\ Feed(st, b).line = <<>>
        /\ Feed(st, b) \in Begun
    BY <1>2, <1>5 DEF Feed, Begun
  <2>2. AreLines(Append(st.log, st.line), text)
    BY <1>1, <1>2, <1>5, LinesMore
  <2>3. AreLines(Append(st.log, st.line), Append(text, b))
    BY <1>5, <2>2, LinesEnd
  <2>4. Append(text, b) \in Seq(Bytes) /\ Append(text, b) \o <<>> = Append(text, b)
        /\ <<>> \in Seq(Text)
    OBVIOUS
  <2>5. Closed(Append(text, b))
    BY <1>5 DEF Closed
  <2> QED BY <2>1, <2>3, <2>4, <2>5 DEF Cut
<1> QED BY <1>3, <1>4, <1>5

\* The function that Fed is a value of.
IsFed(g, st, chunk, N) ==
  g = [n \in 0..N |-> IF n = 0 THEN st ELSE Feed(g[n - 1], chunk[n])]

LEMMA FedExists ==
  ASSUME NEW st, NEW chunk, NEW N \in Nat
  PROVE  \E g : IsFed(g, st, chunk, N)
<1> DEFINE T == {n \in Nat : ~\E g : IsFed(g, st, chunk, n)}
<1>1. SUFFICES ASSUME T # {} PROVE FALSE
  OBVIOUS
<1>2. PICK m \in T : \A y \in T : m <= y
  BY Least, <1>1
<1>3. m # 0
  <2>1. IsFed([n \in 0..0 |-> st], st, chunk, 0)
    BY DEF IsFed
  <2> QED BY <2>1
<1>4. m - 1 \in Nat /\ m - 1 \notin T
  BY <1>2, <1>3
<1>5. PICK g : IsFed(g, st, chunk, m - 1)
  BY <1>4
<1> DEFINE h == [n \in 0..m |-> IF n = m THEN Feed(g[m - 1], chunk[m]) ELSE g[n]]
<1>6. IsFed(h, st, chunk, m)
  <2>1. ASSUME NEW n \in 0..m
        PROVE  h[n] = IF n = 0 THEN st ELSE Feed(h[n - 1], chunk[n])
    <3>1. CASE n = m
      <4>1. h[n] = Feed(g[m - 1], chunk[m]) /\ h[n - 1] = g[m - 1]
        BY <3>1, <1>3
      <4> QED BY <4>1, <3>1, <1>3
    <3>2. CASE n # m /\ n = 0
      <4>1. g[0] = st
        BY <1>5, <1>4 DEF IsFed
      <4> QED BY <4>1, <3>2
    <3>3. CASE n # m /\ n # 0
      <4>1. n \in 0..(m - 1) /\ n - 1 \in 0..m /\ n - 1 # m
        BY <3>3, <1>4
      <4>2. g[n] = Feed(g[n - 1], chunk[n])
        BY <1>5, <4>1, <3>3 DEF IsFed
      <4> QED BY <4>1, <4>2, <3>3
    <3> QED BY <3>1, <3>2, <3>3
  <2>2. h = [n \in 0..m |-> h[n]]
    OBVIOUS
  <2> QED BY <2>1, <2>2, Zenon DEF IsFed
<1> QED BY <1>6

LEMMA ConcatTwice ==
  ASSUME NEW a \in Seq(Bytes), NEW b \in Seq(Bytes), NEW c \in Seq(Bytes)
  PROVE  (a \o b) \o c = a \o (b \o c)
BY ConcatAssociative

LEMMA AppendBehind ==
  ASSUME NEW a \in Seq(Bytes), NEW b \in Seq(Bytes), NEW e \in Bytes
  PROVE  Append(a \o b, e) = a \o Append(b, e)
<1> DEFINE x == Append(a \o b, e)
           y == a \o Append(b, e)
<1>1. x \in Seq(Bytes) /\ Len(x) = Len(a) + Len(b) + 1
  OBVIOUS
<1>2. y \in Seq(Bytes) /\ Len(y) = Len(a) + Len(b) + 1
  OBVIOUS
<1>3. ASSUME NEW i \in 1..Len(a) + Len(b) + 1 PROVE x[i] = y[i]
  <2>1. CASE i <= Len(a)
    BY <2>1
  <2>2. CASE i > Len(a) /\ i <= Len(a) + Len(b)
    BY <2>2
  <2>3. CASE i = Len(a) + Len(b) + 1
    BY <2>3
  <2> QED BY <2>1, <2>2, <2>3
<1> HIDE DEF x, y
<1>4. x = y
  BY <1>1, <1>2, <1>3
<1> QED BY <1>4 DEF x, y

LEMMA FedCuts ==
  ASSUME NEW text \in Seq(Bytes), NEW s, NEW chunk \in Seq(Bytes),
         line[s] \in Seq(Text), log[s] \in Seq(Seq(Bytes)), Cut(text, log[s], line[s])
  PROVE  /\ Fed(s, chunk) \in Begun
         /\ Cut(text \o chunk, Fed(s, chunk).log, Fed(s, chunk).line)
<1> DEFINE st == [line |-> line[s], log |-> log[s]]
           g == CHOOSE f : IsFed(f, st, chunk, Len(chunk))
<1>1. st \in Begun /\ Cut(text, st.log, st.line) /\ Len(chunk) \in Nat
  BY DEF Begun
<1>2. Fed(s, chunk) = g[Len(chunk)]
  BY Zenon DEF Fed, IsFed
<1>3. IsFed(g, st, chunk, Len(chunk))
  <2>1. \E f : IsFed(f, st, chunk, Len(chunk))
    BY <1>1, FedExists
  <2> QED BY <2>1, Zenon
<1> HIDE DEF g, st
<1>4. g[0] = st /\ \A n \in 1..Len(chunk) : g[n] = Feed(g[n - 1], chunk[n])
  <2>1. \A n \in 0..Len(chunk) : g[n] = IF n = 0 THEN st ELSE Feed(g[n - 1], chunk[n])
    BY <1>3, Zenon DEF IsFed
  <2>2. 0 \in 0..Len(chunk) /\ \A n \in 1..Len(chunk) : n \in 0..Len(chunk) /\ n # 0
    BY <1>1
  <2> QED BY <2>1, <2>2, Zenon
<1> DEFINE Good(n) == g[n] \in Begun /\ Cut(text \o SubSeq(chunk, 1, n), g[n].log, g[n].line)
           T == {n \in 0..Len(chunk) : ~Good(n)}
<1>5. T = {}
  <2>1. SUFFICES ASSUME T # {} PROVE FALSE
    OBVIOUS
  <2>2. PICK m \in T : \A y \in T : m <= y
    <3>1. T \in SUBSET Nat
      OBVIOUS
    <3> HIDE DEF T
    <3> QED BY <2>1, <3>1, Least
  <2>3. m # 0
    <3>1. text \o SubSeq(chunk, 1, 0) = text
      OBVIOUS
    <3>2. Good(0)
      BY <1>1, <1>4, <3>1
    <3> QED BY <3>2
  <2>4. m \in 1..Len(chunk) /\ m - 1 \in 0..Len(chunk) /\ m - 1 \notin T
    BY <2>2, <2>3
  <2>5. Good(m - 1)
    BY <2>4
  <2>6. chunk[m] \in Bytes
    BY <2>4
  <2> DEFINE sofar == text \o SubSeq(chunk, 1, m - 1)
  <2>7. sofar \in Seq(Bytes)
    BY <2>4
  <2>8. Append(sofar, chunk[m]) = text \o SubSeq(chunk, 1, m)
    <3> DEFINE a == SubSeq(chunk, 1, m - 1)
    <3>1. a \in Seq(Bytes) /\ Append(a, chunk[m]) = SubSeq(chunk, 1, m)
      BY <2>4
    <3> HIDE DEF a
    <3>2. Append(text \o a, chunk[m]) = text \o Append(a, chunk[m])
      BY <2>6, <3>1, AppendBehind
    <3> QED BY <3>1, <3>2 DEF a
  <2>9. g[m] = Feed(g[m - 1], chunk[m])
    BY <1>4, <2>4
  <2> HIDE DEF sofar
  <2>10. g[m - 1] \in Begun /\ Cut(sofar, g[m - 1].log, g[m - 1].line)
    BY <2>5 DEF sofar
  <2>11. /\ Feed(g[m - 1], chunk[m]) \in Begun
         /\ Cut(Append(sofar, chunk[m]), Feed(g[m - 1], chunk[m]).log, Feed(g[m - 1], chunk[m]).line)
    BY <2>6, <2>7, <2>10, FeedCuts
  <2>12. Good(m)
    BY <2>8, <2>9, <2>11
  <2> QED BY <2>12
<1>6. Good(Len(chunk))
  BY <1>1, <1>5
<1>7. text \o SubSeq(chunk, 1, Len(chunk)) = text \o chunk
  OBVIOUS
<1> QED BY <1>2, <1>6, <1>7

-----------------------------------------------------------------------------
\* The invariant: of what the command has written, the pump has sent the lines
\* that were ended, and holds the one begun; the rest is in the pipe.
Handled(all, waiting, lines, last) ==
  \E text \in Seq(Bytes) : text \o waiting = all /\ Cut(text, lines, last)

PumpTypes ==
  /\ todo \in Seq(Streams \X Bytes)
  /\ pipe \in [Streams -> Seq(Bytes)] /\ written \in [Streams -> Seq(Bytes)]
  /\ line \in [Streams -> Seq(Text)] /\ log \in [Streams -> Seq(Seq(Bytes))]
  /\ pump \in [Streams -> {"reading", "done"}]

InHand(s) ==
  IF pump[s] = "reading" THEN Handled(written[s], pipe[s], log[s], line[s])
  ELSE AreLines(log[s], written[s]) /\ child # "running"

PumpsInv ==
  /\ PumpTypes
  /\ \A s \in Streams \ broken : InHand(s)
  /\ \A s \in broken : pump[s] = "done"
  /\ event # "none" => \A s \in Streams : pump[s] = "done"

LEMMA PumpsStart == PumpsInit => PumpsInv
<1> SUFFICES ASSUME PumpsInit PROVE PumpsInv
  OBVIOUS
<1>1. PumpTypes
  BY ScriptsAssumption DEF PumpTypes, PumpsInit
<1>2. AreLines(<<>>, <<>>)
  <2>1. Bounds(<<>>) = {}
    BY DEF Bounds
  <2>2. DOMAIN <<>> = {}
    OBVIOUS
  <2>3. [x \in {} |-> x] \in [{} -> {}]
    OBVIOUS
  <2> QED BY <2>1, <2>2, <2>3, Zenon DEF AreLines
<1>3. Cut(<<>>, <<>>, <<>>)
  <2>1. <<>> \o <<>> = <<>> /\ <<>> \in Seq(Bytes) /\ <<>> \in Seq(Text)
    OBVIOUS
  <2> QED BY <1>2, <2>1, Zenon DEF Cut, Closed
<1>4. Handled(<<>>, <<>>, <<>>, <<>>)
  <2>1. <<>> \o <<>> = <<>> /\ <<>> \in Seq(Bytes)
    OBVIOUS
  <2> QED BY <1>3, <2>1, Zenon DEF Handled
<1>5. ASSUME NEW s \in Streams PROVE InHand(s)
  <2>1. written[s] = <<>> /\ pipe[s] = <<>> /\ log[s] = <<>> /\ line[s] = <<>> /\ pump[s] = "reading"
    BY DEF PumpsInit
  <2> QED BY <1>4, <2>1 DEF InHand
<1>6. event = "none" /\ broken = {}
  BY DEF PumpsInit
<1> QED BY <1>1, <1>5, <1>6 DEF PumpsInv

\* The command writes a byte.
LEMMA HandledMore ==
  ASSUME NEW all \in Seq(Bytes), NEW waiting \in Seq(Bytes), NEW lines, NEW last, NEW b \in Bytes,
         Handled(all, waiting, lines, last)
  PROVE  Handled(Append(all, b), Append(waiting, b), lines, last)
<1>1. PICK text \in Seq(Bytes) : text \o waiting = all /\ Cut(text, lines, last)
  BY DEF Handled
<1>2. text \o Append(waiting, b) = Append(all, b)
  BY <1>1, AppendBehind
<1> QED BY <1>1, <1>2, Zenon DEF Handled

LEMMA WriteKeeps ==
  ASSUME PumpsInv, Write
  PROVE  PumpsInv'
<1>1. PumpTypes /\ todo # <<>> /\ child = "running"
  BY DEF PumpsInv, Write
<1>2. PICK s \in Streams, b \in Bytes : s = Head(todo)[1] /\ b = Head(todo)[2]
  <2>1. Head(todo) \in Streams \X Bytes
    BY <1>1 DEF PumpTypes
  <2> QED BY <2>1
<1>3. /\ pump[s] = "reading"
      /\ pipe' = [pipe EXCEPT ![s] = Append(@, b)]
      /\ written' = [written EXCEPT ![s] = Append(@, b)]
      /\ todo' = Tail(todo) /\ UNCHANGED <<child, pump, line, log, event, broken>>
  BY <1>2 DEF Write
<1>4. pipe[s] \in Seq(Bytes) /\ written[s] \in Seq(Bytes)
  BY <1>1, <1>2 DEF PumpTypes
<1>5. /\ pipe'[s] = Append(pipe[s], b) /\ written'[s] = Append(written[s], b)
      /\ \A r \in Streams \ {s} : pipe'[r] = pipe[r] /\ written'[r] = written[r]
  BY <1>1, <1>2, <1>3 DEF PumpTypes
<1>6. PumpTypes'
  <2>1. Append(pipe[s], b) \in Seq(Bytes) /\ Append(written[s], b) \in Seq(Bytes)
    BY <1>2, <1>4
  <2>2. pipe' \in [Streams -> Seq(Bytes)] /\ written' \in [Streams -> Seq(Bytes)]
    BY <1>1, <1>2, <1>3, <2>1 DEF PumpTypes
  <2>3. Tail(todo) \in Seq(Streams \X Bytes)
    BY <1>1 DEF PumpTypes
  <2> QED BY <1>1, <1>3, <2>2, <2>3 DEF PumpTypes
<1>7. ASSUME NEW r \in Streams \ broken PROVE InHand(r)'
  <2>1. InHand(r)
    BY DEF PumpsInv
  <2>2. CASE r = s
    <3>1. Handled(written[s], pipe[s], log[s], line[s])
      BY <1>3, <2>1, <2>2 DEF InHand
    <3>2. Handled(Append(written[s], b), Append(pipe[s], b), log[s], line[s])
      BY <1>4, <3>1, HandledMore
    <3> QED BY <1>3, <1>5, <2>2, <3>2 DEF InHand
  <2>3. CASE r # s
    BY <1>3, <1>5, <2>1, <2>3 DEF InHand
  <2> QED BY <2>2, <2>3
<1> QED BY <1>3, <1>6, <1>7 DEF PumpsInv

\* A pump reads a chunk.
LEMMA ReadKeeps ==
  ASSUME PumpsInv, NEW s \in Streams, PumpRead(s)
  PROVE  PumpsInv'
<1>1. PumpTypes /\ pump[s] = "reading"
  BY DEF PumpsInv, PumpRead
<1>2. PICK n \in 1..Chunk :
        /\ n <= Len(pipe[s])
        /\ pipe' = [pipe EXCEPT ![s] = SubSeq(@, n + 1, Len(@))]
        /\ line' = [line EXCEPT ![s] = Fed(s, SubSeq(pipe[s], 1, n)).line]
        /\ log' = [log EXCEPT ![s] = Fed(s, SubSeq(pipe[s], 1, n)).log]
  BY DEF PumpRead
<1>3. UNCHANGED <<todo, child, written, pump, event, broken>>
  BY DEF PumpRead
<1> DEFINE chunk == SubSeq(pipe[s], 1, n)
           waiting == SubSeq(pipe[s], n + 1, Len(pipe[s]))
           fed == Fed(s, chunk)
<1>4. pipe[s] \in Seq(Bytes) /\ line[s] \in Seq(Text) /\ log[s] \in Seq(Seq(Bytes))
  BY <1>1 DEF PumpTypes
<1>5. chunk \in Seq(Bytes) /\ waiting \in Seq(Bytes) /\ chunk \o waiting = pipe[s]
  BY <1>2, <1>4, BoundsAssumption
<1>6. /\ pipe'[s] = waiting /\ line'[s] = fed.line /\ log'[s] = fed.log
      /\ \A r \in Streams \ {s} : pipe'[r] = pipe[r] /\ line'[r] = line[r] /\ log'[r] = log[r]
  BY <1>1, <1>2 DEF PumpTypes
<1> HIDE DEF chunk, waiting, fed
<1>7. s \notin broken /\ Handled(written[s], pipe[s], log[s], line[s])
  BY <1>1 DEF PumpsInv, InHand
<1>8. PICK text \in Seq(Bytes) : text \o pipe[s] = written[s] /\ Cut(text, log[s], line[s])
  BY <1>7 DEF Handled
<1>9. fed \in Begun /\ Cut(text \o chunk, fed.log, fed.line)
  BY <1>4, <1>5, <1>8, FedCuts DEF fed
<1>10. text \o chunk \in Seq(Bytes) /\ (text \o chunk) \o waiting = written[s]
  <2>1. (text \o chunk) \o waiting = text \o (chunk \o waiting)
    BY <1>5, <1>8, ConcatTwice
  <2> QED BY <1>5, <1>8, <2>1
<1>11. Handled(written[s], waiting, fed.log, fed.line)
  BY <1>9, <1>10, Zenon DEF Handled
<1>12. \A r \in Streams \ broken : InHand(r)'
  BY <1>1, <1>3, <1>6, <1>11 DEF PumpsInv, InHand
<1>13. fed.line \in Seq(Text) /\ fed.log \in Seq(Seq(Bytes))
  BY <1>9 DEF Begun
<1>14. PumpTypes'
  <2>1. pipe' = [pipe EXCEPT ![s] = waiting] /\ line' = [line EXCEPT ![s] = fed.line]
        /\ log' = [log EXCEPT ![s] = fed.log]
    BY <1>2 DEF waiting, fed, chunk
  <2>2. /\ pipe' \in [Streams -> Seq(Bytes)] /\ line' \in [Streams -> Seq(Text)]
        /\ log' \in [Streams -> Seq(Seq(Bytes))]
    BY <1>1, <1>5, <1>13, <2>1 DEF PumpTypes
  <2> QED BY <1>1, <1>3, <2>2 DEF PumpTypes
<1> QED BY <1>3, <1>12, <1>14 DEF PumpsInv

\* A pump comes to the end of its pipe, or a read of it fails.
LEMMA LastLineTypes ==
  ASSUME PumpTypes, NEW s \in Streams, LastLine(s)
  PROVE  /\ line' \in [Streams -> Seq(Text)] /\ log' \in [Streams -> Seq(Seq(Bytes))]
         /\ pump' \in [Streams -> {"reading", "done"}]
         /\ pump'[s] = "done"
         /\ log'[s] = IF line[s] = <<>> THEN log[s] ELSE Append(log[s], line[s])
         /\ \A r \in Streams \ {s} :
              line'[r] = line[r] /\ log'[r] = log[r] /\ pump'[r] = pump[r]
<1>1. line[s] \in Seq(Text) /\ log[s] \in Seq(Seq(Bytes))
  BY DEF PumpTypes
<1>2. line[s] \in Seq(Bytes)
  BY <1>1 DEF Bytes
<1>3. Append(log[s], line[s]) \in Seq(Seq(Bytes)) /\ <<>> \in Seq(Text)
  BY <1>1, <1>2
<1>4. line' \in [Streams -> Seq(Text)] /\ pump' \in [Streams -> {"reading", "done"}]
  BY <1>3 DEF LastLine, PumpTypes
<1> DEFINE new == IF line[s] = <<>> THEN log[s] ELSE Append(log[s], line[s])
<1>5. new \in Seq(Seq(Bytes)) /\ log' = [log EXCEPT ![s] = new]
  BY <1>1, <1>3 DEF LastLine
<1> HIDE DEF new
<1>6. log' \in [Streams -> Seq(Seq(Bytes))] /\ log'[s] = new
      /\ \A r \in Streams \ {s} : log'[r] = log[r]
  BY <1>5 DEF PumpTypes
<1>7. pump'[s] = "done" /\ \A r \in Streams \ {s} : line'[r] = line[r] /\ pump'[r] = pump[r]
  BY DEF LastLine, PumpTypes
<1> QED BY <1>4, <1>6, <1>7 DEF new

LEMMA EndKeeps ==
  ASSUME PumpsInv, NEW s \in Streams, PumpEnd(s)
  PROVE  PumpsInv'
<1>1. PumpTypes /\ pump[s] = "reading" /\ pipe[s] = <<>> /\ child # "running" /\ LastLine(s)
  BY DEF PumpsInv, PumpEnd
<1>2. UNCHANGED <<todo, child, written, event, pipe, broken>>
  BY DEF PumpEnd, LastLine
<1>3. /\ pump'[s] = "done" /\ PumpTypes'
      /\ log'[s] = IF line[s] = <<>> THEN log[s] ELSE Append(log[s], line[s])
      /\ \A r \in Streams \ {s} : line'[r] = line[r] /\ log'[r] = log[r] /\ pump'[r] = pump[r]
  BY <1>1, <1>2, LastLineTypes DEF PumpTypes
<1>4. s \notin broken /\ Handled(written[s], pipe[s], log[s], line[s])
  BY <1>1 DEF PumpsInv, InHand
<1>5. PICK text \in Seq(Bytes) : text \o pipe[s] = written[s] /\ Cut(text, log[s], line[s])
  BY <1>4 DEF Handled
<1>6. text = written[s]
  BY <1>1, <1>5
<1>7. PICK front \in Seq(Bytes) :
        /\ front \o line[s] = text /\ Closed(front) /\ line[s] \in Seq(Text)
        /\ AreLines(log[s], front)
  BY <1>5 DEF Cut
<1>8. AreLines(log'[s], written[s])
  <2>1. CASE line[s] = <<>>
    <3>1. front = text
      BY <1>7, <2>1
    <3> QED BY <1>3, <1>6, <1>7, <2>1, <3>1
  <2>2. CASE line[s] # <<>>
    <3>1. log[s] \in Seq(Seq(Bytes))
      BY <1>1 DEF PumpTypes
    <3>2. AreLines(Append(log[s], line[s]), front \o line[s])
      BY <1>7, <2>2, <3>1, LinesMore
    <3> QED BY <1>3, <1>6, <1>7, <2>2, <3>2
  <2> QED BY <2>1, <2>2
<1>9. ASSUME NEW r \in Streams \ broken PROVE InHand(r)'
  <2>1. CASE r = s
    BY <1>1, <1>2, <1>3, <1>8, <2>1 DEF InHand
  <2>2. CASE r # s
    <3>1. InHand(r)
      BY DEF PumpsInv
    <3> QED BY <1>2, <1>3, <2>2, <3>1 DEF InHand
  <2> QED BY <2>1, <2>2
<1>10. \A r \in broken : pump'[r] = "done"
  BY <1>1, <1>3, <1>4 DEF PumpsInv, LastLine, PumpTypes
<1>11. event # "none" => \A r \in Streams : pump'[r] = "done"
  BY <1>3 DEF PumpsInv
<1> QED BY <1>2, <1>3, <1>9, <1>10, <1>11 DEF PumpsInv

LEMMA FailKeeps ==
  ASSUME PumpsInv, NEW s \in Streams, PumpFails(s)
  PROVE  PumpsInv'
<1>1. /\ PumpTypes /\ pump[s] = "reading" /\ LastLine(s)
      /\ pipe' = [pipe EXCEPT ![s] = <<>>] /\ broken' = broken \union {s}
  BY DEF PumpsInv, PumpFails
<1>2. UNCHANGED <<todo, child, written, event>>
  BY <1>1 DEF LastLine
<1>3. /\ line' \in [Streams -> Seq(Text)] /\ log' \in [Streams -> Seq(Seq(Bytes))]
      /\ pump' \in [Streams -> {"reading", "done"}] /\ pump'[s] = "done"
      /\ \A r \in Streams \ {s} : line'[r] = line[r] /\ log'[r] = log[r] /\ pump'[r] = pump[r]
  BY <1>1, LastLineTypes
<1>4. pipe' \in [Streams -> Seq(Bytes)] /\ \A r \in Streams \ {s} : pipe'[r] = pipe[r]
  BY <1>1 DEF PumpTypes
<1>5. PumpTypes'
  BY <1>1, <1>2, <1>3, <1>4 DEF PumpTypes
<1>6. ASSUME NEW r \in Streams \ broken' PROVE InHand(r)'
  <2>1. r # s /\ r \notin broken /\ InHand(r)
    BY <1>1 DEF PumpsInv
  <2> QED BY <1>2, <1>3, <1>4, <2>1 DEF InHand
<1>7. \A r \in broken' : pump'[r] = "done"
  BY <1>1, <1>3 DEF PumpsInv, LastLine, PumpTypes
<1>8. event # "none" => \A r \in Streams : pump'[r] = "done"
  BY <1>3 DEF PumpsInv
<1> QED BY <1>2, <1>5, <1>6, <1>7, <1>8 DEF PumpsInv

\* The command goes on or ends, the thread sends its event, or nothing happens.
LEMMA RestKeeps ==
  ASSUME PumpsInv, WriteToNobody \/ ChildExits \/ Die \/ Finish \/ UNCHANGED pumpsVars
  PROVE  PumpsInv'
<1>1. /\ UNCHANGED <<todo, pipe, written, pump, line, log, broken>>
      /\ child # "running" => child' # "running"
      /\ event' # "none" => event # "none" \/ \A s \in Streams : pump[s] = "done"
  BY DEF WriteToNobody, ChildExits, Die, Finish, pumpsVars
<1> QED BY <1>1 DEF PumpsInv, PumpTypes, InHand

\* When the event that ends a write is sent, every line the command has written
\* is on the page's log, for every text, every size of the pipes and of the
\* reads, and whatever order command and pumps run in.
THEOREM AllLinesAreForwarded == PumpsSpec => []AllForwarded
<1>1. PumpsInv /\ [PumpsNext]_pumpsVars => PumpsInv'
  BY WriteKeeps, ReadKeeps, EndKeeps, FailKeeps, RestKeeps DEF PumpsNext, Command, PumpStep
<1>2. PumpsInv => AllForwarded
  BY DEF PumpsInv, InHand, AllForwarded
<1>3. PumpsSpec => []PumpsInv
  BY PumpsStart, <1>1, PTL DEF PumpsSpec
<1> QED BY <1>2, <1>3, PTL
=============================================================================
