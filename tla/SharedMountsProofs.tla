------------------------- MODULE SharedMountsProofs -------------------------
(***************************************************************************)
(* Theorems about SharedMounts, for any number of users with any ISOs and  *)
(* any number of invocations, overlapping in any way: what its run checks  *)
(* for two.  The invariant balances each shared mount point against the    *)
(* runs that have mounted there and not yet unmounted, and says of a run   *)
(* that is alone that the mounts on top are its own.                       *)
(***************************************************************************)
EXTENDS SharedMounts, FiniteSetTheorems, SequenceTheorems, TLAPS

\* The steps at which a run counts as having something mounted.
InspectSteps == {"inspectRead", "inspectUmount"}
ProbeSteps   == {"ntfsMake", "ntfsMkfs", "ntfsMount", "ntfsYes", "ntfsNo", "refuse"}
WriteSteps   == {"partition", "mountUsb", "list", "copy", "cleanup", "cleanupIso"}
IsoSteps     == {"probe"} \union ProbeSteps \union WriteSteps
UsbSteps     == {"list", "copy", "cleanup"}
Steps        == {"idle", "inspectMount", "mountIso"} \union InspectSteps \union IsoSteps

\* The runs whose step, in p, is one of S, and how many they are.
At(p, S)    == {q \in Runs : p[q] \in S}
Count(p, S) == Cardinality(At(p, S))

\* Unless a umount has failed, no more is mounted anywhere than the runs that
\* are between their mount and their umount can account for.
Balanced ==
  ~umountFailed => /\ Len(inspectStack) <= Count(pc, InspectSteps)
                   /\ Len(isoStack) <= Count(pc, IsoSteps)
                   /\ Len(usbStack) <= Count(pc, UsbSteps)
                   /\ probeMounts <= Count(pc, {"ntfsYes"})

\* A drive just partitioned is mounted nowhere.
UsbApart == \A r \in Runs : pc[r] = "mountUsb" => \A i \in DOMAIN usbStack : usbStack[i] # r

\* A run has no result before its last steps, and starts with nothing settled.
ResultOK ==
  \A r \in Runs : /\ pc[r] \notin {"cleanup", "cleanupIso"} => result[r] = "none"
                  /\ ~Active(r) => layout[r] = "none"

\* What is mounted on top, and what has been copied, for a run that is alone.
AloneHolds(r) ==
  /\ \A s \in Runs \ {r} : ~Active(s)
  /\ pc[r] \in InspectSteps => inspectStack # <<>> /\ Head(inspectStack) = r
  /\ pc[r] \in IsoSteps => isoStack # <<>> /\ Head(isoStack) = r
  /\ layout[r] \in {"none", LayoutFor(r)}
  /\ pc[r] \in ProbeSteps \union WriteSteps => layout[r] = LayoutFor(r)
  /\ pc[r] \in {"list", "copy"} => usbStack # <<>> /\ Head(usbStack) = r
  /\ pc[r] \in {"mountUsb", "list"} => content[r] = {}
  /\ pc[r] = "copy" => /\ todo[r] \subseteq IsoFiles[r]
                       /\ content[r] = {r} \X (IsoFiles[r] \ todo[r])
  /\ result[r] = "ok" => content[r] = {r} \X IsoFiles[r]

AloneOK == \A r \in Runs : Active(r) /\ alone[r] => AloneHolds(r)

IInv == TypeOK /\ Balanced /\ UsbApart /\ ResultOK /\ AloneOK

-----------------------------------------------------------------------------
\* What the stacks do.

LEMMA PushIsSeq ==
  ASSUME NEW S, NEW s \in Seq(S), NEW x \in S
  PROVE  /\ <<x>> \o s \in Seq(S) /\ Len(<<x>> \o s) = Len(s) + 1
         /\ <<x>> \o s # <<>> /\ Head(<<x>> \o s) = x
         /\ \A i \in 1..Len(s) + 1 : (<<x>> \o s)[i] = IF i = 1 THEN x ELSE s[i - 1]
  OBVIOUS

LEMMA TailIsSeq ==
  ASSUME NEW S, NEW s \in Seq(S), s # <<>>
  PROVE  /\ Tail(s) \in Seq(S) /\ Len(Tail(s)) = Len(s) - 1
         /\ \A i \in 1..Len(s) - 1 : Tail(s)[i] = s[i + 1]
  OBVIOUS

LEMMA RemovedIsSeq ==
  ASSUME NEW S, NEW s \in Seq(S), NEW i \in 1..Len(s)
  PROVE  /\ RemoveAt(s, i) \in Seq(S) /\ Len(RemoveAt(s, i)) = Len(s) - 1
         /\ \A j \in 1..Len(s) - 1 : RemoveAt(s, i)[j] = IF j < i THEN s[j] ELSE s[j + 1]
<1> DEFINE front == SubSeq(s, 1, i - 1)
           back  == SubSeq(s, i + 1, Len(s))
<1>1. /\ front \in Seq(S) /\ Len(front) = i - 1
      /\ \A j \in 1..i - 1 : front[j] = s[j]
  BY SubSeqProperties
<1>2. /\ back \in Seq(S) /\ Len(back) = Len(s) - i
      /\ \A j \in 1..Len(s) - i : back[j] = s[i + j]
  BY SubSeqProperties
<1>3. RemoveAt(s, i) = front \o back
  BY DEF RemoveAt
<1> HIDE DEF front, back
<1>4. /\ front \o back \in Seq(S) /\ Len(front \o back) = Len(front) + Len(back)
      /\ \A j \in 1..Len(front) + Len(back) :
           (front \o back)[j] = IF j <= Len(front) THEN front[j] ELSE back[j - Len(front)]
  BY <1>1, <1>2, ConcatProperties
<1>5. Len(front) + Len(back) = Len(s) - 1
  BY <1>1, <1>2
<1>6. ASSUME NEW j \in 1..Len(s) - 1
      PROVE  (front \o back)[j] = IF j < i THEN s[j] ELSE s[j + 1]
  <2>1. CASE j < i
    BY <1>1, <1>4, <1>5, <2>1
  <2>2. CASE ~(j < i)
    <3>1. j - Len(front) \in 1..Len(s) - i /\ i + (j - Len(front)) = j + 1
      BY <1>1, <2>2
    <3>2. back[j - Len(front)] = s[j + 1]
      BY <1>2, <3>1
    <3> QED
      BY <1>1, <1>4, <1>5, <2>2, <3>2
  <2> QED
    BY <2>1, <2>2
<1> QED
  BY <1>3, <1>4, <1>5, <1>6

In(step, S) == IF step \in S THEN 1 ELSE 0

\* A run that goes from one step to another leaves one count and enters another.
LEMMA Moves ==
  ASSUME NEW p, DOMAIN p = Runs, NEW r \in Runs, NEW x, NEW S
  PROVE  /\ Count(p, S) \in Nat
         /\ Count([p EXCEPT ![r] = x], S) = Count(p, S) + In(x, S) - In(p[r], S)
<1> DEFINE q == [p EXCEPT ![r] = x]
<1>1. IsFiniteSet(At(p, S))
  BY RunsAssumption, FS_Subset DEF At
<1>2. Count(p, S) \in Nat
  BY <1>1, FS_CardinalityType DEF Count
<1>3. At(q, S) = IF x \in S THEN At(p, S) \union {r} ELSE At(p, S) \ {r}
  BY DEF At
<1>4. Cardinality(At(p, S) \union {r}) = IF r \in At(p, S) THEN Count(p, S) ELSE Count(p, S) + 1
  BY <1>1, FS_AddElement DEF Count
<1>5. Cardinality(At(p, S) \ {r}) = IF r \in At(p, S) THEN Count(p, S) - 1 ELSE Count(p, S)
  BY <1>1, FS_RemoveElement DEF Count
<1>6. r \in At(p, S) <=> p[r] \in S
  BY DEF At
<1>7. Count(q, S) = Cardinality(At(q, S))
  BY DEF Count
<1> HIDE DEF q
<1>8. Count(q, S) = Count(p, S) + In(x, S) - In(p[r], S)
  <2>1. CASE x \in S
    BY <2>1, <1>2, <1>3, <1>4, <1>6, <1>7 DEF In
  <2>2. CASE x \notin S
    BY <2>2, <1>2, <1>3, <1>5, <1>6, <1>7 DEF In
  <2> QED
    BY <2>1, <2>2
<1> QED
  BY <1>2, <1>8 DEF q

-----------------------------------------------------------------------------
\* Types.

Apart(s) == \A i, j \in DOMAIN s : s[i] = s[j] => i = j

\* What a step may make of a stack of mounts without mounting: leave it, or
\* take one mount off, the last or that of the own drive.
Less(s, t, r) ==
  \/ t = s
  \/ s # <<>> /\ t = Tail(s)
  \/ \E i \in DOMAIN s : s[i] = r /\ t = RemoveAt(s, i)

LEMMA LessIsSeq ==
  ASSUME NEW s \in Seq(Runs), NEW t, NEW r, Less(s, t, r)
  PROVE  /\ t \in Seq(Runs) /\ Len(t) <= Len(s)
         /\ Apart(s) => Apart(t)
         /\ \A i \in DOMAIN t : \E j \in DOMAIN s : t[i] = s[j]
<1>1. CASE t = s
  BY <1>1
<1>2. CASE s # <<>> /\ t = Tail(s)
  <2>1. /\ t \in Seq(Runs) /\ Len(t) = Len(s) - 1
        /\ \A i \in 1..Len(s) - 1 : t[i] = s[i + 1]
    BY <1>2, TailIsSeq
  <2>2. DOMAIN t = 1..Len(s) - 1 /\ DOMAIN s = 1..Len(s) /\ Len(s) \in Nat
    BY <2>1
  <2>3. ASSUME Apart(s), NEW i \in DOMAIN t, NEW j \in DOMAIN t, t[i] = t[j]
        PROVE  i = j
    <3>1. s[i + 1] = s[j + 1] /\ i + 1 \in DOMAIN s /\ j + 1 \in DOMAIN s
      BY <2>1, <2>2, <2>3
    <3> QED
      BY <2>2, <2>3, <3>1 DEF Apart
  <2>4. ASSUME NEW i \in DOMAIN t PROVE \E j \in DOMAIN s : t[i] = s[j]
    <3>1. t[i] = s[i + 1] /\ i + 1 \in DOMAIN s
      BY <2>1, <2>2
    <3> QED
      BY <3>1
  <2> QED
    BY <2>1, <2>2, <2>3, <2>4 DEF Apart
<1>3. CASE \E i \in DOMAIN s : s[i] = r /\ t = RemoveAt(s, i)
  <2>1. PICK k \in 1..Len(s) : s[k] = r /\ t = RemoveAt(s, k)
    BY <1>3
  <2>2. /\ t \in Seq(Runs) /\ Len(t) = Len(s) - 1
        /\ \A j \in 1..Len(s) - 1 : t[j] = IF j < k THEN s[j] ELSE s[j + 1]
    BY <2>1, RemovedIsSeq
  <2>3. DOMAIN t = 1..Len(s) - 1 /\ DOMAIN s = 1..Len(s) /\ Len(s) \in Nat
    BY <2>2
  <2> DEFINE at(j) == IF j < k THEN j ELSE j + 1
  <2>4. ASSUME NEW j \in DOMAIN t PROVE at(j) \in DOMAIN s /\ t[j] = s[at(j)]
    <3>1. CASE j < k
      BY <2>2, <2>3, <3>1
    <3>2. CASE ~(j < k)
      BY <2>2, <2>3, <3>2
    <3> QED
      BY <3>1, <3>2
  <2>5. ASSUME NEW i \in DOMAIN t, NEW j \in DOMAIN t, at(i) = at(j) PROVE i = j
    BY <2>3, <2>5
  <2> HIDE DEF at
  <2>6. ASSUME Apart(s), NEW i \in DOMAIN t, NEW j \in DOMAIN t, t[i] = t[j]
        PROVE  i = j
    <3>1. s[at(i)] = s[at(j)] /\ at(i) \in DOMAIN s /\ at(j) \in DOMAIN s
      BY <2>4, <2>6
    <3>2. at(i) = at(j)
      BY <2>6, <3>1 DEF Apart
    <3> QED
      BY <2>5, <3>2
  <2> QED
    BY <2>2, <2>3, <2>4, <2>6 DEF Apart
<1> QED
  BY <1>1, <1>2, <1>3 DEF Less

\* A run that mounts its drive where it is not mounted keeps the drives apart.
LEMMA PushApart ==
  ASSUME NEW s \in Seq(Runs), NEW r \in Runs, Apart(s), \A i \in DOMAIN s : s[i] # r
  PROVE  Apart(<<r>> \o s)
<1> DEFINE t == <<r>> \o s
<1>1. /\ Len(t) = Len(s) + 1 /\ t \in Seq(Runs)
      /\ \A i \in 1..Len(s) + 1 : t[i] = IF i = 1 THEN r ELSE s[i - 1]
  BY PushIsSeq
<1>2. DOMAIN t = 1..Len(s) + 1 /\ DOMAIN s = 1..Len(s) /\ Len(s) \in Nat
  BY <1>1
<1> HIDE DEF t
<1>3. ASSUME NEW i \in DOMAIN t, NEW j \in DOMAIN t, t[i] = t[j] PROVE i = j
  <2>1. CASE i = 1 /\ j = 1
    BY <2>1
  <2>2. CASE i # 1 /\ j # 1
    <3>1. i - 1 \in DOMAIN s /\ j - 1 \in DOMAIN s /\ s[i - 1] = s[j - 1]
      BY <1>1, <1>2, <1>3, <2>2
    <3>2. i - 1 = j - 1
      BY <3>1 DEF Apart
    <3> QED
      BY <1>2, <3>2
  <2>3. CASE i = 1 /\ j # 1
    <3>1. j - 1 \in DOMAIN s /\ s[j - 1] = r
      BY <1>1, <1>2, <1>3, <2>3
    <3> QED
      BY <3>1
  <2>4. CASE i # 1 /\ j = 1
    <3>1. i - 1 \in DOMAIN s /\ s[i - 1] = r
      BY <1>1, <1>2, <1>3, <2>4
    <3> QED
      BY <3>1
  <2> QED
    BY <2>1, <2>2, <2>3, <2>4
<1> QED
  BY <1>3 DEF Apart, t

\* The step a run has gone to, of those in the module.
LEMMA StepMoves ==
  ASSUME TypeOK, NEW r \in Runs, Start(r) \/ Step(r)
  PROVE  \E x \in Steps : pc' = [pc EXCEPT ![r] = x]
<1> USE DEF Steps, InspectSteps, IsoSteps, ProbeSteps, WriteSteps
<1> USE DEF Goto, Return, Abort
<1>1. CASE Start(r) \/ InspectMount(r) \/ InspectRead(r) \/ InspectUmount(r) \/ MountIso(r)
  BY <1>1 DEF Start, InspectMount, InspectRead, InspectUmount, MountIso
<1>2. CASE Probe(r)
  BY <1>2 DEF Probe, Passes
<1>3. CASE NtfsMake(r) \/ NtfsMkfs(r) \/ NtfsMount(r) \/ NtfsCleanup(r) \/ Refuse(r)
  BY <1>3 DEF NtfsMake, NtfsMkfs, NtfsMount, NtfsCleanup, Refuse
<1>4. CASE Partition(r) \/ MountUsb(r) \/ CollectTree(r) \/ CopyFile(r)
  BY <1>4 DEF Partition, MountUsb, CollectTree, CopyFile
<1>5. CASE CheckMedia(r) \/ CleanupUsb(r) \/ CleanupIso(r)
  BY <1>5 DEF CheckMedia, CleanupUsb, CleanupIso
<1> QED
  BY <1>1, <1>2, <1>3, <1>4, <1>5 DEF Step

\* What a step makes of each stack.
LEMMA StepStacks ==
  ASSUME TypeOK, NEW r \in Runs, Start(r) \/ Step(r)
  PROVE  /\ \/ Less(inspectStack, inspectStack', r)
            \/ inspectStack' = <<r>> \o inspectStack
         /\ \/ Less(isoStack, isoStack', r)
            \/ isoStack' = <<r>> \o isoStack
         /\ \/ Less(usbStack, usbStack', r)
            \/ pc[r] = "mountUsb" /\ usbStack' = <<r>> \o usbStack
         /\ probeMounts' \in Nat
<1> USE DEF Umount, Less
<1>1. CASE Start(r) \/ InspectMount(r) \/ InspectRead(r) \/ InspectUmount(r) \/ MountIso(r)
  BY <1>1 DEF Start, InspectMount, InspectRead, InspectUmount, MountIso, probing, TypeOK
<1>2. CASE Probe(r)
  BY <1>2 DEF Probe, probing, TypeOK
<1>3. CASE NtfsMake(r) \/ NtfsMkfs(r) \/ NtfsMount(r) \/ NtfsCleanup(r) \/ Refuse(r)
  BY <1>3 DEF NtfsMake, NtfsMkfs, NtfsMount, NtfsCleanup, Refuse, probing, TypeOK
<1>4. CASE Partition(r)
  BY <1>4 DEF Partition, Released, probing, TypeOK
<1>5. CASE MountUsb(r) \/ CollectTree(r) \/ CopyFile(r)
  BY <1>5 DEF MountUsb, CollectTree, CopyFile, probing, TypeOK
<1>6. CASE CheckMedia(r) \/ CleanupUsb(r) \/ CleanupIso(r)
  BY <1>6 DEF CheckMedia, CleanupUsb, CleanupIso, probing, TypeOK
<1> QED
  BY <1>1, <1>2, <1>3, <1>4, <1>5, <1>6 DEF Step

\* What a step makes of the rest.
LEMMA StepRest ==
  ASSUME TypeOK, NEW r \in Runs, Start(r) \/ Step(r)
  PROVE  /\ layout' \in [Runs -> {"none", "fat32", "ntfs"}]
         /\ probeImage' \in {"none", "empty", "ntfs"}
         /\ todo' \in [Runs -> SUBSET Name] /\ content' \in [Runs -> SUBSET (Runs \X Name)]
         /\ result' \in [Runs -> {"none", "ok", "error"}] /\ starts' \in 0..MaxStarts
         /\ alone' \in [Runs -> BOOLEAN] /\ umountFailed' \in BOOLEAN
<1> USE IsoFilesAssumption, MaxStartsAssumption DEF locals, probing, Goto, Return, Abort, Umount
<1>1. CASE Start(r)
  BY <1>1 DEF Start, TypeOK
<1>2. CASE InspectMount(r) \/ InspectUmount(r) \/ MountIso(r)
  BY <1>2 DEF InspectMount, InspectUmount, MountIso, TypeOK
<1>3. CASE InspectRead(r)
  BY <1>3 DEF InspectRead, TypeOK, LayoutFor
<1>4. CASE Probe(r)
  BY <1>4 DEF Probe, Passes, TypeOK, LayoutFor
<1>5. CASE NtfsMake(r) \/ NtfsMkfs(r) \/ NtfsMount(r) \/ NtfsCleanup(r) \/ Refuse(r)
  BY <1>5 DEF NtfsMake, NtfsMkfs, NtfsMount, NtfsCleanup, Refuse, TypeOK
<1>6. CASE Partition(r) \/ MountUsb(r)
  BY <1>6 DEF Partition, MountUsb, TypeOK
<1>7. CASE CollectTree(r)
  <2>1. UNION {IsoFiles[s] : s \in Top(isoStack)} \in SUBSET Name
    BY DEF Top, TypeOK
  <2> QED
    BY <1>7, <2>1 DEF CollectTree, TypeOK
<1>8. CASE CopyFile(r)
  <2>1. /\ layout' = layout /\ probeImage' = probeImage /\ starts' = starts
        /\ alone' = alone /\ umountFailed' = umountFailed
        /\ result' \in [Runs -> {"none", "ok", "error"}]
    BY <1>8 DEF CopyFile, TypeOK
  <2>2. CASE content' = content /\ todo' = todo
    BY <2>1, <2>2 DEF TypeOK
  <2>3. CASE \E name \in todo[r], s \in Top(isoStack) :
               /\ content' = [d \in Runs |-> IF d \in Top(usbStack)
                                THEN content[d] \union {<<s, name>>} ELSE content[d]]
               /\ todo' = [todo EXCEPT ![r] = @ \ {name}]
    <3>1. PICK name \in todo[r], s \in Top(isoStack) :
               /\ content' = [d \in Runs |-> IF d \in Top(usbStack)
                                THEN content[d] \union {<<s, name>>} ELSE content[d]]
               /\ todo' = [todo EXCEPT ![r] = @ \ {name}]
      BY <2>3
    <3>2. <<s, name>> \in Runs \X Name
      BY DEF TypeOK, Top
    <3>3. content' \in [Runs -> SUBSET (Runs \X Name)]
      BY <3>1, <3>2 DEF TypeOK
    <3> QED
      BY <2>1, <3>1, <3>3 DEF TypeOK
  <2> QED
    BY <1>8, <2>2, <2>3 DEF CopyFile
<1>9. CASE CheckMedia(r) \/ CleanupUsb(r) \/ CleanupIso(r)
  BY <1>9 DEF CheckMedia, CleanupUsb, CleanupIso, TypeOK
<1> QED
  BY <1>1, <1>2, <1>3, <1>4, <1>5, <1>6, <1>7, <1>8, <1>9 DEF Step

\* A drive mounted at most once, and released, is mounted no more.
LEMMA ReleasedIsOff ==
  ASSUME TypeOK, NEW r \in Runs, Released(r)
  PROVE  \A j \in DOMAIN usbStack' : usbStack'[j] # r
<1>1. CASE \E i \in DOMAIN usbStack : usbStack[i] = r /\ usbStack' = RemoveAt(usbStack, i)
  <2> USE DEF TypeOK
  <2>1. PICK k \in 1..Len(usbStack) : usbStack[k] = r /\ usbStack' = RemoveAt(usbStack, k)
    BY <1>1
  <2>2. /\ usbStack' \in Seq(Runs) /\ Len(usbStack') = Len(usbStack) - 1
        /\ \A j \in 1..Len(usbStack) - 1 :
             usbStack'[j] = IF j < k THEN usbStack[j] ELSE usbStack[j + 1]
    BY <2>1, RemovedIsSeq
  <2>3. /\ DOMAIN usbStack' = 1..Len(usbStack) - 1 /\ DOMAIN usbStack = 1..Len(usbStack)
        /\ Len(usbStack) \in Nat
    BY <2>2
  <2>4. \A i, j \in DOMAIN usbStack : usbStack[i] = usbStack[j] => i = j
    BY DEF IsInjective
  <2>5. ASSUME NEW j \in DOMAIN usbStack' PROVE usbStack'[j] # r
    <3>1. CASE j < k
      <4>1. j \in DOMAIN usbStack /\ j # k /\ usbStack'[j] = usbStack[j]
        BY <2>2, <2>3, <3>1
      <4> QED
        BY <2>1, <2>3, <2>4, <4>1
    <3>2. CASE ~(j < k)
      <4>1. j + 1 \in DOMAIN usbStack /\ j + 1 # k /\ usbStack'[j] = usbStack[j + 1]
        BY <2>2, <2>3, <3>2
      <4> QED
        BY <2>1, <2>3, <2>4, <4>1
    <3> QED
      BY <3>1, <3>2
  <2> QED
    BY <2>5
<1>2. CASE r \notin Range(usbStack) /\ UNCHANGED usbStack
  BY <1>2 DEF Range
<1> QED
  BY <1>1, <1>2 DEF Released

LEMMA StepTypes ==
  ASSUME TypeOK, UsbApart, NEW r \in Runs, Start(r) \/ Step(r)
  PROVE  TypeOK' /\ UsbApart'
<1>1. PICK x \in Steps : pc' = [pc EXCEPT ![r] = x]
  BY StepMoves
<1>2. pc' \in [Runs -> Steps]
  BY <1>1 DEF TypeOK, Steps, InspectSteps, IsoSteps, ProbeSteps, WriteSteps
<1>3. inspectStack' \in Seq(Runs)
  <2>1. inspectStack \in Seq(Runs)
    BY DEF TypeOK
  <2>2. CASE Less(inspectStack, inspectStack', r)
    BY <2>1, <2>2, LessIsSeq
  <2>3. CASE inspectStack' = <<r>> \o inspectStack
    BY <2>1, <2>3, PushIsSeq
  <2> QED
    BY <2>2, <2>3, StepStacks
<1>4. isoStack' \in Seq(Runs)
  <2>1. isoStack \in Seq(Runs)
    BY DEF TypeOK
  <2>2. CASE Less(isoStack, isoStack', r)
    BY <2>1, <2>2, LessIsSeq
  <2>3. CASE isoStack' = <<r>> \o isoStack
    BY <2>1, <2>3, PushIsSeq
  <2> QED
    BY <2>2, <2>3, StepStacks
<1>5. usbStack \in Seq(Runs) /\ Apart(usbStack)
  BY DEF TypeOK, IsInjective, Apart
<1>6. CASE pc[r] = "mountUsb" /\ usbStack' = <<r>> \o usbStack
  <2>1. usbStack' \in Seq(Runs) /\ Apart(usbStack')
    BY <1>5, <1>6, PushIsSeq, PushApart DEF UsbApart
  <2>2. /\ Len(usbStack') = Len(usbStack) + 1
        /\ \A i \in 1..Len(usbStack) + 1 :
             usbStack'[i] = IF i = 1 THEN r ELSE usbStack[i - 1]
    BY <1>5, <1>6, PushIsSeq
  <2>3. x # "mountUsb"
    <3>1. pc'[r] = x
      BY <1>1 DEF TypeOK
    <3> QED
      BY <1>6, <3>1 DEF Start, Active, Step, InspectMount, InspectRead, InspectUmount,
         MountIso, Probe, NtfsMake, NtfsMkfs, NtfsMount, NtfsCleanup, Refuse, Partition,
         MountUsb, CollectTree, CopyFile, CheckMedia, CleanupUsb, CleanupIso,
         Goto, Abort, TypeOK
  <2>4. ASSUME NEW q \in Runs, pc'[q] = "mountUsb", NEW i \in DOMAIN usbStack'
        PROVE  usbStack'[i] # q
    <3>1. q # r /\ pc[q] = "mountUsb"
      BY <1>1, <2>3, <2>4 DEF TypeOK
    <3>2. i \in 1..Len(usbStack) + 1 /\ DOMAIN usbStack = 1..Len(usbStack)
      BY <1>5, <2>1, <2>2
    <3>3. CASE i = 1
      BY <2>2, <3>1, <3>2, <3>3
    <3>4. CASE i # 1
      <4>1. i - 1 \in DOMAIN usbStack /\ usbStack'[i] = usbStack[i - 1]
        BY <1>5, <2>2, <3>2, <3>4
      <4> QED
        BY <3>1, <4>1 DEF UsbApart
    <3> QED
      BY <3>3, <3>4
  <2> QED
    BY <1>1, <1>2, <1>3, <1>4, <2>1, <2>4, StepStacks, StepRest
    DEF TypeOK, UsbApart, Apart, IsInjective, Steps, InspectSteps, IsoSteps, ProbeSteps,
        WriteSteps
<1>7. CASE ~(pc[r] = "mountUsb" /\ usbStack' = <<r>> \o usbStack)
  <2>1. /\ usbStack' \in Seq(Runs) /\ Apart(usbStack')
        /\ \A i \in DOMAIN usbStack' : \E j \in DOMAIN usbStack : usbStack'[i] = usbStack[j]
    <3>1. Less(usbStack, usbStack', r)
      BY <1>7, StepStacks
    <3> QED
      BY <1>5, <3>1, LessIsSeq
  <2>2. ASSUME pc'[r] = "mountUsb" PROVE \A i \in DOMAIN usbStack' : usbStack'[i] # r
    <3>1. Released(r)
      BY <2>2 DEF Start, Active, Step, InspectMount, InspectRead, InspectUmount,
         MountIso, Probe, Passes, NtfsMake, NtfsMkfs, NtfsMount, NtfsCleanup, Refuse,
         Partition, MountUsb, CollectTree, CopyFile, CheckMedia, CleanupUsb, CleanupIso,
         Goto, Abort, Return, TypeOK
    <3> QED
      BY <3>1, ReleasedIsOff
  <2>3. ASSUME NEW q \in Runs, pc'[q] = "mountUsb", NEW i \in DOMAIN usbStack'
        PROVE  usbStack'[i] # q
    <3>1. CASE q = r
      BY <2>2, <2>3, <3>1
    <3>2. CASE q # r
      <4>1. pc[q] = "mountUsb"
        BY <1>1, <2>3, <3>2 DEF TypeOK
      <4> QED
        BY <2>1, <2>3, <4>1 DEF UsbApart
    <3> QED
      BY <3>1, <3>2
  <2> QED
    BY <1>1, <1>2, <1>3, <1>4, <2>1, <2>3, StepStacks, StepRest
    DEF TypeOK, UsbApart, Apart, IsInjective, Steps, InspectSteps, IsoSteps, ProbeSteps,
        WriteSteps
<1> QED
  BY <1>6, <1>7

-----------------------------------------------------------------------------
\* The balance of the mounts.

\* A stack, or a number of mounts, has lost what the run no longer has mounted.
Even(new, old, S, r) == new = 0 \/ new <= old + In(pc'[r], S) - In(pc[r], S)

LEMMA EvenKept ==
  ASSUME TypeOK, NEW r \in Runs, NEW x, NEW S, pc' = [pc EXCEPT ![r] = x],
         NEW old \in Nat, old <= Count(pc, S), NEW new \in Nat, Even(new, old, S, r)
  PROVE  new <= Count(pc', S)
<1>0. DOMAIN pc = Runs /\ DOMAIN pc' = Runs /\ pc'[r] = x
  BY DEF TypeOK
<1> HIDE DEF TypeOK
<1>1. /\ Count(pc, S) \in Nat
      /\ Count([pc EXCEPT ![r] = x], S) = Count(pc, S) + In(x, S) - In(pc[r], S)
  BY <1>0, Moves, Zenon
<1>2. Count(pc', S) \in Nat
  BY <1>0, Moves
<1>3. In(x, S) \in Int /\ In(pc[r], S) \in Int
  BY DEF In
<1>4. Count(pc', S) = Count(pc, S) + In(x, S) - In(pc[r], S)
  BY <1>1
<1> QED
  BY <1>0, <1>1, <1>2, <1>3, <1>4 DEF Even


\* All four are even.
AllEven(r) ==
  /\ Even(Len(inspectStack'), Len(inspectStack), InspectSteps, r)
  /\ Even(Len(isoStack'), Len(isoStack), IsoSteps, r)
  /\ Even(Len(usbStack'), Len(usbStack), UsbSteps, r)
  /\ Even(probeMounts', probeMounts, {"ntfsYes"}, r)

\* A umount of which nothing is left behind has taken one mount off, or had
\* nothing to do.
LEMMA UmountTakes ==
  ASSUME TypeOK, NEW s \in Seq(Runs), NEW t, ~umountFailed',
         \/ s # <<>> /\ t = Tail(s) /\ UNCHANGED umountFailed
         \/ t = s /\ umountFailed' = (umountFailed \/ s # <<>>)
  PROVE  ~umountFailed /\ (Len(t) = 0 \/ Len(t) = Len(s) - 1)
<1>1. CASE s # <<>> /\ t = Tail(s) /\ UNCHANGED umountFailed
  BY <1>1, TailIsSeq
<1>2. CASE t = s /\ umountFailed' = (umountFailed \/ s # <<>>)
  <2>1. ~umountFailed /\ s = <<>>
    BY <1>2, Zenon
  <2> QED
    BY <1>2, <2>1
<1> QED
  BY <1>1, <1>2

LEMMA StepEven ==
  ASSUME TypeOK, NEW r \in Runs, Start(r) \/ Step(r), ~umountFailed'
  PROVE  ~umountFailed /\ AllEven(r)
<1>1. /\ Len(inspectStack) \in Nat /\ Len(isoStack) \in Nat /\ Len(usbStack) \in Nat
      /\ probeMounts \in Nat
  BY DEF TypeOK
<1>2. ASSUME NEW s \in Seq(Runs)
      PROVE  /\ Len(<<r>> \o s) = Len(s) + 1
             /\ s # <<>> => Len(Tail(s)) = Len(s) - 1
             /\ s = <<>> => Len(s) = 0
  BY PushIsSeq, TailIsSeq
<1>3. /\ Len(<<r>> \o inspectStack) = Len(inspectStack) + 1
      /\ Len(<<r>> \o isoStack) = Len(isoStack) + 1
      /\ Len(<<r>> \o usbStack) = Len(usbStack) + 1
  BY <1>2 DEF TypeOK
<1>4. /\ inspectStack # <<>> => Len(Tail(inspectStack)) = Len(inspectStack) - 1
      /\ isoStack # <<>> => Len(Tail(isoStack)) = Len(isoStack) - 1
      /\ usbStack # <<>> => Len(Tail(usbStack)) = Len(usbStack) - 1
  BY <1>2 DEF TypeOK
<1>5. /\ inspectStack = <<>> => Len(inspectStack) = 0
      /\ isoStack = <<>> => Len(isoStack) = 0
      /\ usbStack = <<>> => Len(usbStack) = 0
  BY <1>2 DEF TypeOK
<1>6. Released(r) => Len(usbStack') \in Nat /\ Len(usbStack') <= Len(usbStack)
  <2>1. Released(r) => Less(usbStack, usbStack', r)
    BY DEF Released, Less
  <2>2. usbStack \in Seq(Runs)
    BY DEF TypeOK
  <2> QED
    BY <2>1, <2>2, LessIsSeq
<1>7. DOMAIN pc = Runs
  BY DEF TypeOK
<1> USE <1>1, <1>3, <1>4, <1>5, <1>7 DEF AllEven, Even, In
<1> USE DEF InspectSteps, IsoSteps, ProbeSteps, WriteSteps, UsbSteps
<1>8. /\ inspectStack \in Seq(Runs) /\ isoStack \in Seq(Runs) /\ usbStack \in Seq(Runs)
      /\ umountFailed \in BOOLEAN
  BY DEF TypeOK
<1>9. Umount(inspectStack) =>
        ~umountFailed /\ (Len(inspectStack') = 0 \/ Len(inspectStack') = Len(inspectStack) - 1)
  BY <1>8, UmountTakes DEF Umount
<1>10. Umount(isoStack) =>
         ~umountFailed /\ (Len(isoStack') = 0 \/ Len(isoStack') = Len(isoStack) - 1)
  BY <1>8, UmountTakes DEF Umount
<1>11. Umount(usbStack) =>
         ~umountFailed /\ (Len(usbStack') = 0 \/ Len(usbStack') = Len(usbStack) - 1)
  BY <1>8, UmountTakes DEF Umount
<1>12. umountFailed' = (umountFailed \/ probeMounts > 0) => ~umountFailed /\ probeMounts = 0
  <2>1. umountFailed' = (umountFailed \/ probeMounts > 0) => ~umountFailed /\ ~(probeMounts > 0)
    BY Zenon
  <2> QED
    BY <2>1
<1> USE <1>8, <1>9, <1>10, <1>11 DEF Goto, Return, Abort, probing
<1>21. CASE Start(r)
  BY <1>21 DEF Start, Active
<1>22. CASE InspectMount(r)
  BY <1>22 DEF InspectMount
<1>23. CASE InspectRead(r)
  BY <1>23 DEF InspectRead
<1>24. CASE InspectUmount(r)
  BY <1>24 DEF InspectUmount
<1>25. CASE MountIso(r)
  BY <1>25 DEF MountIso
<1>26. CASE Probe(r)
  BY <1>26 DEF Probe, Passes
<1>27. CASE NtfsMake(r) \/ NtfsMkfs(r) \/ NtfsMount(r)
  BY <1>27 DEF NtfsMake, NtfsMkfs, NtfsMount
<1>28. CASE NtfsCleanup(r)
  BY <1>12, <1>28 DEF NtfsCleanup
<1>29. CASE Refuse(r)
  BY <1>29 DEF Refuse
<1>30. CASE Partition(r)
  BY <1>30, <1>6 DEF Partition
<1>31. CASE MountUsb(r)
  BY <1>31 DEF MountUsb
<1>32. CASE CollectTree(r) \/ CheckMedia(r)
  BY <1>32 DEF CollectTree, CheckMedia
<1>33. CASE CopyFile(r)
  BY <1>33 DEF CopyFile
<1>34. CASE CleanupUsb(r)
  BY <1>34 DEF CleanupUsb
<1>35. CASE CleanupIso(r)
  BY <1>35 DEF CleanupIso
<1> QED
  BY <1>21, <1>22, <1>23, <1>24, <1>25, <1>26, <1>27, <1>28, <1>29,
     <1>30, <1>31, <1>32, <1>33, <1>34, <1>35
  DEF Step

LEMMA StepBalanced ==
  ASSUME TypeOK, TypeOK', Balanced, NEW r \in Runs, Start(r) \/ Step(r)
  PROVE  Balanced'
<1> SUFFICES ASSUME ~umountFailed'
             PROVE  /\ Len(inspectStack') <= Count(pc', InspectSteps)
                    /\ Len(isoStack') <= Count(pc', IsoSteps)
                    /\ Len(usbStack') <= Count(pc', UsbSteps)
                    /\ probeMounts' <= Count(pc', {"ntfsYes"})
  BY DEF Balanced
<1>1. ~umountFailed /\ AllEven(r)
  BY StepEven
<1>2. /\ Len(inspectStack) <= Count(pc, InspectSteps) /\ Len(isoStack) <= Count(pc, IsoSteps)
      /\ Len(usbStack) <= Count(pc, UsbSteps) /\ probeMounts <= Count(pc, {"ntfsYes"})
  BY <1>1 DEF Balanced
<1>3. PICK x \in Steps : pc' = [pc EXCEPT ![r] = x]
  BY StepMoves
<1>4. /\ Len(inspectStack) \in Nat /\ Len(isoStack) \in Nat /\ Len(usbStack) \in Nat
      /\ Len(inspectStack') \in Nat /\ Len(isoStack') \in Nat /\ Len(usbStack') \in Nat
      /\ probeMounts \in Nat /\ probeMounts' \in Nat
  BY DEF TypeOK
<1> QED
  BY <1>1, <1>2, <1>3, <1>4, EvenKept DEF AllEven

\* With everybody idle nothing is accounted for, and so nothing is mounted.
LEMMA IdleIsEmpty == TypeOK /\ Balanced => StacksEmptied
<1> SUFFICES ASSUME TypeOK, Balanced, \A r \in Runs : ~Active(r), ~umountFailed
             PROVE  inspectStack = <<>> /\ isoStack = <<>> /\ usbStack = <<>> /\ probeMounts = 0
  BY DEF StacksEmptied
<1>1. \A S : "idle" \notin S => At(pc, S) = {}
  BY DEF Active, At
<1>2. Cardinality({}) = 0
  BY FS_EmptySet
<1>3. /\ Count(pc, InspectSteps) = 0 /\ Count(pc, IsoSteps) = 0
      /\ Count(pc, UsbSteps) = 0 /\ Count(pc, {"ntfsYes"}) = 0
  <2>1. /\ "idle" \notin InspectSteps /\ "idle" \notin IsoSteps
        /\ "idle" \notin UsbSteps /\ "idle" \notin {"ntfsYes"}
    BY DEF InspectSteps, IsoSteps, ProbeSteps, WriteSteps, UsbSteps
  <2> QED
    BY <1>1, <1>2, <2>1 DEF Count
<1> QED
  BY <1>3 DEF Balanced, TypeOK

Shape == TypeOK /\ UsbApart /\ Balanced

LEMMA InitShape == Init => Shape
<1> SUFFICES ASSUME Init PROVE Shape
  OBVIOUS
<1>0. usbStack \in Seq(Runs) /\ IsInjective(usbStack) /\ starts \in 0..MaxStarts
  BY MaxStartsAssumption DEF Init, IsInjective
<1>1. TypeOK
  BY <1>0 DEF Init, TypeOK
<1>2. \A S : Count(pc, S) \in Nat
  <2>1. DOMAIN pc = Runs /\ \A S : IsFiniteSet(At(pc, S))
    BY RunsAssumption, FS_Subset DEF Init, At
  <2> QED
    BY <2>1, FS_CardinalityType DEF Count
<1>3. Len(inspectStack) = 0 /\ Len(isoStack) = 0 /\ Len(usbStack) = 0 /\ probeMounts = 0
  BY DEF Init
<1>4. Balanced
  BY <1>2, <1>3 DEF Balanced
<1> QED
  BY <1>1, <1>4 DEF Init, Shape, UsbApart

LEMMA NextShape == Shape /\ [Next]_vars => Shape'
<1>1. ASSUME Shape, Next PROVE Shape'
  <2>1. PICK r \in Runs : Start(r) \/ Step(r)
    BY <1>1 DEF Next
  <2> QED
    BY <1>1, <2>1, StepTypes, StepBalanced DEF Shape
<1>2. ASSUME Shape, UNCHANGED vars PROVE Shape'
  BY <1>2 DEF vars, locals, probing, Shape, TypeOK, UsbApart, Balanced, IsInjective
<1> QED
  BY <1>1, <1>2

\* Every variable stays in its range; above all no drive is mounted twice.
THEOREM TypeCorrect == Spec => []TypeOK
<1>1. Shape => TypeOK
  BY DEF Shape
<1> QED
  BY <1>1, InitShape, NextShape, PTL DEF Spec

\* Any number of runs, overlapping in any way and failing anywhere, leave the
\* shared mount points and the probe's directory bare, unless a umount failed.
THEOREM StacksAreEmptied == Spec => []StacksEmptied
<1>1. Shape => StacksEmptied
  BY IdleIsEmpty DEF Shape
<1> QED
  BY <1>1, InitShape, NextShape, PTL DEF Spec

-----------------------------------------------------------------------------
\* A run that is alone.

LEMMA StepResult ==
  ASSUME TypeOK, ResultOK, NEW r \in Runs, Start(r) \/ Step(r)
  PROVE  ResultOK'
<1>1. PICK x \in Steps : pc' = [pc EXCEPT ![r] = x]
  BY StepMoves
<1>2. ASSUME NEW q \in Runs, q # r
      PROVE  pc'[q] = pc[q] /\ result'[q] = result[q] /\ layout'[q] = layout[q]
  <2>1. pc'[q] = pc[q]
    BY <1>1, <1>2 DEF TypeOK
  <2>2. result'[q] = result[q] /\ layout'[q] = layout[q]
    BY <1>2 DEF Start, Step, InspectMount, InspectRead, InspectUmount, MountIso, Probe, Passes,
       NtfsMake, NtfsMkfs, NtfsMount, NtfsCleanup, Refuse, Partition, MountUsb, CollectTree,
       CopyFile, CheckMedia, CleanupUsb, CleanupIso, Goto, Abort, Return, locals, TypeOK
  <2> QED
    BY <2>1, <2>2
<1>3. /\ pc'[r] \notin {"cleanup", "cleanupIso"} => result'[r] = "none"
      /\ pc'[r] = "idle" => layout'[r] = "none"
  BY DEF ResultOK, Active, Start, Step, InspectMount, InspectRead, InspectUmount, MountIso,
     Probe, Passes, NtfsMake, NtfsMkfs, NtfsMount, NtfsCleanup, Refuse, Partition, MountUsb,
     CollectTree, CopyFile, CheckMedia, CleanupUsb, CleanupIso, Goto, Abort, Return, locals,
     TypeOK
<1> QED
  BY <1>2, <1>3 DEF ResultOK, Active

LEMMA StepAlone ==
  ASSUME TypeOK, ResultOK, NEW r \in Runs, Step(r), AloneHolds(r), Active(r), pc'[r] # "idle"
  PROVE  AloneHolds(r)'
<1>1. PICK x \in Steps : pc' = [pc EXCEPT ![r] = x]
  BY StepMoves
<1>2. \A s \in Runs \ {r} : ~Active(s)'
  BY <1>1 DEF TypeOK, AloneHolds, Active
<1>3. /\ DOMAIN pc = Runs /\ DOMAIN layout = Runs /\ DOMAIN content = Runs
      /\ DOMAIN todo = Runs /\ DOMAIN result = Runs
      /\ inspectStack \in Seq(Runs) /\ isoStack \in Seq(Runs) /\ usbStack \in Seq(Runs)
  BY DEF TypeOK
<1>4. /\ <<r>> \o inspectStack # <<>> /\ Head(<<r>> \o inspectStack) = r
      /\ <<r>> \o isoStack # <<>> /\ Head(<<r>> \o isoStack) = r
      /\ <<r>> \o usbStack # <<>> /\ Head(<<r>> \o usbStack) = r
  BY <1>3, PushIsSeq
<1>5. result[r] # "none" => pc[r] \in {"cleanup", "cleanupIso"}
  BY DEF ResultOK
<1> USE <1>2, <1>3, <1>4, <1>5 DEF AloneHolds
<1> USE DEF InspectSteps, IsoSteps, ProbeSteps, WriteSteps, Goto, Abort, Return, locals
<1>11. CASE InspectMount(r)
  BY <1>11 DEF InspectMount
<1>12. CASE InspectRead(r)
  BY <1>12 DEF InspectRead
<1>13. CASE InspectUmount(r)
  BY <1>13 DEF InspectUmount
<1>14. CASE MountIso(r)
  BY <1>14 DEF MountIso
<1>15. CASE Probe(r)
  BY <1>15 DEF Probe, Passes, Top
<1>16. CASE NtfsMake(r) \/ NtfsMkfs(r) \/ NtfsMount(r)
  BY <1>16 DEF NtfsMake, NtfsMkfs, NtfsMount
<1>17. CASE NtfsCleanup(r)
  BY <1>17 DEF NtfsCleanup
<1>18. CASE Refuse(r)
  BY <1>18 DEF Refuse
<1>19. CASE Partition(r)
  BY <1>19 DEF Partition
<1>20. CASE MountUsb(r)
  BY <1>20 DEF MountUsb
<1>21. CASE CollectTree(r)
  BY <1>21 DEF CollectTree, Top
<1>22. CASE CopyFile(r)
  BY <1>22 DEF CopyFile, Top
<1>23. CASE CheckMedia(r)
  BY <1>23 DEF CheckMedia
<1>24. CASE CleanupUsb(r)
  BY <1>24 DEF CleanupUsb
<1>25. CASE CleanupIso(r)
  BY <1>25 DEF CleanupIso
<1> QED
  BY <1>11, <1>12, <1>13, <1>14, <1>15, <1>16, <1>17, <1>18, <1>19, <1>20, <1>21, <1>22,
     <1>23, <1>24, <1>25
  DEF Step

LEMMA StepAloneOK ==
  ASSUME TypeOK, ResultOK, AloneOK, NEW r \in Runs, Start(r) \/ Step(r)
  PROVE  AloneOK'
<1> SUFFICES ASSUME NEW q \in Runs, Active(q)', alone'[q] PROVE AloneHolds(q)'
  BY DEF AloneOK
<1>1. PICK x \in Steps : pc' = [pc EXCEPT ![r] = x]
  BY StepMoves
<1>2. CASE Start(r)
  <2>1. q = r /\ \A s \in Runs : ~Active(s)
    BY <1>2 DEF Start
  <2>2. pc'[r] = "inspectMount" /\ \A s \in Runs \ {r} : ~Active(s)'
    BY <1>2, <2>1 DEF Start, Active, TypeOK
  <2>3. layout'[r] = "none" /\ result'[r] = "none"
    BY <1>2, <2>1 DEF Start, locals, ResultOK, Active
  <2> QED
    BY <2>1, <2>2, <2>3
    DEF AloneHolds, InspectSteps, IsoSteps, ProbeSteps, WriteSteps
<1>3. CASE Step(r)
  <2>1. alone' = alone /\ Active(r)
    BY <1>3 DEF Step, InspectMount, InspectRead, InspectUmount, MountIso, Probe, Passes,
       NtfsMake, NtfsMkfs, NtfsMount, NtfsCleanup, Refuse, Partition, MountUsb, CollectTree,
       CopyFile, CheckMedia, CleanupUsb, CleanupIso, Active
  <2>2. CASE q = r
    BY <1>3, <2>1, <2>2, StepAlone DEF AloneOK, Active
  <2>3. CASE q # r
    <3>1. Active(q)
      BY <1>1, <2>3 DEF TypeOK, Active
    <3> QED
      BY <2>1, <2>3, <3>1 DEF AloneOK, AloneHolds
  <2> QED
    BY <2>2, <2>3
<1> QED
  BY <1>2, <1>3

LEMMA Invariance == Spec => []IInv
<1>1. Init => IInv
  <2>1. ASSUME Init PROVE ResultOK /\ AloneOK
    BY <2>1 DEF Init, ResultOK, AloneOK, Active
  <2> QED
    BY <2>1, InitShape DEF IInv, Shape
<1>2. ASSUME IInv, Next PROVE IInv'
  <2>1. PICK r \in Runs : Start(r) \/ Step(r)
    BY <1>2 DEF Next
  <2> QED
    BY <1>2, <2>1, StepTypes, StepBalanced, StepResult, StepAloneOK DEF IInv
<1>3. ASSUME IInv, UNCHANGED vars PROVE IInv'
  <2>1. TypeOK' /\ UsbApart' /\ Balanced'
    BY <1>3, NextShape DEF IInv, Shape
  <2>2. ResultOK' /\ AloneOK'
    BY <1>3 DEF vars, locals, IInv, ResultOK, AloneOK, AloneHolds, Active
  <2> QED
    BY <2>1, <2>2 DEF IInv
<1>4. IInv /\ [Next]_vars => IInv'
  BY <1>2, <1>3
<1> QED
  BY <1>1, <1>4, PTL DEF Spec

\* The step by which a run that was alone returns with ok.
LEMMA AloneReturns ==
  ASSUME IInv, Next, NEW r \in Runs, Active(r), pc'[r] = "idle", alone[r], result[r] = "ok"
  PROVE  /\ content'[r] = {r} \X IsoFiles[r] /\ layout[r] = LayoutFor(r)
         /\ ~umountFailed' => r \notin Top(usbStack') \union Top(isoStack')
<1>0. TypeOK /\ ResultOK /\ Balanced /\ AloneHolds(r)
  BY DEF IInv, AloneOK
<1>1. PICK q \in Runs : Start(q) \/ Step(q)
  BY DEF Next
<1>2. q = r
  <2>1. PICK x \in Steps : pc' = [pc EXCEPT ![q] = x]
    BY <1>0, <1>1, StepMoves
  <2> QED
    BY <1>0, <2>1 DEF TypeOK, Active
<1>3. pc[r] \in {"cleanup", "cleanupIso"}
  BY <1>0 DEF ResultOK
<1>4. CleanupIso(r)
  BY <1>0, <1>1, <1>2, <1>3 DEF Start, Active, Step, InspectMount, InspectRead, InspectUmount,
     MountIso, Probe, NtfsMake, NtfsMkfs, NtfsMount, NtfsCleanup, Refuse, Partition,
     MountUsb, CollectTree, CopyFile, CheckMedia, CleanupUsb, Goto, TypeOK
<1>5. content'[r] = {r} \X IsoFiles[r] /\ layout[r] = LayoutFor(r)
  BY <1>0, <1>4 DEF CleanupIso, AloneHolds, WriteSteps
<1>6. ASSUME ~umountFailed' PROVE r \notin Top(usbStack') \union Top(isoStack')
  <2>1. /\ pc[r] = "cleanupIso" /\ usbStack' = usbStack
        /\ isoStack # <<>> /\ isoStack \in Seq(Runs) /\ usbStack \in Seq(Runs)
    BY <1>0, <1>4 DEF CleanupIso, AloneHolds, IsoSteps, WriteSteps, TypeOK
  <2>2. ~umountFailed /\ (Len(isoStack') = 0 \/ Len(isoStack') = Len(isoStack) - 1)
    BY <1>0, <1>4, <1>6, <2>1, UmountTakes DEF CleanupIso, Umount
  <2>3. At(pc, IsoSteps) = {r} /\ At(pc, UsbSteps) = {}
    BY <1>0, <2>1 DEF At, AloneHolds, Active, IsoSteps, ProbeSteps, WriteSteps, UsbSteps
  <2>4. Count(pc, IsoSteps) = 1 /\ Count(pc, UsbSteps) = 0
    BY <2>3, FS_Singleton, FS_EmptySet DEF Count
  <2>5. Len(isoStack) <= 1 /\ Len(usbStack) <= 0
    BY <1>0, <2>2, <2>4 DEF Balanced
  <2>6. isoStack' \in Seq(Runs)
    <3>1. TypeOK'
      BY <1>1, StepTypes DEF IInv
    <3> QED
      BY <3>1 DEF TypeOK
  <2>7. isoStack' = <<>> /\ usbStack' = <<>>
    BY <2>1, <2>2, <2>5, <2>6
  <2> QED
    BY <2>7 DEF Top
<1> QED
  BY <1>5, <1>6

\* A run no other has overlapped has written its own files to its own drive,
\* in its own layout, whatever earlier runs have left on the mount points.
THEOREM AloneWritesItsOwn == Spec => AloneIsRight
<1>1. ASSUME IInv, [Next]_vars
      PROVE  [\A r \in Runs : Active(r) /\ pc'[r] = "idle" /\ alone[r] /\ result[r] = "ok" =>
                /\ content'[r] = {r} \X IsoFiles[r] /\ layout[r] = LayoutFor(r)
                /\ ~umountFailed' => r \notin Top(usbStack') \union Top(isoStack')]_vars
  <2>1. CASE Next
    BY <1>1, <2>1, AloneReturns
  <2>2. CASE UNCHANGED vars
    BY <2>2
  <2> QED
    BY <1>1, <2>1, <2>2
<1>2. IInv /\ [Next]_vars =>
        [\A r \in Runs : Active(r) /\ pc'[r] = "idle" /\ alone[r] /\ result[r] = "ok" =>
           /\ content'[r] = {r} \X IsoFiles[r] /\ layout[r] = LayoutFor(r)
           /\ ~umountFailed' => r \notin Top(usbStack') \union Top(isoStack')]_vars
  BY <1>1
<1> QED
  BY <1>2, Invariance, PTL DEF Spec, AloneIsRight
=============================================================================
