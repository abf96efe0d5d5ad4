-------------------------- MODULE ImageWriteProofs --------------------------
(***************************************************************************)
(* Theorems about ImageWrite, for every set of jobs, every drive and every *)
(* order in which the kernel writes blocks back or forgets them, and about *)
(* Lzw, for every text, every shape of the format and every stream.        *)
(***************************************************************************)
EXTENDS ImageWrite, Lzw, FiniteSetTheorems, WellFoundedInduction, SequenceTheorems, TLAPS

-----------------------------------------------------------------------------
\* What is known of a job, in the shape the steps below use it.
LEMMA JobFacts ==
  ASSUME TypeOK
  PROVE  /\ job.image.blocks \in Seq(Data) /\ Len(job.image.blocks) \in Nat
         /\ job.image.sound \in BOOLEAN /\ job.verify \in BOOLEAN
         /\ job.blockdev \in BOOLEAN
         /\ job.dev.size \in 0..Blocks /\ Blocks \in Nat
         /\ job.dev.cell \in [Cells -> Cells \union {0}]
         /\ written \in Nat
         /\ \A i \in 1..Len(job.image.blocks) : job.image.blocks[i] \in Data
<1>1. job.image \in Image /\ job.dev \in Device
  BY DEF TypeOK, Job
<1>2. job.image.blocks \in Seq(Data) /\ job.image.sound \in BOOLEAN
  BY <1>1 DEF Image
<1>3. job.dev.size \in 0..Blocks /\ job.dev.cell \in [Cells -> Cells \union {0}]
  BY <1>1 DEF Device
<1>4. written \in 0..Len(job.image.blocks) /\ job.verify \in BOOLEAN /\ job.blockdev \in BOOLEAN
  BY DEF TypeOK, Job
<1> QED
  BY <1>2, <1>3, <1>4, SizesAssumption

\* Once the cache is empty a reader sees the medium, and where the drive is
\* honest it sees what was written.
LEMMA StoredInType ==
  ASSUME TypeOK, NEW b \in Cells
  PROVE  Stored(b) \in Data \union {Blank} /\ Seen(b) \in Data \union {Blank}
<1>1. job.dev.cell[b] \in Cells \union {0}
  BY JobFacts
<1>2. cache[b] \in Data \union {Blank} /\ (job.dev.cell[b] # 0 => medium[job.dev.cell[b]] \in Data \union {Blank})
  BY <1>1 DEF TypeOK, Cells
<1> QED
  BY <1>2 DEF Stored, Seen

-----------------------------------------------------------------------------
LEMMA InitInv == Init => IInv
<1> SUFFICES ASSUME Init PROVE IInv
  OBVIOUS
<1> USE DEF Init
<1>1. TypeOK
  <2>1. job \in Job /\ job.image.blocks \in Seq(Data)
    BY JobsAssumption DEF Job, Image
  <2>2. written \in 0..Len(job.image.blocks)
    BY <2>1
  <2>3. /\ digest \in Seq(Data) /\ Len(digest) = written
        /\ readback \in Seq(Data \union {Blank}) /\ Len(readback) <= written
    OBVIOUS
  <2>4. /\ cache \in [Cells -> Data \union {Blank}] /\ dirty \subseteq Cells
        /\ medium \in [Cells -> Data \union {Blank}]
    OBVIOUS
  <2> QED
    BY <2>1, <2>2, <2>3, <2>4 DEF TypeOK
<1>2. Progress /\ Fits /\ ReadBack
  BY DEF Progress, Fits, ReadBack, Done
<1>3. Written
  <2>1. written <= job.dev.size
    BY <1>1, JobFacts
  <2> QED
    BY <2>1 DEF Written, Cells
<1>4. VerifiedMeansStored /\ SuccessMeansWhole /\ GoodWriteSucceeds
  BY DEF VerifiedMeansStored, SuccessMeansWhole, GoodWriteSucceeds
<1> QED
  BY <1>1, <1>2, <1>3, <1>4 DEF IInv

LEMMA StepTypes == ASSUME IInv, Next PROVE TypeOK'
<1> USE DEF IInv
<1>0. /\ job.image.blocks \in Seq(Data) /\ Len(job.image.blocks) \in Nat
      /\ job.dev.size \in 0..Blocks /\ Blocks \in Nat /\ written \in Nat
      /\ \A i \in 1..Len(job.image.blocks) : job.image.blocks[i] \in Data
  BY JobFacts
<1>1. CASE AssertSafeTarget
  BY <1>1 DEF AssertSafeTarget, TypeOK, Goto, Return, device
<1>2. CASE DetectCompression
  BY <1>2 DEF DetectCompression, TypeOK, Goto, Return, device
<1>3. CASE CheckPayload
  BY <1>3 DEF CheckPayload, TypeOK, Goto, Return, device
<1>4. CASE Open
  BY <1>4 DEF Open, TypeOK, Goto, Fault, device
<1>5. CASE StreamBlock
  <2>1. CASE UNCHANGED <<cache, dirty, digest, written>>
    BY <1>5, <2>1 DEF StreamBlock, TypeOK, Goto, Return, Fault
  <2>2. CASE ~UNCHANGED <<cache, dirty, digest, written>>
    <3>1. /\ written < job.dev.size /\ written < Len(job.image.blocks)
          /\ cache' = [cache EXCEPT ![written + 1] = job.image.blocks[written + 1]]
          /\ dirty' = dirty \union {written + 1}
          /\ digest' = Append(digest, job.image.blocks[written + 1])
          /\ written' = written + 1 /\ Goto("write")
          /\ UNCHANGED <<job, medium, readback>>
      BY <1>5, <2>2 DEF StreamBlock
    <3>2. written + 1 \in Cells /\ job.image.blocks[written + 1] \in Data
      BY <3>1, <1>0 DEF Cells
    <3>3. digest' \in Seq(Data) /\ Len(digest') = written'
      BY <3>1, <3>2, AppendProperties DEF TypeOK
    <3>4. readback' \in Seq(Data \union {Blank}) /\ Len(readback') <= written'
      BY <3>1, <1>0 DEF TypeOK
    <3>5. cache' \in [Cells -> Data \union {Blank}] /\ dirty' \subseteq Cells
      BY <3>1, <3>2 DEF TypeOK
    <3>6. written' \in 0..Len(job'.image.blocks)
      BY <3>1, <1>0
    <3> QED
      BY <3>1, <3>3, <3>4, <3>5, <3>6 DEF TypeOK, Goto
  <2> QED
    BY <2>1, <2>2
<1>6. CASE StreamEnd
  BY <1>6 DEF StreamEnd, TypeOK, Goto, Return, device
<1>7. CASE SyncAll
  BY <1>7 DEF SyncAll, TypeOK, Goto, Return, Fault, device
<1>8. CASE DropCache
  BY <1>8 DEF DropCache, TypeOK, Goto, Fault
<1>9. CASE ReadBlock
  <2>1. CASE UNCHANGED readback
    BY <1>9, <2>1 DEF ReadBlock, TypeOK, Goto, Fault, device
  <2>2. CASE ~UNCHANGED readback
    <3>1. /\ readback' = Append(readback, Seen(Len(readback) + 1)) /\ Goto("read")
          /\ Len(readback) < written /\ UNCHANGED <<job, written, digest, device>>
      BY <1>9, <2>2 DEF ReadBlock
    <3>2. Len(readback) + 1 \in Cells
      BY <3>1, <1>0 DEF Cells, Written, TypeOK
    <3>3. Seen(Len(readback) + 1) \in Data \union {Blank}
      BY <3>2, StoredInType
    <3>4. readback' \in Seq(Data \union {Blank}) /\ Len(readback') = Len(readback) + 1
      BY <3>1, <3>3, AppendProperties DEF TypeOK
    <3>5. Len(readback') <= written'
      BY <3>1, <3>4, <1>0 DEF TypeOK
    <3> QED
      BY <3>1, <3>4, <3>5 DEF TypeOK, Goto, device
  <2> QED
    BY <2>1, <2>2
<1>10. CASE Compare
  BY <1>10 DEF Compare, TypeOK, Return, device
<1>11. CASE Kernel
  <2> PICK b \in dirty : WriteBack(b)
    BY <1>11 DEF Kernel
  <2>1. b \in Cells /\ cache[b] \in Data \union {Blank}
    BY DEF TypeOK
  <2>2. medium' \in [Cells -> Data \union {Blank}]
    BY <2>1 DEF WriteBack, TypeOK
  <2> QED
    BY <2>2 DEF WriteBack, TypeOK
<1>12. CASE Reclaim
  BY <1>12 DEF Reclaim, Evict, TypeOK
<1> QED
  BY <1>1, <1>2, <1>3, <1>4, <1>5, <1>6, <1>7, <1>8, <1>9, <1>10, <1>11, <1>12
     DEF Next, Program
-----------------------------------------------------------------------------
\* Every step but those of the kernel is one of the program's; the program only
\* moves before it has ended.
LEMMA ProgramRuns == ASSUME Program PROVE pc # "ended"
  BY DEF Program, AssertSafeTarget, DetectCompression, CheckPayload, Open, StreamBlock,
         StreamEnd, SyncAll, DropCache, ReadBlock, Compare

LEMMA StepProgress == ASSUME IInv, Next PROVE Progress'
<1> USE DEF IInv
<1>0. Len(job.image.blocks) \in Nat /\ written \in Nat /\ job.verify \in BOOLEAN
  BY JobFacts
<1>1. CASE AssertSafeTarget \/ DetectCompression \/ CheckPayload \/ Open
  BY <1>1 DEF AssertSafeTarget, DetectCompression, CheckPayload, Open, Progress, Done,
              Goto, Return, Fault, device
<1>2. CASE StreamBlock
  BY <1>2, <1>0 DEF StreamBlock, Progress, Done, Goto, Return, Fault
<1>3. CASE StreamEnd
  BY <1>3, <1>0 DEF StreamEnd, Progress, Done, Goto, Return, device
<1>4. CASE SyncAll
  BY <1>4, <1>0 DEF SyncAll, Progress, Done, Goto, Return, Fault, device
<1>5. CASE DropCache \/ ReadBlock
  BY <1>5 DEF DropCache, ReadBlock, Progress, Done, Goto, Fault, device
<1>6. CASE Compare
  BY <1>6 DEF Compare, Progress, Done, Return, device
<1>7. CASE Kernel \/ Reclaim
  BY <1>7 DEF Kernel, WriteBack, Reclaim, Evict, Progress, Done
<1> QED
  BY <1>1, <1>2, <1>3, <1>4, <1>5, <1>6, <1>7 DEF Next, Program

LEMMA StepFits == ASSUME IInv, Next PROVE Fits'
<1> USE DEF IInv
<1>0. Len(job.image.blocks) \in Nat /\ written \in Nat /\ job.dev.size \in Nat
  BY JobFacts
<1>1. CASE AssertSafeTarget \/ DetectCompression \/ Open \/ StreamEnd \/ SyncAll
           \/ DropCache \/ ReadBlock \/ Compare
  BY <1>1 DEF AssertSafeTarget, DetectCompression, Open, StreamEnd, SyncAll, DropCache,
              ReadBlock, Compare, Fits, Goto, Return, Fault, device
<1>2. CASE CheckPayload
  BY <1>2, <1>0 DEF CheckPayload, Fits, Progress, Goto, Return, device
<1>3. CASE StreamBlock
  BY <1>3, <1>0 DEF StreamBlock, Fits, Goto, Return, Fault
<1>4. CASE Kernel
  BY <1>4 DEF Kernel, WriteBack, Fits
<1>5. CASE Reclaim
  BY <1>5 DEF Reclaim, Evict, Fits
<1> QED
  BY <1>1, <1>2, <1>3, <1>4, <1>5 DEF Next, Program

LEMMA StepWritten == ASSUME IInv, Next PROVE Written'
<1> USE DEF IInv
<1>0. /\ Len(job.image.blocks) \in Nat /\ written \in Nat
      /\ job.dev.size \in 0..Blocks /\ Blocks \in Nat
      /\ \A i \in 1..Len(job.image.blocks) : job.image.blocks[i] \in Data
  BY JobFacts
<1>1. CASE AssertSafeTarget \/ DetectCompression \/ CheckPayload \/ Open \/ StreamEnd
           \/ SyncAll \/ ReadBlock \/ Compare
  <2>1. UNCHANGED <<job, written, digest, device>>
    BY <1>1 DEF AssertSafeTarget, DetectCompression, CheckPayload, Open, StreamEnd,
                SyncAll, ReadBlock, Compare
  <2> QED
    BY <2>1 DEF Written, IsHonest, device
<1>2. CASE StreamBlock
  <2>1. CASE UNCHANGED <<cache, dirty, digest, written>>
    <3>1. UNCHANGED <<job, written, digest, cache, dirty, medium>>
      BY <1>2, <2>1 DEF StreamBlock
    <3> QED
      BY <3>1 DEF Written, IsHonest
  <2>2. CASE ~UNCHANGED <<cache, dirty, digest, written>>
    <3>1. /\ written < job.dev.size /\ written < Len(job.image.blocks)
          /\ cache' = [cache EXCEPT ![written + 1] = job.image.blocks[written + 1]]
          /\ dirty' = dirty \union {written + 1}
          /\ digest' = Append(digest, job.image.blocks[written + 1])
          /\ written' = written + 1
          /\ UNCHANGED <<job, medium>>
      BY <1>2, <2>2 DEF StreamBlock
    <3>2. written + 1 \in Cells /\ job.image.blocks[written + 1] \in Data
      BY <3>1, <1>0 DEF Cells
    <3>3. \A i \in 1..written' : digest'[i] = job'.image.blocks[i]
      <4>1. /\ \A i \in 1..written : digest'[i] = digest[i]
            /\ digest'[written + 1] = job.image.blocks[written + 1]
        BY <3>1, <3>2, AppendProperties DEF TypeOK
      <4>2. 1..written' = 1..written \union {written + 1}
        BY <3>1, <1>0
      <4> QED
        BY <4>1, <4>2, <3>1 DEF Written
    <3>4. \A b \in Cells :
            cache'[b] = IF b = written + 1 THEN job.image.blocks[b] ELSE cache[b]
      BY <3>1, <3>2 DEF TypeOK
    <3>5. 1..written' = 1..written \union {written + 1} /\ 1..written' \subseteq Cells
      BY <3>1, <1>0 DEF Cells
    <3>6. \A b \in 1..written' : cache'[b] \in {Blank, job'.image.blocks[b]}
      BY <3>1, <3>4, <3>5 DEF Written
    <3>7. \A b \in Cells : b > written' => cache'[b] = Blank
      BY <3>1, <3>4, <1>0 DEF Written, Cells
    <3>8. \A b \in dirty' : cache'[b] = job'.image.blocks[b]
      BY <3>1, <3>4, <3>5 DEF Written, TypeOK
    <3>9. IsHonest' => \A b \in (1..written') \ dirty' : medium'[b] = job'.image.blocks[b]
      BY <3>1, <3>5 DEF Written, IsHonest
    <3>10. dirty' \subseteq 1..written' /\ written' <= job'.dev.size
      BY <3>1, <3>5, <1>0 DEF Written
    <3> QED
      BY <3>3, <3>6, <3>7, <3>8, <3>9, <3>10 DEF Written
  <2> QED
    BY <2>1, <2>2
<1>3. CASE DropCache
  <2>1. /\ UNCHANGED <<job, written, digest, dirty, medium>>
        /\ dirty = {}
        /\ \A b \in Cells : cache'[b] \in {Blank, cache[b]}
    BY <1>3 DEF DropCache, Progress
  <2>2. 1..written \subseteq Cells
    BY <1>0 DEF Cells, Written
  <2> QED
    BY <2>1, <2>2 DEF Written, IsHonest
<1>4. CASE Kernel
  <2> PICK b \in dirty : WriteBack(b)
    BY <1>4 DEF Kernel
  <2>1. UNCHANGED <<job, written, digest, cache>> /\ dirty' = dirty \ {b}
    BY DEF WriteBack
  <2>2. b \in Cells /\ cache[b] = job.image.blocks[b]
    BY DEF TypeOK, Written
  <2>3. ASSUME IsHonest PROVE medium' = [medium EXCEPT ![b] = job.image.blocks[b]]
    <3>1. job.dev.cell[b] = b /\ b # 0
      BY <2>2, <2>3, <1>0 DEF IsHonest, Cells
    <3> QED
      BY <2>2, <3>1 DEF WriteBack
  <2>4. IsHonest' => \A c \in (1..written') \ dirty' : medium'[c] = job'.image.blocks[c]
    <3> SUFFICES ASSUME IsHonest, NEW c \in (1..written) \ (dirty \ {b})
                 PROVE  medium'[c] = job.image.blocks[c]
      BY <2>1 DEF IsHonest
    <3>1. c \in Cells
      BY <1>0 DEF Cells, Written
    <3> QED
      BY <3>1, <2>2, <2>3 DEF Written, TypeOK
  <2> QED
    BY <2>1, <2>4 DEF Written
<1>5. CASE Reclaim
  <2> PICK b \in Cells \ dirty : Evict(b)
    BY <1>5 DEF Reclaim
  <2>1. UNCHANGED <<job, written, digest, dirty, medium>>
    BY DEF Evict
  <2>2. \A c \in Cells : cache'[c] = IF c = b THEN Blank ELSE cache[c]
    BY DEF Evict, TypeOK
  <2>3. 1..written \subseteq Cells
    BY <1>0 DEF Cells, Written
  <2> QED
    BY <2>1, <2>2, <2>3 DEF Written, IsHonest, TypeOK
<1> QED
  BY <1>1, <1>2, <1>3, <1>4, <1>5 DEF Next, Program

\* What a reader sees of an honest drive is what was written to it.
LEMMA HonestReads ==
  ASSUME IInv, dirty = {}, IsHonest, NEW b \in 1..written
  PROVE  Seen(b) = job.image.blocks[b]
<1>1. b \in Cells /\ b # 0
  BY JobFacts DEF IInv, Cells, Written
<1>2. Stored(b) = medium[b]
  BY <1>1 DEF Stored, IsHonest
<1> QED
  BY <1>1, <1>2 DEF Seen, IInv, Written

LEMMA StepReadBack == ASSUME IInv, Next PROVE ReadBack'
<1> USE DEF IInv
<1>0. Len(job.image.blocks) \in Nat /\ written \in Nat /\ job.dev.size \in 0..Blocks
  BY JobFacts
<1>1. CASE pc' # "read"
  BY <1>1 DEF ReadBack
<1>2. CASE DropCache
  <2>1. readback' = <<>> /\ (job'.blockdev => \A b \in Cells : cache'[b] = Blank)
    BY <1>2 DEF DropCache, Progress
  <2> QED
    BY <2>1 DEF ReadBack
<1>3. CASE ReadBlock /\ pc' = "read"
  <2> DEFINE n == Len(readback) + 1
  <2>1. /\ readback' = Append(readback, Seen(n)) /\ pc = "read"
        /\ Len(readback) < written /\ UNCHANGED <<job, written, digest, cache, dirty, medium>>
    BY <1>3 DEF ReadBlock, Fault, device
  <2>2. n \in Cells /\ n \in 1..written /\ Len(readback) \in Nat
    <3>1. Len(readback) \in Nat
      BY DEF TypeOK
    <3>2. written <= job.dev.size
      BY DEF Written
    <3> QED
      BY <3>1, <3>2, <2>1, <1>0, SizesAssumption DEF Cells
  <2>3. Seen(n) \in Data \union {Blank}
    BY <2>2, StoredInType
  <2>4. /\ Len(readback') = n /\ readback'[n] = Seen(n)
        /\ \A i \in 1..Len(readback) : readback'[i] = readback[i]
    BY <2>1, <2>3, AppendProperties DEF TypeOK
  <2>5. \A i \in Cells : Stored(i)' = Stored(i)
    BY <2>1 DEF Stored
  <2>6. 1..Len(readback') = 1..Len(readback) \union {n} /\ 1..n \subseteq Cells
    BY <2>2, <2>4, SizesAssumption DEF Cells
  <2>7. ASSUME job.blockdev
        PROVE  \A i \in 1..Len(readback') : readback'[i] = Stored(i)'
    <3>1. Seen(n) = Stored(n)
      BY <2>1, <2>2, <2>7 DEF Seen, ReadBack
    <3> QED
      BY <2>1, <2>4, <2>5, <2>6, <2>7, <3>1 DEF ReadBack
  <2>8. ASSUME IsHonest
        PROVE  \A i \in 1..Len(readback') : readback'[i] = job.image.blocks[i]
    <3>1. Seen(n) = job.image.blocks[n]
      BY <2>1, <2>2, <2>8, HonestReads DEF Progress
    <3> QED
      BY <2>1, <2>4, <2>6, <2>8, <3>1 DEF ReadBack
  <2> QED
    BY <2>1, <2>7, <2>8 DEF ReadBack, IsHonest
<1>4. CASE Kernel
  BY <1>4 DEF Kernel, WriteBack, Progress, ReadBack
<1>5. CASE Reclaim
  <2> PICK b \in Cells \ dirty : Evict(b)
    BY <1>5 DEF Reclaim
  <2>1. UNCHANGED <<job, pc, written, medium, readback>>
    BY DEF Evict
  <2>2. \A c \in Cells : cache'[c] = IF c = b THEN Blank ELSE cache[c]
    BY DEF Evict, TypeOK
  <2>3. \A i \in Cells : Stored(i)' = Stored(i)
    BY <2>1 DEF Stored
  <2>4. 1..Len(readback) \subseteq Cells
    BY <1>0, SizesAssumption DEF Cells, Written, TypeOK
  <2> QED
    BY <2>1, <2>2, <2>3, <2>4 DEF ReadBack, IsHonest
<1>6. CASE Program /\ pc' = "read" /\ ~DropCache /\ ~ReadBlock
  BY <1>6 DEF Program, AssertSafeTarget, DetectCompression, CheckPayload, Open,
              StreamBlock, StreamEnd, SyncAll, Compare, Goto, Return, Fault
<1> QED
  BY <1>1, <1>2, <1>3, <1>4, <1>5, <1>6 DEF Next

-----------------------------------------------------------------------------
\* A success means the stream ended well and nothing waits in the cache, so the
\* medium is as it will stay.
LEMMA OutcomeIsKept ==
  ASSUME IInv, Next, pc = "ended"
  PROVE  UNCHANGED <<job, pc, written, digest, readback, result, faulted>>
<1>1. ~Program
  BY ProgramRuns
<1> QED
  BY <1>1 DEF Next, Kernel, WriteBack, Reclaim, Evict

LEMMA MediumIsKept ==
  ASSUME IInv, Next, Done
  PROVE  UNCHANGED <<job, medium>>
<1>1. dirty = {} /\ pc = "ended"
  BY DEF IInv, Progress, Done
<1>2. ~Program /\ ~Kernel
  BY <1>1, ProgramRuns DEF Kernel
<1> QED
  BY <1>2 DEF Next, Reclaim, Evict

\* The steps that return "ok".
LEMMA OkSteps ==
  ASSUME IInv, Next, result' = "ok", pc # "ended"
  PROVE  /\ \/ SyncAll /\ ~job.verify
            \/ Compare /\ readback = digest
         /\ pc \in {"sync", "read"} /\ dirty = {}
         /\ UNCHANGED <<job, written, digest, cache, dirty, medium, readback>>
<1>1. result = "none"
  BY DEF IInv, Progress
<1>2. ~Kernel /\ ~Reclaim
  BY <1>1 DEF Kernel, WriteBack, Reclaim, Evict
<1>3. /\ ~AssertSafeTarget /\ ~DetectCompression /\ ~CheckPayload /\ ~Open
      /\ ~StreamBlock /\ ~StreamEnd /\ ~DropCache /\ ~ReadBlock
  BY <1>1 DEF AssertSafeTarget, DetectCompression, CheckPayload, Open, StreamBlock,
              StreamEnd, DropCache, ReadBlock, Goto, Return, Fault
<1>4. SyncAll \/ Compare
  BY <1>2, <1>3 DEF Next, Program
<1>5. CASE SyncAll
  BY <1>1, <1>5 DEF SyncAll, Goto, Return, Fault, device
<1>6. CASE Compare
  BY <1>1, <1>6 DEF Compare, Return, device, IInv, Progress
<1> QED
  BY <1>4, <1>5, <1>6

LEMMA HoldsIsKept ==
  ASSUME TypeOK, Holds(job.image), UNCHANGED <<job, medium>>
  PROVE  Holds(job.image)'
  BY DEF Holds, Stored

LEMMA StepVerified == ASSUME IInv, Next PROVE VerifiedMeansStored'
<1> SUFFICES ASSUME result' = "ok", job'.verify, job'.blockdev
             PROVE  Holds(job.image)'
  BY DEF VerifiedMeansStored
<1>1. CASE pc = "ended"
  <2>1. UNCHANGED <<job, result>>
    BY <1>1, OutcomeIsKept
  <2>2. Done /\ Holds(job.image)
    BY <1>1, <2>1 DEF IInv, VerifiedMeansStored, Done
  <2> QED
    BY <2>2, MediumIsKept, HoldsIsKept DEF IInv
<1>2. CASE pc # "ended"
  <2>1. Compare /\ readback = digest /\ UNCHANGED <<job, medium, digest, written>>
    BY <1>2, OkSteps
  <2>2. pc = "read" /\ Len(readback) = written
    BY <2>1 DEF Compare
  <2>3. \A i \in 1..written : Stored(i) = job.image.blocks[i]
    BY <2>1, <2>2 DEF IInv, ReadBack, Written
  <2>4. /\ job.image.sound /\ job.image.blocks # <<>>
        /\ written = Len(job.image.blocks)
    BY <2>2, JobFacts DEF IInv, Progress
  <2>5. Holds(job.image)
    BY <2>3, <2>4 DEF Holds
  <2> QED
    BY <2>1, <2>5, HoldsIsKept DEF IInv
<1> QED
  BY <1>1, <1>2

LEMMA StepWhole == ASSUME IInv, Next PROVE SuccessMeansWhole'
<1> SUFFICES ASSUME result' = "ok" PROVE SuccessMeansWhole'
  BY DEF SuccessMeansWhole
<1>1. CASE pc = "ended"
  <2>1. UNCHANGED <<job, written, digest, result>>
    BY <1>1, OutcomeIsKept
  <2>2. Done /\ SuccessMeansWhole
    BY <1>1, <2>1 DEF IInv, Done
  <2>3. UNCHANGED medium
    BY <2>2, MediumIsKept
  <2>4. IsHonest' => Holds(job.image)'
    BY <2>1, <2>2, <2>3, HoldsIsKept DEF IInv, SuccessMeansWhole, Done, IsHonest
  <2> QED
    BY <2>1, <2>2, <2>4 DEF SuccessMeansWhole, Done
<1>2. CASE pc # "ended"
  <2>1. /\ pc \in {"sync", "read"} /\ dirty = {}
        /\ UNCHANGED <<job, written, digest, medium>>
    BY <1>2, OkSteps
  <2>2. /\ job.image.sound /\ written > 0 /\ job.image.blocks # <<>>
        /\ written = Len(job.image.blocks)
    BY <2>1, JobFacts DEF IInv, Progress
  <2>3. digest = job.image.blocks
    <3>1. digest \in Seq(Data) /\ Len(digest) = Len(job.image.blocks)
      BY <2>2 DEF IInv, TypeOK
    <3>2. \A i \in 1..Len(digest) : digest[i] = job.image.blocks[i]
      BY <2>2, <3>1 DEF IInv, Written
    <3> QED
      BY <3>1, <3>2, JobFacts, SeqEqual DEF IInv
  <2>4. ASSUME IsHonest PROVE Holds(job.image)
    <3>1. \A b \in 1..written : b \in Cells /\ b # 0
      BY JobFacts, SizesAssumption DEF IInv, Cells, Written
    <3>2. \A b \in 1..written : Stored(b) = job.image.blocks[b]
      BY <2>1, <2>4, <3>1 DEF IInv, Written, Stored, IsHonest
    <3> QED
      BY <2>2, <3>2 DEF Holds
  <2>5. IsHonest' => Holds(job.image)'
    BY <2>1, <2>4, HoldsIsKept DEF IInv, IsHonest
  <2> QED
    BY <2>1, <2>2, <2>3, <2>5 DEF SuccessMeansWhole
<1> QED
  BY <1>1, <1>2

LEMMA StepGood == ASSUME IInv, Next PROVE GoodWriteSucceeds'
<1> USE DEF IInv
<1>0. /\ job.image.blocks \in Seq(Data) /\ Len(job.image.blocks) \in Nat
      /\ written \in Nat /\ job.dev.size \in Nat
  BY JobFacts
<1>1. CASE pc = "ended"
  BY <1>1, OutcomeIsKept DEF GoodWriteSucceeds, SafeTarget, IsHonest
<1>2. CASE pc # "ended"
  <2> SUFFICES ASSUME pc' = "ended", ~faulted', SafeTarget(job'.dev), job'.image.sound,
                      job'.image.kind # "rejected",
                      Len(job'.image.blocks) \in 1..job'.dev.size, IsHonest'
               PROVE  result' = "ok"
    BY DEF GoodWriteSucceeds
  <2>1. CASE AssertSafeTarget \/ DetectCompression \/ CheckPayload \/ Open
    BY <2>1, <1>0 DEF AssertSafeTarget, DetectCompression, CheckPayload, Open, Goto,
                      Return, Fault
  <2>2. CASE StreamBlock
    BY <2>2, <1>0 DEF StreamBlock, Goto, Return, Fault
  <2>3. CASE StreamEnd
    BY <2>3, <1>0 DEF StreamEnd, Goto, Return
  <2>4. CASE SyncAll \/ DropCache \/ ReadBlock
    BY <2>4 DEF SyncAll, DropCache, ReadBlock, Goto, Return, Fault
  <2>5. CASE Compare
    <3>1. pc = "read" /\ Len(readback) = written /\ job' = job
      BY <2>5 DEF Compare
    <3>2. \A i \in 1..Len(readback) : readback[i] = digest[i]
      BY <3>1 DEF ReadBack, Written, IsHonest
    <3>3. /\ readback \in Seq(Data \union {Blank}) /\ digest \in Seq(Data \union {Blank})
          /\ Len(readback) = Len(digest)
      BY <3>1 DEF TypeOK
    <3>4. readback = digest
      BY <3>2, <3>3, SeqEqual
    <3> QED
      BY <2>5, <3>4 DEF Compare, Return
  <2>6. CASE Kernel \/ Reclaim
    BY <2>6, <1>2 DEF Kernel, WriteBack, Reclaim, Evict
  <2> QED
    BY <2>1, <2>2, <2>3, <2>4, <2>5, <2>6 DEF Next, Program
<1> QED
  BY <1>1, <1>2

-----------------------------------------------------------------------------
LEMMA Invariance == Spec => []IInv
<1>1. IInv /\ [Next]_vars => IInv'
  <2> SUFFICES ASSUME IInv, [Next]_vars PROVE IInv'
    OBVIOUS
  <2>1. CASE Next
    BY <2>1, StepTypes, StepProgress, StepFits, StepWritten, StepReadBack, StepVerified,
       StepWhole, StepGood DEF IInv
  <2>2. CASE UNCHANGED vars
    BY <2>2 DEF vars, IInv, TypeOK, Progress, Fits, Written, ReadBack, Done, IsHonest,
       Stored, Holds, SafeTarget, VerifiedMeansStored, SuccessMeansWhole, GoodWriteSucceeds
  <2> QED
    BY <2>1, <2>2
<1> QED
  BY <1>1, InitInv, PTL DEF Spec

\* The state of a write keeps its type: what is hashed is what was written, and
\* no more is read back than that (write_image, verify_written).
THEOREM TypeCorrect == Spec => []TypeOK
<1>1. IInv => TypeOK
  BY DEF IInv
<1> QED
  BY <1>1, Invariance, PTL

\* verify_written passes only when the medium itself holds the whole image:
\* whatever the drive does with its cells and whenever the kernel writes back.
THEOREM VerifiedIsStored == Spec => []VerifiedMeansStored
<1>1. IInv => VerifiedMeansStored
  BY DEF IInv
<1> QED
  BY <1>1, Invariance, PTL

\* flash_linux_iso reports success only of a stream that ended well.
THEOREM SuccessIsWhole == Spec => []SuccessMeansWhole
<1>1. IInv => SuccessMeansWhole
  BY DEF IInv
<1> QED
  BY <1>1, Invariance, PTL

\* The read-back raises no false alarm: a good image on an honest drive passes.
THEOREM GoodWritePasses == Spec => []GoodWriteSucceeds
<1>1. IInv => GoodWriteSucceeds
  BY DEF IInv
<1> QED
  BY <1>1, Invariance, PTL

\* flash_linux_iso refuses a verbatim image that does not fit before it opens
\* the drive for writing.
THEOREM LargeIsRefused == Spec => []LargeVerbatimRefused
<1>1. ASSUME IInv PROVE LargeVerbatimRefused
  <2> SUFFICES ASSUME job.image.kind = "verbatim", Len(job.image.blocks) > job.dev.size
               PROVE  medium = [c \in Cells |-> Blank] /\ dirty = {}
    BY DEF LargeVerbatimRefused
  <2>1. ~(Len(job.image.blocks) <= job.dev.size) /\ written \in Nat
    BY <1>1, JobFacts DEF IInv
  <2>2. written = 0
    BY <1>1, <2>1 DEF IInv, Fits
  <2> QED
    BY <1>1, <2>2 DEF IInv, Fits
<1> QED
  BY <1>1, Invariance, PTL

-----------------------------------------------------------------------------
(***************************************************************************)
(* The decoder of compress archives.  Types and links first (LzwInv), then *)
(* the round trip: the states the encoder goes through between two codes   *)
(* are kept as a record of the stream, and the decoder is shown to follow  *)
(* that record one entry behind (InStep) with the rest of it still ahead.  *)
(***************************************************************************)

LEMMA Least ==
  ASSUME NEW T \in SUBSET Nat, T # {}
  PROVE  \E x \in T : \A y \in T : x <= y
<1> DEFINE R == OpToRel(<, Nat)
<1>1. IsWellFoundedOn(R, Nat)
  BY NatLessThanWellFounded
<1>2. \E x \in T : \A y \in T : ~(<<y, x>> \in R)
  <2> HIDE DEF R
  <2> QED BY <1>1, WFMin, Zenon
<1>3. PICK x \in T : \A y \in T : ~(<<y, x>> \in R)
  BY <1>2
<1>4. ASSUME NEW y \in T PROVE x <= y
  <2>1. x \in Nat /\ y \in Nat
    OBVIOUS
  <2>2. y < x => <<y, x>> \in R
    BY <2>1 DEF OpToRel
  <2> HIDE DEF R
  <2>3. ~(y < x)
    BY <2>2, <1>3
  <2> QED BY <2>1, <2>3
<1> QED
  BY <1>4

-----------------------------------------------------------------------------
\* Powers of two: the provers know none, the library counts subsets with them.

LEMMA PowerIsSubsets ==
  ASSUME NEW n \in Nat
  PROVE  IsFiniteSet(SUBSET (1..n)) /\ Cardinality(SUBSET (1..n)) = 2^n
<1>1. IsFiniteSet(1..n) /\ Cardinality(1..n) = n
  BY FS_Interval
<1>2. IsFiniteSet(SUBSET (1..n)) /\ Cardinality(SUBSET (1..n)) = 2^Cardinality(1..n)
  BY <1>1, FS_SUBSET, Zenon
<1> QED BY <1>1, <1>2

LEMMA PowerType ==
  ASSUME NEW n \in Nat
  PROVE  2^n \in Nat
<1>1. Cardinality(SUBSET (1..n)) \in Nat
  BY PowerIsSubsets, FS_CardinalityType
<1> QED BY <1>1, PowerIsSubsets

LEMMA PowerZero == 2^0 = 1
<1>1. 1..0 = {}
  OBVIOUS
<1>2. SUBSET (1..0) = {{}}
  BY <1>1
<1>3. Cardinality({{}}) = 1
  BY FS_Singleton
<1>4. Cardinality(SUBSET (1..0)) = 2^0
  BY PowerIsSubsets
<1> QED BY <1>2, <1>3, <1>4

\* Half of the subsets of 1..n + 1 are without n + 1.
LEMMA PowerNext ==
  ASSUME NEW n \in Nat
  PROVE  2^(n + 1) = 2 * 2^n
<1> DEFINE without == SUBSET (1..n)
           with == {A \union {n + 1} : A \in without}
           f == [A \in without |-> A \union {n + 1}]
<1>1. IsFiniteSet(without) /\ Cardinality(without) = 2^n
  BY PowerIsSubsets
<1>2. IsFiniteSet(SUBSET (1..n + 1)) /\ Cardinality(SUBSET (1..n + 1)) = 2^(n + 1)
  <2>1. n + 1 \in Nat
    OBVIOUS
  <2> QED BY <2>1, PowerIsSubsets
<1>3. ExistsBijection(without, with)
  <2>1. f \in [without -> with]
    OBVIOUS
  <2>2. ASSUME NEW A \in without, NEW B \in without, f[A] = f[B] PROVE A = B
    <3>1. n + 1 \notin 1..n
      OBVIOUS
    <3>2. n + 1 \notin A /\ n + 1 \notin B
      BY <3>1
    <3>3. A \union {n + 1} = B \union {n + 1}
      BY <2>2
    <3> QED BY <3>2, <3>3
  <2>3. ASSUME NEW B \in with PROVE \E A \in without : f[A] = B
    OBVIOUS
  <2> HIDE DEF without, with, f
  <2>4. f \in Bijection(without, with)
    BY <2>1, <2>2, <2>3 DEF Bijection, Injection, IsInjective, Surjection
  <2> QED BY <2>4 DEF ExistsBijection
<1>4. IsFiniteSet(with) /\ Cardinality(with) = Cardinality(without)
  <2> HIDE DEF without, with
  <2> QED BY <1>1, <1>3, FS_Bijection
<1>5. SUBSET (1..n + 1) = without \union with
  <2>1. ASSUME NEW A \in SUBSET (1..n + 1) PROVE A \in without \union with
    <3>1. CASE n + 1 \in A
      <4>1. A \ {n + 1} \in without
        OBVIOUS
      <4>2. A = (A \ {n + 1}) \union {n + 1}
        BY <3>1
      <4> QED BY <4>1, <4>2
    <3>2. CASE n + 1 \notin A
      <4>1. \A x \in A : x \in 1..n + 1 /\ x # n + 1
        BY <3>2
      <4>2. \A x \in 1..n + 1 : x # n + 1 => x \in 1..n
        OBVIOUS
      <4> QED BY <4>1, <4>2
    <3> QED BY <3>1, <3>2
  <2>2. ASSUME NEW A \in without PROVE A \in SUBSET (1..n + 1) /\ A \union {n + 1} \in SUBSET (1..n + 1)
    <3>1. \A x \in 1..n : x \in 1..n + 1
      OBVIOUS
    <3>2. n + 1 \in 1..n + 1
      OBVIOUS
    <3> QED BY <3>1, <3>2
  <2>3. ASSUME NEW A \in with PROVE A \in SUBSET (1..n + 1)
    <3>1. PICK B \in without : A = B \union {n + 1}
      OBVIOUS
    <3> QED BY <3>1, <2>2
  <2> HIDE DEF without, with
  <2> QED BY <2>1, <2>2, <2>3, Zenon
<1>6. without \intersect with = {}
  <2>1. n + 1 \notin 1..n
    OBVIOUS
  <2> QED BY <2>1
<1>7. Cardinality(without \union with) = Cardinality(without) + Cardinality(with) - Cardinality(without \intersect with)
  <2> HIDE DEF without, with
  <2> QED BY <1>1, <1>4, FS_Union
<1>8. Cardinality(without \intersect with) = 0
  BY <1>6, FS_EmptySet
<1>9. 2^n \in Nat
  BY PowerType
<1> HIDE DEF without, with
<1>10. 2^(n + 1) = 2^n + 2^n - 0
  BY <1>1, <1>2, <1>4, <1>5, <1>7, <1>8
<1> QED BY <1>9, <1>10

\* The least distance at which it were not so is not the least.
LEMMA PowerGrows ==
  ASSUME NEW m \in Nat, NEW n \in Nat, m <= n
  PROVE  2^m <= 2^n /\ 2^m >= 1
<1> DEFINE T == {k \in Nat : ~(2^m <= 2^(m + k) /\ 2^k >= 1)}
<1>1. T = {}
  <2>1. SUFFICES ASSUME T # {} PROVE FALSE
    OBVIOUS
  <2>2. PICK k \in T : \A y \in T : k <= y
    <3>1. T \in SUBSET Nat
      OBVIOUS
    <3> HIDE DEF T
    <3> QED BY <2>1, <3>1, Least
  <2>3. k # 0
    <3>1. 2^m \in Nat /\ m + 0 = m /\ 2^0 >= 1
      BY PowerType, PowerZero
    <3>2. 2^m <= 2^(m + 0)
      BY <3>1
    <3>3. 0 \notin T
      BY <3>1, <3>2
    <3> QED BY <3>3, <2>2
  <2>4. k - 1 \in Nat /\ k - 1 \notin T
    BY <2>2, <2>3
  <2>5. 2^m <= 2^(m + (k - 1)) /\ 2^(k - 1) >= 1
    BY <2>4
  <2>6. 2^k = 2 * 2^(k - 1) /\ 2^(m + k) = 2 * 2^(m + (k - 1))
    <3>1. (k - 1) + 1 = k /\ (m + (k - 1)) + 1 = m + k
      OBVIOUS
    <3>2. k - 1 \in Nat /\ m + (k - 1) \in Nat
      BY <2>4
    <3>3. 2^((k - 1) + 1) = 2 * 2^(k - 1) /\ 2^((m + (k - 1)) + 1) = 2 * 2^(m + (k - 1))
      BY <3>2, PowerNext
    <3> QED BY <3>1, <3>3
  <2>7. 2^(k - 1) \in Nat /\ 2^m \in Nat /\ 2^(m + (k - 1)) \in Nat
    BY <2>4, PowerType
  <2>8. 2^m <= 2^(m + k) /\ 2^k >= 1
    BY <2>5, <2>6, <2>7
  <2> QED BY <2>2, <2>8
<1>2. n - m \in Nat /\ m + (n - m) = n
  OBVIOUS
<1>3. 2^m <= 2^(m + (n - m))
  <2>1. n - m \notin T
    BY <1>1
  <2> QED BY <2>1, <1>2
<1>4. 2^m >= 1
  <2>1. m \notin T
    BY <1>1
  <2> QED BY <2>1
<1> QED BY <1>2, <1>3, <1>4

-----------------------------------------------------------------------------
\* A function defined from 0 upwards, by its value before, exists.
Runs(g, f, x, N, S) == g \in [0..N -> S] /\ g[0] = x /\ \A n \in 1..N : g[n] = f[n][g[n - 1]]

LEMMA Recursion ==
  ASSUME NEW S, NEW x \in S, NEW N \in Nat, NEW f \in [1..N -> [S -> S]]
  PROVE  \E g : Runs(g, f, x, N, S)
<1> DEFINE Upto(m, g) == Runs(g, f, x, m, S)
           T == {m \in 0..N : ~\E g : Upto(m, g)}
<1>1. T = {}
  <2>1. SUFFICES ASSUME T # {} PROVE FALSE
    OBVIOUS
  <2>2. PICK m \in T : \A y \in T : m <= y
    <3>1. T \in SUBSET Nat
      OBVIOUS
    <3> HIDE DEF T
    <3> QED BY <2>1, <3>1, Least
  <2>3. m # 0
    <3>1. Upto(0, [n \in 0..0 |-> x])
      BY DEF Runs
    <3>2. 0 \notin T
      BY <3>1
    <3> QED BY <3>2, <2>2
  <2>4. m - 1 \in 0..N /\ m \in 1..N
    BY <2>2, <2>3
  <2>5. PICK g : Upto(m - 1, g)
    <3>1. m - 1 \notin T
      BY <2>2, <2>4
    <3> QED BY <2>4, <3>1
  <2> DEFINE v == f[m][g[m - 1]]
             h == [n \in 0..m |-> IF n = m THEN v ELSE g[n]]
  <2>6. g[m - 1] \in S /\ v \in S
    BY <2>4, <2>5 DEF Runs
  <2>7. h \in [0..m -> S] /\ h[0] = x
    BY <2>4, <2>5, <2>6 DEF Runs
  <2>8. ASSUME NEW n \in 1..m PROVE h[n] = f[n][h[n - 1]]
    <3>1. n - 1 \in 0..m - 1 /\ h[n - 1] = g[n - 1]
      BY <2>4
    <3>2. CASE n = m
      <4>1. h[n] = v
        BY <3>2
      <4> HIDE DEF h
      <4> QED BY <3>1, <3>2, <4>1
    <3>3. CASE n # m
      <4>1. n \in 1..m - 1 /\ h[n] = g[n]
        BY <3>3, <2>4
      <4>2. g[n] = f[n][g[n - 1]]
        BY <4>1, <2>5 DEF Runs
      <4> QED BY <3>1, <4>1, <4>2
    <3> QED BY <3>2, <3>3
  <2>9. Upto(m, h)
    <3> HIDE DEF h
    <3> QED BY <2>7, <2>8 DEF Runs
  <2> QED BY <2>9, <2>2
<1>2. N \notin T
  BY <1>1
<1>3. PICK g : Upto(N, g)
  BY <1>2
<1> QED BY <1>3

-----------------------------------------------------------------------------
\* A code and its bits.

LEMMA BitsOfCode ==
  ASSUME NEW code \in Nat, NEW w \in Nat
  PROVE  /\ CodeToBits(code, w) \in Seq(Bit) /\ Len(CodeToBits(code, w)) = w
         /\ \A i \in 1..w : CodeToBits(code, w)[i] = (code \div 2^(i - 1)) % 2
<1>1. ASSUME NEW i \in 1..w PROVE (code \div 2^(i - 1)) % 2 \in Bit
  <2>1. i - 1 \in Nat
    OBVIOUS
  <2>2. 2^(i - 1) \in Nat /\ 2^(i - 1) >= 1
    BY <2>1, PowerType, PowerGrows
  <2>3. code \div 2^(i - 1) \in Nat
    BY <2>2
  <2> QED BY <2>3 DEF Bit
<1>2. CodeToBits(code, w) \in [1..w -> Bit]
  BY <1>1 DEF CodeToBits
<1>3. CodeToBits(code, w) \in Seq(Bit) /\ Len(CodeToBits(code, w)) = w
  BY <1>2
<1> QED BY <1>3 DEF CodeToBits

\* What BitsToCode is: the value of the high bits, one more at a time.
IsHigh(g, s) ==
  g = [n \in 0..Len(s) |-> IF n = 0 THEN 0 ELSE 2 * g[n - 1] + s[Len(s) + 1 - n]]

LEMMA HighExists ==
  ASSUME NEW s \in Seq(Bit)
  PROVE  \E g : /\ BitsToCode(s) = g[Len(s)] /\ g[0] = 0
                /\ \A n \in 1..Len(s) : g[n] = 2 * g[n - 1] + s[Len(s) + 1 - n]
<1> DEFINE N == Len(s)
           f == [n \in 1..N |-> [v \in Nat |-> 2 * v + s[N + 1 - n]]]
           h == CHOOSE g : IsHigh(g, s)
<1>1. N \in Nat
  OBVIOUS
<1>2. f \in [1..N -> [Nat -> Nat]]
  <2>1. ASSUME NEW n \in 1..N, NEW v \in Nat PROVE 2 * v + s[N + 1 - n] \in Nat
    <3>1. N + 1 - n \in 1..N
      OBVIOUS
    <3>2. s[N + 1 - n] \in Bit
      BY <3>1
    <3> QED BY <3>2 DEF Bit
  <2> QED BY <2>1
<1>3. \E g : IsHigh(g, s)
  <2>1. PICK g \in [0..N -> Nat] : g[0] = 0 /\ \A n \in 1..N : g[n] = f[n][g[n - 1]]
    <3>1. 0 \in Nat
      OBVIOUS
    <3> HIDE DEF N, f
    <3>2. \E g : Runs(g, f, 0, N, Nat)
      BY <1>1, <1>2, <3>1, Recursion, Zenon
    <3> QED BY <3>2, Zenon DEF Runs
  <2>2. ASSUME NEW n \in 0..N
        PROVE  g[n] = IF n = 0 THEN 0 ELSE 2 * g[n - 1] + s[N + 1 - n]
    <3>1. CASE n = 0
      BY <2>1, <3>1
    <3>2. CASE n # 0
      <4>1. n \in 1..N /\ g[n - 1] \in Nat
        BY <2>1, <3>2
      <4>3. f[n][g[n - 1]] = 2 * g[n - 1] + s[N + 1 - n]
        BY <4>1
      <4> QED BY <2>1, <3>2, <4>1, <4>3
    <3> QED BY <3>1, <3>2
  <2>3. g = [n \in 0..N |-> IF n = 0 THEN 0 ELSE 2 * g[n - 1] + s[N + 1 - n]]
    BY <2>1, <2>2
  <2> QED BY <2>3 DEF IsHigh
<1>4. IsHigh(h, s)
  BY <1>3, Zenon
<1>5. BitsToCode(s) = h[Len(s)]
  BY Zenon DEF BitsToCode, IsHigh
<1> HIDE DEF h
<1>6. \A n \in 0..N : h[n] = IF n = 0 THEN 0 ELSE 2 * h[n - 1] + s[N + 1 - n]
  BY <1>4, Zenon DEF IsHigh
<1>7. 0 \in 0..N /\ \A n \in 1..N : n \in 0..N /\ n # 0
  OBVIOUS
<1>8. h[0] = 0 /\ \A n \in 1..N : h[n] = 2 * h[n - 1] + s[N + 1 - n]
  <2> HIDE DEF N
  <2> QED BY <1>6, <1>7, Zenon
<1> QED BY <1>5, <1>8

LEMMA CodeOfBits ==
  ASSUME NEW s \in Seq(Bit)
  PROVE  BitsToCode(s) \in 0..2^Len(s) - 1
<1>1. PICK g : /\ BitsToCode(s) = g[Len(s)] /\ g[0] = 0
               /\ \A n \in 1..Len(s) : g[n] = 2 * g[n - 1] + s[Len(s) + 1 - n]
  BY HighExists
<1> DEFINE T == {n \in 0..Len(s) : g[n] \notin 0..2^n - 1}
<1>2. T = {}
  <2>1. SUFFICES ASSUME T # {} PROVE FALSE
    OBVIOUS
  <2>2. PICK m \in T : \A y \in T : m <= y
    <3>1. T \in SUBSET Nat
      OBVIOUS
    <3> HIDE DEF T
    <3> QED BY <2>1, <3>1, Least
  <2>3. m # 0
    <3>1. g[0] \in 0..2^0 - 1
      BY <1>1, PowerZero
    <3>2. 0 \notin T
      BY <3>1
    <3> QED BY <3>2, <2>2
  <2>4. m - 1 \in Nat /\ m - 1 \notin T /\ m \in 1..Len(s)
    BY <2>2, <2>3
  <2>5. g[m - 1] \in 0..2^(m - 1) - 1
    BY <2>4
  <2>6. 2^m = 2 * 2^(m - 1) /\ 2^(m - 1) \in Nat
    <3>1. (m - 1) + 1 = m
      OBVIOUS
    <3> QED BY <3>1, <2>4, PowerNext, PowerType
  <2>7. s[Len(s) + 1 - m] \in Bit
    BY <2>4
  <2>8. g[m] = 2 * g[m - 1] + s[Len(s) + 1 - m]
    BY <1>1, <2>4
  <2>9. g[m] \in 0..2^m - 1
    BY <2>5, <2>6, <2>7, <2>8 DEF Bit
  <2> QED BY <2>2, <2>9
<1>3. Len(s) \notin T
  BY <1>2
<1> QED BY <1>1, <1>3

LEMMA HalfOfQuotient ==
  ASSUME NEW c \in Nat, NEW P \in Nat \ {0}
  PROVE  c \div P = 2 * (c \div (2 * P)) + ((c \div P) % 2)
<1>1. PICK q \in Nat, r \in 0..P - 1 : q = c \div P /\ c = q * P + r
  <2>1. c \div P \in Nat /\ c % P \in 0..P - 1 /\ c = (c \div P) * P + (c % P)
    OBVIOUS
  <2> QED BY <2>1
<1>2. PICK a \in Nat, b \in 0..1 : b = q % 2 /\ q = 2 * a + b
  <2>1. q \div 2 \in Nat /\ q % 2 \in 0..1 /\ q = 2 * (q \div 2) + (q % 2)
    OBVIOUS
  <2> QED BY <2>1
<1>3. c = a * (2 * P) + (b * P + r)
  <2>1. b = 0 \/ b = 1
    OBVIOUS
  <2>2. (2 * a) * P = a * (2 * P) /\ (2 * a + 1) * P = a * (2 * P) + P
    OBVIOUS
  <2>3. q * P = a * (2 * P) + b * P
    BY <1>2, <2>1, <2>2
  <2> QED BY <1>1, <2>3
<1>4. b * P + r \in 0..2 * P - 1
  <2>1. b = 0 \/ b = 1
    OBVIOUS
  <2> QED BY <2>1
<1>5. (a * (2 * P) + (b * P + r)) \div (2 * P) = a
  <2> DEFINE s == 2 * P
             u == b * P + r
  <2>1. s \in Nat \ {0} /\ u \in 0..s - 1
    BY <1>4
  <2> HIDE DEF s, u
  <2>2. (a * s + u) \div s = a
    BY <2>1
  <2> QED BY <2>2 DEF s, u
<1>6. c \div (2 * P) = a
  BY <1>3, <1>5, Zenon
<1>7. (c \div P) % 2 = b /\ c \div P = 2 * a + b
  BY <1>1, <1>2, Zenon
<1> QED BY <1>6, <1>7, Zenon

\* The bits of a code give the code back.
LEMMA CodeSurvives ==
  ASSUME NEW w \in Nat, NEW code \in 0..2^w - 1
  PROVE  BitsToCode(CodeToBits(code, w)) = code
<1> DEFINE s == CodeToBits(code, w)
<1>1. s \in Seq(Bit) /\ Len(s) = w /\ \A i \in 1..w : s[i] = (code \div 2^(i - 1)) % 2
  BY PowerType, BitsOfCode
<1> HIDE DEF s
<1>2. PICK g : /\ BitsToCode(s) = g[w] /\ g[0] = 0
               /\ \A n \in 1..w : g[n] = 2 * g[n - 1] + s[w + 1 - n]
  BY <1>1, HighExists
<1>3. code \in Nat /\ 2^w \in Nat
  BY PowerType
<1> DEFINE T == {n \in 0..w : g[n] # code \div 2^(w - n)}
<1>4. T = {}
  <2>1. SUFFICES ASSUME T # {} PROVE FALSE
    OBVIOUS
  <2>2. PICK m \in T : \A y \in T : m <= y
    <3>1. T \in SUBSET Nat
      OBVIOUS
    <3> HIDE DEF T
    <3> QED BY <2>1, <3>1, Least
  <2>3. m # 0
    <3>1. w - 0 = w /\ code \div 2^w = 0
      BY <1>3
    <3>2. 0 \notin T
      BY <1>2, <3>1
    <3> QED BY <3>2, <2>2
  <2>4. m - 1 \in Nat /\ m - 1 \notin T /\ m \in 1..w /\ w - m \in Nat
    BY <2>2, <2>3
  <2> DEFINE P == 2^(w - m)
  <2>5. P \in Nat \ {0} /\ 2^(w - (m - 1)) = 2 * P
    <3>1. (w - m) + 1 = w - (m - 1)
      BY <2>4
    <3>2. 2^((w - m) + 1) = 2 * 2^(w - m) /\ 2^(w - m) \in Nat
      BY <2>4, PowerNext, PowerType
    <3>3. 2^(w - m) >= 1
      BY <2>4, PowerGrows
    <3> QED BY <3>1, <3>2, <3>3
  <2>6. g[m - 1] = code \div (2 * P)
    <3>1. g[m - 1] = code \div 2^(w - (m - 1))
      BY <2>4
    <3> QED BY <3>1, <2>5
  <2>7. s[w + 1 - m] = (code \div P) % 2
    <3>1. w + 1 - m \in 1..w /\ (w + 1 - m) - 1 = w - m
      BY <2>4
    <3> QED BY <1>1, <3>1
  <2>8. g[m] = 2 * g[m - 1] + s[w + 1 - m]
    BY <1>2, <2>4
  <2>9. g[m] = code \div P
    <3> HIDE DEF P
    <3>1. code \div P = 2 * (code \div (2 * P)) + ((code \div P) % 2)
      BY <1>3, <2>5, HalfOfQuotient
    <3>2. code \div (2 * P) \in Nat /\ code \div P \in Nat
      BY <1>3, <2>5
    <3> QED BY <2>6, <2>7, <2>8, <3>1, <3>2
  <2> QED BY <2>2, <2>9
<1>5. g[w] = code \div 2^0
  <2>1. w \in 0..w /\ w - w = 0
    OBVIOUS
  <2>2. g[w] = code \div 2^(w - w)
    BY <1>4, <2>1
  <2> QED BY <2>1, <2>2
<1>6. code \div 1 = code
  BY <1>3
<1> QED BY <1>2, <1>5, <1>6, PowerZero DEF s

-----------------------------------------------------------------------------
\* The encoder's dictionary: the literals, and entries up to e.
IsTable(t, e, block) ==
  /\ e \in Nat /\ FirstFree(block) <= e
  /\ DOMAIN t = Literal \union (FirstFree(block)..e - 1)
  /\ \A n \in Literal : t[n] = <<n>>
  /\ \A n \in DOMAIN t : t[n] \in Seq(Literal) \ {<<>>}

LEMMA Shapes ==
  /\ Literals \in Nat /\ Literals >= 2 /\ InitWidth \in Nat /\ InitWidth >= 1
  /\ Group \in Nat /\ Group >= 1 /\ Byte \in Nat /\ Byte >= 1 /\ Byte <= InitWidth
  /\ CodeBits \in Nat /\ 2^InitWidth = 2 * Literals
  /\ \A block \in BOOLEAN : FirstFree(block) \in Literals..Literals + 1
  /\ \A w \in MaxWidths : w \in Nat /\ InitWidth <= w /\ w <= CodeBits
BY ShapeAssumption DEF FirstFree

LEMMA CapacityType ==
  ASSUME maxWidth \in MaxWidths
  PROVE  /\ Capacity \in Nat /\ Capacity >= 2 * Literals /\ 2^CodeBits \in Nat
         /\ Capacity <= 2^CodeBits
         /\ \A w \in InitWidth..maxWidth : 2^w \in Nat /\ 2^w >= 2 * Literals /\ 2^w <= Capacity
<1>1. maxWidth \in Nat /\ InitWidth <= maxWidth /\ maxWidth <= CodeBits
  BY Shapes
<1>2. 2^CodeBits \in Nat /\ 2^maxWidth \in Nat /\ 2^maxWidth <= 2^CodeBits /\ 2^InitWidth <= 2^maxWidth
  BY <1>1, Shapes, PowerType, PowerGrows
<1>3. ASSUME NEW w \in InitWidth..maxWidth
      PROVE  2^w \in Nat /\ 2^w >= 2 * Literals /\ 2^w <= 2^maxWidth
  <2>1. w \in Nat /\ InitWidth <= w /\ w <= maxWidth
    BY Shapes
  <2> QED BY <1>1, <2>1, Shapes, PowerType, PowerGrows
<1> QED BY <1>2, <1>3, Shapes DEF Capacity

LEMMA IntervalSize ==
  ASSUME NEW a \in Int, NEW b \in Int, a <= b + 1
  PROVE  IsFiniteSet(a..b) /\ Cardinality(a..b) = b - a + 1
<1>1. IsFiniteSet(a..b) /\ Cardinality(a..b) = IF a > b THEN 0 ELSE b - a + 1
  BY FS_Interval
<1> QED BY <1>1

LEMMA EndOfTable ==
  ASSUME NEW t, NEW e, NEW block \in BOOLEAN, IsTable(t, e, block)
  PROVE  FirstFree(block) + Cardinality(DOMAIN t) - Literals = e
<1> DEFINE made == FirstFree(block)..e - 1
<1>1. FirstFree(block) \in Literals..Literals + 1 /\ e \in Nat /\ FirstFree(block) <= e /\ Literals \in Nat
  BY Shapes DEF IsTable
<1>2. IsFiniteSet(Literal) /\ Cardinality(Literal) = Literals
  <2>1. 0 \in Int /\ Literals - 1 \in Int /\ 0 <= Literals - 1 + 1
    BY <1>1
  <2>2. IsFiniteSet(0..Literals - 1) /\ Cardinality(0..Literals - 1) = Literals - 1 - 0 + 1
    BY <2>1, IntervalSize, Zenon
  <2> QED BY <1>1, <2>2, Shapes DEF Literal
<1>3. IsFiniteSet(made) /\ Cardinality(made) = e - FirstFree(block)
  <2>1. FirstFree(block) \in Int /\ e - 1 \in Int /\ FirstFree(block) <= e - 1 + 1
    BY <1>1
  <2>2. IsFiniteSet(made) /\ Cardinality(made) = e - 1 - FirstFree(block) + 1
    BY <2>1, IntervalSize, Zenon
  <2> QED BY <1>1, <2>2
<1>4. Literal \intersect made = {}
  BY <1>1 DEF Literal
<1>5. Cardinality(Literal \union made) = Cardinality(Literal) + Cardinality(made) - Cardinality(Literal \intersect made)
  <2> HIDE DEF made
  <2> QED BY <1>2, <1>3, FS_Union
<1>6. Cardinality(Literal \intersect made) = 0
  BY <1>4, FS_EmptySet
<1>7. DOMAIN t = Literal \union made
  BY DEF IsTable
<1> HIDE DEF made
<1>8. Cardinality(DOMAIN t) = Literals + (e - FirstFree(block)) - 0
  BY <1>2, <1>3, <1>5, <1>6, <1>7
<1> QED BY <1>1, <1>8

\* What is written next is a string of the dictionary.
LEMMA LongestIsCoded ==
  ASSUME NEW e, IsTable(table, e, blockMode), rest \in Seq(Literal), rest # <<>>
  PROVE  Longest \in Coded
<1>1. rest[1] \in Literal /\ Len(rest) \in Nat /\ Len(rest) >= 1
  OBVIOUS
<1>2. rest[1] \in Coded
  <2>1. rest[1] \in DOMAIN table /\ table[rest[1]] = <<rest[1]>>
    BY <1>1 DEF IsTable
  <2>2. Len(<<rest[1]>>) = 1 /\ SubSeq(<<rest[1]>>, 1, 1) = SubSeq(rest, 1, 1)
    BY <1>1
  <2>3. IsPrefix(table[rest[1]], rest)
    BY <1>1, <2>1, <2>2 DEF IsPrefix
  <2> QED BY <2>1, <2>3 DEF Coded
<1> DEFINE left(n) == Len(rest) - Len(table[n])
           T == {left(n) : n \in Coded}
<1>3. ASSUME NEW n \in Coded PROVE left(n) \in Nat /\ Len(table[n]) \in Nat
  <2>1. n \in DOMAIN table /\ Len(table[n]) <= Len(rest)
    BY DEF Coded, IsPrefix
  <2>2. table[n] \in Seq(Literal)
    BY <2>1 DEF IsTable
  <2> QED BY <1>1, <2>1, <2>2
<1>4. PICK x \in T : \A y \in T : x <= y
  <2>1. T \in SUBSET Nat /\ T # {}
    BY <1>2, <1>3
  <2> HIDE DEF T
  <2> QED BY <2>1, Least
<1>5. PICK n \in Coded : x = left(n)
  BY <1>4
<1>6. ASSUME NEW m \in Coded PROVE Len(table[m]) <= Len(table[n])
  <2>1. left(n) <= left(m)
    BY <1>4, <1>5
  <2> QED BY <1>1, <1>3, <2>1
<1> QED BY <1>5, <1>6 DEF Longest

LEMMA PaddingType ==
  ASSUME NEW n \in Nat, NEW w \in Nat
  PROVE  Padding(n, w) \in Nat
<1>1. n % Group \in 0..Group - 1
  BY Shapes
<1>2. Group - (n % Group) \in Nat
  BY <1>1, Shapes
<1> DEFINE left == Group - (n % Group)
<1> HIDE DEF left
<1>3. left \in Nat => left * w \in Nat
  OBVIOUS
<1> QED BY <1>2, <1>3 DEF Padding, left

LEMMA ZerosType ==
  ASSUME NEW n \in Nat
  PROVE  Zeros(n) \in Seq(Bit) /\ Len(Zeros(n)) = n
<1>1. Zeros(n) \in [1..n -> Bit]
  BY DEF Zeros, Bit
<1> QED BY <1>1

LEMMA DropType ==
  ASSUME NEW S, NEW s \in Seq(S), NEW n \in 0..Len(s)
  PROVE  Drop(s, n) \in Seq(S) /\ Len(Drop(s, n)) = Len(s) - n
BY DEF Drop

LEMMA RealignType ==
  ASSUME NEW s \in Seq(Bit), NEW n \in Nat, NEW w \in Nat
  PROVE  Realign(s, n, w) \in Seq(Bit)
<1>1. Padding(n, w) \in Nat
  BY PaddingType
<1> DEFINE p == IF Padding(n, w) <= Len(s) THEN Padding(n, w) ELSE Len(s)
<1>2. p \in 0..Len(s)
  BY <1>1
<1>3. Drop(s, p) \in Seq(Bit)
  <2> HIDE DEF p
  <2> QED BY <1>2, DropType
<1> QED BY <1>3 DEF Realign, Discard

LEMMA CodeType ==
  ASSUME bits \in Seq(Bit), width \in Nat, Len(bits) >= width
  PROVE  Code \in 0..2^width - 1
<1>1. SubSeq(bits, 1, width) \in Seq(Bit) /\ Len(SubSeq(bits, 1, width)) = width
  OBVIOUS
<1> QED BY <1>1, CodeOfBits DEF Code

-----------------------------------------------------------------------------
\* The links down from an entry, and what they spell.

Down(at, code) ==
  at = [k \in 0..Capacity |->
          IF k = 0 THEN code
          ELSE IF at[k - 1] < Literals THEN at[k - 1] ELSE prefix[at[k - 1]]]

LEMMA ChainIs ==
  ASSUME NEW code \in Slots, maxWidth \in MaxWidths, prefix \in [Slots -> Slots]
  PROVE  LET at == Chain(code) IN
           /\ at \in [0..Capacity -> Slots] /\ at[0] = code
           /\ \A k \in 1..Capacity :
                at[k] = IF at[k - 1] < Literals THEN at[k - 1] ELSE prefix[at[k - 1]]
<1> DEFINE h == CHOOSE at : Down(at, code)
           f == [k \in 1..Capacity |-> [c \in Slots |-> IF c < Literals THEN c ELSE prefix[c]]]
<1>1. Capacity \in Nat
  BY CapacityType
<1>2. f \in [1..Capacity -> [Slots -> Slots]]
  OBVIOUS
<1>3. PICK g : Runs(g, f, code, Capacity, Slots)
  <2> HIDE DEF f
  <2> QED BY <1>1, <1>2, Recursion, Zenon
<1>4. g \in [0..Capacity -> Slots] /\ g[0] = code /\ \A k \in 1..Capacity : g[k] = f[k][g[k - 1]]
  BY <1>3, Zenon DEF Runs
<1>5. ASSUME NEW k \in 0..Capacity
      PROVE  g[k] = IF k = 0 THEN code ELSE IF g[k - 1] < Literals THEN g[k - 1] ELSE prefix[g[k - 1]]
  <2>1. CASE k = 0
    BY <1>4, <2>1
  <2>2. CASE k # 0
    <3>1. k \in 1..Capacity /\ k - 1 \in 0..Capacity
      BY <1>1, <2>2
    <3>2. g[k - 1] \in Slots
      BY <1>4, <3>1
    <3>3. f[k][g[k - 1]] = IF g[k - 1] < Literals THEN g[k - 1] ELSE prefix[g[k - 1]]
      BY <3>1, <3>2
    <3> QED BY <1>4, <2>2, <3>1, <3>3
  <2> QED BY <2>1, <2>2
<1>6. Down(g, code)
  <2>1. g = [k \in 0..Capacity |-> g[k]]
    BY <1>4
  <2> HIDE DEF f
  <2> QED BY <1>5, <2>1, Zenon DEF Down
<1>7. Down(h, code)
  BY <1>6, Zenon
<1>8. Chain(code) = h
  BY Zenon DEF Chain, Down
<1> HIDE DEF h, f
<1>9. \A k \in 0..Capacity :
        h[k] = IF k = 0 THEN code ELSE IF h[k - 1] < Literals THEN h[k - 1] ELSE prefix[h[k - 1]]
  BY <1>7, Zenon DEF Down
<1>10. 0 \in 0..Capacity /\ \A k \in 1..Capacity : k \in 0..Capacity /\ k # 0 /\ k - 1 \in 0..Capacity
  BY <1>1
<1>11. h[0] = code
  BY <1>9, <1>10, Zenon
<1>12. ASSUME NEW k \in 1..Capacity
       PROVE  h[k] = IF h[k - 1] < Literals THEN h[k - 1] ELSE prefix[h[k - 1]]
  BY <1>9, <1>10, Zenon
<1>13. ASSUME NEW k \in 0..Capacity PROVE h[k] \in Slots
  <2> DEFINE T == {n \in 0..Capacity : h[n] \notin Slots}
  <2>1. SUFFICES ASSUME T # {} PROVE FALSE
    OBVIOUS
  <2>2. PICK m \in T : \A y \in T : m <= y
    <3>1. T \in SUBSET Nat
      BY <1>1
    <3> HIDE DEF T
    <3> QED BY <2>1, <3>1, Least
  <2>3. m # 0
    BY <1>11, <2>2
  <2>4. m \in 1..Capacity /\ m - 1 \in 0..Capacity /\ ~(m <= m - 1)
    BY <1>1, <2>3
  <2>5. h[m - 1] \in Slots
    BY <2>2, <2>4
  <2>6. h[m] = IF h[m - 1] < Literals THEN h[m - 1] ELSE prefix[h[m - 1]]
    BY <1>12, <2>4
  <2>7. h[m] \in Slots
    BY <2>5, <2>6
  <2> QED BY <2>2, <2>7
<1>14. h \in [0..Capacity -> Slots]
  <2>1. h = [k \in 0..Capacity |-> IF k = 0 THEN code ELSE IF h[k - 1] < Literals THEN h[k - 1] ELSE prefix[h[k - 1]]]
    BY <1>7, Zenon DEF Down
  <2> DEFINE e(k) == IF k = 0 THEN code ELSE IF h[k - 1] < Literals THEN h[k - 1] ELSE prefix[h[k - 1]]
  <2>2. \A k \in 0..Capacity : e(k) \in Slots
    BY <1>9, <1>13, Zenon
  <2>3. h = [k \in 0..Capacity |-> e(k)]
    BY <2>1
  <2> HIDE DEF e
  <2> QED BY <2>2, <2>3
<1> QED BY <1>8, <1>11, <1>12, <1>14, Zenon

\* The string spelt by the first k links of a chain that ends with the k-th.
Spelt(at, k) == [i \in 1..k + 1 |-> IF i = 1 THEN at[k] ELSE suffix[at[k + 1 - i]]]

LEMMA ExpandIs ==
  ASSUME NEW code, Capacity \in Nat
  PROVE  /\ (\A k \in 0..Capacity : ~(Chain(code)[k] < Literals)) => Expand(code) = <<>>
         /\ \A k \in 0..Capacity :
              /\ Chain(code)[k] < Literals
              /\ \A j \in 0..k - 1 : ~(Chain(code)[j] < Literals)
              => Expand(code) = Spelt(Chain(code), k)
<1> DEFINE at == Chain(code)
           ends == {k \in 0..Capacity : at[k] < Literals}
<1>1. Expand(code) = IF ends = {} THEN <<>>
                     ELSE Spelt(at, CHOOSE e \in ends : \A f \in ends : e <= f)
  BY Zenon DEF Expand, Spelt
<1>2. (\A k \in 0..Capacity : ~(at[k] < Literals)) => ends = {}
  OBVIOUS
<1>3. ASSUME NEW k \in 0..Capacity, at[k] < Literals, \A j \in 0..k - 1 : ~(at[j] < Literals)
      PROVE  ends # {} /\ (CHOOSE e \in ends : \A f \in ends : e <= f) = k
  <2>1. k \in ends
    BY <1>3
  <2>2. ASSUME NEW f \in ends PROVE k <= f
    <3>1. f \in 0..Capacity /\ at[f] < Literals
      OBVIOUS
    <3>2. f \notin 0..k - 1
      BY <1>3, <3>1
    <3> QED BY <3>1, <3>2
  <2>3. \A e, f \in ends : e <= f /\ f <= e => e = f
    OBVIOUS
  <2> HIDE DEF ends
  <2> QED BY <2>1, <2>2, <2>3
<1> HIDE DEF ends, at
<1>4. ASSUME NEW k \in 0..Capacity, at[k] < Literals, \A j \in 0..k - 1 : ~(at[j] < Literals)
      PROVE  Expand(code) = Spelt(at, k)
  <2>1. ends # {} /\ (CHOOSE e \in ends : \A f \in ends : e <= f) = k
    BY <1>3, <1>4
  <2> QED BY <1>1, <2>1, Zenon
<1>5. (\A k \in 0..Capacity : ~(at[k] < Literals)) => Expand(code) = <<>>
  BY <1>1, <1>2, Zenon
<1> QED BY <1>4, <1>5, Zenon DEF at

LEMMA ExpandType ==
  ASSUME NEW code \in Slots, maxWidth \in MaxWidths,
         prefix \in [Slots -> Slots], suffix \in [Slots -> Literal]
  PROVE  Expand(code) \in Seq(Literal)
<1> DEFINE at == Chain(code)
           T == {k \in 0..Capacity : at[k] < Literals}
<1>1. Capacity \in Nat /\ at \in [0..Capacity -> Slots]
  BY CapacityType, ChainIs
<1>2. CASE T = {}
  <2>1. \A k \in 0..Capacity : ~(at[k] < Literals)
    BY <1>2
  <2>2. Expand(code) = <<>>
    BY <1>1, <2>1, ExpandIs
  <2> QED BY <2>2
<1>3. CASE T # {}
  <2>1. PICK k \in T : \A y \in T : k <= y
    <3>1. T \in SUBSET Nat
      BY <1>1
    <3> HIDE DEF T
    <3> QED BY <1>3, <3>1, Least
  <2>2. k \in 0..Capacity /\ at[k] < Literals
    OBVIOUS
  <2>3. ASSUME NEW j \in 0..k - 1 PROVE ~(at[j] < Literals)
    <3>1. j \in 0..Capacity /\ ~(k <= j)
      BY <1>1, <2>2
    <3> QED BY <2>1, <3>1
  <2> HIDE DEF at, T
  <2>4. Expand(code) = Spelt(at, k)
    BY <1>1, <2>2, <2>3, ExpandIs, Zenon DEF at
  <2>5. ASSUME NEW i \in 1..k + 1
        PROVE  (IF i = 1 THEN at[k] ELSE suffix[at[k + 1 - i]]) \in Literal
    <3>1. at[k] \in Slots /\ at[k] \in Literal
      BY <1>1, <2>2, Shapes DEF Slots, Literal
    <3>2. i # 1 => k + 1 - i \in 0..Capacity
      BY <1>1, <2>2
    <3>3. i # 1 => at[k + 1 - i] \in Slots
      BY <1>1, <3>2
    <3> QED BY <3>1, <3>3
  <2>6. Spelt(at, k) \in [1..k + 1 -> Literal] /\ k + 1 \in Nat
    BY <1>1, <2>2, <2>5 DEF Spelt
  <2> QED BY <2>4, <2>6
<1> QED BY <1>2, <1>3

-----------------------------------------------------------------------------
\* Types, and that links lead down.

\* The entry that is made next is above the previous code; only where the
\* counter of slots has just wrapped it is not, and then it is entry 0.
Behind == IF prev = NoCode THEN free = FirstFree(blockMode) ELSE free = 0 \/ prev < free

LzwInv ==
  /\ LzwTypeOK
  /\ IsTable(table, TableEnd, blockMode) /\ TableEnd <= Capacity
  /\ ChainsEnd
  /\ Behind

LEMMA FreshTable ==
  ASSUME NEW block \in BOOLEAN
  PROVE  IsTable([n \in Literal |-> <<n>>], FirstFree(block), block)
<1> DEFINE t == [n \in Literal |-> <<n>>]
<1>1. FirstFree(block) \in Nat
  BY Shapes
<1>2. FirstFree(block)..FirstFree(block) - 1 = {}
  BY <1>1
<1>3. DOMAIN t = Literal /\ \A n \in Literal : t[n] = <<n>>
  OBVIOUS
<1>4. \A n \in Literal : <<n>> \in Seq(Literal) \ {<<>>}
  OBVIOUS
<1> QED BY <1>1, <1>2, <1>3, <1>4 DEF IsTable

LEMMA LzwStarts == LzwInit => LzwInv
<1> SUFFICES ASSUME LzwInit PROVE LzwInv
  OBVIOUS
<1>1. maxWidth \in MaxWidths /\ blockMode \in BOOLEAN /\ input \in Seq(Literal) /\ rest = input
  BY StreamsAssumption DEF LzwInit
<1>2. /\ Capacity \in Nat /\ Capacity >= 2 * Literals /\ Literals >= 2 /\ Literals \in Nat
      /\ FirstFree(blockMode) \in Literals..Literals + 1 /\ InitWidth \in InitWidth..maxWidth
  BY <1>1, CapacityType, Shapes
<1>3. free = FirstFree(blockMode) /\ prev = NoCode
  BY DEF LzwInit
<1>4. IsTable(table, FirstFree(blockMode), blockMode)
  BY <1>1, FreshTable DEF LzwInit
<1>5. TableEnd = FirstFree(blockMode)
  BY <1>1, <1>4, EndOfTable DEF TableEnd
<1>6. LzwTypeOK
  <2>1. \A n \in DOMAIN table : table[n] \in Seq(Literal)
    BY <1>4 DEF IsTable
  <2>2. 0 \in Slots /\ 0 \in Literal
    BY <1>2 DEF Slots, Literal
  <2>3. prefix \in [Slots -> Slots] /\ suffix \in [Slots -> Literal]
    BY <2>2 DEF LzwInit, Slots
  <2>4. free \in 0..Capacity
    BY <1>2, <1>3
  <2>5. clears \in 0..MaxClears
    BY StreamsAssumption DEF LzwInit
  <2> QED BY <1>1, <1>2, <1>3, <2>1, <2>3, <2>4, <2>5 DEF LzwInit, LzwTypeOK
<1>7. ChainsEnd
  BY <1>2, <1>3 DEF ChainsEnd
<1> QED BY <1>2, <1>3, <1>4, <1>5, <1>6, <1>7 DEF LzwInv, Behind

\* What a step of the encoder leaves alone.
LEMMA DecoderRests ==
  ASSUME LzwInv, UNCHANGED <<maxWidth, blockMode, decoder>>
  PROVE  ChainsEnd' /\ Behind' /\ Capacity' = Capacity /\ Slots' = Slots
BY DEF LzwInv, ChainsEnd, Behind, FirstFree, decoder, Capacity, Slots

\* A dictionary with one entry more.
WithEntry(t, e, string) == [n \in DOMAIN t \union {e} |-> IF n = e THEN string ELSE t[n]]

LEMMA EntryAdded ==
  ASSUME NEW t, NEW e, NEW block \in BOOLEAN, IsTable(t, e, block),
         NEW string \in Seq(Literal) \ {<<>>}
  PROVE  IsTable(WithEntry(t, e, string), e + 1, block)
<1> DEFINE u == WithEntry(t, e, string)
<1>1. /\ e \in Nat /\ FirstFree(block) <= e /\ FirstFree(block) \in Literals..Literals + 1
      /\ DOMAIN t = Literal \union (FirstFree(block)..e - 1) /\ Literals \in Nat
  BY Shapes DEF IsTable
<1>2. DOMAIN u = Literal \union (FirstFree(block)..(e + 1) - 1)
  <2>1. (FirstFree(block)..e - 1) \union {e} = FirstFree(block)..(e + 1) - 1
    BY <1>1
  <2>2. DOMAIN u = DOMAIN t \union {e}
    BY DEF WithEntry
  <2> QED BY <1>1, <2>1, <2>2
<1>3. ASSUME NEW n \in Literal PROVE u[n] = <<n>>
  <2>1. n # e /\ n \in DOMAIN t
    BY <1>1 DEF Literal
  <2> QED BY <2>1 DEF IsTable, WithEntry
<1>4. ASSUME NEW n \in DOMAIN u PROVE u[n] \in Seq(Literal) \ {<<>>}
  <2>1. CASE n = e
    BY <2>1 DEF WithEntry
  <2>2. CASE n # e
    BY <2>2 DEF IsTable, WithEntry
  <2> QED BY <2>1, <2>2
<1> HIDE DEF u
<1>5. IsTable(u, e + 1, block)
  BY <1>1, <1>2, <1>3, <1>4 DEF IsTable
<1> QED BY <1>5 DEF u

LEMMA EncodeStringKeeps ==
  ASSUME LzwInv, EncodeString
  PROVE  LzwInv'
<1>1. LzwTypeOK /\ IsTable(table, TableEnd, blockMode) /\ TableEnd <= Capacity /\ rest # <<>>
  BY DEF LzwInv, EncodeString
<1> DEFINE code == Longest
           left == Drop(rest, Len(table[code]))
           grow == TableEnd > 2^encWidth - 1 /\ encWidth < maxWidth
           zeros == Zeros(IF grow THEN Padding(encGroup + 1, encWidth) ELSE 0)
<1>2. /\ rest' = left /\ bits' = bits \o CodeToBits(code, encWidth) \o zeros
      /\ encWidth' = IF grow THEN encWidth + 1 ELSE encWidth
      /\ encGroup' = IF grow THEN 0 ELSE encGroup + 1
      /\ table' = IF left = <<>> \/ TableEnd >= Capacity THEN table
                  ELSE [n \in DOMAIN table \union {TableEnd} |->
                          IF n = TableEnd THEN Append(table[code], Head(left)) ELSE table[n]]
      /\ UNCHANGED <<input, maxWidth, blockMode, clears, decoder, source, state>>
  BY DEF EncodeString
<1>3. maxWidth \in MaxWidths /\ blockMode \in BOOLEAN /\ rest \in Seq(Literal) /\ bits \in Seq(Bit)
  BY <1>1 DEF LzwTypeOK
<1>4. encWidth \in Nat /\ encWidth \in InitWidth..maxWidth /\ maxWidth \in Nat /\ encGroup \in Nat /\ InitWidth \in Nat
  BY <1>1, <1>3, Shapes DEF LzwTypeOK
<1>5. code \in DOMAIN table /\ Len(table[code]) <= Len(rest)
  BY <1>1, <1>3, LongestIsCoded DEF Coded, IsPrefix
<1>6. code \in Nat /\ table[code] \in Seq(Literal)
  BY <1>1, <1>3, <1>5, Shapes DEF IsTable, Literal
<1>7. left \in Seq(Literal)
  <2>1. Len(table[code]) \in 0..Len(rest)
    BY <1>3, <1>5, <1>6
  <2> QED BY <1>3, <2>1, DropType
<1>8. bits' \in Seq(Bit)
  <2>1. CodeToBits(code, encWidth) \in Seq(Bit)
    BY <1>4, <1>6, BitsOfCode
  <2>2. zeros \in Seq(Bit)
    <3>1. Padding(encGroup + 1, encWidth) \in Nat
      BY <1>4, PaddingType
    <3> QED BY <3>1, ZerosType
  <2> HIDE DEF zeros, code
  <2> QED BY <1>2, <1>3, <2>1, <2>2
<1>9. encWidth' \in InitWidth..maxWidth /\ encGroup' \in Nat
  BY <1>2, <1>4
<1>10. \E e : IsTable(table', e, blockMode) /\ e <= Capacity
  <2>1. CASE left = <<>> \/ TableEnd >= Capacity
    BY <1>1, <1>2, <2>1
  <2>2. CASE ~(left = <<>> \/ TableEnd >= Capacity)
    <3> DEFINE string == Append(table[code], Head(left))
    <3>1. string \in Seq(Literal) \ {<<>>}
      <4>1. Head(left) \in Literal
        BY <1>7, <2>2
      <4> QED BY <1>6, <4>1
    <3>2. IsTable(WithEntry(table, TableEnd, string), TableEnd + 1, blockMode)
      <4> HIDE DEF code, left, string
      <4> QED BY <1>1, <1>3, <3>1, EntryAdded, Zenon
    <3>3. TableEnd \in Nat /\ Capacity \in Nat
      BY <1>1, <1>3, CapacityType DEF IsTable
    <3>4. TableEnd + 1 <= Capacity
      BY <2>2, <3>3
    <3> QED BY <1>2, <2>2, <3>2, <3>4 DEF WithEntry
  <2> QED BY <2>1, <2>2
<1>11. PICK e : IsTable(table', e, blockMode) /\ e <= Capacity
  BY <1>10
<1>12. ChainsEnd' /\ Behind' /\ Capacity' = Capacity /\ Slots' = Slots
  BY <1>2, DecoderRests
<1>13. IsTable(table', TableEnd', blockMode') /\ TableEnd' <= Capacity'
  <2>1. IsTable(table', e, blockMode') /\ blockMode' \in BOOLEAN
    BY <1>2, <1>3, <1>11
  <2>2. TableEnd' = e
    BY <1>2, <2>1, EndOfTable DEF TableEnd
  <2> QED BY <1>11, <1>12, <2>1, <2>2
<1>14. \A n \in DOMAIN table' : table'[n] \in Seq(Literal)
  BY <1>11 DEF IsTable
<1>15. LzwTypeOK'
  <2> HIDE DEF left, code, grow, zeros
  <2> QED BY <1>1, <1>2, <1>7, <1>8, <1>9, <1>12, <1>14 DEF LzwTypeOK, decoder
<1> QED BY <1>12, <1>13, <1>15 DEF LzwInv

LEMMA EncodeClearKeeps ==
  ASSUME LzwInv, EncodeClear
  PROVE  LzwInv'
<1>1. LzwTypeOK /\ blockMode
  BY DEF LzwInv, EncodeClear
<1>2. /\ clears' = clears + 1 /\ clears < MaxClears
      /\ bits' = bits \o CodeToBits(Clear, encWidth) \o Zeros(Padding(encGroup + 1, encWidth))
      /\ table' = [n \in Literal |-> <<n>>]
      /\ encWidth' = InitWidth /\ encGroup' = 0
      /\ UNCHANGED <<input, rest, maxWidth, blockMode, decoder, source, state>>
  BY DEF EncodeClear
<1>3. /\ maxWidth \in MaxWidths /\ blockMode \in BOOLEAN /\ bits \in Seq(Bit) /\ maxWidth \in Nat
      /\ encWidth \in Nat /\ encGroup \in Nat /\ InitWidth \in InitWidth..maxWidth
      /\ clears \in 0..MaxClears /\ MaxClears \in Nat
  BY <1>1, Shapes, StreamsAssumption DEF LzwTypeOK
<1>4. bits' \in Seq(Bit)
  <2>1. CodeToBits(Clear, encWidth) \in Seq(Bit)
    BY <1>3, BitsOfCode, Shapes DEF Clear
  <2>2. Zeros(Padding(encGroup + 1, encWidth)) \in Seq(Bit)
    <3>1. encGroup + 1 \in Nat
      BY <1>3
    <3>2. Padding(encGroup + 1, encWidth) \in Nat
      BY <1>3, <3>1, PaddingType
    <3> QED BY <3>2, ZerosType
  <2> QED BY <1>2, <1>3, <2>1, <2>2
<1>5. IsTable(table', FirstFree(blockMode'), blockMode')
  BY <1>2, <1>3, FreshTable
<1>6. TableEnd' = FirstFree(blockMode')
  BY <1>2, <1>3, <1>5, EndOfTable DEF TableEnd
<1>7. ChainsEnd' /\ Behind' /\ Capacity' = Capacity /\ Slots' = Slots
  BY <1>2, DecoderRests
<1>8. FirstFree(blockMode') <= Capacity
  BY <1>2, <1>3, Shapes, CapacityType
<1>9. \A n \in DOMAIN table' : table'[n] \in Seq(Literal)
  BY <1>5 DEF IsTable
<1>10. LzwTypeOK'
  BY <1>1, <1>2, <1>3, <1>4, <1>7, <1>9 DEF LzwTypeOK, decoder
<1> QED BY <1>5, <1>6, <1>7, <1>8, <1>10 DEF LzwInv

\* What does not touch the encoder's dictionary.
LEMMA EncoderRests ==
  ASSUME LzwInv, UNCHANGED <<maxWidth, blockMode, table>>
  PROVE  IsTable(table', TableEnd', blockMode') /\ TableEnd' <= Capacity' /\ Capacity' = Capacity
         /\ Slots' = Slots
<1>1. TableEnd' = TableEnd /\ Capacity' = Capacity /\ Slots' = Slots
  BY DEF TableEnd, Capacity, Slots
<1> QED BY <1>1 DEF LzwInv

LEMMA StreamEndKeeps ==
  ASSUME LzwInv, EncodeEnd \/ Truncate \/ Garbage
  PROVE  LzwInv'
<1>1. LzwTypeOK /\ bits \in Seq(Bit)
  BY DEF LzwInv, LzwTypeOK
<1>2. UNCHANGED <<input, maxWidth, blockMode, encoder, decoder>> /\ state' = "decoding"
      /\ source' \in {source, "cut", "noise"}
  BY DEF EncodeEnd, Truncate, Garbage
<1>3. bits' \in Seq(Bit)
  <2>1. CASE EncodeEnd
    <3>1. (-Len(bits)) % Byte \in Nat
      BY <1>1, Shapes
    <3> QED BY <1>1, <2>1, <3>1, ZerosType DEF EncodeEnd
  <2>2. CASE Truncate
    <3>1. PICK n \in 0..Len(bits) \div Byte : bits' = SubSeq(bits, 1, n * Byte)
      BY <2>2 DEF Truncate
    <3>2. n * Byte \in 0..Len(bits)
      <4>1. Len(bits) \in Nat /\ Byte \in Nat \ {0}
        BY <1>1, Shapes
      <4>2. (Len(bits) \div Byte) * Byte <= Len(bits) /\ Len(bits) \div Byte \in Nat
        BY <4>1
      <4>3. n * Byte <= (Len(bits) \div Byte) * Byte /\ n * Byte \in Nat
        BY <4>1, <4>2
      <4> QED BY <4>1, <4>2, <4>3
    <3> QED BY <1>1, <3>1, <3>2
  <2>3. CASE Garbage
    BY <2>3, StreamsAssumption DEF Garbage
  <2> QED BY <2>1, <2>2, <2>3
<1>4. UNCHANGED <<maxWidth, blockMode, table>>
  BY <1>2 DEF encoder
<1>5. ChainsEnd' /\ Behind' /\ Capacity' = Capacity /\ Slots' = Slots
  BY <1>2, DecoderRests
<1>6. IsTable(table', TableEnd', blockMode') /\ TableEnd' <= Capacity'
  BY <1>4, EncoderRests
<1>7. LzwTypeOK'
  BY <1>1, <1>2, <1>3, <1>5 DEF LzwTypeOK, encoder, decoder
<1> QED BY <1>5, <1>6, <1>7 DEF LzwInv

LEMMA DecodeEndKeeps ==
  ASSUME LzwInv, DecodeEnd
  PROVE  LzwInv'
<1>1. LzwTypeOK
  BY DEF LzwInv
<1>2. UNCHANGED <<input, maxWidth, blockMode, encoder, decoder, bits, source>> /\ state' = "done"
  BY DEF DecodeEnd
<1>3. UNCHANGED <<maxWidth, blockMode, table>>
  BY <1>2 DEF encoder
<1>4. ChainsEnd' /\ Behind' /\ Capacity' = Capacity /\ Slots' = Slots
  BY <1>2, DecoderRests
<1>5. IsTable(table', TableEnd', blockMode') /\ TableEnd' <= Capacity'
  BY <1>3, EncoderRests
<1>6. LzwTypeOK'
  BY <1>1, <1>2, <1>4 DEF LzwTypeOK, encoder, decoder
<1> QED BY <1>4, <1>5, <1>6 DEF LzwInv

\* What the decoder's steps have in common: a code is there and eaten.
LEMMA CodeIsThere ==
  ASSUME LzwInv, Len(bits) >= width
  PROVE  /\ width \in Nat /\ width \in InitWidth..maxWidth /\ Capacity \in Nat /\ Literals \in Nat
         /\ Code \in Slots /\ Code \in 0..Capacity - 1 /\ Drop(bits, width) \in Seq(Bit)
         /\ FirstFree(blockMode) \in Literals..Literals + 1 /\ Literals + 1 <= Capacity
<1>1. bits \in Seq(Bit) /\ width \in InitWidth..maxWidth /\ maxWidth \in MaxWidths /\ blockMode \in BOOLEAN
  BY DEF LzwInv, LzwTypeOK
<1>2. width \in Nat /\ Capacity \in Nat /\ 2^width \in Nat /\ 2^width <= Capacity /\ Capacity >= 2 * Literals
  BY <1>1, Shapes, CapacityType
<1>3. Code \in 0..2^width - 1
  BY <1>1, <1>2, CodeType
<1>4. Drop(bits, width) \in Seq(Bit)
  <2>1. width \in 0..Len(bits)
    BY <1>1, <1>2
  <2> QED BY <1>1, <2>1, DropType
<1> QED BY <1>1, <1>2, <1>3, <1>4, Shapes DEF Slots

LEMMA DecodeClearKeeps ==
  ASSUME LzwInv, DecodeClear
  PROVE  LzwInv'
<1>1. LzwTypeOK /\ Len(bits) >= width /\ blockMode \in BOOLEAN
  BY DEF LzwInv, LzwTypeOK, DecodeClear
<1>2. /\ bits' = Realign(Drop(bits, width), inGroup + 1, width)
      /\ inGroup' = 0 /\ free' = FirstFree(blockMode) /\ width' = InitWidth /\ prev' = NoCode
      /\ UNCHANGED <<input, maxWidth, blockMode, encoder, prefix, suffix, out, source, state>>
  BY DEF DecodeClear
<1>3. /\ width \in Nat /\ Capacity \in Nat /\ Drop(bits, width) \in Seq(Bit) /\ Literals \in Nat
      /\ FirstFree(blockMode) \in Literals..Literals + 1 /\ Literals + 1 <= Capacity
  BY <1>1, CodeIsThere
<1>4. bits' \in Seq(Bit)
  <2>1. inGroup + 1 \in Nat
    BY <1>1 DEF LzwTypeOK
  <2> QED BY <1>2, <1>3, <2>1, RealignType
<1>5. UNCHANGED <<maxWidth, blockMode, table>>
  BY <1>2 DEF encoder
<1>6. IsTable(table', TableEnd', blockMode') /\ TableEnd' <= Capacity' /\ Capacity' = Capacity /\ Slots' = Slots
  BY <1>5, EncoderRests
<1>7. width' \in InitWidth..maxWidth /\ free' \in 0..Capacity
  BY <1>1, <1>2, <1>3, Shapes DEF LzwTypeOK
<1>8. LzwTypeOK'
  BY <1>1, <1>2, <1>4, <1>6, <1>7 DEF LzwTypeOK, encoder
<1>9. ChainsEnd'
  BY <1>2, <1>3 DEF ChainsEnd
<1>10. Behind'
  BY <1>2 DEF Behind
<1> QED BY <1>6, <1>8, <1>9, <1>10 DEF LzwInv

LEMMA DecodeFirstKeeps ==
  ASSUME LzwInv, DecodeFirst
  PROVE  LzwInv'
<1>1. LzwTypeOK /\ Len(bits) >= width /\ prev = NoCode /\ Behind /\ ChainsEnd
  BY DEF LzwInv, DecodeFirst
<1>2. /\ bits' = Drop(bits, width) /\ inGroup' = inGroup + 1
      /\ IF Code < Literals THEN out' = Append(out, Code) /\ prev' = Code /\ UNCHANGED state
                            ELSE state' = "corrupt" /\ UNCHANGED <<out, prev>>
      /\ UNCHANGED <<input, maxWidth, blockMode, encoder, width, free, prefix, suffix, source>>
  BY DEF DecodeFirst
<1>3. /\ Drop(bits, width) \in Seq(Bit) /\ Code \in Slots /\ Code \in 0..Capacity - 1
      /\ FirstFree(blockMode) \in Literals..Literals + 1 /\ Literals \in Nat
  BY <1>1, CodeIsThere
<1>4. UNCHANGED <<maxWidth, blockMode, table>>
  BY <1>2 DEF encoder
<1>5. IsTable(table', TableEnd', blockMode') /\ TableEnd' <= Capacity' /\ Capacity' = Capacity /\ Slots' = Slots
  BY <1>4, EncoderRests
<1>6. out' \in Seq(Literal) /\ prev' \in Slots \union {NoCode} /\ inGroup' \in Nat
      /\ state' \in {"encoding", "decoding", "done", "corrupt"}
  <2>1. out \in Seq(Literal) /\ prev \in Slots \union {NoCode} /\ inGroup \in Nat
        /\ state \in {"encoding", "decoding", "done", "corrupt"}
    BY <1>1 DEF LzwTypeOK
  <2>2. CASE Code < Literals
    <3>1. Code \in Literal
      BY <1>3, <2>2 DEF Literal
    <3>2. out' = Append(out, Code) /\ prev' = Code /\ UNCHANGED state /\ inGroup' = inGroup + 1
      BY <1>2, <2>2
    <3> QED BY <1>3, <2>1, <3>1, <3>2
  <2>3. CASE ~(Code < Literals)
    <3>1. state' = "corrupt" /\ UNCHANGED <<out, prev>> /\ inGroup' = inGroup + 1
      BY <1>2, <2>3
    <3> QED BY <2>1, <3>1
  <2> QED BY <2>2, <2>3
<1>7. LzwTypeOK'
  BY <1>1, <1>2, <1>3, <1>5, <1>6 DEF LzwTypeOK, encoder
<1>8. ChainsEnd'
  BY <1>1, <1>2 DEF ChainsEnd, FirstFree
<1>9. Behind'
  <2>1. FirstFree(blockMode') = FirstFree(blockMode) /\ free' = free /\ free = FirstFree(blockMode)
    BY <1>1, <1>2 DEF Behind
  <2> QED BY <1>1, <1>2, <1>3, <2>1 DEF Behind
<1> QED BY <1>5, <1>7, <1>8, <1>9 DEF LzwInv

\* The string that the next code stands for, <<>> when it cannot be one.
StringOf ==
  IF Known(Code) THEN Expand(Code)
  ELSE IF Code = free /\ Expand(prev) # <<>> THEN Append(Expand(prev), Head(Expand(prev)))
  ELSE <<>>

NextFree == IF HasRoom THEN (free + 1) % 2^CodeBits ELSE free

DecodeNextAs(string, next, grow, after) ==
  IF string = <<>>
  THEN /\ state' = "corrupt" /\ bits' = after /\ inGroup' = inGroup + 1
       /\ UNCHANGED <<width, free, prefix, suffix, prev, out>>
  ELSE /\ out' = out \o string /\ prev' = Code /\ free' = next
       /\ prefix' = (IF HasRoom THEN [prefix EXCEPT ![free] = prev] ELSE prefix)
       /\ suffix' = (IF HasRoom THEN [suffix EXCEPT ![free] = Head(string)] ELSE suffix)
       /\ bits' = (IF grow THEN Realign(after, inGroup + 1, width) ELSE after)
       /\ inGroup' = (IF grow THEN 0 ELSE inGroup + 1)
       /\ width' = (IF grow THEN width + 1 ELSE width)
       /\ UNCHANGED state

LEMMA DecodeNextIs ==
  ASSUME DecodeNext
  PROVE  /\ state = "decoding" /\ Len(bits) >= width /\ ~(blockMode /\ Code = Clear) /\ prev # NoCode
         /\ DecodeNextAs(StringOf, NextFree, NextFree > 2^width - 1 /\ width < maxWidth, Drop(bits, width))
         /\ UNCHANGED <<input, maxWidth, blockMode, encoder, source>>
BY Zenon DEF DecodeNext, DecodeNextAs, StringOf, NextFree

LEMMA DecodeNextKeeps ==
  ASSUME LzwInv, DecodeNext
  PROVE  LzwInv'
<1> DEFINE string == StringOf
           grow == NextFree > 2^width - 1 /\ width < maxWidth
           after == Drop(bits, width)
<1>1. LzwTypeOK /\ Len(bits) >= width /\ prev # NoCode /\ Behind /\ ChainsEnd
  BY DecodeNextIs DEF LzwInv
<1>2. DecodeNextAs(string, NextFree, grow, after) /\ UNCHANGED <<input, maxWidth, blockMode, encoder, source>>
  BY DecodeNextIs
<1>3. /\ width \in Nat /\ width \in InitWidth..maxWidth /\ after \in Seq(Bit)
      /\ Code \in Slots /\ Code \in 0..Capacity - 1
      /\ FirstFree(blockMode) \in Literals..Literals + 1 /\ Literals \in Nat /\ Literals + 1 <= Capacity
      /\ Capacity \in Nat
  BY <1>1, CodeIsThere
<1>4. /\ prefix \in [Slots -> Slots] /\ suffix \in [Slots -> Literal] /\ prev \in Slots
      /\ maxWidth \in MaxWidths /\ free \in 0..Capacity /\ out \in Seq(Literal) /\ inGroup \in Nat
      /\ blockMode \in BOOLEAN
  BY <1>1 DEF LzwTypeOK
<1>5. UNCHANGED <<maxWidth, blockMode, table>>
  BY <1>2 DEF encoder
<1>6. IsTable(table', TableEnd', blockMode') /\ TableEnd' <= Capacity' /\ Capacity' = Capacity /\ Slots' = Slots
  BY <1>5, EncoderRests
<1>7. string \in Seq(Literal)
  <2>1. Expand(Code) \in Seq(Literal) /\ Expand(prev) \in Seq(Literal)
    BY <1>3, <1>4, ExpandType
  <2>2. Expand(prev) # <<>> => Head(Expand(prev)) \in Literal
    BY <2>1
  <2> QED BY <2>1, <2>2 DEF StringOf
<1>8. string # <<>> => Code <= free
  BY <1>3, <1>4 DEF StringOf, Known
<1>9. /\ NextFree \in 0..Capacity
      /\ HasRoom => NextFree \in {free + 1, 0}
      /\ ~HasRoom => NextFree = free /\ free = Capacity
  <2>1. 2^CodeBits \in Nat /\ Capacity <= 2^CodeBits
    BY <1>4, CapacityType
  <2>2. CASE HasRoom
    <3>1. free + 1 \in 1..2^CodeBits /\ free + 1 <= Capacity
      BY <1>3, <1>4, <2>1, <2>2 DEF HasRoom
    <3>2. (free + 1) % 2^CodeBits \in {free + 1, 0}
      BY <2>1, <3>1
    <3> QED BY <1>3, <1>4, <2>2, <3>1, <3>2 DEF NextFree
  <2>3. CASE ~HasRoom
    BY <1>3, <1>4, <2>3 DEF NextFree, HasRoom
  <2> QED BY <2>2, <2>3
<1> HIDE DEF string, grow, after
<1>10. CASE string = <<>>
  <2>1. /\ state' = "corrupt" /\ bits' = after /\ inGroup' = inGroup + 1
        /\ UNCHANGED <<width, free, prefix, suffix, prev, out>>
    BY <1>2, <1>10 DEF DecodeNextAs
  <2>2. LzwTypeOK'
    BY <1>1, <1>2, <1>3, <1>4, <1>6, <2>1 DEF LzwTypeOK, encoder
  <2>3. ChainsEnd' /\ Behind'
    BY <1>1, <1>2, <2>1 DEF ChainsEnd, Behind, FirstFree
  <2> QED BY <1>6, <2>2, <2>3 DEF LzwInv
<1>11. CASE string # <<>>
  <2>1. /\ out' = out \o string /\ prev' = Code /\ free' = NextFree
        /\ prefix' = (IF HasRoom THEN [prefix EXCEPT ![free] = prev] ELSE prefix)
        /\ suffix' = (IF HasRoom THEN [suffix EXCEPT ![free] = Head(string)] ELSE suffix)
        /\ bits' = (IF grow THEN Realign(after, inGroup + 1, width) ELSE after)
        /\ inGroup' = (IF grow THEN 0 ELSE inGroup + 1)
        /\ width' = (IF grow THEN width + 1 ELSE width)
        /\ UNCHANGED state
    BY <1>2, <1>11 DEF DecodeNextAs
  <2>2. bits' \in Seq(Bit)
    <3>1. inGroup + 1 \in Nat
      BY <1>4
    <3>2. Realign(after, inGroup + 1, width) \in Seq(Bit)
      BY <1>3, <3>1, RealignType
    <3> QED BY <1>3, <2>1, <3>2
  <2>3. width' \in InitWidth..maxWidth /\ inGroup' \in Nat
    <3>1. maxWidth \in Nat /\ InitWidth \in Nat
      BY <1>4, Shapes
    <3>2. grow => width < maxWidth
      BY DEF grow
    <3> QED BY <1>3, <1>4, <2>1, <3>1, <3>2
  <2>4. HasRoom => free \in Slots
    BY <1>3, <1>4 DEF HasRoom, Slots
  <2>5. prefix' \in [Slots -> Slots] /\ suffix' \in [Slots -> Literal]
    <3>1. Head(string) \in Literal
      BY <1>7, <1>11
    <3> QED BY <1>4, <2>1, <2>4, <3>1
  <2>6. out' \in Seq(Literal)
    BY <1>4, <1>7, <2>1
  <2>7. LzwTypeOK'
    BY <1>1, <1>2, <1>3, <1>6, <1>9, <2>1, <2>2, <2>3, <2>5, <2>6 DEF LzwTypeOK, encoder
  <2>8. Behind'
    <3>1. prev' # NoCode
      BY <1>3, <2>1 DEF NoCode
    <3>2. free' = 0 \/ prev' < free'
      BY <1>3, <1>4, <1>8, <1>9, <1>11, <2>1
    <3> QED BY <3>1, <3>2 DEF Behind
  <2>9. ChainsEnd'
    <3>1. FirstFree(blockMode') = FirstFree(blockMode) /\ free' = NextFree
      BY <1>2, <2>1
    <3>2. ASSUME NEW n \in FirstFree(blockMode)..NextFree - 1 PROVE prefix'[n] < n
      <4>1. n \in Nat /\ n # 0 /\ FirstFree(blockMode) <= n /\ n < NextFree
        BY <1>3, <1>9, Shapes
      <4>2. CASE HasRoom
        <5>1. NextFree = free + 1 /\ n \in Slots
          BY <1>3, <1>9, <4>1, <4>2 DEF Slots
        <5>2. CASE n = free
          <6>1. prev < free
            BY <1>1, <4>1, <5>2 DEF Behind
          <6>2. prefix'[n] = prev
            BY <1>4, <2>1, <4>2, <5>1, <5>2
          <6> QED BY <5>2, <6>1, <6>2
        <5>3. CASE n # free
          <6>1. n \in FirstFree(blockMode)..free - 1
            BY <1>3, <1>4, <4>1, <5>1, <5>3
          <6>2. prefix'[n] = prefix[n]
            BY <1>4, <2>1, <5>1, <5>3
          <6> QED BY <1>1, <6>1, <6>2 DEF ChainsEnd
        <5> QED BY <5>2, <5>3
      <4>3. CASE ~HasRoom
        <5>1. NextFree = free /\ prefix' = prefix
          BY <1>9, <2>1, <4>3
        <5> QED BY <1>1, <5>1 DEF ChainsEnd
      <4> QED BY <4>2, <4>3
    <3> QED BY <3>1, <3>2 DEF ChainsEnd
  <2> QED BY <1>6, <2>7, <2>8, <2>9 DEF LzwInv
<1> QED BY <1>10, <1>11

LEMMA LzwSteps == LzwInv /\ [LzwNext]_lzwVars => LzwInv'
<1> SUFFICES ASSUME LzwInv, [LzwNext]_lzwVars PROVE LzwInv'
  OBVIOUS
<1>1. CASE EncodeString
  BY <1>1, EncodeStringKeeps
<1>2. CASE EncodeClear
  BY <1>2, EncodeClearKeeps
<1>3. CASE EncodeEnd \/ Truncate \/ Garbage
  BY <1>3, StreamEndKeeps
<1>4. CASE DecodeEnd
  BY <1>4, DecodeEndKeeps
<1>5. CASE DecodeClear
  BY <1>5, DecodeClearKeeps
<1>6. CASE DecodeFirst
  BY <1>6, DecodeFirstKeeps
<1>7. CASE DecodeNext
  BY <1>7, DecodeNextKeeps
<1>8. CASE UNCHANGED lzwVars
  <2>1. UNCHANGED <<maxWidth, blockMode, decoder>> /\ UNCHANGED <<maxWidth, blockMode, table>>
    BY <1>8 DEF lzwVars, encoder
  <2>2. ChainsEnd' /\ Behind' /\ Capacity' = Capacity /\ Slots' = Slots
    BY <2>1, DecoderRests
  <2>3. IsTable(table', TableEnd', blockMode') /\ TableEnd' <= Capacity'
    BY <2>1, EncoderRests
  <2>4. LzwTypeOK'
    BY <1>8, <2>2 DEF LzwInv, LzwTypeOK, lzwVars, encoder, decoder
  <2> QED BY <2>2, <2>3, <2>4 DEF LzwInv
<1> QED BY <1>1, <1>2, <1>3, <1>4, <1>5, <1>6, <1>7, <1>8 DEF LzwNext, Encode, Decode

\* The decoder's state stays in its range on any stream of bits.
THEOREM LzwTypeCorrect == LzwSpec => []LzwTypeOK
<1>1. LzwInv => LzwTypeOK
  BY DEF LzwInv
<1> QED BY <1>1, LzwStarts, LzwSteps, PTL DEF LzwSpec

\* On any stream of bits, each link of the dictionary leads down.
THEOREM LinksLeadDown == LzwSpec => []ChainsEnd
<1>1. LzwInv => ChainsEnd
  BY DEF LzwInv
<1> QED BY <1>1, LzwStarts, LzwSteps, PTL DEF LzwSpec

-----------------------------------------------------------------------------
\* Streams of bits, taken apart from the front.

LEMMA SplitConcat ==
  ASSUME NEW S, NEW x \in Seq(S), NEW y \in Seq(S), NEW c \in Seq(S), NEW d \in Seq(S),
         x \o y = c \o d, Len(c) <= Len(x)
  PROVE  /\ Drop(x, Len(c)) \in Seq(S) /\ SubSeq(x, 1, Len(c)) = c
         /\ Drop(x, Len(c)) \o y = d
<1> DEFINE r == Drop(x, Len(c))
<1>1. Len(c) \in Nat /\ Len(x) \in Nat /\ Len(c) \in 0..Len(x) /\ Len(y) \in Nat /\ Len(d) \in Nat
  OBVIOUS
<1>2. r \in Seq(S) /\ Len(r) = Len(x) - Len(c) /\ \A i \in 1..Len(x) - Len(c) : r[i] = x[Len(c) + i]
  BY <1>1 DEF Drop
<1>3. Len(x) + Len(y) = Len(c) + Len(d)
  <2>1. Len(x \o y) = Len(x) + Len(y) /\ Len(c \o d) = Len(c) + Len(d)
    OBVIOUS
  <2> QED BY <2>1
<1>4. SubSeq(x, 1, Len(c)) = c
  <2>1. SubSeq(x, 1, Len(c)) \in Seq(S) /\ Len(SubSeq(x, 1, Len(c))) = Len(c)
    BY <1>1
  <2>2. ASSUME NEW i \in 1..Len(c) PROVE SubSeq(x, 1, Len(c))[i] = c[i]
    <3>1. SubSeq(x, 1, Len(c))[i] = x[i] /\ i \in 1..Len(x)
      BY <1>1
    <3>2. (x \o y)[i] = x[i]
      BY <1>1, <3>1
    <3>3. (c \o d)[i] = c[i]
      BY <1>1
    <3> QED BY <3>1, <3>2, <3>3
  <2> QED BY <2>1, <2>2, SeqEqual
<1> HIDE DEF r
<1>5. r \o y = d
  <2>1. r \o y \in Seq(S) /\ Len(r \o y) = Len(d)
    BY <1>1, <1>2, <1>3
  <2>2. ASSUME NEW i \in 1..Len(d) PROVE (r \o y)[i] = d[i]
    <3>1. Len(c) + i \in 1..Len(x) + Len(y)
      BY <1>1, <1>3
    <3>2. (c \o d)[Len(c) + i] = d[i]
      BY <1>1
    <3>3. (x \o y)[Len(c) + i] = d[i]
      BY <3>2
    <3>4. CASE i <= Len(x) - Len(c)
      <4>1. (r \o y)[i] = r[i] /\ r[i] = x[Len(c) + i]
        BY <1>1, <1>2, <3>4
      <4>2. (x \o y)[Len(c) + i] = x[Len(c) + i]
        BY <1>1, <3>1, <3>4
      <4> QED BY <3>3, <4>1, <4>2
    <3>5. CASE ~(i <= Len(x) - Len(c))
      <4>1. (r \o y)[i] = y[i - (Len(x) - Len(c))]
        BY <1>1, <1>2, <1>3, <3>5
      <4>2. (x \o y)[Len(c) + i] = y[Len(c) + i - Len(x)]
        BY <1>1, <1>3, <3>1, <3>5
      <4>3. i - (Len(x) - Len(c)) = Len(c) + i - Len(x)
        BY <1>1
      <4> QED BY <3>3, <4>1, <4>2, <4>3
    <3> QED BY <3>4, <3>5
  <2> QED BY <2>1, <2>2, SeqEqual
<1> QED BY <1>2, <1>4, <1>5 DEF r

LEMMA BitsAssociate ==
  ASSUME NEW x \in Seq(Bit), NEW y \in Seq(Bit), NEW z \in Seq(Bit)
  PROVE  (x \o y) \o z = x \o (y \o z) /\ x \o y \in Seq(Bit)
BY ConcatAssociative, ConcatProperties

-----------------------------------------------------------------------------
\* What the encoder has gone through, kept as the states between its codes.

Grows(a, max) == a.end > 2^a.width - 1 /\ a.width < max

StringStep(a, b, code, max) ==
  /\ code \in DOMAIN a.table /\ a.rest = a.table[code] \o b.rest
  /\ b.bits = a.bits \o (CodeToBits(code, a.width)
                           \o Zeros(IF Grows(a, max) THEN Padding(a.group + 1, a.width) ELSE 0))
  /\ b.width = IF Grows(a, max) THEN a.width + 1 ELSE a.width
  /\ b.group = IF Grows(a, max) THEN 0 ELSE a.group + 1
  /\ IF b.rest = <<>> \/ a.end >= 2^max
     THEN b.table = a.table /\ b.end = a.end
     ELSE /\ b.table = WithEntry(a.table, a.end, Append(a.table[code], Head(b.rest)))
          /\ b.end = a.end + 1

ClearStep(a, b, block) ==
  /\ block /\ b.rest = a.rest
  /\ b.bits = a.bits \o (CodeToBits(Clear, a.width) \o Zeros(Padding(a.group + 1, a.width)))
  /\ b.table = [n \in Literal |-> <<n>>] /\ b.end = FirstFree(block)
  /\ b.width = InitWidth /\ b.group = 0

\* No code of the dictionary is too wide to be written.
Fit(a, max, block) ==
  /\ IsTable(a.table, a.end, block) /\ a.end <= 2^max /\ a.end <= 2^a.width
  /\ a.width \in InitWidth..max /\ a.group \in Nat
  /\ a.rest \in Seq(Literal) /\ a.bits \in Seq(Bit)

Fresh(a, text, block) ==
  /\ a.rest = text /\ a.bits = <<>> /\ a.width = InitWidth /\ a.group = 0
  /\ a.end = FirstFree(block)

Recorded(h, N, text, max, block) ==
  /\ N \in Nat /\ N >= 1 /\ Fresh(h[1], text, block)
  /\ \A i \in 1..N : Fit(h[i], max, block)
  /\ \A i \in 1..N - 1 : ClearStep(h[i], h[i + 1], block) \/ \E code : StringStep(h[i], h[i + 1], code, max)
  /\ \A i \in 1..N : \E more \in Seq(Bit) : h[N].bits = h[i].bits \o more

RecordedTo(h, N, text, max, block, a) == Recorded(h, N, text, max, block) /\ h[N] = a

LEMMA RecordedMore ==
  ASSUME NEW h, NEW N, NEW text, NEW max, NEW block, NEW b, NEW new \in Seq(Bit),
         Recorded(h, N, text, max, block), Fit(b, max, block), b.bits = h[N].bits \o new,
         ClearStep(h[N], b, block) \/ \E code : StringStep(h[N], b, code, max)
  PROVE  \E g : RecordedTo(g, N + 1, text, max, block, b)
<1> DEFINE g == [i \in 1..N + 1 |-> IF i = N + 1 THEN b ELSE h[i]]
<1>1. N \in Nat /\ N >= 1
  BY DEF Recorded
<1>2. g[N + 1] = b /\ \A i \in 1..N : g[i] = h[i]
  BY <1>1
<1> HIDE DEF g
<1>3. Fresh(g[1], text, block)
  <2>1. g[1] = h[1]
    BY <1>1, <1>2
  <2> QED BY <2>1 DEF Recorded
<1>4. ASSUME NEW i \in 1..N + 1 PROVE Fit(g[i], max, block)
  <2>1. CASE i = N + 1
    BY <1>2, <2>1
  <2>2. CASE i # N + 1
    <3>1. i \in 1..N
      BY <1>1, <2>2
    <3> QED BY <1>2, <3>1 DEF Recorded
  <2> QED BY <2>1, <2>2
<1>5. ASSUME NEW i \in 1..(N + 1) - 1
      PROVE  ClearStep(g[i], g[i + 1], block) \/ \E code : StringStep(g[i], g[i + 1], code, max)
  <2>1. CASE i = N
    <3>1. g[i] = h[N] /\ g[i + 1] = b
      BY <1>1, <1>2, <2>1
    <3> QED BY <3>1, Zenon
  <2>2. CASE i # N
    <3>1. i \in 1..N - 1 /\ i \in 1..N /\ i + 1 \in 1..N
      BY <1>1, <2>2
    <3>2. g[i] = h[i] /\ g[i + 1] = h[i + 1]
      BY <1>2, <3>1
    <3> QED BY <3>1, <3>2, Zenon DEF Recorded
  <2> QED BY <2>1, <2>2
<1>6. ASSUME NEW i \in 1..N + 1 PROVE \E more \in Seq(Bit) : g[N + 1].bits = g[i].bits \o more
  <2>1. CASE i = N + 1
    <3>1. b.bits \in Seq(Bit)
      BY DEF Fit
    <3>2. b.bits = b.bits \o <<>> /\ <<>> \in Seq(Bit)
      BY <3>1
    <3> QED BY <1>2, <2>1, <3>2, Zenon
  <2>2. CASE i # N + 1
    <3>1. i \in 1..N /\ N \in 1..N
      BY <1>1, <2>2
    <3>2. PICK more \in Seq(Bit) : h[N].bits = h[i].bits \o more
      BY <3>1 DEF Recorded
    <3>3. h[i].bits \in Seq(Bit)
      BY <3>1 DEF Recorded, Fit
    <3>4. b.bits = h[i].bits \o (more \o new) /\ more \o new \in Seq(Bit)
      <4>1. (h[i].bits \o more) \o new = h[i].bits \o (more \o new) /\ more \o new \in Seq(Bit)
        BY <3>3, BitsAssociate
      <4> QED BY <3>2, <4>1, Zenon
    <3> QED BY <1>2, <3>1, <3>4, Zenon
  <2> QED BY <2>1, <2>2
<1>7. N + 1 \in Nat /\ N + 1 >= 1
  BY <1>1
<1> QED BY <1>2, <1>3, <1>4, <1>5, <1>6, <1>7, Zenon DEF Recorded, RecordedTo

Snapshot ==
  [rest |-> rest, table |-> table, end |-> TableEnd, width |-> encWidth, group |-> encGroup,
   bits |-> bits]

Encoding == \E N, h : RecordedTo(h, N, input, maxWidth, blockMode, Snapshot)

LEMMA SnapshotFits ==
  ASSUME LzwInv, TableEnd <= 2^encWidth
  PROVE  Fit(Snapshot, maxWidth, blockMode)
BY DEF LzwInv, LzwTypeOK, Fit, Snapshot, Capacity

LEMMA SnapshotFitsNext ==
  ASSUME LzwInv', TableEnd' <= 2^encWidth', UNCHANGED <<maxWidth, blockMode>>
  PROVE  Fit(Snapshot', maxWidth, blockMode)
BY DEF LzwInv, LzwTypeOK, Fit, Snapshot, Capacity

LEMMA StartIsRecorded ==
  ASSUME LzwInit, LzwInv
  PROVE  Encoding
<1> DEFINE h == [i \in 1..1 |-> Snapshot]
<1>1. TableEnd = FirstFree(blockMode)
  <2>1. IsTable(table, FirstFree(blockMode), blockMode) /\ blockMode \in BOOLEAN
    BY FreshTable DEF LzwInit
  <2> QED BY <2>1, EndOfTable DEF TableEnd
<1>2. Fit(Snapshot, maxWidth, blockMode)
  <2>1. FirstFree(blockMode) <= 2^InitWidth /\ encWidth = InitWidth
    BY Shapes DEF LzwInit
  <2> QED BY <1>1, <2>1, SnapshotFits
<1>3. Fresh(Snapshot, input, blockMode)
  BY <1>1 DEF Fresh, Snapshot, LzwInit
<1>4. Snapshot.bits = Snapshot.bits \o <<>> /\ <<>> \in Seq(Bit)
  BY DEF Snapshot, LzwInit
<1>5. h[1] = Snapshot /\ \A i \in 1..1 : h[i] = Snapshot
  OBVIOUS
<1>6. 1 \in Nat /\ 1 >= 1 /\ 1..1 - 1 = {}
  OBVIOUS
<1> HIDE DEF h
<1>7. \A i \in 1..1 : \E more \in Seq(Bit) : h[1].bits = h[i].bits \o more
  BY <1>4, <1>5, Zenon
<1>8. \A i \in 1..1 - 1 : ClearStep(h[i], h[i + 1], blockMode) \/ \E code : StringStep(h[i], h[i + 1], code, maxWidth)
  BY <1>6
<1>9. Recorded(h, 1, input, maxWidth, blockMode)
  BY <1>2, <1>3, <1>5, <1>6, <1>7, <1>8, Zenon DEF Recorded
<1> QED BY <1>5, <1>9, Zenon DEF Encoding, RecordedTo

LEMMA StringIsRecorded ==
  ASSUME LzwInv, LzwInv', Encoding, EncodeString
  PROVE  Encoding'
<1>1. PICK N, h : Recorded(h, N, input, maxWidth, blockMode) /\ h[N] = Snapshot
  BY DEF Encoding, RecordedTo
<1> DEFINE code == Longest
           left == Drop(rest, Len(table[code]))
           grow == TableEnd > 2^encWidth - 1 /\ encWidth < maxWidth
           zeros == Zeros(IF grow THEN Padding(encGroup + 1, encWidth) ELSE 0)
           string == Append(table[code], Head(left))
<1>2. /\ rest' = left /\ bits' = bits \o CodeToBits(code, encWidth) \o zeros
      /\ encWidth' = IF grow THEN encWidth + 1 ELSE encWidth
      /\ encGroup' = IF grow THEN 0 ELSE encGroup + 1
      /\ table' = IF left = <<>> \/ TableEnd >= Capacity THEN table
                  ELSE WithEntry(table, TableEnd, string)
      /\ UNCHANGED <<input, maxWidth, blockMode, clears, decoder, source, state>>
      /\ rest # <<>>
  BY DEF EncodeString, WithEntry
<1>3. /\ maxWidth \in MaxWidths /\ blockMode \in BOOLEAN /\ rest \in Seq(Literal) /\ bits \in Seq(Bit)
      /\ IsTable(table, TableEnd, blockMode) /\ encWidth \in InitWidth..maxWidth /\ encGroup \in Nat
      /\ encWidth \in Nat /\ TableEnd \in Nat /\ maxWidth \in Nat
  <2>1. /\ maxWidth \in MaxWidths /\ blockMode \in BOOLEAN /\ rest \in Seq(Literal) /\ bits \in Seq(Bit)
        /\ IsTable(table, TableEnd, blockMode) /\ encWidth \in InitWidth..maxWidth /\ encGroup \in Nat
    BY DEF LzwInv, LzwTypeOK
  <2>2. TableEnd \in Nat
    BY <2>1 DEF IsTable
  <2>3. maxWidth \in Nat /\ InitWidth \in Nat
    BY <2>1, Shapes
  <2> QED BY <2>1, <2>2, <2>3
<1>4. code \in DOMAIN table /\ IsPrefix(table[code], rest)
  BY <1>2, <1>3, LongestIsCoded DEF Coded
<1>5. code \in Nat /\ table[code] \in Seq(Literal)
  BY <1>3, <1>4, Shapes DEF IsTable, Literal
<1>6. rest = table[code] \o left /\ left \in Seq(Literal)
  <2>1. Len(table[code]) \in 0..Len(rest) /\ SubSeq(rest, 1, Len(table[code])) = table[code]
    <3>1. SubSeq(table[code], 1, Len(table[code])) = table[code]
      BY <1>5
    <3> QED BY <1>3, <1>4, <1>5, <3>1 DEF IsPrefix
  <2> DEFINE n == Len(table[code])
  <2>2. SubSeq(rest, 1, n) \o SubSeq(rest, n + 1, Len(rest)) = rest
    <3>1. n \in 0..Len(rest)
      BY <2>1
    <3>2. 1 \in 1..Len(rest) + 1 /\ n \in 1 - 1..Len(rest) /\ Len(rest) \in n..Len(rest)
      BY <1>3, <3>1
    <3> HIDE DEF n
    <3>3. SubSeq(rest, 1, n) \o SubSeq(rest, n + 1, Len(rest)) = SubSeq(rest, 1, Len(rest))
      BY <1>3, <3>2, ConcatAdjacentSubSeq
    <3>4. SubSeq(rest, 1, Len(rest)) = rest
      BY <1>3
    <3> QED BY <3>3, <3>4, Zenon
  <2> QED BY <1>3, <2>1, <2>2, DropType DEF Drop
<1>7. CodeToBits(code, encWidth) \in Seq(Bit) /\ zeros \in Seq(Bit)
  <2>1. encGroup + 1 \in Nat
    BY <1>3
  <2>2. Padding(encGroup + 1, encWidth) \in Nat
    BY <1>3, <2>1, PaddingType
  <2> QED BY <1>3, <1>5, <2>2, BitsOfCode, ZerosType
<1> DEFINE new == CodeToBits(code, encWidth) \o zeros
<1>8. new \in Seq(Bit) /\ bits' = bits \o new
  <2> HIDE DEF code, zeros
  <2>1. (bits \o CodeToBits(code, encWidth)) \o zeros = bits \o (CodeToBits(code, encWidth) \o zeros)
        /\ CodeToBits(code, encWidth) \o zeros \in Seq(Bit)
    BY <1>3, <1>7, BitsAssociate
  <2> QED BY <1>2, <2>1, Zenon
<1> HIDE DEF code, left, zeros, string
<1>9. TableEnd' = IF left = <<>> \/ TableEnd >= Capacity THEN TableEnd ELSE TableEnd + 1
  <2>1. CASE left = <<>> \/ TableEnd >= Capacity
    BY <1>2, <2>1 DEF TableEnd
  <2>2. CASE ~(left = <<>> \/ TableEnd >= Capacity)
    <3>1. string \in Seq(Literal) \ {<<>>}
      <4>1. Head(left) \in Literal
        BY <1>6, <2>2
      <4> QED BY <1>5, <4>1 DEF string
    <3>2. IsTable(WithEntry(table, TableEnd, string), TableEnd + 1, blockMode)
      BY <1>3, <3>1, EntryAdded, Zenon
    <3>3. IsTable(table', TableEnd + 1, blockMode') /\ blockMode' \in BOOLEAN
      BY <1>2, <1>3, <2>2, <3>2
    <3>4. TableEnd' = TableEnd + 1
      BY <3>3, EndOfTable DEF TableEnd
    <3> QED BY <2>2, <3>4
  <2> QED BY <2>1, <2>2
<1>10. TableEnd <= 2^encWidth /\ TableEnd <= Capacity
  <2>1. Fit(Snapshot, maxWidth, blockMode)
    <3>1. N \in 1..N
      BY <1>1 DEF Recorded
    <3> QED BY <1>1, <3>1 DEF Recorded
  <2> QED BY <2>1 DEF Fit, Snapshot, Capacity
<1>11. TableEnd' <= 2^encWidth'
  <2>1. 2^encWidth \in Nat /\ 2^(encWidth + 1) = 2 * 2^encWidth /\ 2^encWidth >= 1
    BY <1>3, PowerType, PowerNext, PowerGrows
  <2>2. Capacity \in Nat /\ Capacity = 2^maxWidth
    BY <1>3, CapacityType DEF Capacity
  <2>3. CASE grow
    BY <1>2, <1>3, <1>9, <1>10, <2>1, <2>3
  <2>4. CASE ~grow /\ encWidth < maxWidth
    BY <1>2, <1>3, <1>9, <1>10, <2>1, <2>4
  <2>5. CASE ~(encWidth < maxWidth)
    <3>1. encWidth = maxWidth /\ encWidth' = encWidth
      BY <1>2, <1>3, <2>5
    <3> QED BY <1>3, <1>9, <1>10, <2>2, <3>1
  <2> QED BY <2>3, <2>4, <2>5
<1>12. Fit(Snapshot', maxWidth, blockMode)
  BY <1>2, <1>11, SnapshotFitsNext
<1>13. StringStep(Snapshot, Snapshot', code, maxWidth)
  <2>1. Grows(Snapshot, maxWidth) <=> grow
    BY DEF Grows, Snapshot
  <2> DEFINE a == Snapshot
             b == Snapshot'
  <2>2. a.rest = rest /\ a.table = table /\ a.end = TableEnd /\ a.width = encWidth /\ a.group = encGroup /\ a.bits = bits
    BY DEF Snapshot
  <2>3. b.rest = rest' /\ b.table = table' /\ b.end = TableEnd' /\ b.width = encWidth' /\ b.group = encGroup' /\ b.bits = bits'
    BY DEF Snapshot
  <2>4. b.bits = a.bits \o (CodeToBits(code, a.width) \o Zeros(IF Grows(a, maxWidth) THEN Padding(a.group + 1, a.width) ELSE 0))
    <3> HIDE DEF a, b, grow
    <3>1. zeros = Zeros(IF Grows(a, maxWidth) THEN Padding(a.group + 1, a.width) ELSE 0)
      BY <2>1, <2>2 DEF zeros, a
    <3> QED BY <1>8, <2>2, <2>3, <3>1
  <2> HIDE DEF a, b, grow
  <2>5. b.width = (IF Grows(a, maxWidth) THEN a.width + 1 ELSE a.width)
        /\ b.group = (IF Grows(a, maxWidth) THEN 0 ELSE a.group + 1)
    BY <1>2, <2>1, <2>2, <2>3 DEF a
  <2>6. code \in DOMAIN a.table /\ a.rest = a.table[code] \o b.rest
    BY <1>2, <1>4, <1>6, <2>2, <2>3
  <2>7. IF b.rest = <<>> \/ a.end >= 2^maxWidth
        THEN b.table = a.table /\ b.end = a.end
        ELSE /\ b.table = WithEntry(a.table, a.end, Append(a.table[code], Head(b.rest)))
             /\ b.end = a.end + 1
    <3>1. Capacity = 2^maxWidth
      BY DEF Capacity
    <3> QED BY <1>2, <1>9, <2>2, <2>3, <3>1 DEF string
  <2>8. StringStep(a, b, code, maxWidth)
    BY <2>4, <2>5, <2>6, <2>7, Zenon DEF StringStep
  <2> QED BY <2>8 DEF a, b
<1>14. Snapshot'.bits = h[N].bits \o new
  BY <1>1, <1>8 DEF Snapshot
<1>15. \E c : StringStep(h[N], Snapshot', c, maxWidth)
  BY <1>1, <1>13, Zenon
<1> HIDE DEF new
<1>16. \E g : RecordedTo(g, N + 1, input, maxWidth, blockMode, Snapshot')
  <2>1. PICK b : b = Snapshot'
    OBVIOUS
  <2>2. Fit(b, maxWidth, blockMode) /\ b.bits = h[N].bits \o new /\ \E c : StringStep(h[N], b, c, maxWidth)
    BY <1>12, <1>14, <1>15, <2>1
  <2>3. \E g : RecordedTo(g, N + 1, input, maxWidth, blockMode, b)
    BY <1>1, <1>8, <2>2, RecordedMore
  <2> QED BY <2>1, <2>3, Zenon
<1>17. UNCHANGED <<input, maxWidth, blockMode>>
  BY <1>2
<1> QED BY <1>16, <1>17, Zenon DEF Encoding

LEMMA ClearIsRecorded ==
  ASSUME LzwInv, LzwInv', Encoding, EncodeClear
  PROVE  Encoding'
<1>1. PICK N, h : Recorded(h, N, input, maxWidth, blockMode) /\ h[N] = Snapshot
  BY DEF Encoding, RecordedTo
<1>2. /\ bits' = bits \o CodeToBits(Clear, encWidth) \o Zeros(Padding(encGroup + 1, encWidth))
      /\ table' = [n \in Literal |-> <<n>>]
      /\ encWidth' = InitWidth /\ encGroup' = 0
      /\ UNCHANGED <<input, rest, maxWidth, blockMode>> /\ blockMode
  BY DEF EncodeClear
<1>3. /\ blockMode \in BOOLEAN /\ bits \in Seq(Bit) /\ encWidth \in Nat /\ encGroup \in Nat /\ encGroup + 1 \in Nat
  BY Shapes DEF LzwInv, LzwTypeOK
<1>4. TableEnd' = FirstFree(blockMode)
  <2>1. IsTable(table', FirstFree(blockMode'), blockMode') /\ blockMode' \in BOOLEAN
    BY <1>2, <1>3, FreshTable
  <2> QED BY <1>2, <2>1, EndOfTable DEF TableEnd
<1> DEFINE zeros == Zeros(Padding(encGroup + 1, encWidth))
           new == CodeToBits(Clear, encWidth) \o zeros
<1>5. new \in Seq(Bit) /\ bits' = bits \o new
  <2>1. CodeToBits(Clear, encWidth) \in Seq(Bit)
    BY <1>3, BitsOfCode, Shapes DEF Clear
  <2>2. zeros \in Seq(Bit)
    <3>1. Padding(encGroup + 1, encWidth) \in Nat
      BY <1>3, PaddingType
    <3> QED BY <3>1, ZerosType
  <2>3. bits' = (bits \o CodeToBits(Clear, encWidth)) \o zeros
    BY <1>2
  <2> HIDE DEF zeros
  <2>4. (bits \o CodeToBits(Clear, encWidth)) \o zeros = bits \o (CodeToBits(Clear, encWidth) \o zeros)
        /\ CodeToBits(Clear, encWidth) \o zeros \in Seq(Bit)
    BY <1>3, <2>1, <2>2, BitsAssociate
  <2> QED BY <2>3, <2>4, Zenon
<1>6. Fit(Snapshot', maxWidth, blockMode)
  <2>1. FirstFree(blockMode) <= 2^InitWidth
    BY <1>3, Shapes
  <2>2. TableEnd' <= 2^encWidth'
    BY <1>2, <1>4, <2>1
  <2> QED BY <1>2, <2>2, SnapshotFitsNext
<1>7. ClearStep(Snapshot, Snapshot', blockMode)
  BY <1>2, <1>4, <1>5 DEF ClearStep, Snapshot
<1>8. Snapshot'.bits = h[N].bits \o new
  BY <1>1, <1>5 DEF Snapshot
<1> HIDE DEF new
<1>9. \E g : RecordedTo(g, N + 1, input, maxWidth, blockMode, Snapshot')
  <2>1. PICK b : b = Snapshot'
    OBVIOUS
  <2>2. Fit(b, maxWidth, blockMode) /\ b.bits = h[N].bits \o new /\ ClearStep(h[N], b, blockMode)
    BY <1>1, <1>6, <1>7, <1>8, <2>1
  <2>3. \E g : RecordedTo(g, N + 1, input, maxWidth, blockMode, b)
    BY <1>1, <1>5, <2>2, RecordedMore
  <2> QED BY <2>1, <2>3, Zenon
<1> QED BY <1>2, <1>9, Zenon DEF Encoding

-----------------------------------------------------------------------------
\* The decoder's dictionary.

LEMMA ChainShift ==
  ASSUME maxWidth \in MaxWidths, prefix \in [Slots -> Slots], NEW n \in Slots, ~(n < Literals)
  PROVE  \A j \in 0..Capacity - 1 : Chain(n)[j + 1] = Chain(prefix[n])[j]
<1> DEFINE p == prefix[n]
           at == Chain(n)
           below == Chain(p)
           T == {j \in 0..Capacity - 1 : at[j + 1] # below[j]}
<1>1. Capacity \in Nat /\ Capacity >= 1 /\ p \in Slots
  BY CapacityType, Shapes
<1>2. /\ at[0] = n
      /\ \A k \in 1..Capacity : at[k] = IF at[k - 1] < Literals THEN at[k - 1] ELSE prefix[at[k - 1]]
  BY ChainIs
<1>3. /\ below[0] = p
      /\ \A k \in 1..Capacity : below[k] = IF below[k - 1] < Literals THEN below[k - 1] ELSE prefix[below[k - 1]]
  BY <1>1, ChainIs
<1> HIDE DEF at, below
<1>4. SUFFICES ASSUME T # {} PROVE FALSE
  BY DEF at, below
<1>5. PICK m \in T : \A y \in T : m <= y
  <2>1. T \in SUBSET Nat
    BY <1>1
  <2> HIDE DEF T
  <2> QED BY <1>4, <2>1, Least
<1>6. m # 0
  <2>1. at[0 + 1] = below[0]
    <3>1. 1 \in 1..Capacity /\ 1 - 1 = 0 /\ 0 + 1 = 1
      BY <1>1
    <3>2. at[1] = IF at[1 - 1] < Literals THEN at[1 - 1] ELSE prefix[at[1 - 1]]
      BY <1>2, <3>1
    <3> QED BY <1>2, <1>3, <3>1, <3>2
  <2> QED BY <1>5, <2>1
<1>7. m - 1 \in 0..Capacity - 1 /\ m \in 1..Capacity /\ m + 1 \in 1..Capacity /\ ~(m <= m - 1)
      /\ (m - 1) + 1 = m /\ (m + 1) - 1 = m
  BY <1>1, <1>5, <1>6
<1>8. at[m] = below[m - 1]
  <2>1. m - 1 \notin T
    BY <1>5, <1>7
  <2> QED BY <1>7, <2>1
<1>9. at[m + 1] = IF at[m] < Literals THEN at[m] ELSE prefix[at[m]]
  BY <1>2, <1>7
<1>10. below[m] = IF below[m - 1] < Literals THEN below[m - 1] ELSE prefix[below[m - 1]]
  BY <1>3, <1>7
<1> QED BY <1>5, <1>8, <1>9, <1>10

\* The decoder's entries spell what the encoder's are.
Agrees(a, end, pre, suf, block) ==
  \A n \in FirstFree(block)..end - 1 :
    pre[n] \in DOMAIN a.table /\ pre[n] < n /\ a.table[n] = Append(a.table[pre[n]], suf[n])

LEMMA SpeltOnce ==
  ASSUME NEW at
  PROVE  Spelt(at, 0) = <<at[0]>>
<1>1. Spelt(at, 0) = [i \in 1..1 |-> at[0]]
  <2>1. 0 + 1 = 1
    OBVIOUS
  <2>2. \A i \in 1..1 : i = 1
    OBVIOUS
  <2> QED BY <2>1, <2>2 DEF Spelt
<1> QED BY <1>1

\* A chain of links is the one below it, a step later.
Shifted(at, below, N) == \A j \in 0..N - 1 : at[j + 1] = below[j]

LEMMA SpeltMore ==
  ASSUME NEW at, NEW below, NEW k \in Nat, NEW n, NEW N \in Nat, k < N,
         at[0] = n, Shifted(at, below, N),
         Spelt(below, k) \in Seq(Literal), suffix[n] \in Literal
  PROVE  Spelt(at, k + 1) = Append(Spelt(below, k), suffix[n])
<1> DEFINE s == Spelt(below, k)
           u == Spelt(at, k + 1)
<1>1. s = [i \in 1..k + 1 |-> IF i = 1 THEN below[k] ELSE suffix[below[k + 1 - i]]]
  BY DEF Spelt
<1>2. u = [i \in 1..k + 2 |-> IF i = 1 THEN at[k + 1] ELSE suffix[at[k + 2 - i]]]
  <2>1. (k + 1) + 1 = k + 2
    OBVIOUS
  <2> QED BY <2>1 DEF Spelt
<1>3. Len(s) = k + 1
  <2>1. DOMAIN s = 1..k + 1 /\ k + 1 \in Nat
    BY <1>1
  <2>2. s \in Seq(Literal)
    OBVIOUS
  <2> HIDE DEF s
  <2> QED BY <2>1, <2>2
<1>4. Append(s, suffix[n]) = [i \in 1..k + 2 |-> IF i = k + 2 THEN suffix[n] ELSE s[i]]
  <2> HIDE DEF s
  <2>1. s \in Seq(Literal)
    BY DEF s
  <2> QED BY <1>3, <2>1
<1>5. ASSUME NEW i \in 1..k + 2
      PROVE  (IF i = 1 THEN at[k + 1] ELSE suffix[at[k + 2 - i]])
               = (IF i = k + 2 THEN suffix[n] ELSE s[i])
  <2>1. CASE i = k + 2
    <3>1. i # 1 /\ k + 2 - i = 0
      BY <2>1
    <3> QED BY <2>1, <3>1
  <2>2. CASE i = 1
    <3>1. i # k + 2 /\ i \in 1..k + 1 /\ k \in 0..N - 1
      BY <2>2
    <3>2. s[i] = below[k]
      BY <1>1, <2>2, <3>1
    <3>3. at[k + 1] = below[k]
      BY <3>1 DEF Shifted
    <3> QED BY <2>2, <3>1, <3>2, <3>3
  <2>3. CASE i # 1 /\ i # k + 2
    <3>1. i \in 1..k + 1 /\ k + 1 - i \in 0..N - 1 /\ (k + 1 - i) + 1 = k + 2 - i
      BY <2>3
    <3>2. s[i] = suffix[below[k + 1 - i]]
      BY <1>1, <2>3, <3>1
    <3>3. at[k + 2 - i] = below[k + 1 - i]
      BY <3>1 DEF Shifted
    <3> QED BY <2>3, <3>2, <3>3
  <2> QED BY <2>1, <2>2, <2>3
<1> HIDE DEF s, u
<1>6. u = Append(s, suffix[n])
  BY <1>2, <1>4, <1>5
<1> QED BY <1>6 DEF s, u

LEMMA SpeltDown ==
  ASSUME maxWidth \in MaxWidths, prefix \in [Slots -> Slots], suffix \in [Slots -> Literal],
         NEW n \in Slots, ~(n < Literals), NEW k \in Nat, k < Capacity,
         Spelt(Chain(prefix[n]), k) \in Seq(Literal)
  PROVE  Spelt(Chain(n), k + 1) = Append(Spelt(Chain(prefix[n]), k), suffix[n])
<1>1. PICK at, below : at = Chain(n) /\ below = Chain(prefix[n])
  OBVIOUS
<1>2. PICK N \in Nat : N = Capacity
  BY CapacityType
<1>3. at[0] = n /\ suffix[n] \in Literal
  BY <1>1, ChainIs
<1>4. Shifted(at, below, N)
  BY <1>1, <1>2, ChainShift DEF Shifted
<1>5. Spelt(below, k) \in Seq(Literal) /\ k < N
  BY <1>1, <1>2
<1>6. Spelt(at, k + 1) = Append(Spelt(below, k), suffix[n])
  BY <1>3, <1>4, <1>5, SpeltMore
<1> QED BY <1>1, <1>6

LEMMA ExpandSpells ==
  ASSUME NEW a, NEW code, maxWidth \in MaxWidths, blockMode \in BOOLEAN,
         prefix \in [Slots -> Slots], suffix \in [Slots -> Literal],
         IsTable(a.table, a.end, blockMode), free \in 0..Capacity, free <= a.end,
         Agrees(a, free, prefix, suffix, blockMode),
         code \in DOMAIN a.table, code < free
  PROVE  Expand(code) = a.table[code]
<1> DEFINE Ends(n, k) == /\ Chain(n)[k] < Literals
                         /\ \A j \in 0..k - 1 : ~(Chain(n)[j] < Literals)
                         /\ a.table[n] = Spelt(Chain(n), k)
           Good(n) == \E k \in 0..n : Ends(n, k)
           T == {n \in DOMAIN a.table : n < free /\ ~Good(n)}
<1>1. /\ Capacity \in Nat /\ Capacity >= 1 /\ Literals \in Nat
      /\ FirstFree(blockMode) \in Literals..Literals + 1 /\ a.end \in Nat
      /\ \A c \in DOMAIN a.table : c \in Nat /\ (c < Literals \/ c \in FirstFree(blockMode)..a.end - 1)
      /\ \A c \in Literal : c \in Nat
  BY CapacityType, Shapes DEF IsTable, Literal
<1>2. ASSUME NEW n \in DOMAIN a.table, n < free PROVE n \in Slots /\ n \in Nat /\ n < Capacity
  BY <1>1, <1>2 DEF Slots
<1>3. T = {}
  <2>1. SUFFICES ASSUME T # {} PROVE FALSE
    OBVIOUS
  <2>2. PICK n \in T : \A y \in T : n <= y
    <3>1. T \in SUBSET Nat
      BY <1>1
    <3> HIDE DEF T
    <3> QED BY <2>1, <3>1, Least
  <2>3. n \in DOMAIN a.table /\ n < free /\ n \in Slots /\ n \in Nat /\ n < Capacity
    BY <1>2
  <2> HIDE DEF Good
  <2>4. CASE n < Literals
    <3>1. Chain(n)[0] = n
      BY <2>3, ChainIs
    <3>2. a.table[n] = <<n>>
      <4>1. n \in 0..Literals - 1
        BY <1>1, <2>3, <2>4
      <4> QED BY <4>1 DEF IsTable, Literal
    <3>3. Ends(n, 0)
      BY <2>4, <3>1, <3>2, SpeltOnce
    <3>4. 0 \in 0..n
      BY <2>3
    <3>5. Good(n)
      BY <3>3, <3>4 DEF Good
    <3> QED BY <2>2, <3>5
  <2>5. CASE ~(n < Literals)
    <3> DEFINE p == prefix[n]
    <3>1. n \in FirstFree(blockMode)..free - 1
      BY <1>1, <2>3, <2>5
    <3>2. p \in DOMAIN a.table /\ p < n /\ a.table[n] = Append(a.table[p], suffix[n])
      BY <3>1 DEF Agrees
    <3>3. p \in Nat /\ p < free /\ ~(n <= p)
      BY <1>1, <2>3, <3>2
    <3> HIDE DEF p
    <3>4. Good(p)
      BY <2>2, <3>2, <3>3
    <3>5. PICK k \in 0..p : Ends(p, k)
      BY <3>4 DEF Good
    <3> HIDE DEF Ends
    <3>6. k \in Nat /\ k < Capacity /\ k + 1 \in 0..n
      BY <1>1, <2>3, <3>2, <3>3
    <3>7. Chain(n)[0] = n
      BY <2>3, ChainIs
    <3>8. \A j \in 0..Capacity - 1 : Chain(n)[j + 1] = Chain(p)[j]
      BY <2>3, <2>5, ChainShift DEF p
    <3>9. Chain(n)[k + 1] < Literals
      BY <1>1, <3>5, <3>6, <3>8 DEF Ends
    <3>10. ASSUME NEW j \in 0..(k + 1) - 1 PROVE ~(Chain(n)[j] < Literals)
      <4>1. CASE j = 0
        BY <2>5, <3>7, <4>1
      <4>2. CASE j # 0
        <5>1. j - 1 \in 0..k - 1 /\ j - 1 \in 0..Capacity - 1 /\ (j - 1) + 1 = j
          BY <1>1, <3>6, <4>2
        <5>2. Chain(n)[j] = Chain(p)[j - 1]
          BY <3>8, <5>1
        <5> QED BY <3>5, <5>1, <5>2 DEF Ends
      <4> QED BY <4>1, <4>2
    <3>11. a.table[n] = Spelt(Chain(n), k + 1)
      <4>1. a.table[p] = Spelt(Chain(p), k)
        BY <3>5 DEF Ends
      <4>2. a.table[p] \in Seq(Literal) /\ suffix[n] \in Literal
        BY <2>3, <3>2 DEF IsTable
      <4>3. Spelt(Chain(n), k + 1) = Append(Spelt(Chain(p), k), suffix[n])
        BY <1>1, <2>3, <2>5, <3>6, <4>1, <4>2, SpeltDown DEF p
      <4> QED BY <3>2, <4>1, <4>3
    <3>12. Ends(n, k + 1)
      BY <3>9, <3>10, <3>11 DEF Ends
    <3>13. Good(n)
      BY <3>6, <3>12 DEF Good
    <3> QED BY <2>2, <3>13
  <2> QED BY <2>4, <2>5
<1>4. PICK k \in 0..code : Ends(code, k)
  BY <1>3
<1>5. k \in 0..Capacity
  BY <1>1, <1>2
<1>6. Expand(code) = Spelt(Chain(code), k)
  BY <1>1, <1>4, <1>5, ExpandIs
<1> QED BY <1>4, <1>6

-----------------------------------------------------------------------------
\* What the decoder has still to read of what the encoder wrote: the last byte
\* may be padded, and the end may be missing.

Remains(more, lost, pad, stream, src) ==
  /\ more \in Seq(Bit) /\ lost \in Seq(Bit) /\ pad \in Seq(Bit)
  /\ more \o pad = stream \o lost /\ Len(pad) < Byte
  /\ src = "whole" => lost = <<>>

Ahead(a, last, stream, src) ==
  \E more, lost, pad : Remains(more, lost, pad, stream, src) /\ last.bits = a.bits \o more

LEMMA SplitBits ==
  ASSUME NEW x \in Seq(Bit), NEW y \in Seq(Bit), NEW c \in Seq(Bit), NEW d \in Seq(Bit),
         x \o y = c \o d, Len(c) <= Len(x)
  PROVE  /\ Drop(x, Len(c)) \in Seq(Bit) /\ SubSeq(x, 1, Len(c)) = c
         /\ Drop(x, Len(c)) \o y = d
BY SplitConcat

LEMMA NothingLeft ==
  ASSUME NEW x \in Seq(Bit)
  PROVE  Drop(x, Len(x)) = <<>>
<1>1. Len(x) \in 0..Len(x) /\ Len(x) - Len(x) = 0
  OBVIOUS
<1>2. Drop(x, Len(x)) \in Seq(Bit) /\ Len(Drop(x, Len(x))) = 0
  BY <1>1, DropType
<1> QED BY <1>2, EmptySeq

LEMMA SameFront ==
  ASSUME NEW x \in Seq(Bit), NEW y \in Seq(Bit), NEW z \in Seq(Bit), x \o y = x \o z
  PROVE  y = z
<1>0. Len(x) <= Len(x)
  OBVIOUS
<1>1. Drop(x, Len(x)) \o y = z
  BY <1>0, SplitBits
<1>3. Drop(x, Len(x)) = <<>>
  BY NothingLeft
<1>4. <<>> \o y = y
  BY ConcatEmptySeq
<1> QED BY <1>1, <1>3, <1>4

LEMMA NothingAhead ==
  ASSUME NEW a, NEW stream \in Seq(Bit), NEW src, a.bits \in Seq(Bit), Ahead(a, a, stream, src)
  PROVE  Len(stream) < Byte
<1>1. PICK more, lost, pad : Remains(more, lost, pad, stream, src) /\ a.bits = a.bits \o more
  BY DEF Ahead
<1>2. more = <<>>
  BY <1>1, ConcatEqualIffEmpty DEF Remains
<1>3. pad = stream \o lost
  BY <1>1, <1>2, ConcatEmptySeq DEF Remains
<1>4. Len(pad) = Len(stream) + Len(lost)
  BY <1>1, <1>3, ConcatProperties DEF Remains
<1> QED BY <1>1, <1>4, Shapes DEF Remains

\* A code and zeros behind it, from the front of the stream.
Faces(stream, lost, c, z, rem) ==
  /\ rem \in Seq(Bit) /\ z \o rem \in Seq(Bit)
  /\ stream \o lost = c \o (z \o rem)

Brackets(x, y, z) == (x \o y) \o z = x \o (y \o z)

LEMMA BracketsMove == \A x, y, z \in Seq(Bit) : Brackets(x, y, z)
BY ConcatAssociative DEF Brackets

LEMMA FrontCode ==
  ASSUME NEW before \in Seq(Bit), NEW c \in Seq(Bit), NEW z \in Seq(Bit), NEW further \in Seq(Bit),
         NEW more \in Seq(Bit), NEW pad \in Seq(Bit), NEW stream, NEW lost,
         (before \o (c \o z)) \o further = before \o more, more \o pad = stream \o lost
  PROVE  Faces(stream, lost, c, z, further \o pad)
<1> DEFINE cz == c \o z
           rem == further \o pad
<1>1. cz \in Seq(Bit) /\ rem \in Seq(Bit)
  BY ConcatProperties
<1>2. (before \o cz) \o further = before \o more
  OBVIOUS
<1>3. cz \o rem = c \o (z \o rem) /\ z \o rem \in Seq(Bit)
  <2>1. rem \in Seq(Bit)
    BY <1>1
  <2> HIDE DEF rem
  <2>2. Brackets(c, z, rem)
    BY <2>1, BracketsMove
  <2>3. z \o rem \in Seq(Bit)
    BY <2>1, ConcatProperties
  <2> QED BY <2>2, <2>3 DEF Brackets
<1>7. cz \in Seq(Bit)
  BY <1>1
<1> HIDE DEF cz, rem
<1>4. cz \o further \in Seq(Bit)
  BY <1>1, ConcatProperties
<1>5. more = cz \o further
  <2>1. Brackets(before, cz, further)
    BY <1>7, BracketsMove
  <2>2. before \o more = before \o (cz \o further)
    BY <1>2, <2>1 DEF Brackets
  <2> QED BY <1>4, <2>2, SameFront
<1>6. more \o pad = cz \o rem
  <2>1. Brackets(cz, further, pad)
    BY <1>7, BracketsMove
  <2> QED BY <1>5, <2>1 DEF rem, Brackets
<1> QED BY <1>1, <1>3, <1>6 DEF Faces, rem

\* Between two states of the encoder, the first before the second and the last.
Adds(b, a, code, w, P) == b.bits = a.bits \o (CodeToBits(code, w) \o Zeros(P))
IsAfter(last, b) == \E more \in Seq(Bit) : last.bits = b.bits \o more

\* As long as the encoder wrote another code, a whole stream still has it.
LEMMA CodeIsAhead ==
  ASSUME NEW a, NEW b, NEW last, NEW stream \in Seq(Bit), NEW w \in Nat, NEW P \in Nat,
         NEW code \in 0..2^w - 1, a.bits \in Seq(Bit),
         Adds(b, a, code, w, P), IsAfter(last, b), Ahead(a, last, stream, "whole")
  PROVE  Len(stream) >= w
<1> DEFINE c == CodeToBits(code, w)
           z == Zeros(P)
<1>1. PICK more, lost, pad : Remains(more, lost, pad, stream, "whole") /\ last.bits = a.bits \o more
  BY DEF Ahead
<1>2. PICK further \in Seq(Bit) : last.bits = b.bits \o further
  BY DEF IsAfter
<1>3. c \in Seq(Bit) /\ Len(c) = w /\ z \in Seq(Bit)
  <2>1. 2^w \in Nat
    BY PowerType
  <2>2. code \in Nat
    BY <2>1
  <2> QED BY <2>2, BitsOfCode, ZerosType
<1>4. b.bits = a.bits \o (c \o z)
  BY DEF Adds
<1> HIDE DEF c, z
<1>5. PICK rem : Faces(stream, lost, c, z, rem)
  <2>1. more \in Seq(Bit) /\ pad \in Seq(Bit) /\ more \o pad = stream \o lost
    BY <1>1 DEF Remains
  <2>2. (a.bits \o (c \o z)) \o further = a.bits \o more
    BY <1>1, <1>2, <1>4
  <2>3. Faces(stream, lost, c, z, further \o pad)
    BY <1>3, <2>1, <2>2, FrontCode
  <2> QED BY <2>3
<1>6. lost = <<>>
  BY <1>1 DEF Remains
<1>7. PICK d \in Seq(Bit) : stream \o lost = c \o d
  BY <1>5 DEF Faces
<1>8. stream = c \o d
  BY <1>6, <1>7, ConcatEmptySeq
<1>9. Len(stream) = Len(c) + Len(d)
  BY <1>3, <1>8, ConcatProperties
<1>10. Len(d) \in Nat
  OBVIOUS
<1> QED BY <1>3, <1>9, <1>10

\* What is skipped is what the encoder filled in.
Past(rem, x, n, gone, src) ==
  /\ gone \in Seq(Bit) /\ Discard(x, n) \in Seq(Bit) /\ rem = Discard(x, n) \o gone
  /\ src = "whole" => gone = <<>>

LEMMA ZerosSkipped ==
  ASSUME NEW x \in Seq(Bit), NEW z \in Seq(Bit), NEW rem \in Seq(Bit), NEW lost \in Seq(Bit),
         NEW src, z \o rem = x \o lost, src = "whole" => lost = <<>>
  PROVE  \E gone : Past(rem, x, Len(z), gone, src)
<1>0. Len(x) \in Nat /\ Len(z) \in Nat /\ Len(lost) \in Nat /\ Len(rem) \in Nat
  OBVIOUS
<1>1. CASE Len(z) <= Len(x)
  <2>1. Drop(x, Len(z)) \in Seq(Bit) /\ Drop(x, Len(z)) \o lost = rem
    BY <1>1, SplitBits
  <2>2. Discard(x, Len(z)) = Drop(x, Len(z))
    BY <1>1 DEF Discard
  <2> QED BY <2>1, <2>2 DEF Past
<1>2. CASE ~(Len(z) <= Len(x))
  <2>1. Len(x) <= Len(z) /\ Discard(x, Len(z)) = Drop(x, Len(x))
    BY <1>0, <1>2 DEF Discard
  <2>2. Drop(x, Len(x)) = <<>>
    BY NothingLeft
  <2>3. src # "whole"
    <3>1. SUFFICES ASSUME src = "whole" PROVE FALSE
      OBVIOUS
    <3>2. z \o rem = x
      BY <3>1, ConcatEmptySeq
    <3>3. Len(x) = Len(z) + Len(rem)
      BY <3>2, ConcatProperties
    <3> QED BY <1>0, <1>2, <3>3
  <2>4. rem = <<>> \o rem /\ <<>> \in Seq(Bit)
    BY ConcatEmptySeq
  <2> QED BY <2>1, <2>2, <2>3, <2>4 DEF Past
<1> QED BY <1>1, <1>2

LEMMA NextCodeIs ==
  ASSUME NEW a, NEW b, NEW last, NEW stream \in Seq(Bit), NEW src, NEW w \in Nat, NEW P \in Nat,
         NEW code \in 0..2^w - 1, a.bits \in Seq(Bit), Len(stream) >= w,
         Adds(b, a, code, w, P), IsAfter(last, b), Ahead(a, last, stream, src)
  PROVE  /\ BitsToCode(SubSeq(stream, 1, w)) = code
         /\ Ahead(b, last, Discard(Drop(stream, w), P), src)
<1> DEFINE c == CodeToBits(code, w)
           z == Zeros(P)
           x == Drop(stream, w)
<1>1. PICK more, lost, pad : Remains(more, lost, pad, stream, src) /\ last.bits = a.bits \o more
  BY DEF Ahead
<1>2. PICK further \in Seq(Bit) : last.bits = b.bits \o further
  BY DEF IsAfter
<1>3. c \in Seq(Bit) /\ Len(c) = w /\ z \in Seq(Bit) /\ Len(z) = P
  <2>1. 2^w \in Nat
    BY PowerType
  <2>2. code \in Nat
    BY <2>1
  <2> QED BY <2>2, BitsOfCode, ZerosType
<1>4. b.bits = a.bits \o (c \o z)
  BY DEF Adds
<1>5. BitsToCode(c) = code
  BY CodeSurvives
<1> HIDE DEF c, z
<1>6. PICK rem : rem = further \o pad /\ Faces(stream, lost, c, z, rem)
  <2>1. more \in Seq(Bit) /\ pad \in Seq(Bit) /\ more \o pad = stream \o lost
    BY <1>1 DEF Remains
  <2>2. (a.bits \o (c \o z)) \o further = a.bits \o more
    BY <1>1, <1>2, <1>4
  <2>3. Faces(stream, lost, c, z, further \o pad)
    BY <1>3, <2>1, <2>2, FrontCode
  <2> QED BY <2>3
<1>7. lost \in Seq(Bit) /\ pad \in Seq(Bit) /\ Len(pad) < Byte /\ (src = "whole" => lost = <<>>)
  BY <1>1 DEF Remains
<1>8. x \in Seq(Bit) /\ SubSeq(stream, 1, w) = c /\ x \o lost = z \o rem
  <2>1. Len(c) <= Len(stream) /\ w = Len(c)
    BY <1>3
  <2>2. PICK d \in Seq(Bit) : d = z \o rem
    BY <1>6 DEF Faces
  <2>3. stream \o lost = c \o d
    BY <1>6, <2>2 DEF Faces
  <2>4. Drop(stream, Len(c)) \in Seq(Bit) /\ SubSeq(stream, 1, Len(c)) = c /\ Drop(stream, Len(c)) \o lost = d
    BY <1>3, <1>7, <2>1, <2>3, SplitBits
  <2> QED BY <2>1, <2>2, <2>4 DEF x
<1> HIDE DEF x
<1>9. PICK gone : Past(rem, x, Len(z), gone, src)
  <2>1. z \o rem = x \o lost /\ rem \in Seq(Bit)
    BY <1>6, <1>8 DEF Faces
  <2> QED BY <1>3, <1>7, <1>8, <2>1, ZerosSkipped
<1>10. Remains(further, gone, pad, Discard(x, P), src)
  BY <1>3, <1>6, <1>7, <1>9 DEF Remains, Past
<1>11. Ahead(b, last, Discard(x, P), src)
  BY <1>2, <1>10 DEF Ahead
<1> QED BY <1>5, <1>8, <1>11 DEF x

-----------------------------------------------------------------------------
\* The decoder stands where the encoder stood before the code that it will read
\* next, but for the entry that this code completes.

Due(a, end, code, cap) ==
  IF end < cap THEN a.end = end + 1 /\ a.table[end] = Append(a.table[code], Head(a.rest))
               ELSE a.end = cap

InStep(a) ==
  /\ width = a.width /\ inGroup = a.group /\ input = out \o a.rest
  /\ free <= a.end /\ Agrees(a, free, prefix, suffix, blockMode)
  /\ IF prev = NoCode
     THEN free = FirstFree(blockMode) /\ a.end = FirstFree(blockMode)
     ELSE /\ FirstFree(blockMode) <= free /\ prev \in DOMAIN a.table /\ prev < free
          /\ a.rest # <<>> => Due(a, free, prev, Capacity)

Following(h, N, m) ==
  /\ Recorded(h, N, input, maxWidth, blockMode) /\ h[N].rest = <<>> /\ m \in 1..N
  /\ InStep(h[m]) /\ Ahead(h[m], h[N], bits, source)

Decoding == \E h, N, m : Following(h, N, m)

ReadsClear(a, b, last) ==
  /\ ClearStep(a, b, blockMode) /\ Code = Clear
  /\ Ahead(b, last, Discard(Drop(bits, width), Padding(a.group + 1, a.width)), source)

ReadsString(a, b, last) ==
  /\ StringStep(a, b, Code, maxWidth) /\ ~(blockMode /\ Code = Clear)
  /\ Ahead(b, last, Discard(Drop(bits, width), IF Grows(a, maxWidth) THEN Padding(a.group + 1, a.width) ELSE 0), source)

LEMMA CodeFits ==
  ASSUME NEW a, maxWidth \in MaxWidths, blockMode \in BOOLEAN, Fit(a, maxWidth, blockMode)
  PROVE  /\ Clear \in 0..2^a.width - 1 /\ a.width \in Nat /\ a.group + 1 \in Nat
         /\ \A code \in DOMAIN a.table : code \in 0..2^a.width - 1 /\ ~(blockMode /\ code = Clear)
<1>1. /\ a.width \in InitWidth..maxWidth /\ a.end <= 2^a.width /\ IsTable(a.table, a.end, blockMode)
      /\ a.group \in Nat
  BY DEF Fit
<1>2. /\ 2^a.width \in Nat /\ 2^a.width >= 2 * Literals /\ Literals \in Nat /\ Literals >= 2
      /\ a.width \in Nat /\ a.group + 1 \in Nat
  <2>1. InitWidth \in Nat /\ maxWidth \in Nat /\ Literals \in Nat /\ Literals >= 2
    BY Shapes
  <2>2. 2^a.width \in Nat /\ 2^a.width >= 2 * Literals
    BY <1>1, CapacityType
  <2> QED BY <1>1, <2>1, <2>2
<1>3. ASSUME NEW code \in DOMAIN a.table
      PROVE  code \in 0..2^a.width - 1 /\ ~(blockMode /\ code = Clear)
  <2>1. a.end \in Nat /\ (code \in Literal \/ code \in FirstFree(blockMode)..a.end - 1)
    BY <1>1 DEF IsTable
  <2>2. FirstFree(blockMode) = IF blockMode THEN Literals + 1 ELSE Literals
    BY DEF FirstFree
  <2>3. CASE code \in Literal
    BY <1>2, <2>3 DEF Literal, Clear
  <2>4. CASE code \in FirstFree(blockMode)..a.end - 1
    BY <1>1, <1>2, <2>1, <2>2, <2>4 DEF Clear
  <2> QED BY <2>1, <2>3, <2>4
<1>4. Clear \in 0..2^a.width - 1
  BY <1>2 DEF Clear
<1> QED BY <1>2, <1>3, <1>4

LEMMA NextStep ==
  ASSUME LzwInv, NEW h, NEW N, NEW m, Following(h, N, m), Len(bits) >= width
  PROVE  /\ m + 1 \in 1..N
         /\ ReadsClear(h[m], h[m + 1], h[N]) \/ ReadsString(h[m], h[m + 1], h[N])
<1>1. /\ Recorded(h, N, input, maxWidth, blockMode) /\ m \in 1..N /\ N \in Nat
      /\ Ahead(h[m], h[N], bits, source) /\ width = h[m].width
  BY DEF Following, Recorded, InStep
<1>2. /\ maxWidth \in MaxWidths /\ blockMode \in BOOLEAN /\ bits \in Seq(Bit)
      /\ width \in InitWidth..maxWidth /\ maxWidth \in Nat /\ InitWidth \in Nat
      /\ Byte \in Nat /\ Byte <= InitWidth
  <2>1. maxWidth \in MaxWidths /\ blockMode \in BOOLEAN /\ bits \in Seq(Bit) /\ width \in InitWidth..maxWidth
    BY DEF LzwInv, LzwTypeOK
  <2> QED BY <2>1, Shapes
<1>3. Fit(h[m], maxWidth, blockMode)
  BY <1>1 DEF Recorded
<1>4. m # N
  <2>1. SUFFICES ASSUME m = N PROVE FALSE
    OBVIOUS
  <2>2. Ahead(h[m], h[m], bits, source) /\ h[m].bits \in Seq(Bit)
    BY <1>1, <1>3, <2>1 DEF Fit
  <2>3. Len(bits) < Byte
    BY <1>2, <2>2, NothingAhead
  <2>4. Len(bits) \in Nat
    BY <1>2
  <2> QED BY <1>2, <2>3, <2>4
<1>5. m \in 1..N - 1 /\ m + 1 \in 1..N
  BY <1>1, <1>4
<1> DEFINE a == h[m]
           b == h[m + 1]
           last == h[N]
<1>6. IsAfter(last, b)
  BY <1>1, <1>5 DEF Recorded, IsAfter
<1>7. ClearStep(a, b, blockMode) \/ \E code : StringStep(a, b, code, maxWidth)
  BY <1>1, <1>5 DEF Recorded
<1>8. a.bits \in Seq(Bit) /\ a.width = width /\ Ahead(a, last, bits, source) /\ Fit(a, maxWidth, blockMode)
  BY <1>1, <1>3 DEF Fit
<1> HIDE DEF a, b, last
<1>9. /\ Clear \in 0..2^width - 1 /\ width \in Nat /\ a.group + 1 \in Nat
      /\ \A code \in DOMAIN a.table : code \in 0..2^width - 1 /\ ~(blockMode /\ code = Clear)
  BY <1>2, <1>8, CodeFits
<1>10. Padding(a.group + 1, width) \in Nat
  BY <1>9, PaddingType
<1>11. CASE ClearStep(a, b, blockMode)
  <2> DEFINE P == Padding(a.group + 1, width)
  <2>1. Adds(b, a, Clear, width, P)
    BY <1>8, <1>11 DEF ClearStep, Adds
  <2>2. P \in Nat
    BY <1>10
  <2> HIDE DEF P
  <2>3. BitsToCode(SubSeq(bits, 1, width)) = Clear /\ Ahead(b, last, Discard(Drop(bits, width), P), source)
    BY <1>2, <1>6, <1>8, <1>9, <2>1, <2>2, NextCodeIs
  <2>4. ReadsClear(a, b, last)
    BY <1>8, <1>11, <2>3 DEF ReadsClear, Code, P
  <2> QED BY <1>5, <2>4 DEF a, b, last
<1>12. CASE \E code : StringStep(a, b, code, maxWidth)
  <2>0. PICK code : StringStep(a, b, code, maxWidth)
    BY <1>12
  <2> DEFINE P == IF Grows(a, maxWidth) THEN Padding(a.group + 1, width) ELSE 0
  <2>1. Adds(b, a, code, width, P) /\ code \in DOMAIN a.table
    BY <1>8, <2>0 DEF StringStep, Adds
  <2>2. P \in Nat
    BY <1>10
  <2> HIDE DEF P
  <2>3. code \in 0..2^width - 1 /\ ~(blockMode /\ code = Clear)
    BY <1>9, <2>1
  <2>4. BitsToCode(SubSeq(bits, 1, width)) = code /\ Ahead(b, last, Discard(Drop(bits, width), P), source)
    BY <1>2, <1>6, <1>8, <1>9, <2>1, <2>2, <2>3, NextCodeIs
  <2>5. Code = code
    BY <2>4 DEF Code
  <2>6. ReadsString(a, b, last)
    BY <1>8, <2>0, <2>3, <2>4, <2>5 DEF ReadsString, P
  <2> QED BY <1>5, <2>6 DEF a, b, last
<1> QED BY <1>7, <1>11, <1>12

-----------------------------------------------------------------------------
\* One code read, of each of the three kinds.

LEMMA TextMoves == \A x, y, z \in Seq(Literal) : Brackets(x, y, z)
BY ConcatAssociative DEF Brackets

LEMMA ClearIsFollowed ==
  ASSUME LzwInv, Decoding, DecodeClear
  PROVE  Decoding'
<1>1. PICK h, N, m : Following(h, N, m)
  BY DEF Decoding
<1>2. /\ Len(bits) >= width /\ blockMode /\ Code = Clear
      /\ bits' = Discard(Drop(bits, width), Padding(inGroup + 1, width))
      /\ inGroup' = 0 /\ free' = FirstFree(blockMode) /\ width' = InitWidth /\ prev' = NoCode
      /\ UNCHANGED <<input, maxWidth, blockMode, prefix, suffix, out, source>>
  BY DEF DecodeClear, Realign, encoder
<1> DEFINE a == h[m]
           b == h[m + 1]
<1>3. m + 1 \in 1..N /\ ReadsClear(a, b, h[N])
  <2>1. m + 1 \in 1..N /\ (ReadsClear(a, b, h[N]) \/ ReadsString(a, b, h[N]))
    BY <1>1, <1>2, NextStep
  <2>2. ~ReadsString(a, b, h[N])
    BY <1>2 DEF ReadsString
  <2> QED BY <2>1, <2>2
<1>4. InStep(a) /\ Recorded(h, N, input, maxWidth, blockMode) /\ h[N].rest = <<>>
  BY <1>1 DEF Following
<1> HIDE DEF a, b
<1>5. ClearStep(a, b, blockMode) /\ Ahead(b, h[N], bits', source)
  BY <1>2, <1>3, <1>4 DEF ReadsClear, InStep
<1>6. InStep(b)'
  <2>1. width' = b.width /\ inGroup' = b.group /\ input' = out' \o b.rest
    BY <1>2, <1>4, <1>5 DEF ClearStep, InStep
  <2>2. free' = FirstFree(blockMode') /\ b.end = FirstFree(blockMode')
    BY <1>2, <1>5 DEF ClearStep
  <2>3. FirstFree(blockMode') \in Int
    <3>1. blockMode \in BOOLEAN /\ blockMode' = blockMode
      BY <1>2 DEF LzwInv, LzwTypeOK
    <3> QED BY <3>1, Shapes
  <2>4. Agrees(b, free, prefix, suffix, blockMode)'
    BY <2>2, <2>3 DEF Agrees
  <2>5. free' <= b.end
    BY <2>2, <2>3
  <2> QED BY <1>2, <2>1, <2>2, <2>4, <2>5 DEF InStep
<1>7. Following(h, N, m + 1)'
  BY <1>2, <1>3, <1>4, <1>5, <1>6 DEF Following, b
<1> QED BY <1>7 DEF Decoding

LEMMA StepsFit ==
  ASSUME LzwInv, NEW h, NEW N, NEW m, Following(h, N, m), m + 1 \in 1..N
  PROVE  /\ InStep(h[m]) /\ Recorded(h, N, input, maxWidth, blockMode) /\ h[N].rest = <<>>
         /\ Fit(h[m], maxWidth, blockMode) /\ Fit(h[m + 1], maxWidth, blockMode)
  BY DEF Following, Recorded

LEMMA FirstIsFollowed ==
  ASSUME LzwInv, Decoding, DecodeFirst
  PROVE  Decoding' /\ state' = state
<1>1. PICK h, N, m : Following(h, N, m)
  BY DEF Decoding
<1>2. /\ Len(bits) >= width /\ ~(blockMode /\ Code = Clear) /\ prev = NoCode
      /\ bits' = Drop(bits, width) /\ inGroup' = inGroup + 1
      /\ Code < Literals => out' = Append(out, Code) /\ prev' = Code /\ state' = state
      /\ UNCHANGED <<input, maxWidth, blockMode, width, free, prefix, suffix, source>>
  BY DEF DecodeFirst, encoder
<1> DEFINE a == h[m]
           b == h[m + 1]
<1>3. m + 1 \in 1..N /\ ReadsString(a, b, h[N])
  <2>1. m + 1 \in 1..N /\ (ReadsClear(a, b, h[N]) \/ ReadsString(a, b, h[N]))
    BY <1>1, <1>2, NextStep
  <2>2. ~ReadsClear(a, b, h[N])
    BY <1>2 DEF ReadsClear, ClearStep
  <2> QED BY <2>1, <2>2
<1>4. /\ InStep(a) /\ Recorded(h, N, input, maxWidth, blockMode) /\ h[N].rest = <<>>
      /\ Fit(a, maxWidth, blockMode) /\ Fit(b, maxWidth, blockMode)
  BY <1>1, <1>3, StepsFit
<1> HIDE DEF a, b
<1>5. /\ maxWidth \in MaxWidths /\ blockMode \in BOOLEAN /\ out \in Seq(Literal)
      /\ bits \in Seq(Bit) /\ width \in Nat /\ Literals \in Nat /\ Literals >= 2
      /\ Capacity \in Nat /\ Capacity >= 2 * Literals /\ 2^width \in Nat /\ 2^width >= 2 * Literals
      /\ FirstFree(blockMode) \in Literals..Literals + 1
      /\ Drop(bits, width) \in Seq(Bit)
  <2>1. /\ maxWidth \in MaxWidths /\ blockMode \in BOOLEAN /\ out \in Seq(Literal)
        /\ bits \in Seq(Bit) /\ width \in InitWidth..maxWidth
    BY DEF LzwInv, LzwTypeOK
  <2>2. Drop(bits, width) \in Seq(Bit) /\ width \in Nat
    BY <1>2, CodeIsThere
  <2> QED BY <2>1, <2>2, Shapes, CapacityType
<1>6. /\ a.end = FirstFree(blockMode) /\ free = FirstFree(blockMode) /\ a.width = width /\ a.group = inGroup
      /\ input = out \o a.rest
  BY <1>2, <1>4 DEF InStep
<1>7. StringStep(a, b, Code, maxWidth) /\ Code \in DOMAIN a.table
  BY <1>3 DEF ReadsString, StringStep
<1>8. ~Grows(a, maxWidth)
  BY <1>5, <1>6 DEF Grows
<1>9. Code \in Literal /\ Code < Literals /\ Code \in Nat
  <2>1. DOMAIN a.table = Literal \union (FirstFree(blockMode)..a.end - 1)
    BY <1>4 DEF Fit, IsTable
  <2>2. FirstFree(blockMode)..a.end - 1 = {}
    BY <1>5, <1>6
  <2>3. Code \in Literal
    BY <1>7, <2>1, <2>2
  <2> QED BY <1>5, <2>3 DEF Literal
<1>10. a.table[Code] = <<Code>> /\ out' = out \o a.table[Code]
  <2>1. a.table[Code] = <<Code>>
    BY <1>4, <1>9 DEF Fit, IsTable
  <2>2. Append(out, Code) = out \o <<Code>>
    BY <1>5, <1>9, AppendIsConcat
  <2> QED BY <1>2, <1>9, <2>1, <2>2
<1>11. Ahead(b, h[N], bits', source)
  <2>1. Ahead(b, h[N], Discard(Drop(bits, width), 0), source)
    BY <1>3, <1>8 DEF ReadsString
  <2>2. Discard(Drop(bits, width), 0) = Drop(bits, width)
    <3> DEFINE x == Drop(bits, width)
    <3>1. x \in Seq(Bit)
      BY <1>5
    <3> HIDE DEF x
    <3>2. Discard(x, 0) = SubSeq(x, 1, Len(x))
      <4>1. 0 <= Len(x) /\ 0 + 1 = 1
        BY <3>1
      <4> QED BY <4>1 DEF Discard, Drop
    <3>3. SubSeq(x, 1, Len(x)) = x
      BY <3>1
    <3> QED BY <3>2, <3>3 DEF x
  <2> QED BY <1>2, <2>1, <2>2
<1>12. input' = out' \o b.rest
  <2>1. a.rest = a.table[Code] \o b.rest /\ b.rest \in Seq(Literal) /\ a.table[Code] \in Seq(Literal)
    BY <1>4, <1>7, <1>9, <1>10 DEF StringStep, Fit
  <2>2. Brackets(out, a.table[Code], b.rest)
    BY <1>5, <2>1, TextMoves
  <2> QED BY <1>2, <1>6, <1>10, <2>1, <2>2 DEF Brackets
<1>13. width' = b.width /\ inGroup' = b.group
  BY <1>2, <1>6, <1>7, <1>8 DEF StringStep
<1>14. b.end \in {a.end, a.end + 1}
  BY <1>7 DEF StringStep
<1>15. free' <= b.end /\ Agrees(b, free, prefix, suffix, blockMode)'
  BY <1>2, <1>5, <1>6, <1>14 DEF Agrees
<1>16. prev' \in DOMAIN b.table /\ prev' < free' /\ prev' # NoCode /\ FirstFree(blockMode') <= free'
  <2>1. Code \in DOMAIN b.table
    BY <1>4, <1>9 DEF Fit, IsTable
  <2> QED BY <1>2, <1>5, <1>6, <1>9, <2>1 DEF NoCode
<1>17. ASSUME b.rest # <<>> PROVE Due(b, free', prev', Capacity)
  <2>1. a.end < Capacity /\ Capacity = 2^maxWidth
    BY <1>5, <1>6 DEF Capacity
  <2>2. /\ b.table = WithEntry(a.table, a.end, Append(a.table[Code], Head(b.rest)))
        /\ b.end = a.end + 1
    BY <1>5, <1>6, <1>7, <1>17, <2>1 DEF StringStep
  <2>3. b.table[a.end] = Append(a.table[Code], Head(b.rest)) /\ b.table[Code] = a.table[Code]
    <3>1. Code # a.end
      BY <1>5, <1>6, <1>9
    <3> QED BY <1>7, <2>2, <3>1 DEF WithEntry
  <2> QED BY <1>2, <1>6, <1>9, <2>1, <2>2, <2>3 DEF Due
<1>18. Capacity' = Capacity
  BY <1>2 DEF Capacity
<1>19. InStep(b)'
  BY <1>12, <1>13, <1>15, <1>16, <1>17, <1>18 DEF InStep
<1>20. Following(h, N, m + 1)'
  BY <1>2, <1>3, <1>4, <1>11, <1>19 DEF Following, b
<1> QED BY <1>2, <1>9, <1>20 DEF Decoding

\* A counter below its limit has not wrapped.
LEMMA CountFits ==
  ASSUME NEW n \in Nat, NEW M \in Nat, n < M
  PROVE  n % M = n
<1>1. PICK k \in Int : k = M /\ k > 0 /\ n < k
  OBVIOUS
<1>2. n = k * (n \div k) + (n % k) /\ n % k \in 0..k - 1 /\ n \div k \in Nat
  BY <1>1
<1>3. n \div k = 0
  <2>1. SUFFICES ASSUME n \div k >= 1 PROVE FALSE
    BY <1>2
  <2>2. k * (n \div k) >= k
    BY <1>1, <1>2, <2>1
  <2> QED BY <1>1, <1>2, <2>2
<1> QED BY <1>1, <1>2, <1>3

LEMMA NextIsFollowed ==
  ASSUME LzwInv, Decoding, DecodeNext, maxWidth < CodeBits
  PROVE  Decoding' /\ state' = state
<1>1. PICK h, N, m : Following(h, N, m)
  BY DEF Decoding
<1> DEFINE string == StringOf
           next == NextFree
           grow == next > 2^width - 1 /\ width < maxWidth
           after == Drop(bits, width)
<1>2. /\ Len(bits) >= width /\ ~(blockMode /\ Code = Clear) /\ prev # NoCode
      /\ DecodeNextAs(string, next, grow, after)
      /\ UNCHANGED <<input, maxWidth, blockMode, encoder, source>>
  BY DecodeNextIs
<1> DEFINE a == h[m]
           b == h[m + 1]
<1>3. m + 1 \in 1..N /\ ReadsString(a, b, h[N])
  <2>1. m + 1 \in 1..N /\ (ReadsClear(a, b, h[N]) \/ ReadsString(a, b, h[N]))
    BY <1>1, <1>2, NextStep
  <2>2. ~ReadsClear(a, b, h[N])
    BY <1>2 DEF ReadsClear, ClearStep
  <2> QED BY <2>1, <2>2
<1>4. /\ InStep(a) /\ Recorded(h, N, input, maxWidth, blockMode) /\ h[N].rest = <<>>
      /\ Fit(a, maxWidth, blockMode) /\ Fit(b, maxWidth, blockMode)
  BY <1>1, <1>3, StepsFit
<1> HIDE DEF a, b, string, next, grow, after
<1>5. /\ maxWidth \in MaxWidths /\ blockMode \in BOOLEAN /\ out \in Seq(Literal)
      /\ bits \in Seq(Bit) /\ width \in Nat /\ width \in InitWidth..maxWidth /\ Literals \in Nat
      /\ prefix \in [Slots -> Slots] /\ suffix \in [Slots -> Literal]
      /\ free \in 0..Capacity /\ inGroup \in Nat
      /\ Capacity \in Nat /\ 2^CodeBits \in Nat /\ Capacity < 2^CodeBits /\ 2^width \in Nat
      /\ FirstFree(blockMode) \in Literals..Literals + 1
      /\ after \in Seq(Bit)
  <2>1. /\ maxWidth \in MaxWidths /\ blockMode \in BOOLEAN /\ out \in Seq(Literal)
        /\ bits \in Seq(Bit) /\ width \in InitWidth..maxWidth /\ free \in 0..Capacity
        /\ prefix \in [Slots -> Slots] /\ suffix \in [Slots -> Literal] /\ inGroup \in Nat
    BY DEF LzwInv, LzwTypeOK
  <2>2. after \in Seq(Bit) /\ width \in Nat
    BY <1>2, CodeIsThere DEF after
  <2>3. Capacity < 2^CodeBits
    <3>1. maxWidth \in Nat /\ maxWidth + 1 \in Nat /\ CodeBits \in Nat /\ maxWidth + 1 <= CodeBits
      BY <2>1, Shapes
    <3>2. 2^(maxWidth + 1) <= 2^CodeBits /\ 2^(maxWidth + 1) = 2 * 2^maxWidth /\ 2^maxWidth >= 1
      BY <3>1, PowerGrows, PowerNext
    <3>3. 2^maxWidth \in Nat /\ 2^CodeBits \in Nat
      BY <3>1, PowerType
    <3> QED BY <3>2, <3>3 DEF Capacity
  <2> QED BY <2>1, <2>2, <2>3, Shapes, CapacityType
<1>6. /\ a.width = width /\ a.group = inGroup /\ input = out \o a.rest /\ free <= a.end
      /\ FirstFree(blockMode) <= free /\ prev \in DOMAIN a.table /\ prev < free
      /\ Agrees(a, free, prefix, suffix, blockMode)
      /\ a.rest # <<>> => Due(a, free, prev, Capacity)
  BY <1>2, <1>4 DEF InStep
<1>7. StringStep(a, b, Code, maxWidth) /\ Code \in DOMAIN a.table
  BY <1>3 DEF ReadsString, StringStep
<1>8. /\ IsTable(a.table, a.end, blockMode) /\ a.end \in Nat /\ a.end <= Capacity
      /\ IsTable(b.table, b.end, blockMode) /\ b.rest \in Seq(Literal) /\ a.rest \in Seq(Literal)
      /\ \A c \in DOMAIN a.table : c \in Nat /\ c < a.end /\ a.table[c] \in Seq(Literal) \ {<<>>}
  <2>1. IsTable(a.table, a.end, blockMode) /\ a.end <= Capacity /\ IsTable(b.table, b.end, blockMode)
        /\ b.rest \in Seq(Literal) /\ a.rest \in Seq(Literal)
    BY <1>4 DEF Fit, Capacity
  <2>2. a.end \in Nat /\ FirstFree(blockMode) <= a.end
    BY <2>1 DEF IsTable
  <2>3. ASSUME NEW c \in DOMAIN a.table
        PROVE  c \in Nat /\ c < a.end /\ a.table[c] \in Seq(Literal) \ {<<>>}
    <3>1. c \in Literal \/ c \in FirstFree(blockMode)..a.end - 1
      BY <2>1 DEF IsTable
    <3>2. c \in Nat /\ c < a.end
      BY <1>5, <2>2, <3>1 DEF Literal
    <3> QED BY <2>1, <3>2 DEF IsTable
  <2> QED BY <2>1, <2>2, <2>3
<1> DEFINE t == a.table[Code]
<1>9. t \in Seq(Literal) /\ t # <<>> /\ Len(t) \in Nat /\ Len(t) # 0 /\ Code \in Nat /\ Code < a.end
  BY <1>7, <1>8
<1>10. a.rest = t \o b.rest
  BY <1>7 DEF StringStep
<1> HIDE DEF t
<1>11. a.rest # <<>> /\ Head(a.rest) = Head(t) /\ Head(t) \in Literal
  <2>1. Len(t \o b.rest) = Len(t) + Len(b.rest) /\ Len(b.rest) \in Nat
    BY <1>8, <1>9, ConcatProperties
  <2>2. (t \o b.rest)[1] = t[1]
    BY <1>8, <1>9, ConcatProperties
  <2>3. t \o b.rest # <<>>
    BY <1>9, <2>1
  <2> QED BY <1>8, <1>9, <1>10, <2>2, <2>3
<1>12. Due(a, free, prev, Capacity)
  BY <1>6, <1>11
<1>13. HasRoom <=> free < Capacity
  BY DEF HasRoom
<1>14. next = a.end /\ (HasRoom => next = free + 1) /\ (~HasRoom => next = free /\ free = Capacity)
  <2>1. CASE HasRoom
    <3>1. free + 1 \in 0..2^CodeBits - 1
      BY <1>5, <1>13, <2>1
    <3>2. (free + 1) % 2^CodeBits = free + 1
      <4>1. free + 1 \in Nat /\ 2^CodeBits \in Nat /\ free + 1 < 2^CodeBits
        BY <1>5, <3>1
      <4> QED BY <4>1, CountFits
    <3> QED BY <1>12, <1>13, <2>1, <3>2 DEF next, NextFree, Due
  <2>2. CASE ~HasRoom
    <3>1. free = Capacity
      BY <1>5, <1>13, <2>2
    <3> QED BY <1>12, <1>13, <2>2, <3>1 DEF next, NextFree, Due
  <2> QED BY <2>1, <2>2
<1>15. ASSUME NEW c \in DOMAIN a.table, c < free PROVE Expand(c) = a.table[c]
  BY <1>5, <1>6, <1>8, <1>15, ExpandSpells
<1>16. string = t
  <2>1. CASE Code < free
    BY <1>7, <1>15, <2>1 DEF string, StringOf, Known, t
  <2>2. CASE ~(Code < free)
    <3>0. free \in Int /\ Capacity \in Int /\ free <= Capacity
      BY <1>5
    <3>1. free < Capacity /\ Code = free
      <4>1. CASE free < Capacity
        <5>1. a.end = free + 1
          BY <1>12, <4>1 DEF Due
        <5> QED BY <1>9, <2>2, <3>0, <4>1, <5>1
      <4>2. CASE ~(free < Capacity)
        <5>1. a.end = Capacity
          BY <1>12, <4>2 DEF Due
        <5> QED BY <1>9, <2>2, <3>0, <4>2, <5>1
      <4> QED BY <4>1, <4>2
    <3>2. t = Append(a.table[prev], Head(a.rest))
      BY <1>12, <3>1 DEF Due, t
    <3>3. Expand(prev) = a.table[prev] /\ a.table[prev] \in Seq(Literal) \ {<<>>}
      BY <1>6, <1>8, <1>15
    <3>4. Head(t) = Head(a.table[prev])
      <4>1. Head(Append(a.table[prev], Head(a.rest))) = Head(a.table[prev])
        BY <3>3, HeadTailAppend
      <4> QED BY <3>2, <4>1
    <3> QED BY <1>11, <2>2, <3>1, <3>2, <3>3, <3>4 DEF string, StringOf, Known
  <2> QED BY <2>1, <2>2
<1>17. /\ out' = out \o t /\ prev' = Code /\ free' = next
       /\ prefix' = (IF HasRoom THEN [prefix EXCEPT ![free] = prev] ELSE prefix)
       /\ suffix' = (IF HasRoom THEN [suffix EXCEPT ![free] = Head(t)] ELSE suffix)
       /\ bits' = (IF grow THEN Realign(after, inGroup + 1, width) ELSE after)
       /\ inGroup' = (IF grow THEN 0 ELSE inGroup + 1)
       /\ width' = (IF grow THEN width + 1 ELSE width)
       /\ state' = state
  BY <1>2, <1>9, <1>16 DEF DecodeNextAs
<1>18. Grows(a, maxWidth) <=> grow
  BY <1>6, <1>14 DEF Grows, grow
<1>19. Ahead(b, h[N], bits', source)
  <2>1. Ahead(b, h[N], Discard(after, IF grow THEN Padding(inGroup + 1, width) ELSE 0), source)
    BY <1>3, <1>6, <1>18 DEF ReadsString, after
  <2>2. Discard(after, 0) = after
    <3>1. Discard(after, 0) = SubSeq(after, 1, Len(after))
      <4>1. 0 <= Len(after) /\ 0 + 1 = 1
        BY <1>5
      <4> QED BY <4>1 DEF Discard, Drop
    <3>2. SubSeq(after, 1, Len(after)) = after
      BY <1>5
    <3> QED BY <3>1, <3>2
  <2> QED BY <1>17, <2>1, <2>2 DEF Realign
<1>20. input' = out' \o b.rest
  <2>1. Brackets(out, t, b.rest)
    BY <1>5, <1>8, <1>9, TextMoves
  <2> QED BY <1>2, <1>6, <1>10, <1>17, <2>1 DEF Brackets
<1>21. width' = b.width /\ inGroup' = b.group
  BY <1>6, <1>7, <1>17, <1>18 DEF StringStep
<1>22. Capacity' = Capacity /\ blockMode' = blockMode
  BY <1>2 DEF Capacity
<1>23. /\ b.end \in {a.end, a.end + 1} /\ DOMAIN a.table \subseteq DOMAIN b.table
       /\ \A c \in DOMAIN a.table : b.table[c] = a.table[c]
  <2>1. CASE b.table = a.table /\ b.end = a.end
    BY <2>1
  <2>2. CASE b.table = WithEntry(a.table, a.end, Append(a.table[Code], Head(b.rest))) /\ b.end = a.end + 1
    <3>1. \A c \in DOMAIN a.table : c # a.end
      BY <1>8
    <3> QED BY <2>2, <3>1 DEF WithEntry
  <2> QED BY <1>7, <2>1, <2>2 DEF StringStep
<1>24. free' <= b.end /\ FirstFree(blockMode') <= free' /\ free <= free'
  <2>1. /\ free \in Int /\ a.end \in Int /\ free <= a.end /\ FirstFree(blockMode) \in Int
        /\ FirstFree(blockMode) <= free
    BY <1>5, <1>6, <1>8
  <2>2. free' = a.end
    BY <1>14, <1>17
  <2>3. free' <= b.end /\ free <= free'
    BY <1>23, <2>1, <2>2
  <2> QED BY <1>22, <2>1, <2>2, <2>3
<1>25. Agrees(b, free', prefix', suffix', blockMode')
  <2>1. SUFFICES ASSUME NEW n \in FirstFree(blockMode)..free' - 1
                 PROVE  /\ prefix'[n] \in DOMAIN b.table /\ prefix'[n] < n
                        /\ b.table[n] = Append(b.table[prefix'[n]], suffix'[n])
    BY <1>22 DEF Agrees
  <2>2. CASE n < free
    <3>1. n \in FirstFree(blockMode)..free - 1 /\ n # free
      BY <1>5, <1>6, <2>1, <2>2
    <3>2. prefix[n] \in DOMAIN a.table /\ prefix[n] < n /\ a.table[n] = Append(a.table[prefix[n]], suffix[n])
      BY <1>6, <3>1 DEF Agrees
    <3>3. prefix'[n] = prefix[n] /\ suffix'[n] = suffix[n]
      BY <1>5, <1>17, <3>1
    <3>4. n \in DOMAIN a.table
      <4>1. n \in FirstFree(blockMode)..a.end - 1
        BY <1>5, <1>6, <1>8, <3>1
      <4> QED BY <1>8, <4>1 DEF IsTable
    <3> QED BY <1>23, <3>2, <3>3, <3>4
  <2>3. CASE ~(n < free)
    <3>1. HasRoom /\ n = free /\ free < Capacity /\ free \in Slots
      <4>1. free \in Int /\ Capacity \in Int /\ n \in Int /\ n <= free' - 1 /\ free \in 0..Capacity /\ n >= free
        BY <1>5, <1>14, <1>17, <1>24, <2>1, <2>3
      <4>2. HasRoom
        <5>1. SUFFICES ASSUME ~HasRoom PROVE FALSE
          OBVIOUS
        <5>2. free' = free
          BY <1>14, <1>17, <5>1
        <5> QED BY <4>1, <5>2
      <4>3. free' = free + 1 /\ free < Capacity
        BY <1>13, <1>14, <1>17, <4>2
      <4> QED BY <4>1, <4>2, <4>3 DEF Slots
    <3>2. prefix'[n] = prev /\ suffix'[n] = Head(t)
      BY <1>5, <1>17, <3>1
    <3>3. a.end = free + 1 /\ a.table[free] = Append(a.table[prev], Head(t))
      BY <1>11, <1>12, <3>1 DEF Due
    <3>4. n \in DOMAIN a.table
      <4>1. n \in FirstFree(blockMode)..a.end - 1
        BY <1>5, <1>6, <1>8, <3>1, <3>3
      <4> QED BY <1>8, <4>1 DEF IsTable
    <3> QED BY <1>6, <1>23, <3>1, <3>2, <3>3, <3>4
  <2> QED BY <2>2, <2>3
<1>26. prev' \in DOMAIN b.table /\ prev' < free' /\ prev' # NoCode
  BY <1>7, <1>9, <1>14, <1>17, <1>23 DEF NoCode
<1>27. ASSUME b.rest # <<>> PROVE Due(b, free', prev', Capacity)
  <2>1. free' = a.end /\ 2^maxWidth = Capacity /\ b.table[Code] = a.table[Code] /\ prev' = Code
    BY <1>7, <1>14, <1>17, <1>23 DEF Capacity
  <2>2. CASE a.end < Capacity
    <3>1. /\ b.table = WithEntry(a.table, a.end, Append(a.table[Code], Head(b.rest)))
          /\ b.end = a.end + 1
      BY <1>5, <1>7, <1>8, <1>27, <2>1, <2>2 DEF StringStep
    <3>2. b.table[a.end] = Append(a.table[Code], Head(b.rest))
      BY <3>1 DEF WithEntry
    <3> QED BY <2>1, <2>2, <3>1, <3>2 DEF Due
  <2>3. CASE ~(a.end < Capacity)
    <3>1. a.end = Capacity
      BY <1>5, <1>8, <2>3
    <3>2. b.end = a.end
      BY <1>5, <1>7, <2>1, <3>1 DEF StringStep
    <3> QED BY <1>5, <2>1, <3>1, <3>2 DEF Due
  <2> QED BY <2>2, <2>3
<1>28. InStep(b)'
  BY <1>20, <1>21, <1>22, <1>24, <1>25, <1>26, <1>27 DEF InStep
<1>29. Following(h, N, m + 1)'
  BY <1>2, <1>3, <1>4, <1>19, <1>28 DEF Following, b
<1> QED BY <1>17, <1>29 DEF Decoding

LEMMA BeginningOf ==
  ASSUME NEW x \in Seq(Literal), NEW y \in Seq(Literal)
  PROVE  IsPrefix(x, x \o y)
<1>1. Len(x) \in Nat /\ Len(y) \in Nat /\ Len(x \o y) = Len(x) + Len(y) /\ x \o y \in Seq(Literal)
  BY ConcatProperties
<1>2. SubSeq(x \o y, 1, Len(x)) = SubSeq(x, 1, Len(x))
  <2> DEFINE u == SubSeq(x \o y, 1, Len(x))
             v == SubSeq(x, 1, Len(x))
  <2>1. u \in Seq(Literal) /\ v \in Seq(Literal) /\ Len(u) = Len(x) /\ Len(v) = Len(x)
    BY <1>1
  <2>2. ASSUME NEW i \in 1..Len(x) PROVE u[i] = v[i]
    <3>1. u[i] = (x \o y)[i] /\ v[i] = x[i]
      BY <1>1
    <3>2. (x \o y)[i] = x[i]
      OBVIOUS
    <3> QED BY <3>1, <3>2
  <2> HIDE DEF u, v
  <2>3. u = v
    BY <2>1, <2>2, SeqEqual
  <2> QED BY <2>3 DEF u, v
<1> QED BY <1>1, <1>2 DEF IsPrefix

\* The decoder has not begun.
Waiting ==
  /\ width = InitWidth /\ inGroup = 0 /\ free = FirstFree(blockMode) /\ prev = NoCode
  /\ out = <<>> /\ source = "whole"

SyncInv ==
  /\ LzwInv
  /\ state = "encoding" => Encoding /\ Waiting
  /\ state = "decoding" /\ source # "noise" => Decoding
  /\ RoundTrip

LEMMA FollowingIsGood ==
  ASSUME LzwInv', Decoding', state' = "decoding"
  PROVE  RoundTrip'
<1>1. PICK h, N, m : Following(h, N, m)'
  BY DEF Decoding
<1>2. PICK more : more = h[m].rest
  OBVIOUS
<1>3. input' = out' \o more
  BY <1>1, <1>2 DEF Following, InStep
<1>4. more \in Seq(Literal) /\ out' \in Seq(Literal)
  BY <1>1, <1>2 DEF Following, Recorded, Fit, LzwInv, LzwTypeOK
<1>5. state' \notin {"corrupt", "done"}
  OBVIOUS
<1>6. IsPrefix(out', out' \o more)
  BY <1>4, BeginningOf
<1> QED BY <1>3, <1>5, <1>6 DEF RoundTrip

-----------------------------------------------------------------------------
\* The stream is written, and the decoder begins at its first code.

LEMMA StreamBegins ==
  ASSUME LzwInv, Encoding, Waiting, rest = <<>>, NEW src,
         UNCHANGED <<input, maxWidth, blockMode, encoder, decoder>>, source' = src,
         NEW lost \in Seq(Bit), NEW pad \in Seq(Bit),
         bits \o pad = bits' \o lost, Len(pad) < Byte, src = "whole" => lost = <<>>
  PROVE  Decoding'
<1>1. PICK N, h : Recorded(h, N, input, maxWidth, blockMode) /\ h[N] = Snapshot
  BY DEF Encoding, RecordedTo
<1>2. N \in Nat /\ 1 \in 1..N /\ Fresh(h[1], input, blockMode) /\ h[N].rest = <<>> /\ h[N].bits = bits
  BY <1>1 DEF Recorded, Snapshot
<1>3. bits \in Seq(Bit) /\ input \in Seq(Literal) /\ blockMode \in BOOLEAN
  BY DEF LzwInv, LzwTypeOK
<1>4. Ahead(h[1], h[N], bits', source')
  <2>1. Remains(bits, lost, pad, bits', source')
    BY <1>3 DEF Remains
  <2>2. h[N].bits = h[1].bits \o bits
    <3>1. h[1].bits = <<>> /\ <<>> \o bits = bits
      BY <1>2, <1>3, ConcatEmptySeq DEF Fresh
    <3> QED BY <1>2, <3>1
  <2> QED BY <2>1, <2>2 DEF Ahead
<1>5. InStep(h[1])'
  <2>1. /\ width' = InitWidth /\ inGroup' = 0 /\ free' = FirstFree(blockMode') /\ prev' = NoCode
        /\ out' = <<>> /\ input' = input /\ blockMode' = blockMode
    BY DEF Waiting, decoder
  <2>2. h[1].rest = input /\ h[1].width = InitWidth /\ h[1].group = 0 /\ h[1].end = FirstFree(blockMode)
    BY <1>2 DEF Fresh
  <2>3. <<>> \o input = input
    BY <1>3, ConcatEmptySeq
  <2>4. FirstFree(blockMode') \in Int
    BY <1>3, <2>1, Shapes
  <2>5. Agrees(h[1], free, prefix, suffix, blockMode)'
    BY <2>1, <2>4 DEF Agrees
  <2> QED BY <2>1, <2>2, <2>3, <2>4, <2>5 DEF InStep
<1>6. Following(h, N, 1)'
  BY <1>1, <1>2, <1>4, <1>5 DEF Following
<1> QED BY <1>6 DEF Decoding

LEMMA EndIsFollowed ==
  ASSUME LzwInv, Encoding, Waiting, EncodeEnd
  PROVE  Decoding'
<1>1. /\ rest = <<>> /\ bits' = bits \o Zeros((-Len(bits)) % Byte) /\ source' = source /\ source = "whole"
      /\ UNCHANGED <<input, maxWidth, blockMode, encoder, decoder>>
  BY DEF EncodeEnd, Waiting
<1> DEFINE pad == Zeros((-Len(bits)) % Byte)
<1>2. bits \in Seq(Bit) /\ Byte \in Nat /\ Byte >= 1
  BY Shapes DEF LzwInv, LzwTypeOK
<1>3. pad \in Seq(Bit) /\ Len(pad) < Byte
  <2>1. (-Len(bits)) % Byte \in 0..Byte - 1
    BY <1>2
  <2>2. (-Len(bits)) % Byte \in Nat
    BY <1>2, <2>1
  <2> QED BY <1>2, <2>1, <2>2, ZerosType
<1> HIDE DEF pad
<1>4. bits' = bits \o pad /\ bits' \in Seq(Bit)
  BY <1>1, <1>2, <1>3, ConcatProperties DEF pad
<1>5. bits \o pad = bits' \o <<>> /\ <<>> \in Seq(Bit)
  BY <1>4, ConcatEmptySeq
<1> QED BY <1>1, <1>3, <1>5, StreamBegins

LEMMA TruncateIsFollowed ==
  ASSUME LzwInv, Encoding, Waiting, Truncate
  PROVE  Decoding'
<1>1. PICK n \in 0..Len(bits) \div Byte : bits' = SubSeq(bits, 1, n * Byte)
  BY DEF Truncate
<1>2. /\ rest = <<>> /\ source' = "cut"
      /\ UNCHANGED <<input, maxWidth, blockMode, encoder, decoder>>
  BY DEF Truncate
<1>3. bits \in Seq(Bit) /\ Byte \in Nat /\ Byte >= 1 /\ Len(bits) \in Nat
  BY Shapes DEF LzwInv, LzwTypeOK
<1>4. n * Byte \in 0..Len(bits)
  <2>1. PICK q \in Nat : q = Len(bits) \div Byte /\ q * Byte <= Len(bits)
    BY <1>3
  <2>2. n \in Nat /\ n <= q
    BY <1>1, <2>1
  <2>3. n * Byte <= q * Byte /\ n * Byte \in Nat
    BY <1>3, <2>1, <2>2
  <2> QED BY <1>3, <2>1, <2>3
<1> DEFINE k == n * Byte
           lost == SubSeq(bits, k + 1, Len(bits))
<1> HIDE DEF k
<1>5. k \in 0..Len(bits) /\ bits' = SubSeq(bits, 1, k)
  BY <1>1, <1>4 DEF k
<1>6. lost \in Seq(Bit) /\ SubSeq(bits, 1, k) \o lost = bits
  <2>1. 1 \in 1..Len(bits) + 1 /\ k \in 1 - 1..Len(bits) /\ Len(bits) \in k..Len(bits)
    BY <1>3, <1>5
  <2>2. SubSeq(bits, 1, k) \o SubSeq(bits, k + 1, Len(bits)) = SubSeq(bits, 1, Len(bits))
    BY <1>3, <2>1, ConcatAdjacentSubSeq
  <2>3. SubSeq(bits, 1, Len(bits)) = bits
    BY <1>3
  <2>4. Drop(bits, k) \in Seq(Bit)
    BY <1>3, <1>5, DropType
  <2> QED BY <2>2, <2>3, <2>4, Zenon DEF Drop
<1> HIDE DEF lost
<1>7. bits \o <<>> = bits' \o lost /\ <<>> \in Seq(Bit) /\ Len(<<>>) < Byte /\ ("cut" = "whole" => lost = <<>>)
  BY <1>3, <1>5, <1>6, ConcatEmptySeq
<1> QED BY <1>2, <1>6, <1>7, StreamBegins

LEMMA EndIsReached ==
  ASSUME LzwInv, Decoding, DecodeEnd, source = "whole"
  PROVE  out = input
<1>1. PICK h, N, m : Following(h, N, m)
  BY DEF Decoding
<1>2. /\ Recorded(h, N, input, maxWidth, blockMode) /\ h[N].rest = <<>> /\ m \in 1..N /\ N \in Nat
      /\ Ahead(h[m], h[N], bits, "whole") /\ width = h[m].width /\ input = out \o h[m].rest
  BY <1>1 DEF Following, Recorded, InStep
<1>3. /\ bits \in Seq(Bit) /\ out \in Seq(Literal) /\ maxWidth \in MaxWidths /\ blockMode \in BOOLEAN
  BY DEF LzwInv, LzwTypeOK
<1>4. Len(bits) < width
  BY DEF DecodeEnd
<1>5. m = N
  <2>1. SUFFICES ASSUME m # N PROVE FALSE
    OBVIOUS
  <2>2. m \in 1..N - 1 /\ m + 1 \in 1..N
    BY <1>2, <2>1
  <2> DEFINE a == h[m]
             b == h[m + 1]
             last == h[N]
  <2>3. IsAfter(last, b) /\ Fit(a, maxWidth, blockMode)
    BY <1>2, <2>2 DEF Recorded, IsAfter
  <2>4. ClearStep(a, b, blockMode) \/ \E code : StringStep(a, b, code, maxWidth)
    BY <1>2, <2>2 DEF Recorded
  <2>5. a.bits \in Seq(Bit) /\ a.width = width /\ Ahead(a, last, bits, "whole")
    BY <1>2, <2>3 DEF Fit
  <2> HIDE DEF a, b, last
  <2>6. /\ Clear \in 0..2^width - 1 /\ width \in Nat /\ a.group + 1 \in Nat
        /\ \A code \in DOMAIN a.table : code \in 0..2^width - 1
    BY <1>3, <2>3, <2>5, CodeFits
  <2>7. \E code \in 0..2^width - 1 : \E P \in Nat : Adds(b, a, code, width, P)
    <3>1. Padding(a.group + 1, width) \in Nat /\ 0 \in Nat
      BY <2>6, PaddingType
    <3>2. CASE ClearStep(a, b, blockMode)
      <4>1. Adds(b, a, Clear, width, Padding(a.group + 1, width))
        BY <2>5, <3>2 DEF ClearStep, Adds
      <4> QED BY <2>6, <3>1, <4>1
    <3>3. CASE \E code : StringStep(a, b, code, maxWidth)
      <4>1. PICK code : StringStep(a, b, code, maxWidth)
        BY <3>3
      <4>2. /\ Adds(b, a, code, width, IF Grows(a, maxWidth) THEN Padding(a.group + 1, width) ELSE 0)
            /\ code \in DOMAIN a.table
        BY <2>5, <4>1 DEF StringStep, Adds
      <4>3. PICK P \in Nat : P = IF Grows(a, maxWidth) THEN Padding(a.group + 1, width) ELSE 0
        BY <3>1
      <4> QED BY <2>6, <4>2, <4>3
    <3> QED BY <2>4, <3>2, <3>3
  <2>8. PICK code \in 0..2^width - 1, P \in Nat : Adds(b, a, code, width, P)
    BY <2>7
  <2>9. Len(bits) >= width
    BY <1>3, <2>3, <2>5, <2>6, <2>8, CodeIsAhead
  <2> QED BY <1>3, <1>4, <2>6, <2>9
<1> QED BY <1>2, <1>3, <1>5, ConcatEmptySeq

-----------------------------------------------------------------------------
\* Slots are counted without wrapping.
CounterHolds == \A w \in MaxWidths : w < CodeBits

LEMMA SyncStarts == LzwInit => SyncInv
<1> SUFFICES ASSUME LzwInit PROVE SyncInv
  OBVIOUS
<1>1. LzwInv
  BY LzwStarts
<1>2. Encoding
  BY <1>1, StartIsRecorded
<1>3. Waiting /\ state = "encoding"
  BY DEF LzwInit, Waiting
<1>4. RoundTrip
  <2>1. input \in Seq(Literal)
    BY <1>1 DEF LzwInv, LzwTypeOK
  <2>2. IsPrefix(<<>>, <<>> \o input) /\ <<>> \o input = input
    <3>1. <<>> \in Seq(Literal)
      OBVIOUS
    <3> QED BY <2>1, <3>1, BeginningOf, ConcatEmptySeq
  <2> QED BY <1>3, <2>2 DEF RoundTrip, Waiting
<1> QED BY <1>1, <1>2, <1>3, <1>4 DEF SyncInv

LEMMA SyncSteps ==
  ASSUME CounterHolds, SyncInv, [LzwNext]_lzwVars
  PROVE  SyncInv'
<1>1. LzwInv /\ LzwInv' /\ RoundTrip
  BY LzwSteps DEF SyncInv
<1>2. maxWidth < CodeBits
  BY <1>1 DEF CounterHolds, LzwInv, LzwTypeOK
<1>3. ASSUME EncodeString \/ EncodeClear PROVE SyncInv'
  <2>1. Encoding /\ Waiting
    BY <1>3 DEF SyncInv, EncodeString, EncodeClear
  <2>2. Encoding'
    BY <1>1, <1>3, <2>1, StringIsRecorded, ClearIsRecorded
  <2>3. UNCHANGED <<input, maxWidth, blockMode, decoder, source, state>> /\ state = "encoding"
    BY <1>3 DEF EncodeString, EncodeClear
  <2>4. Waiting' /\ RoundTrip'
    BY <1>1, <2>1, <2>3 DEF Waiting, RoundTrip, decoder, FirstFree
  <2> QED BY <1>1, <2>2, <2>3, <2>4 DEF SyncInv
<1>4. ASSUME EncodeEnd \/ Truncate PROVE SyncInv'
  <2>1. Encoding /\ Waiting
    BY <1>4 DEF SyncInv, EncodeEnd, Truncate
  <2>2. Decoding'
    BY <1>1, <1>4, <2>1, EndIsFollowed, TruncateIsFollowed
  <2>3. state' = "decoding"
    BY <1>4 DEF EncodeEnd, Truncate
  <2>4. RoundTrip'
    BY <1>1, <2>2, <2>3, FollowingIsGood
  <2> QED BY <1>1, <2>2, <2>3, <2>4 DEF SyncInv
<1>5. ASSUME Garbage PROVE SyncInv'
  <2>1. source' = "noise" /\ state' = "decoding"
    BY <1>5 DEF Garbage
  <2> QED BY <1>1, <2>1 DEF SyncInv, RoundTrip
<1>6. ASSUME DecodeEnd PROVE SyncInv'
  <2>1. /\ state = "decoding" /\ state' = "done"
        /\ UNCHANGED <<input, out, source>>
    BY <1>6 DEF DecodeEnd, decoder
  <2>2. source = "whole" => out = input
    BY <1>1, <1>6, <2>1, EndIsReached DEF SyncInv
  <2>3. RoundTrip'
    BY <1>1, <2>1, <2>2 DEF RoundTrip
  <2> QED BY <1>1, <2>1, <2>3 DEF SyncInv
<1>7. ASSUME DecodeClear \/ DecodeFirst \/ DecodeNext PROVE SyncInv'
  <2>1. state = "decoding" /\ source' = source /\ state' # "encoding"
    BY <1>7 DEF DecodeClear, DecodeFirst, DecodeNext
  <2>2. CASE source = "noise"
    BY <1>1, <2>1, <2>2 DEF SyncInv, RoundTrip
  <2>3. CASE source # "noise"
    <3>1. Decoding
      BY <2>1, <2>3 DEF SyncInv
    <3>2. Decoding' /\ state' = state
      <4>1. CASE DecodeClear
        BY <1>1, <3>1, <4>1, ClearIsFollowed DEF DecodeClear
      <4>2. CASE DecodeFirst
        BY <1>1, <3>1, <4>2, FirstIsFollowed
      <4>3. CASE DecodeNext
        BY <1>1, <1>2, <3>1, <4>3, NextIsFollowed
      <4> QED BY <1>7, <4>1, <4>2, <4>3
    <3>3. RoundTrip'
      BY <1>1, <2>1, <3>2, FollowingIsGood
    <3> QED BY <1>1, <2>1, <3>2, <3>3 DEF SyncInv
  <2> QED BY <2>2, <2>3
<1>8. ASSUME UNCHANGED lzwVars PROVE SyncInv'
  <2>1. UNCHANGED <<input, maxWidth, blockMode, rest, table, encWidth, encGroup, clears,
                    width, inGroup, free, prefix, suffix, prev, out, bits, source, state>>
    BY <1>8 DEF lzwVars, encoder, decoder
  <2>2. Encoding => Encoding'
    <3>1. Snapshot' = Snapshot
      BY <2>1 DEF Snapshot, TableEnd, FirstFree
    <3> QED BY <2>1, <3>1 DEF Encoding
  <2>3. Decoding => Decoding'
    <3>1. SUFFICES ASSUME Decoding PROVE Decoding'
      OBVIOUS
    <3>2. PICK h, N, m : Following(h, N, m)
      BY <3>1 DEF Decoding
    <3>3. InStep(h[m])'
      BY <2>1, <3>2 DEF Following, InStep, Agrees, FirstFree, Due, Capacity
    <3>4. Following(h, N, m)'
      BY <2>1, <3>2, <3>3 DEF Following
    <3> QED BY <3>4 DEF Decoding
  <2>4. (Waiting => Waiting') /\ RoundTrip'
    BY <1>1, <2>1 DEF Waiting, RoundTrip, FirstFree
  <2> QED BY <1>1, <2>1, <2>2, <2>3, <2>4 DEF SyncInv
<1> QED BY <1>3, <1>4, <1>5, <1>6, <1>7, <1>8 DEF LzwNext, Encode, Decode

\* As long as no header declares codes as wide as the counter of the slots, the
\* decoder gives back what was compressed: every input, with and without block
\* mode, wherever the encoder starts over and wherever the archive breaks off.
THEOREM WhatIsPackedComesBack ==
  ASSUME CounterHolds
  PROVE  LzwSpec => []RoundTrip
<1>1. LzwInit => SyncInv
  BY SyncStarts
<1>2. SyncInv /\ [LzwNext]_lzwVars => SyncInv'
  BY SyncSteps
<1>3. SyncInv => RoundTrip
  BY DEF SyncInv
<1> QED BY <1>1, <1>2, <1>3, PTL DEF LzwSpec
=============================================================================
