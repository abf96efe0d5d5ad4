----------------------------- MODULE ImageWrite -----------------------------
(***************************************************************************)
(* flash_linux_iso with write_image and verify_written (crates/core/src:   *)
(* lib.rs, blockio.rs): an image is decoded on the fly, written block by   *)
(* block through the page cache, synced, and optionally read back.         *)
(*                                                                         *)
(* The kernel writes dirty blocks back in any order.  The drive may be     *)
(* dishonest: each job says which cell of the medium a block really        *)
(* reaches, so a counterfeit that wraps around maps two blocks to one      *)
(* cell, and a stick that does not take the data maps a block to cell 0.   *)
(* SHA-256 is taken to be free of collisions: a digest is the sequence of  *)
(* blocks hashed.                                                          *)
(***************************************************************************)
EXTENDS Integers, Sequences

CONSTANTS
  Jobs,        \* the invocations considered
  Data,        \* contents a block of an image may have
  Blank,       \* what the drive held before
  Blocks,      \* bound: blocks a drive may claim to have
  MinDevice, MaxDevice   \* the sizes assert_safe_target accepts

Cells == 1..Blocks

\* blocks: what the container decodes to.  sound: the decoder reaches its end
\* with every checksum right; otherwise it fails after those blocks.
Image == [blocks : Seq(Data), sound : BOOLEAN,
          kind : {"verbatim", "compressed", "rejected"}]

Device == [removable : BOOLEAN, size : 0..Blocks, cell : [Cells -> Cells \union {0}]]

Job == [image : Image, dev : Device, verify : BOOLEAN, blockdev : BOOLEAN]

ASSUME JobsAssumption  == Jobs \subseteq Job
ASSUME BlankAssumption == Blank \notin Data
ASSUME SizesAssumption == Blocks \in Nat /\ MinDevice \in Nat /\ MaxDevice \in Nat

VARIABLES
  job,       \* the arguments of the run
  pc,        \* the step the run is about to take
  written,   \* blocks handed to the kernel, in write_image
  digest,    \* blocks hashed while writing
  cache,     \* the page cache of the drive: Blank where nothing is cached
  dirty,     \* cached blocks the medium has not received
  medium,    \* what the cells of the drive hold
  readback,  \* blocks hashed while verifying
  result,    \* "none" until the run returns
  faulted    \* has the drive or the kernel failed in this run

vars == <<job, pc, written, digest, cache, dirty, medium, readback, result, faulted>>
device == <<cache, dirty, medium>>

-----------------------------------------------------------------------------
SafeTarget(dev) == dev.removable /\ dev.size \in MinDevice..MaxDevice

\* What the drive returns for a block it has to fetch.
Stored(b) == IF job.dev.cell[b] = 0 THEN Blank ELSE medium[job.dev.cell[b]]

\* What a reader sees: the page cache where it has the block.
Seen(b) == IF cache[b] # Blank THEN cache[b] ELSE Stored(b)

Init ==
  /\ job \in Jobs
  /\ pc = "target"
  /\ written = 0 /\ digest = <<>> /\ readback = <<>>
  /\ cache = [b \in Cells |-> Blank] /\ dirty = {}
  /\ medium = [c \in Cells |-> Blank]
  /\ result = "none" /\ faulted = FALSE

Goto(step) == pc' = step /\ UNCHANGED <<result, faulted>>
Return(outcome) == pc' = "ended" /\ result' = outcome /\ UNCHANGED faulted
Fault(error) == pc' = "ended" /\ result' = error /\ faulted' = TRUE

AssertSafeTarget ==
  /\ pc = "target"
  /\ IF SafeTarget(job.dev) THEN Goto("detect") ELSE Return("unsafeTarget")
  /\ UNCHANGED <<job, written, digest, device, readback>>

\* detect_compression: an image that cannot be written is refused here.
DetectCompression ==
  /\ pc = "detect"
  /\ IF job.image.kind = "rejected" THEN Return("rejected") ELSE Goto("measure")
  /\ UNCHANGED <<job, written, digest, device, readback>>

\* Mutants of CheckPayload: an off-by-one, and the check left out.
CheckPayloadStrict ==
  /\ pc = "measure"
  /\ IF job.image.kind = "verbatim" /\ Len(job.image.blocks) >= job.dev.size
       THEN Return("tooLarge") ELSE Goto("open")
  /\ UNCHANGED <<job, written, digest, device, readback>>

\* payload_len: only a verbatim image says how much will land on the drive.
CheckPayload ==
  /\ pc = "measure"
  /\ IF job.image.kind = "verbatim" /\ Len(job.image.blocks) > job.dev.size
       THEN Return("tooLarge") ELSE Goto("open")
  /\ UNCHANGED <<job, written, digest, device, readback>>

\* The old partitions are unmounted (failures ignored), the image and the drive
\* are opened, the drive without creating or truncating anything.
Open ==
  /\ pc = "open"
  /\ Goto("write") \/ Fault("open")
  /\ UNCHANGED <<job, written, digest, device, readback>>

\* One turn of stream: a block is read from the decoder, written, then hashed.
StreamBlock ==
  /\ pc = "write" /\ written < Len(job.image.blocks)
  /\ \/ /\ written < job.dev.size
        /\ cache' = [cache EXCEPT ![written + 1] = job.image.blocks[written + 1]]
        /\ dirty' = dirty \union {written + 1}
        /\ digest' = Append(digest, job.image.blocks[written + 1])
        /\ written' = written + 1
        /\ Goto("write")
     \/ /\ written >= job.dev.size
        /\ Return("noSpace")
        /\ UNCHANGED <<cache, dirty, digest, written>>
     \/ /\ Fault("write")
        /\ UNCHANGED <<cache, dirty, digest, written>>
  /\ UNCHANGED <<job, medium, readback>>

\* Mutant of StreamEnd: a decoder error is taken for the end of the image.
StreamEndLenient ==
  /\ pc = "write" /\ written = Len(job.image.blocks)
  /\ IF written = 0 THEN Return("zeroBytes") ELSE Goto("sync")
  /\ UNCHANGED <<job, written, digest, device, readback>>

\* The decoder ends: with an error, with nothing at all, or as it should.
StreamEnd ==
  /\ pc = "write" /\ written = Len(job.image.blocks)
  /\ \/ ~job.image.sound /\ Return("decode")
     \/ job.image.sound /\ written = 0 /\ Return("zeroBytes")
     \/ job.image.sound /\ written > 0 /\ Goto("sync")
  /\ UNCHANGED <<job, written, digest, device, readback>>

\* The kernel brings a dirty block to wherever the drive puts it.
WriteBack(b) ==
  /\ dirty' = dirty \ {b}
  /\ medium' = IF job.dev.cell[b] = 0 THEN medium
               ELSE [medium EXCEPT ![job.dev.cell[b]] = cache[b]]
  /\ UNCHANGED <<job, pc, written, digest, cache, readback, result, faulted>>

\* The kernel forgets a clean block whenever it likes.
Evict(b) ==
  /\ cache[b] # Blank
  /\ cache' = [cache EXCEPT ![b] = Blank]
  /\ UNCHANGED <<job, pc, written, digest, dirty, medium, readback, result, faulted>>

\* sync_all returns when nothing is dirty, or reports that a block was lost.
SyncAll ==
  /\ pc = "sync"
  /\ \/ dirty = {} /\ job.verify /\ Goto("drop")
     \/ dirty = {} /\ ~job.verify /\ Return("ok")
     \/ Fault("sync")
  /\ UNCHANGED <<job, written, digest, device, readback>>

\* Mutant of DropCache: the drive is reopened and the cache kept.
DropCacheReopens ==
  /\ pc = "drop"
  /\ Goto("read") \/ Fault("reopen")
  /\ UNCHANGED <<job, written, digest, device, readback>>

\* drop_cache: blockdev --flushbufs, whose absence or failure goes unnoticed.
DropCache ==
  /\ pc = "drop"
  /\ cache' = IF job.blockdev THEN [b \in Cells |-> Blank] ELSE cache
  /\ Goto("read") \/ Fault("reopen")
  /\ UNCHANGED <<job, written, digest, dirty, medium, readback>>

\* Mutant of ReadBlock: one block too many is read back.
ReadBlockPastEnd ==
  /\ pc = "read" /\ Len(readback) <= written
  /\ \/ readback' = Append(readback, Seen(Len(readback) + 1)) /\ Goto("read")
     \/ Fault("read") /\ UNCHANGED readback
  /\ UNCHANGED <<job, written, digest, device>>

ReadBlock ==
  /\ pc = "read" /\ Len(readback) < written
  /\ \/ readback' = Append(readback, Seen(Len(readback) + 1)) /\ Goto("read")
     \/ Fault("read") /\ UNCHANGED readback
  /\ UNCHANGED <<job, written, digest, device>>

Compare ==
  /\ pc = "read" /\ Len(readback) = written
  /\ IF readback = digest THEN Return("ok") ELSE Return("verifyFailed")
  /\ UNCHANGED <<job, written, digest, device, readback>>

-----------------------------------------------------------------------------
Program ==
  \/ AssertSafeTarget \/ DetectCompression \/ CheckPayload \/ Open \/ StreamBlock
  \/ StreamEnd \/ SyncAll \/ DropCache \/ ReadBlock \/ Compare

Kernel == \E b \in dirty : WriteBack(b)

Reclaim == \E b \in Cells \ dirty : Evict(b)

Next == Program \/ Kernel \/ Reclaim

Spec == Init /\ [][Next]_vars

-----------------------------------------------------------------------------
\* Properties.

TypeOK ==
  /\ job \in Job
  /\ pc \in {"target", "detect", "measure", "open", "write", "sync", "drop", "read",
             "ended"}
  /\ written \in 0..Len(job.image.blocks)
  /\ digest \in Seq(Data) /\ Len(digest) = written
  /\ readback \in Seq(Data \union {Blank}) /\ Len(readback) <= written
  /\ cache \in [Cells -> Data \union {Blank}] /\ dirty \subseteq Cells
  /\ medium \in [Cells -> Data \union {Blank}]
  /\ result \in {"none", "ok", "unsafeTarget", "rejected", "tooLarge", "open", "noSpace",
                 "write", "decode", "zeroBytes", "sync", "reopen", "read",
                 "verifyFailed"}
  /\ faulted \in BOOLEAN

Holds(image) ==
  /\ image.sound /\ image.blocks # <<>>
  /\ \A b \in 1..Len(image.blocks) : Stored(b) = image.blocks[b]

IsHonest == \A b \in Cells : job.dev.cell[b] = b

\* A verified success means the medium itself holds the whole decoded image,
\* whatever the drive does with the blocks it is sent: neither a counterfeit
\* nor a stick that drops writes passes, as long as the cache was dropped.
VerifiedMeansStored ==
  result = "ok" /\ job.verify /\ job.blockdev => Holds(job.image)

\* Even unverified, success is never reported of a truncated, damaged or empty
\* image, and on an honest drive it means the image is there.
SuccessMeansWhole ==
  result = "ok" => /\ job.image.sound /\ written > 0
                   /\ digest = job.image.blocks
                   /\ IsHonest => Holds(job.image)

\* A good image that fits an honest drive is written and passes verification
\* unless the drive or the kernel fails: no false alarm.
GoodWriteSucceeds ==
  /\ pc = "ended" /\ ~faulted /\ SafeTarget(job.dev)
  /\ job.image.sound /\ job.image.kind # "rejected"
  /\ Len(job.image.blocks) \in 1..job.dev.size
  /\ IsHonest
  => result = "ok"

\* A verbatim image larger than the drive is refused with the drive unchanged.
LargeVerbatimRefused ==
  job.image.kind = "verbatim" /\ Len(job.image.blocks) > job.dev.size
    => medium = [c \in Cells |-> Blank] /\ dirty = {}

-----------------------------------------------------------------------------
\* The inductive invariant behind the safety properties, in parts.

Done == pc = "ended" /\ result = "ok"

\* How far the run has come, and what the checks before the first write say.
Progress ==
  /\ pc # "ended" => result = "none"
  /\ pc \in {"target", "detect", "measure", "open"} => written = 0
  /\ pc \notin {"read", "ended"} => readback = <<>>
  /\ pc \in {"sync", "drop", "read"} \/ Done =>
       job.image.sound /\ written > 0 /\ written = Len(job.image.blocks)
  /\ pc \in {"drop", "read"} => job.verify
  /\ pc \in {"drop", "read"} \/ Done => dirty = {}

\* Nothing is written of a verbatim image that does not fit.
Fits ==
  /\ pc \notin {"target", "detect", "measure", "ended"} \/ written > 0 =>
       job.image.kind # "verbatim" \/ Len(job.image.blocks) <= job.dev.size
  /\ written = 0 => dirty = {} /\ medium = [c \in Cells |-> Blank]

\* The digest is that of the blocks written; a block is either still waiting in
\* the cache or has reached its cell, and the cache never holds anything else.
Written ==
  /\ dirty \subseteq 1..written
  /\ written <= job.dev.size
  /\ \A i \in 1..written : digest[i] = job.image.blocks[i]
  /\ \A b \in 1..written : cache[b] \in {Blank, job.image.blocks[b]}
  /\ \A b \in Cells : b > written => cache[b] = Blank
  /\ \A b \in dirty : cache[b] = job.image.blocks[b]
  /\ IsHonest => \A b \in (1..written) \ dirty : medium[b] = job.image.blocks[b]

\* With the cache dropped, what is read back is what the medium stores.
ReadBack ==
  /\ pc = "read" /\ job.blockdev =>
       /\ \A b \in Cells : cache[b] = Blank
       /\ \A i \in 1..Len(readback) : readback[i] = Stored(i)
  /\ IsHonest /\ pc = "read" =>
       \A i \in 1..Len(readback) : readback[i] = job.image.blocks[i]

IInv == /\ TypeOK /\ Progress /\ Fits /\ Written /\ ReadBack
        /\ VerifiedMeansStored /\ SuccessMeansWhole /\ GoodWriteSucceeds
=============================================================================
