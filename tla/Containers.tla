----------------------------- MODULE Containers -----------------------------
(***************************************************************************)
(* Image files and what they are packed in (crates/core/src/blockio.rs):   *)
(* detect_compression, payload_len, open_image and the readers that        *)
(* open_image returns.  A file is what the program can see of it: the      *)
(* magic number at its head, the VHD footer at its tail, the streams or    *)
(* the members inside it, each with the damage it has.  The decoders of    *)
(* single streams are libraries, but for that of .Z files (lzw.rs), whose  *)
(* decoding is in Lzw and whose ends are here; which of them is asked,     *)
(* over which slice of the file, how often, and what its end is taken to   *)
(* mean is this module's subject.                                          *)
(***************************************************************************)
EXTENDS Integers, SequencesExt

CONSTANTS
  Files,       \* the image files a user may name
  Cell,        \* what images are made of
  MaxRead,     \* bound: the largest buffer a reader is given, in cells
  TrialCells,  \* LZMA_TRIAL_BYTES, in cells
  MaxEntries,  \* MAX_ZIP_ENTRIES
  None         \* no footer, no known length

Formats == {"raw", "gzip", "xz", "zstd", "bzip2", "lzma", "zip", "lzw", "vhd"}
Magics  == {"gzip", "xz", "zstd", "bzip2", "lzw", "zip"}
Heads   == Magics \union {"other", "cookie"}

\* A VHD footer, of 512 bytes or of 511: two cells or one.  Flaw names the
\* condition it fails.
Footers == [length : {1, 2}, type : {"fixed", "dynamic", "differencing", "unknown"},
            flaw : {"none", "checksum", "version", "feature"}]

\* One gzip member, xz stream, zstd frame...: a reader can open it or not, it
\* yields its cells, and then ends.  It may have been cut short; altered, so that
\* it decodes to its end, into something else; or be such that its decoder gives
\* up, as that of .Z files does on a full dictionary of 16 bits (Lzw).
Streams == [opens : BOOLEAN, cells : Seq(Cell),
            damage : {"none", "cut", "altered", "corrupt"}]

\* A member as the index lists it (size, csize, method...), as its local header
\* is (header), and as its bytes are: what follows them in the file (next) is
\* what an overstated length would reach.
Members == [dir : BOOLEAN, header : BOOLEAN, encrypted : BOOLEAN, fits : BOOLEAN,
            method : {"stored", "deflated", "other"}, size : Nat, csize : Nat,
            packed : Seq(Cell), crc : Seq(Cell), cells : Seq(Cell), next : Seq(Cell),
            sound : BOOLEAN]

ASSUME FilesAssumption ==
  \A f \in Files :
    /\ f.made \in Formats /\ f.head \in Heads
    /\ f.headCopy \in Footers \union {None} /\ f.tail \in Footers \union {None}
    /\ f.props \in 0..255 /\ f.dict \in {"tooSmall", "legal", "tooLarge"} /\ f.plausible \in BOOLEAN
    /\ f.bytes \in Seq(Cell) /\ f.streams \in Seq(Streams) /\ f.packed \in Seq(Cell)
    /\ f.indexed \in BOOLEAN /\ f.members \in Seq(Members)
ASSUME NoneAssumption == None \notin Footers /\ None \notin Nat
ASSUME BoundsAssumption ==
  MaxRead \in Nat \ {0} /\ TrialCells \in Nat \ {0} /\ MaxEntries \in Nat \ {0}

VARIABLES
  file,      \* the image file
  stage,     \* "unmeasured", "closed", "open", "ended", "refused" or "failed"
  measured,  \* what payload_len answered
  format,    \* what open_image detected
  rest,      \* the cells the reader has still to yield before its stream ends
  sound,     \* does the current stream end well
  later,     \* the streams after it
  left,      \* Exact: the cells still promised, or None
  out        \* what the writer has been given

vars == <<file, stage, measured, format, rest, sound, later, left, out>>

-----------------------------------------------------------------------------
\* Detection.

Sniff(f) == IF f.head \in Magics THEN f.head ELSE "raw"

LzmaPropsValid(props) ==
  LET lc == props % 9  lp == (props \div 9) % 5  pb == props \div 45
  IN  props <= 216 /\ pb <= 4 /\ lc + lp <= 4

LooksLikeLzmaAlone(f) ==
  LzmaPropsValid(f.props) /\ f.dict = "legal" /\ f.plausible

\* Mutant of EndsWell: a stream that breaks off has come to its end.
EndsCut(made, stream) ==
  stream.damage \in {"none", "cut"} \/ (stream.damage = "altered" /\ made \in {"lzw", "lzma"})

\* The end of a stream, once it has yielded its cells.  The decoder of .Z files
\* takes the end of its input for the end of the image, in whatever code it comes
\* (BitReader::code), and nothing in the format says how long the image is or what
\* it adds up to.  The libraries know the end of a stream from that of the file,
\* and all but LZMA-alone have a checksum of its contents.
EndsWell(made, stream) ==
  \/ stream.damage = "none"
  \/ stream.damage = "cut" /\ made = "lzw"
  \/ stream.damage = "altered" /\ made \in {"lzw", "lzma"}

\* The trial reads until its buffer is full, the stream ends or fails; a
\* failure after some output shows a damaged LZMA image.
LzmaDecodes(f) ==
  IF f.streams = <<>> \/ ~Head(f.streams).opens \/ Head(f.streams).cells = <<>> THEN "notLzma"
  ELSE IF Len(Head(f.streams).cells) < TrialCells /\ ~EndsWell("lzma", Head(f.streams))
       THEN "corrupt"
  ELSE "decoded"

ParseTail(footer, size) == footer # None /\ size > footer.length /\ footer.flaw = "none"

\* A file too short for a footer of 512 bytes has none.
VhdFooter(f) == Len(f.bytes) >= 2 /\ ParseTail(f.tail, Len(f.bytes))

\* Of the types of VHD only the fixed one is written.
RejectUnwritable(footer) == footer.type # "fixed"

\* Mutant of DetectCompression: the trial decode goes before the footer.
DetectLzmaFirst(f) ==
  IF Sniff(f) # "raw" THEN Sniff(f)
  ELSE IF LooksLikeLzmaAlone(f) /\ LzmaDecodes(f) = "decoded" THEN "lzma"
  ELSE IF f.head = "cookie" /\ ParseTail(f.headCopy, Len(f.bytes)) /\ RejectUnwritable(f.headCopy)
       THEN "refused"
  ELSE IF VhdFooter(f) THEN IF RejectUnwritable(f.tail) THEN "refused" ELSE "vhd"
  ELSE IF LooksLikeLzmaAlone(f) /\ LzmaDecodes(f) = "corrupt" THEN "refused"
  ELSE "raw"

\* A magic number wins; then the copy of the footer at the head, the footer at
\* the tail, and the trial decode, in this order.
DetectCompression(f) ==
  IF Sniff(f) # "raw" THEN Sniff(f)
  ELSE IF f.head = "cookie" /\ ParseTail(f.headCopy, Len(f.bytes)) /\ RejectUnwritable(f.headCopy)
       THEN "refused"
  ELSE IF VhdFooter(f) THEN IF RejectUnwritable(f.tail) THEN "refused" ELSE "vhd"
  ELSE IF LooksLikeLzmaAlone(f) /\ LzmaDecodes(f) = "decoded" THEN "lzma"
  ELSE IF LooksLikeLzmaAlone(f) /\ LzmaDecodes(f) = "corrupt" THEN "refused"
  ELSE "raw"

\* Mutant of PayloadLen: the footer is counted.
PayloadLenWhole(f) ==
  IF DetectCompression(f) \in {"raw", "vhd"} THEN Len(f.bytes) ELSE None

PayloadLen(f) ==
  CASE DetectCompression(f) = "raw" -> Len(f.bytes)
    [] DetectCompression(f) = "vhd" -> Len(f.bytes) - f.tail.length
    [] OTHER -> None

-----------------------------------------------------------------------------
\* The member of a zip that is the image.

Larger(f, i, j) ==
  LET m == f.members[i]  n == f.members[j]
  IN  m.size > n.size \/ (m.size = n.size /\ i < j)

\* The first of the largest, by the index alone, unless all are directories.
Winner(f) ==
  LET able == {i \in DOMAIN f.members : ~f.members[i].dir}
  IN  {i \in able : \A j \in able \ {i} : Larger(f, i, j)}

PickZipMember(f) ==
  {i \in Winner(f) :
     /\ f.indexed /\ Len(f.members) <= MaxEntries
     /\ LET m == f.members[i]
        IN  /\ m.header /\ ~m.encrypted /\ m.method # "other" /\ m.fits /\ m.size > 0
            /\ m.method = "stored" => m.csize = m.size}

\* A stored member is the slice of the file its index gives; a deflated one is
\* what its decoder makes of it.
Stored(m) == LET here == m.cells \o m.next
             IN  SubSeq(here, 1, IF m.csize < Len(here) THEN m.csize ELSE Len(here))

Contents(m) == IF m.method = "stored" THEN Stored(m) ELSE m.cells

-----------------------------------------------------------------------------
\* What a file made as each format is taken to be.  The assumption rests on the
\* comments of the functions above: nothing in a file but its bytes says what it
\* was made as.

Footed(f) == ParseTail(f.headCopy, Len(f.bytes)) \/ ParseTail(f.tail, Len(f.bytes))

\* lzma_decodes: data that clears the gate by chance decodes to nothing.
RawFile(f) ==
  f.head \notin Magics /\ ~Footed(f) /\ (LooksLikeLzmaAlone(f) => LzmaDecodes(f) = "notLzma")

\* detect_compression: the types of VHD but the fixed one repeat their footer at
\* the head; one of the two may be lost.
VhdFile(f) ==
  /\ f.head \notin Magics
  /\ IF f.tail = None
     THEN f.head = "cookie" /\ ParseTail(f.headCopy, Len(f.bytes)) /\ RejectUnwritable(f.headCopy)
     ELSE ParseTail(f.tail, Len(f.bytes)) /\ (f.tail.type = "fixed" => f.headCopy = None)

\* Joined(s)[n] is what the first n streams yield.
Joined(streams) ==
  LET upTo[n \in 0..Len(streams)] ==
        IF n = 0 THEN <<>> ELSE upTo[n - 1] \o streams[n].cells
  IN  upTo

\* Streams without damage are those of what was packed, which may have had more of
\* them; one that was cut short yields a beginning of what it did.
Unaltered(f) ==
  (\A i \in DOMAIN f.streams : f.streams[i].damage \in {"none", "cut"}) =>
    IsPrefix(Joined(f.streams)[Len(f.streams)], f.packed)

\* lzma_props_valid: the properties byte an encoder writes.  A stream damaged
\* before its first byte shows in nothing that it ever was one.
LzmaFile(f) ==
  /\ f.head \notin Magics /\ ~Footed(f)
  /\ \E pb, lp, lc \in 0..4 : lc + lp <= 4 /\ f.props = (pb * 5 + lp) * 9 + lc
  /\ f.dict = "legal" /\ f.plausible
  /\ Len(f.streams) = 1 /\ f.streams[1].opens /\ f.streams[1].cells # <<>>
  /\ Unaltered(f) /\ (f.streams[1].damage = "none" => f.streams[1].cells = f.packed)

\* A .Z file is one stream, and sniff has seen all that Decoder::new asks of it.
\* An index whose length and checksum are those of the data is that of what was
\* packed: the checksum stands for what it is the checksum of.
PackedFile(f) ==
  /\ f.head = f.made
  /\ f.made # "zip" => f.streams # <<>> /\ Unaltered(f)
  /\ f.made = "lzw" =>
       /\ Len(f.streams) = 1 /\ f.streams[1].opens
       /\ f.streams[1].damage = "none" => f.streams[1].cells = f.packed
  /\ \A i \in DOMAIN f.members :
       LET m == f.members[i]
       IN  m.crc = Contents(m) /\ m.size = Len(Contents(m)) => m.packed = m.crc

ASSUME KindsAssumption ==
  \A f \in Files : CASE f.made = "raw"  -> RawFile(f)
                    [] f.made = "vhd"  -> VhdFile(f)
                    [] f.made = "lzma" -> LzmaFile(f)
                    [] OTHER           -> PackedFile(f)

-----------------------------------------------------------------------------
Init ==
  /\ file \in Files
  /\ stage = "unmeasured" /\ measured = None /\ format = "raw"
  /\ rest = <<>> /\ sound = TRUE /\ later = <<>> /\ left = None /\ out = <<>>

Stop(how) == stage' = how /\ UNCHANGED <<file, measured, format, rest, sound, later, left, out>>

Measure ==
  /\ stage = "unmeasured"
  /\ IF DetectCompression(file) = "refused" THEN stage' = "refused" /\ UNCHANGED measured
     ELSE stage' = "closed" /\ measured' = PayloadLen(file)
  /\ UNCHANGED <<file, format, rest, sound, later, left, out>>

Reads(cells, well, streams, promise) ==
  /\ rest' = cells /\ sound' = well /\ later' = streams /\ left' = promise
  /\ stage' = "open"

\* open_image detects again, on a file of its own.
OpenVerbatim ==
  /\ stage = "closed" /\ file.bytes # <<>>
  /\ DetectCompression(file) \in {"raw", "vhd"}
  /\ format' = DetectCompression(file)
  /\ Reads(IF format' = "vhd" THEN SubSeq(file.bytes, 1, Len(file.bytes) - file.tail.length)
           ELSE file.bytes, TRUE, <<>>, None)
  /\ UNCHANGED <<file, measured, out>>

\* The formats whose files may be several streams one after the other, all read.
Multi == {"gzip", "xz", "bzip2", "zstd"}

\* Every decoder but that of zstd, whose first frame is opened here, is made
\* without reading.
OpenStreams ==
  /\ stage = "closed"
  /\ DetectCompression(file) \notin {"raw", "vhd", "zip", "refused"}
  /\ format' = DetectCompression(file)
  /\ IF format' = "zstd"
     THEN /\ Head(file.streams).opens
          /\ Reads(Head(file.streams).cells, EndsWell(format', Head(file.streams)),
                   Tail(file.streams), None)
     ELSE Reads(<<>>, TRUE, IF format' \in Multi THEN file.streams ELSE <<Head(file.streams)>>, None)
  /\ UNCHANGED <<file, measured, out>>

OpenMember ==
  /\ stage = "closed" /\ DetectCompression(file) = "zip"
  /\ \E i \in PickZipMember(file) :
       LET m == file.members[i]
       IN  Reads(Contents(m), m.method = "stored" \/ m.sound, <<>>, m.size)
  /\ format' = "zip"
  /\ UNCHANGED <<file, measured, out>>

\* An empty file, a zip without a member to write, a first zstd frame that
\* does not open.
OpenRefuses ==
  /\ stage = "closed"
  /\ \/ DetectCompression(file) \in {"raw", "vhd"} /\ file.bytes = <<>>
     \/ DetectCompression(file) = "zip" /\ PickZipMember(file) = {}
     \/ DetectCompression(file) = "zstd" /\ ~Head(file.streams).opens
  /\ Stop("refused")

\* Mutant of Read: the buffer is not cut to what is still promised.
ReadUncapped ==
  /\ stage = "open" /\ rest # <<>> /\ left # 0
  /\ \E n \in 1..MaxRead :
       /\ n <= Len(rest)
       /\ out' = out \o SubSeq(rest, 1, n)
       /\ rest' = SubSeq(rest, n + 1, Len(rest))
       /\ left' = IF left = None THEN None ELSE left - n
  /\ UNCHANGED <<file, stage, measured, format, sound, later>>

\* A read yields what the buffer takes, or less; Exact asks for no more than
\* is still promised.
Read ==
  /\ stage = "open" /\ rest # <<>> /\ left # 0
  /\ \E n \in 1..MaxRead :
       /\ n <= Len(rest) /\ (left # None => n <= left)
       /\ out' = out \o SubSeq(rest, 1, n)
       /\ rest' = SubSeq(rest, n + 1, Len(rest))
       /\ left' = IF left = None THEN None ELSE left - n
  /\ UNCHANGED <<file, stage, measured, format, sound, later>>

\* The stream is spent and the file goes on: so does the image.
NextStream ==
  /\ stage = "open" /\ left = None /\ rest = <<>> /\ sound /\ later # <<>>
  /\ IF Head(later).opens
     THEN /\ rest' = Head(later).cells /\ sound' = EndsWell(format, Head(later))
          /\ later' = Tail(later) /\ UNCHANGED stage
     ELSE stage' = "failed" /\ UNCHANGED <<rest, sound, later>>
  /\ UNCHANGED <<file, measured, format, left, out>>

\* The decoder of a stream ends it, well or not; without Exact that is all.
StreamEnds ==
  /\ stage = "open" /\ left = None /\ rest = <<>>
  /\ \/ sound /\ later = <<>> /\ Stop("ended")
     \/ ~sound /\ Stop("failed")

\* Exact runs out of cells before its promise is kept.
MemberEndsShort ==
  /\ stage = "open" /\ left \notin {None, 0} /\ rest = <<>>
  /\ Stop("failed")

\* The promise is kept: nothing may follow, and the CRC of what was delivered
\* must be that of the index.
MemberEnds ==
  /\ stage = "open" /\ left = 0
  /\ IF rest = <<>> /\ sound /\ \E i \in PickZipMember(file) : file.members[i].crc = out
     THEN Stop("ended") ELSE Stop("failed")

Next == Measure \/ OpenVerbatim \/ OpenStreams \/ OpenMember \/ OpenRefuses \/ Read
        \/ NextStream \/ StreamEnds \/ MemberEnds \/ MemberEndsShort

Spec == Init /\ [][Next]_vars

-----------------------------------------------------------------------------
\* What was put into a file, by what it was made as, and what shows of damage to it.

Largest(f, i) ==
  /\ ~f.members[i].dir
  /\ \A j \in DOMAIN f.members : f.members[j].dir \/ f.members[j].size <= f.members[i].size
  /\ \A j \in 1..(i - 1) : f.members[j].dir \/ f.members[j].size < f.members[i].size

LargestMember(f) == CHOOSE i \in DOMAIN f.members : Largest(f, i)

Image(f) ==
  CASE f.made = "raw" -> f.bytes
    [] f.made = "vhd" -> IF f.tail = None THEN <<>>
                         ELSE SubSeq(f.bytes, 1, Len(f.bytes) - f.tail.length)
    [] f.made = "zip" -> IF \E i \in DOMAIN f.members : ~f.members[i].dir
                         THEN f.members[LargestMember(f)].packed ELSE <<>>
    [] OTHER -> f.packed

\* A zip promises what its index says; damage to the image it lists is seen at
\* the end of it, damage to the index or the header at once.
ZipVerdict(f) ==
  IF ~f.indexed \/ Len(f.members) > MaxEntries \/ \A i \in DOMAIN f.members : f.members[i].dir
  THEN "hopeless"
  ELSE LET m == f.members[LargestMember(f)]
       IN  IF ~m.header \/ m.encrypted \/ m.method = "other" \/ ~m.fits \/ m.size = 0
           THEN "hopeless"
           ELSE IF /\ m.size = Len(m.packed) /\ m.crc = m.packed /\ Contents(m) = m.packed
                   /\ (m.method = "stored" => m.csize = m.size)
                   /\ (m.method = "deflated" => m.sound)
           THEN "whole" ELSE "damaged"

\* Streams that are all intact are the whole image, or, some being lost whole, a
\* part of it.  In a .Z file nothing tells a part of an image, or another image,
\* from the image; in an LZMA one a part shows.
StreamVerdict(f) ==
  IF \A i \in DOMAIN f.streams : f.streams[i].opens /\ f.streams[i].damage = "none"
  THEN IF Joined(f.streams)[Len(f.streams)] = f.packed THEN "whole" ELSE "cut"
  ELSE CASE f.made = "lzw" /\ f.streams[1].damage = "cut" -> "cut"
         [] f.made \in {"lzw", "lzma"} /\ f.streams[1].damage = "altered" -> "altered"
         [] OTHER -> "damaged"

Verdict(f) ==
  CASE f.made = "raw" -> IF f.bytes = <<>> THEN "hopeless" ELSE "whole"
    [] f.made = "vhd" -> IF f.tail # None /\ f.tail.type = "fixed" THEN "whole" ELSE "hopeless"
    [] f.made = "zip" -> ZipVerdict(f)
    [] OTHER -> StreamVerdict(f)

Promised(f) ==
  IF f.made = "zip" /\ \E i \in DOMAIN f.members : ~f.members[i].dir
  THEN f.members[LargestMember(f)].size ELSE None

-----------------------------------------------------------------------------
\* Properties.

TypeOK ==
  /\ file.made \in Formats
  /\ stage \in {"unmeasured", "closed", "open", "ended", "refused", "failed"}
  /\ measured \in Nat \union {None} /\ format \in Formats
  /\ rest \in Seq(Cell) /\ out \in Seq(Cell) /\ sound \in BOOLEAN
  /\ \A i \in DOMAIN later : later[i] \in Streams
  /\ left \in Nat \union {None}

\* The documentation of payload_len: what it answers before a drive is wiped is
\* how many bytes the image puts on it, once the image has ended without error.
MeasuredIsDelivered == stage = "ended" /\ measured # None => Len(out) = measured

Stage == IF stage = "unmeasured" THEN "closed" ELSE stage

Source == INSTANCE ImageSource WITH
  Unlimited <- None, verdict <- Verdict(file), image <- Image(file),
  promised <- Promised(file), stage <- Stage

\* Whatever a file is packed in, the writer is given the image that was packed, in
\* order and whole, before it is told of the end, and a file that holds it whole is
\* not refused.  An archive is never delivered in place of its contents; half of a
\* stream, or a member longer, shorter or other than its index says, never passes
\* for an image.  Where no byte of the file shows what it lacks the promise is less:
\* of a .Z file cut short, and of streams lost to the last byte, the writer is given
\* a beginning of the image and told of its end; of a .Z or LZMA file altered so
\* that it decodes, something else.
DeliversImage == Source!Spec
=============================================================================
