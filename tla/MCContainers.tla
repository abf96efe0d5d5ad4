---------------------------- MODULE MCContainers ----------------------------
(***************************************************************************)
(* Files of each container, sound and damaged in every way the code tells  *)
(* apart.  Cells: 1 and 2 are an image's, 3 is what else is in an archive, *)
(* 9 is a cell of a VHD footer.                                            *)
(***************************************************************************)
EXTENDS Containers

Payloads == {<<1, 2>>, <<1, 2, 2>>, <<2, 1, 1, 2>>}

Bare ==
  [made |-> "raw", head |-> "other", headCopy |-> None, tail |-> None,
   props |-> 255, dict |-> "legal", plausible |-> TRUE,
   bytes |-> <<>>, streams |-> <<>>, packed |-> <<>>, indexed |-> TRUE, members |-> <<>>]

Of(made, head) == [Bare EXCEPT !.made = made, !.head = head, !.bytes = <<3, 3, 3>>]

\* A stream that yields these cells, and one that does not open.
Stream(cells, damage) == [opens |-> TRUE, cells |-> cells, damage |-> damage]
Intact    == {Stream(<<>>, "none"), Stream(<<1, 2>>, "none"), Stream(<<1>>, "none")}
Broken    == {Stream(<<2, 1>>, "corrupt"), [opens |-> FALSE, cells |-> <<>>, damage |-> "corrupt"]}
StreamSet == Intact \union Broken
               \union {Stream(<<>>, "cut"), Stream(<<1>>, "cut"), Stream(<<2>>, "altered")}

\* What these streams may have been packed from: of those that are intact some may
\* be lost, and more was in one that was cut.
Origins(made, streams) ==
  LET all  == Joined(streams)[Len(streams)]
      more == all \o <<2, 1>>
  IN  IF \E i \in DOMAIN streams : streams[i].damage \in {"altered", "corrupt"} THEN {<<1, 2>>}
      ELSE IF \E i \in DOMAIN streams : streams[i].damage = "cut" THEN {more}
      ELSE IF made \in {"lzw", "lzma"} THEN {all}
      ELSE {all, more}

PackedAs(made, head, streams) ==
  {[Of(made, head) EXCEPT !.streams = streams, !.packed = p] : p \in Origins(made, streams)}

\* Raw images: of any size, with a header that might be LZMA's, a footer that is
\* none, or the word of a footer at their head.
RawFiles ==
  {[Bare EXCEPT !.bytes = b, !.props = p] : b \in Payloads \union {<<>>}, p \in {0, 93, 217, 255}}
  \union {[Bare EXCEPT !.bytes = b \o <<9, 9>>, !.tail = t, !.headCopy = c, !.head = "cookie"] :
            b \in {<<1, 2>>}, t \in {u \in Footers : u.flaw # "none"},
            c \in {u \in Footers : u.flaw \in {"version", "checksum"}}}
  \* A bare footer, of either length, with no disk before it.
  \union {[Bare EXCEPT !.bytes = [i \in 1..2 |-> 9],
             !.tail = [length |-> 2, type |-> "fixed", flaw |-> "none"]]}

\* Fixed VHDs, whose payload may pass for LZMA up to the trial, and the others,
\* which may have lost one of their two footers.
VhdFiles ==
  {[Of("vhd", "other") EXCEPT !.bytes = b \o [i \in 1..n |-> 9], !.props = 93, !.streams = s,
      !.tail = [length |-> n, type |-> "fixed", flaw |-> "none"]] :
     b \in Payloads, n \in {1, 2}, s \in {<<>>} \union {<<t>> : t \in StreamSet}}
  \union {[Of("vhd", "cookie") EXCEPT !.headCopy = h, !.tail = t] :
            h \in {u \in Footers : u.length = 2 /\ u.flaw = "none" /\ u.type # "fixed"}
                    \union {[length |-> 2, type |-> "dynamic", flaw |-> "checksum"]},
            t \in {u \in Footers : u.length = 2 /\ u.flaw = "none" /\ u.type # "fixed"}}
  \union {[Of("vhd", "cookie") EXCEPT !.headCopy = h] :
            h \in {u \in Footers : u.length = 2 /\ u.flaw = "none" /\ u.type # "fixed"}}

\* Every header an LZMA encoder writes, with a stream whose damage, if any,
\* leaves some output: short of the trial's buffer or past it.
LzmaFiles ==
  {[f EXCEPT !.props = (pb * 5 + lp) * 9 + lc] :
     pb \in 0..4, lp \in 0..4, lc \in 0..4,
     f \in UNION {PackedAs("lzma", "other", <<s>>) :
                    s \in {Stream(<<1, 2, 1>>, "none"), Stream(<<1>>, "cut"),
                           Stream(<<1, 2, 2>>, "corrupt"), Stream(<<2>>, "altered")}}}
LegalLzmaFiles ==
  {f \in LzmaFiles : LET p == f.props IN (p % 9) + ((p \div 9) % 5) <= 4}

StreamFiles ==
  UNION {PackedAs(m, m, s) :
           m \in {"gzip", "xz", "bzip2", "zstd"},
           s \in {t \in UNION {[1..n -> StreamSet] : n \in 1..3} :
                    /\ \A i \in 1..(Len(t) - 1) : t[i].damage # "cut"
                    /\ Len(t) = 3 => t[1] \in Intact /\ t[2] \in Intact}}
  \union UNION {PackedAs("lzw", "lzw", <<s>>) : s \in {t \in StreamSet : t.opens}}

Sound(cells, how) ==
  [dir |-> FALSE, header |-> TRUE, encrypted |-> FALSE, fits |-> TRUE, method |-> how,
   size |-> Len(cells), csize |-> IF how = "stored" THEN Len(cells) ELSE 1,
   packed |-> cells, crc |-> cells, cells |-> cells, next |-> <<3, 3>>, sound |-> TRUE]

Disk(how) == Sound(<<1, 2, 1>>, how)
Damaged(m) ==
  LET n == Len(m.packed)
  IN  {m, [m EXCEPT !.header = FALSE], [m EXCEPT !.encrypted = TRUE], [m EXCEPT !.fits = FALSE],
       [m EXCEPT !.method = "other"], [m EXCEPT !.cells = [m.cells EXCEPT ![1] = 2]],
       [m EXCEPT !.cells = Append(m.cells, 2)], [m EXCEPT !.cells = SubSeq(m.cells, 1, n - 1)],
       [m EXCEPT !.crc = <<2>>], [m EXCEPT !.sound = FALSE],
       [m EXCEPT !.cells = SubSeq(m.cells, 1, n - 1), !.sound = FALSE],
       [m EXCEPT !.size = 0], [m EXCEPT !.size = n + 1], [m EXCEPT !.csize = n + 1],
       [m EXCEPT !.size = n - 1], [m EXCEPT !.csize = n - 1],
       [m EXCEPT !.size = n + 1, !.csize = n + 1], [m EXCEPT !.size = n - 1, !.csize = n - 1],
       \* An index that understates the length, for a CRC of so much.
       [m EXCEPT !.size = n - 1, !.crc = SubSeq(m.cells, 1, n - 1)]}

Disks == UNION {Damaged(Disk(how)) : how \in {"stored", "deflated"}}
Folder == [Sound(<<>>, "stored") EXCEPT !.dir = TRUE]
Notes == {Sound(<<3>>, "stored"), [Sound(<<3, 3>>, "deflated") EXCEPT !.csize = 9],
          [Sound(<<3>>, "other") EXCEPT !.header = FALSE, !.encrypted = TRUE]}

ZipFiles ==
  {[Of("zip", "zip") EXCEPT !.members = m] :
     m \in {<<>>, <<Folder>>} \union {<<d>> : d \in Disks} \union {<<n, d>> : n \in Notes, d \in Disks}
           \union {<<d, n>> : n \in Notes, d \in Disks}
           \union {<<Folder, n, Disk("stored")>> : n \in Notes}
           \union {<<n, Disk("stored"), n, n>> : n \in Notes}}
  \union {[Of("zip", "zip") EXCEPT !.indexed = FALSE]}

AllFiles == RawFiles \union VhdFiles \union LegalLzmaFiles \union StreamFiles \union ZipFiles
=============================================================================
