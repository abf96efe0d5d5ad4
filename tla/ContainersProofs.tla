-------------------------- MODULE ContainersProofs --------------------------
(***************************************************************************)
(* Theorems about Containers, for every set of image files, whatever they  *)
(* hold and however they are damaged, and every size of buffer.  The       *)
(* invariant says of each kind of reader that what it has delivered and    *)
(* what it has still to yield make up what it was opened on.  What a       *)
(* recursive definition computes is proved by the least counterexample.    *)
(***************************************************************************)
EXTENDS Containers, WellFoundedInduction, SequenceTheorems, TLAPS

\* Induction, as the least counterexample: a set of numbers that is not empty
\* has a least member.
LEMMA Least ==
  ASSUME NEW T \in SUBSET Nat, T # {}
  PROVE  \E x \in T : \A y \in T : x <= y
<1> DEFINE R == OpToRel(<, Nat)
<1>1. IsWellFoundedOn(R, Nat)
  BY NatLessThanWellFounded
<1>2. \E x \in T : \A y \in T : ~(<<y, x>> \in R)
  <2> HIDE DEF R
  <2> QED BY <1>1, WFMin, Zenon
<1>3. PICK x \in T : \A y \in T : ~(<<y, x>> \in R)
  BY <1>2
<1>4. ASSUME NEW y \in T PROVE x <= y
  <2>1. x \in Nat /\ y \in Nat
    OBVIOUS
  <2>2. y < x => <<y, x>> \in R
    BY <2>1 DEF OpToRel
  <2> HIDE DEF R
  <2>3. ~(y < x)
    BY <2>2, <1>3
  <2> QED BY <2>1, <2>3
<1> QED
  BY <1>4

-----------------------------------------------------------------------------
\* The streams of a file, joined: the recursive function exists, is what its
\* equation says, and its values are prefixes of the later ones.
IsJoined(g, s, N) ==
  g = [n \in 0..N |-> IF n = 0 THEN <<>> ELSE g[n - 1] \o s[n].cells]

LEMMA JoinedExists ==
  ASSUME NEW s, NEW N \in Nat
  PROVE  \E g : IsJoined(g, s, N)
<1> DEFINE T == {n \in Nat : ~\E g : IsJoined(g, s, n)}
<1>1. SUFFICES ASSUME T # {} PROVE FALSE
  OBVIOUS
<1>2. PICK m \in T : \A y \in T : m <= y
  BY Least, <1>1
<1>3. m # 0
  <2>1. IsJoined([n \in 0..0 |-> <<>>], s, 0)
    BY DEF IsJoined
  <2> QED BY <2>1
<1>4. m - 1 \in Nat /\ m - 1 \notin T
  BY <1>2, <1>3
<1>5. PICK g : IsJoined(g, s, m - 1)
  BY <1>4
<1> DEFINE h == [n \in 0..m |-> IF n = m THEN g[m - 1] \o s[m].cells ELSE g[n]]
<1>6. IsJoined(h, s, m)
  <2>1. ASSUME NEW n \in 0..m
        PROVE  h[n] = IF n = 0 THEN <<>> ELSE h[n - 1] \o s[n].cells
    <3>1. CASE n = m
      <4>1. h[n] = g[m - 1] \o s[m].cells
        BY <3>1
      <4>2. h[n - 1] = g[m - 1]
        BY <3>1, <1>3
      <4> QED BY <4>1, <4>2, <3>1, <1>3
    <3>2. CASE n # m /\ n = 0
      <4>1. g[0] = <<>>
        BY <1>5, <1>4 DEF IsJoined
      <4> QED BY <4>1, <3>2
    <3>3. CASE n # m /\ n # 0
      <4>1. n \in 0..(m - 1) /\ n - 1 \in 0..m /\ n - 1 # m
        BY <3>3, <1>4
      <4>2. g[n] = g[n - 1] \o s[n].cells
        BY <1>5, <4>1, <3>3 DEF IsJoined
      <4> QED BY <4>1, <4>2, <3>3
    <3> QED BY <3>1, <3>2, <3>3
  <2>2. h = [n \in 0..m |-> h[n]]
    OBVIOUS
  <2> QED BY <2>1, <2>2, Zenon DEF IsJoined
<1> QED BY <1>6

LEMMA JoinedDef ==
  ASSUME NEW s, Len(s) \in Nat
  PROVE  IsJoined(Joined(s), s, Len(s))
<1>1. \E g : IsJoined(g, s, Len(s))
  BY JoinedExists
<1>2. Joined(s) = CHOOSE g : IsJoined(g, s, Len(s))
  BY Zenon DEF Joined, IsJoined
<1> QED BY <1>1, <1>2, Zenon

LEMMA PrefixByPoints ==
  ASSUME NEW s \in Seq(Cell), NEW t \in Seq(Cell)
  PROVE  IsPrefix(s, t) <=> Len(s) <= Len(t) /\ \A k \in 1..Len(s) : s[k] = t[k]
<1>1. CASE Len(s) <= Len(t)
  <2>1. /\ SubSeq(s, 1, Len(s)) \in Seq(Cell) /\ SubSeq(t, 1, Len(s)) \in Seq(Cell)
        /\ Len(SubSeq(s, 1, Len(s))) = Len(s) /\ Len(SubSeq(t, 1, Len(s))) = Len(s)
        /\ \A k \in 1..Len(s) : SubSeq(s, 1, Len(s))[k] = s[k] /\ SubSeq(t, 1, Len(s))[k] = t[k]
    BY <1>1
  <2>2. SubSeq(s, 1, Len(s)) = SubSeq(t, 1, Len(s)) <=> \A k \in 1..Len(s) : s[k] = t[k]
    <3>1. ASSUME \A k \in 1..Len(s) : s[k] = t[k]
          PROVE  SubSeq(s, 1, Len(s)) = SubSeq(t, 1, Len(s))
      BY <2>1, <3>1, SeqEqual
    <3> QED BY <2>1, <3>1
  <2> QED BY <1>1, <2>2, Zenon DEF IsPrefix
<1>2. CASE ~(Len(s) <= Len(t))
  BY <1>2, Zenon DEF IsPrefix
<1> QED BY <1>1, <1>2

LEMMA PrefixOfConcat ==
  ASSUME NEW a \in Seq(Cell), NEW b \in Seq(Cell)
  PROVE  a \o b \in Seq(Cell) /\ IsPrefix(a, a \o b) /\ IsPrefix(a, a)
<1>1. /\ a \o b \in Seq(Cell) /\ Len(a) <= Len(a \o b)
      /\ \A k \in 1..Len(a) : a[k] = (a \o b)[k]
  OBVIOUS
<1>2. IsPrefix(a, a \o b)
  BY <1>1, PrefixByPoints
<1>3. IsPrefix(a, a)
  BY PrefixByPoints
<1> QED BY <1>1, <1>2, <1>3

LEMMA PrefixTransitive ==
  ASSUME NEW a \in Seq(Cell), NEW b \in Seq(Cell), NEW c \in Seq(Cell),
         IsPrefix(a, b), IsPrefix(b, c)
  PROVE  IsPrefix(a, c)
<1>1. Len(a) <= Len(b) /\ \A k \in 1..Len(a) : a[k] = b[k]
  BY PrefixByPoints
<1>2. Len(b) <= Len(c) /\ \A k \in 1..Len(b) : b[k] = c[k]
  BY PrefixByPoints
<1>3. Len(a) <= Len(c) /\ \A k \in 1..Len(a) : a[k] = c[k]
  BY <1>1, <1>2
<1> QED BY <1>3, PrefixByPoints

LEMMA JoinedSteps ==
  ASSUME NEW s \in Seq(Streams)
  PROVE  /\ Joined(s)[0] = <<>>
         /\ \A n \in 1..Len(s) : Joined(s)[n] = Joined(s)[n - 1] \o s[n].cells
<1>0. Len(s) \in Nat
  OBVIOUS
<1>1. IsJoined(Joined(s), s, Len(s))
  BY <1>0, JoinedDef
<1> DEFINE g == Joined(s)
<1> HIDE DEF g
<1>2. g = [n \in 0..Len(s) |-> IF n = 0 THEN <<>> ELSE g[n - 1] \o s[n].cells]
  BY <1>1, Zenon DEF IsJoined, g
<1>3. \A n \in 0..Len(s) : g[n] = IF n = 0 THEN <<>> ELSE g[n - 1] \o s[n].cells
  BY <1>2, Zenon
<1>4. 0 \in 0..Len(s) /\ \A n \in 1..Len(s) : n \in 0..Len(s) /\ n # 0
  BY <1>0
<1>5. g[0] = <<>> /\ \A n \in 1..Len(s) : g[n] = g[n - 1] \o s[n].cells
  BY <1>3, <1>4, Zenon
<1> QED BY <1>5 DEF g

LEMMA JoinedPrefixes ==
  ASSUME NEW s \in Seq(Streams), NEW n \in 0..Len(s)
  PROVE  /\ Joined(s)[n] \in Seq(Cell)
         /\ \A i \in 0..n : Joined(s)[i] \in Seq(Cell) /\ IsPrefix(Joined(s)[i], Joined(s)[n])
<1> DEFINE U == Joined(s)
           P(j) == U[j] \in Seq(Cell) /\ \A i \in 0..j : U[i] \in Seq(Cell) /\ IsPrefix(U[i], U[j])
           T == {j \in Nat : j <= Len(s) /\ ~P(j)}
<1>0. U[0] = <<>> /\ \A j \in 1..Len(s) : U[j] = U[j - 1] \o s[j].cells
  BY JoinedSteps
<1> HIDE DEF U
<1>1. ASSUME T # {} PROVE FALSE
  <2>1. PICK m \in T : \A y \in T : m <= y
    <3> HIDE DEF T
    <3>1. T \subseteq Nat
      BY DEF T
    <3> QED BY <3>1, <1>1, Least
  <2>2. CASE m = 0
    <3>1. U[0] \in Seq(Cell)
      BY <1>0
    <3>2. IsPrefix(U[0], U[0])
      BY <3>1, PrefixByPoints
    <3> QED BY <3>1, <3>2, <2>1, <2>2
  <2>3. CASE m # 0
    <3>1. m - 1 \in Nat /\ m - 1 < m /\ m \in 1..Len(s)
      BY <2>1, <2>3
    <3>2. P(m - 1)
      <4>1. m - 1 \notin T
        BY <2>1, <3>1
      <4> QED BY <4>1, <3>1
    <3>3. s[m].cells \in Seq(Cell) /\ U[m] = U[m - 1] \o s[m].cells
      <4>1. U[m] = U[m - 1] \o s[m].cells
        BY <1>0, <3>1, Zenon
      <4>2. s[m] \in Streams
        BY <3>1
      <4> QED BY <4>1, <4>2 DEF Streams
    <3>4. U[m] \in Seq(Cell) /\ IsPrefix(U[m - 1], U[m]) /\ IsPrefix(U[m], U[m])
      <4>1. U[m - 1] \in Seq(Cell)
        BY <3>2
      <4> QED BY <4>1, <3>3, PrefixOfConcat
    <3>5. ASSUME NEW i \in 0..m
          PROVE  U[i] \in Seq(Cell) /\ IsPrefix(U[i], U[m])
      <4>1. CASE i = m
        BY <4>1, <3>4
      <4>2. CASE i # m
        <5>1. U[i] \in Seq(Cell) /\ IsPrefix(U[i], U[m - 1]) /\ U[m - 1] \in Seq(Cell)
          BY <4>2, <3>1, <3>2
        <5> QED BY <5>1, <3>4, PrefixTransitive
      <4> QED BY <4>1, <4>2
    <3> QED BY <3>4, <3>5, <2>1
  <2> QED BY <2>2, <2>3
<1>2. P(n)
  BY <1>1
<1> QED BY <1>2 DEF U

-----------------------------------------------------------------------------
\* The index of a zip: the first of its largest members, if it has any.
Able(f) == {i \in DOMAIN f.members : ~f.members[i].dir}

LEMMA MembersType ==
  ASSUME NEW f \in Files
  PROVE  /\ f.members \in Seq(Members) /\ Len(f.members) \in Nat
         /\ DOMAIN f.members = 1..Len(f.members)
         /\ \A i \in DOMAIN f.members :
              /\ f.members[i] \in Members /\ f.members[i].size \in Nat
              /\ f.members[i].csize \in Nat /\ f.members[i].dir \in BOOLEAN
              /\ f.members[i].packed \in Seq(Cell) /\ f.members[i].cells \in Seq(Cell)
              /\ f.members[i].next \in Seq(Cell) /\ f.members[i].sound \in BOOLEAN
              /\ f.members[i].method \in {"stored", "deflated", "other"}
<1>1. f.members \in Seq(Members)
  BY FilesAssumption
<1>2. \A i \in DOMAIN f.members : f.members[i] \in Members
  BY <1>1
<1>3. ASSUME NEW i \in DOMAIN f.members
      PROVE  /\ f.members[i] \in Members /\ f.members[i].size \in Nat
             /\ f.members[i].csize \in Nat /\ f.members[i].dir \in BOOLEAN
             /\ f.members[i].packed \in Seq(Cell) /\ f.members[i].cells \in Seq(Cell)
             /\ f.members[i].next \in Seq(Cell) /\ f.members[i].sound \in BOOLEAN
             /\ f.members[i].method \in {"stored", "deflated", "other"}
  BY <1>2, <1>3 DEF Members
<1>4. Len(f.members) \in Nat /\ DOMAIN f.members = 1..Len(f.members)
  BY <1>1
<1> QED BY <1>1, <1>3, <1>4

LEMMA LargestExists ==
  ASSUME NEW f \in Files, Able(f) # {}
  PROVE  \E i \in DOMAIN f.members : Largest(f, i)
<1> DEFINE N == Len(f.members)
           size(i) == f.members[i].size
           dir(i) == f.members[i].dir
           Best(i, n) == /\ i \in 1..n /\ ~dir(i)
                         /\ \A j \in 1..n : dir(j) \/ size(j) <= size(i)
                         /\ \A j \in 1..(i - 1) : dir(j) \/ size(j) < size(i)
           Some(n) == \E i \in 1..n : ~dir(i)
           T == {n \in Nat : n <= N /\ Some(n) /\ ~\E i \in 1..n : Best(i, n)}
<1>0. N \in Nat /\ DOMAIN f.members = 1..N /\ \A i \in 1..N : size(i) \in Nat
  BY MembersType
<1> HIDE DEF N, size, dir
<1>1. ASSUME T # {} PROVE FALSE
  <2>1. PICK m \in T : \A y \in T : m <= y
    <3>1. T \subseteq Nat
      OBVIOUS
    <3> HIDE DEF T
    <3> QED BY <3>1, <1>1, Least
  <2>2. m \in Nat /\ m <= N /\ m # 0 /\ m - 1 \in Nat /\ m - 1 \notin T
    BY <2>1
  <2>3. CASE ~Some(m - 1)
    <3>1. Best(m, m)
      BY <1>0, <2>1, <2>2, <2>3
    <3> QED BY <3>1, <2>1, <2>2
  <2>4. CASE Some(m - 1)
    <3>1. PICK k \in 1..(m - 1) : Best(k, m - 1)
      BY <1>0, <2>2, <2>4
    <3>2. CASE dir(m) \/ size(m) <= size(k)
      <4>1. Best(k, m)
        BY <1>0, <2>2, <3>1, <3>2
      <4> QED BY <4>1, <2>1, <2>2
    <3>3. CASE ~dir(m) /\ ~(size(m) <= size(k))
      <4>0. m \in 1..N /\ size(m) \in Nat /\ size(k) \in Nat
        BY <1>0, <2>2
      <4>1. ASSUME NEW j \in 1..(m - 1) PROVE dir(j) \/ size(j) < size(m)
        <5>1. size(j) \in Nat /\ (dir(j) \/ size(j) <= size(k))
          BY <1>0, <2>2, <3>1
        <5> QED BY <4>0, <5>1, <3>3
      <4>2. ASSUME NEW j \in 1..m PROVE dir(j) \/ size(j) <= size(m)
        <5>1. j = m \/ j \in 1..(m - 1)
          BY <2>2
        <5>2. size(j) \in Nat
          BY <1>0, <2>2
        <5> QED BY <4>0, <4>1, <5>1, <5>2
      <4>3. Best(m, m)
        BY <2>2, <3>3, <4>1, <4>2
      <4> QED BY <4>3, <2>1, <2>2
    <3> QED BY <3>2, <3>3
  <2> QED BY <2>3, <2>4
<1>2. Some(N)
  BY <1>0 DEF Able, dir
<1>3. PICK i \in 1..N : Best(i, N)
  <2>1. N \notin T
    <3> HIDE DEF T
    <3> QED BY <1>1
  <2>2. N \in Nat /\ N <= N
    BY <1>0
  <2> HIDE DEF Best, Some
  <2> QED BY <1>2, <2>1, <2>2, Zenon
<1>4. Largest(f, i)
  <2>1. ~f.members[i].dir
    BY <1>3 DEF dir
  <2>2. \A j \in DOMAIN f.members : f.members[j].dir \/ f.members[j].size <= f.members[i].size
    BY <1>0, <1>3, Zenon DEF dir, size
  <2>3. \A j \in 1..(i - 1) : f.members[j].dir \/ f.members[j].size < f.members[i].size
    BY <1>3, Zenon DEF dir, size
  <2> QED BY <2>1, <2>2, <2>3, Zenon DEF Largest
<1> QED BY <1>0, <1>4

LEMMA WinnerIsLargest ==
  ASSUME NEW f \in Files
  PROVE  Winner(f) = IF Able(f) = {} THEN {} ELSE {LargestMember(f)}
<1>1. CASE Able(f) = {}
  BY <1>1 DEF Winner, Able
<1>2. CASE Able(f) # {}
  <2> DEFINE L == LargestMember(f)
  <2>1. L \in DOMAIN f.members /\ Largest(f, L)
    BY <1>2, LargestExists DEF LargestMember
  <2> HIDE DEF L
  <2>0. L \in Nat /\ f.members[L].size \in Nat
    BY <2>1, MembersType
  <2>2. ASSUME NEW j \in DOMAIN f.members, ~f.members[j].dir, j # L
        PROVE  Larger(f, L, j)
    <3>1. j \in Nat /\ j >= 1 /\ f.members[j].size \in Nat
      BY <2>2, MembersType
    <3>2. f.members[j].size <= f.members[L].size
      BY <2>1, <2>2, Zenon DEF Largest
    <3>3. j \in 1..(L - 1) => f.members[j].size < f.members[L].size
      BY <2>1, <2>2, Zenon DEF Largest
    <3>4. f.members[L].size > f.members[j].size
            \/ (f.members[L].size = f.members[j].size /\ L < j)
      BY <3>1, <3>2, <3>3, <2>0, <2>2
    <3> QED BY <3>4, Zenon DEF Larger
  <2>3. L \in Winner(f)
    BY <2>1, <2>2 DEF Winner, Largest
  <2>4. ASSUME NEW i \in Winner(f), i # L PROVE FALSE
    <3>1. i \in DOMAIN f.members /\ ~f.members[i].dir /\ Larger(f, i, L)
      BY <2>1, <2>4 DEF Winner, Largest
    <3>2. Larger(f, L, i)
      BY <2>2, <2>4, <3>1
    <3>3. i \in Nat /\ f.members[i].size \in Nat
      BY <3>1, MembersType
    <3> QED BY <2>0, <3>1, <3>2, <3>3 DEF Larger
  <2> QED BY <1>2, <2>3, <2>4 DEF L
<1> QED BY <1>1, <1>2

-----------------------------------------------------------------------------
\* Detection, by what the file was made as.
LEMMA FileType ==
  ASSUME NEW f \in Files
  PROVE  /\ f.made \in Formats /\ f.head \in Heads
         /\ f.headCopy \in Footers \union {None} /\ f.tail \in Footers \union {None}
         /\ f.bytes \in Seq(Cell) /\ Len(f.bytes) \in Nat /\ f.streams \in Seq(Streams)
         /\ f.made = "raw" => RawFile(f)
         /\ f.made = "vhd" => VhdFile(f)
         /\ f.made = "lzma" => LzmaFile(f)
         /\ f.made \in Magics => PackedFile(f)
<1>1. /\ f.made \in Formats /\ f.head \in Heads
      /\ f.headCopy \in Footers \union {None} /\ f.tail \in Footers \union {None}
      /\ f.bytes \in Seq(Cell) /\ f.streams \in Seq(Streams)
  BY FilesAssumption
<1>2. (CASE f.made = "raw" -> RawFile(f)
         [] f.made = "vhd" -> VhdFile(f)
         [] f.made = "lzma" -> LzmaFile(f)
         [] OTHER -> PackedFile(f))
  BY KindsAssumption
<1>3. f.made \in Magics => f.made \notin {"raw", "vhd", "lzma"}
  BY DEF Magics
<1>4. Len(f.bytes) \in Nat
  BY <1>1
<1> QED BY <1>1, <1>2, <1>3, <1>4

LEMMA RawIsDetected ==
  ASSUME NEW f \in Files, f.made = "raw"
  PROVE  DetectCompression(f) = "raw"
<1>1. RawFile(f)
  BY FileType
<1>2. Sniff(f) = "raw"
  BY <1>1 DEF RawFile, Sniff
<1>3. ~ParseTail(f.headCopy, Len(f.bytes)) /\ ~VhdFooter(f)
  BY <1>1 DEF RawFile, Footed, VhdFooter
<1>4. ~(LooksLikeLzmaAlone(f) /\ LzmaDecodes(f) \in {"decoded", "corrupt"})
  BY <1>1 DEF RawFile
<1> QED BY <1>2, <1>3, <1>4 DEF DetectCompression

LEMMA VhdIsDetected ==
  ASSUME NEW f \in Files, f.made = "vhd"
  PROVE  \/ /\ DetectCompression(f) = "vhd" /\ Verdict(f) = "whole"
            /\ f.tail \in Footers /\ f.tail.length \in Nat /\ f.tail.length < Len(f.bytes)
         \/ DetectCompression(f) = "refused" /\ Verdict(f) = "hopeless"
<1>1. VhdFile(f) /\ f.tail \in Footers \union {None} /\ Len(f.bytes) \in Nat
  BY FileType
<1>2. Sniff(f) = "raw"
  BY <1>1 DEF VhdFile, Sniff
<1>3. CASE f.tail = None
  <2>1. Verdict(f) = "hopeless"
    BY <1>3 DEF Verdict
  <2>2. DetectCompression(f) = "refused"
    BY <1>1, <1>2, <1>3 DEF VhdFile, DetectCompression
  <2> QED BY <2>1, <2>2
<1>4. CASE f.tail # None
  <2>1. ParseTail(f.tail, Len(f.bytes)) /\ f.tail \in Footers /\ f.tail.length \in {1, 2}
    BY <1>1, <1>4 DEF VhdFile, Footers
  <2>2. VhdFooter(f) /\ f.tail.length < Len(f.bytes)
    BY <1>1, <2>1 DEF VhdFooter, ParseTail
  <2>3. CASE f.tail.type = "fixed"
    <3>1. f.headCopy = None
      BY <1>1, <1>4, <2>3 DEF VhdFile
    <3>2. ~ParseTail(f.headCopy, Len(f.bytes)) /\ ~RejectUnwritable(f.tail)
      BY <3>1, <2>3 DEF ParseTail, RejectUnwritable
    <3>3. DetectCompression(f) = "vhd"
      BY <1>2, <2>2, <3>2 DEF DetectCompression
    <3>4. Verdict(f) = "whole"
      BY <1>4, <2>3 DEF Verdict
    <3> QED BY <2>1, <2>2, <3>3, <3>4
  <2>4. CASE f.tail.type # "fixed"
    <3>1. RejectUnwritable(f.tail)
      BY <2>4 DEF RejectUnwritable
    <3>2. DetectCompression(f) = "refused"
      BY <1>2, <2>2, <3>1 DEF DetectCompression
    <3>3. Verdict(f) = "hopeless"
      BY <2>4 DEF Verdict
    <3> QED BY <3>2, <3>3
  <2> QED BY <2>3, <2>4
<1> QED BY <1>3, <1>4

\* lzma_props_valid accepts every properties byte that an encoder writes.
LEMMA EncoderPropsAreValid ==
  ASSUME NEW pb \in 0..4, NEW lp \in 0..4, NEW lc \in 0..4, lc + lp <= 4
  PROVE  LzmaPropsValid((pb * 5 + lp) * 9 + lc)
<1> DEFINE props == (pb * 5 + lp) * 9 + lc
<1>1. props \in Nat /\ props % 9 = lc /\ props \div 9 = pb * 5 + lp
  OBVIOUS
<1>2. (pb * 5 + lp) % 5 = lp /\ props \div 45 = pb
  OBVIOUS
<1>3. props <= 216
  OBVIOUS
<1> HIDE DEF props
<1> QED BY <1>1, <1>2, <1>3 DEF LzmaPropsValid

LEMMA LzmaIsDetected ==
  ASSUME NEW f \in Files, f.made = "lzma"
  PROVE  \/ DetectCompression(f) = "lzma"
         \/ DetectCompression(f) = "refused" /\ Verdict(f) = "damaged"
<1>1. LzmaFile(f)
  BY FileType
<1>2. Sniff(f) = "raw"
  BY <1>1 DEF LzmaFile, Sniff
<1>3. ~ParseTail(f.headCopy, Len(f.bytes)) /\ ~VhdFooter(f)
  BY <1>1 DEF LzmaFile, Footed, VhdFooter
<1>4. LooksLikeLzmaAlone(f)
  <2>1. LzmaPropsValid(f.props)
    BY <1>1, EncoderPropsAreValid DEF LzmaFile
  <2> QED BY <1>1, <2>1 DEF LzmaFile, LooksLikeLzmaAlone
<1>5. f.streams \in Seq(Streams) /\ Len(f.streams) = 1 /\ f.streams # <<>>
      /\ Head(f.streams) = f.streams[1]
  BY <1>1, FileType DEF LzmaFile
<1>6. f.streams[1].opens /\ f.streams[1].cells # <<>>
  BY <1>1 DEF LzmaFile
<1>7. \/ LzmaDecodes(f) = "decoded"
      \/ LzmaDecodes(f) = "corrupt" /\ ~EndsWell("lzma", f.streams[1])
  BY <1>5, <1>6 DEF LzmaDecodes
<1>8. CASE LzmaDecodes(f) = "decoded"
  BY <1>2, <1>3, <1>4, <1>8 DEF DetectCompression
<1>9. CASE LzmaDecodes(f) = "corrupt" /\ ~EndsWell("lzma", f.streams[1])
  <2>1. DetectCompression(f) = "refused"
    BY <1>2, <1>3, <1>4, <1>9 DEF DetectCompression
  <2>2. 1 \in DOMAIN f.streams /\ f.streams[1].damage \notin {"none", "altered"}
    BY <1>5, <1>9 DEF EndsWell
  <2>3. Verdict(f) = "damaged"
    <3>1. ~\A i \in DOMAIN f.streams : f.streams[i].opens /\ f.streams[i].damage = "none"
      BY <2>2
    <3>2. StreamVerdict(f) = "damaged"
      BY <2>2, <3>1 DEF StreamVerdict
    <3> QED BY <3>2 DEF Verdict
  <2> QED BY <2>1, <2>3
<1> QED BY <1>7, <1>8, <1>9

LEMMA MagicIsDetected ==
  ASSUME NEW f \in Files, f.made \in Magics
  PROVE  DetectCompression(f) = f.made
<1>1. f.head = f.made
  BY FileType DEF PackedFile
<1>2. f.made # "raw"
  BY DEF Magics
<1> QED BY <1>1, <1>2 DEF DetectCompression, Sniff

\* Whatever a file was made as is what it is taken to be, or it is refused and
\* there is something in it that shows it cannot be written.
THEOREM KindIsDetected ==
  ASSUME NEW f \in Files
  PROVE  \/ DetectCompression(f) = f.made
         \/ DetectCompression(f) = "refused" /\ Verdict(f) \in {"damaged", "hopeless"}
<1>1. f.made \in Magics \/ f.made \in {"raw", "vhd", "lzma"}
  BY FileType DEF Formats, Magics
<1> QED BY <1>1, RawIsDetected, VhdIsDetected, LzmaIsDetected, MagicIsDetected

-----------------------------------------------------------------------------
\* The inductive invariant.

\* What was measured and detected is what the file was made as, and nothing is
\* delivered before it is opened.
Recognised ==
  /\ file \in Files
  /\ stage \notin {"unmeasured", "refused"} =>
       DetectCompression(file) = file.made /\ measured = PayloadLen(file)
  /\ stage \in {"unmeasured", "closed", "refused"} => out = <<>>

\* What a verbatim reader has given and has still to give is the image.
Verbatim ==
  stage = "open" /\ file.made \in {"raw", "vhd"} =>
    /\ left = None /\ sound /\ later = <<>> /\ Verdict(file) = "whole"
    /\ out \o rest = Image(file)

\* The end of the j-th stream of a file, and whether its reader comes to the end of
\* the last.
Ends(f, j) == EndsWell(f.made, f.streams[j])
AllEnd(f)  == \A j \in DOMAIN f.streams : f.streams[j].opens /\ Ends(f, j)

\* Of i streams begun, those before the last ended well; with what is left of it
\* they are what has been delivered.
Begun(i) ==
  LET s == file.streams
  IN  /\ later = SubSeq(s, i + 1, Len(s))
      /\ \A j \in 1..i : s[j].opens /\ (j < i => Ends(file, j))
      /\ sound = (i = 0 \/ Ends(file, i))
      /\ out \o rest = Joined(s)[i]

Streaming ==
  stage = "open" /\ file.made \notin {"raw", "vhd", "zip"} =>
    /\ left = None /\ format = file.made
    /\ \E i \in 0..Len(file.streams) : Begun(i)

\* The member that is read is the one the index makes the largest, and what is
\* still promised of it is what is missing from its size.
Unzipping ==
  stage = "open" /\ file.made = "zip" =>
    LET m == file.members[LargestMember(file)]
    IN  /\ PickZipMember(file) = {LargestMember(file)} /\ Able(file) # {}
        /\ Len(out) <= m.size /\ left = m.size - Len(out)
        /\ sound = (m.method = "stored" \/ m.sound)
        /\ out \o rest = Contents(m)

\* All of the image is out, or nothing tells that it is not.
Delivered == (Verdict(file) = "whole" /\ out = Image(file)) \/ Verdict(file) \in {"cut", "altered"}

Finished == stage = "ended" => Delivered

IInv == TypeOK /\ Recognised /\ Verbatim /\ Streaming /\ Unzipping /\ Finished

-----------------------------------------------------------------------------
\* The member of a zip.

LEMMA CutType ==
  ASSUME NEW here \in Seq(Cell), NEW k \in Nat
  PROVE  SubSeq(here, 1, IF k < Len(here) THEN k ELSE Len(here)) \in Seq(Cell)
<1>1. CASE k < Len(here)
  BY <1>1
<1>2. CASE ~(k < Len(here))
  BY <1>2
<1> QED BY <1>1, <1>2

LEMMA ContentsType ==
  ASSUME NEW m, m.cells \in Seq(Cell), m.next \in Seq(Cell), m.csize \in Nat
  PROVE  Contents(m) \in Seq(Cell)
<1>1. ASSUME NEW a \in Seq(Cell), NEW b \in Seq(Cell) PROVE a \o b \in Seq(Cell)
  OBVIOUS
<1>2. m.cells \o m.next \in Seq(Cell)
  BY <1>1
<1>3. Stored(m) \in Seq(Cell)
  BY <1>2, CutType, Zenon DEF Stored
<1> QED BY <1>3 DEF Contents

LEMMA MemberPicked ==
  ASSUME NEW f \in Files, NEW i \in PickZipMember(f)
  PROVE  /\ i = LargestMember(f) /\ PickZipMember(f) = {i} /\ Able(f) # {}
         /\ i \in DOMAIN f.members /\ f.members[i] \in Members
         /\ Contents(f.members[i]) \in Seq(Cell)
         /\ f.members[i].size \in Nat /\ f.members[i].size > 0
         /\ f.indexed /\ Len(f.members) <= MaxEntries
         /\ f.members[i].header /\ ~f.members[i].encrypted /\ f.members[i].fits
         /\ f.members[i].method \in {"stored", "deflated"}
         /\ f.members[i].method = "stored" => f.members[i].csize = f.members[i].size
<1>1. i \in Winner(f) /\ PickZipMember(f) \subseteq Winner(f)
  BY DEF PickZipMember
<1>2. Able(f) # {} /\ Winner(f) = {LargestMember(f)}
  BY <1>1, WinnerIsLargest
<1>3. i = LargestMember(f) /\ PickZipMember(f) = {i}
  BY <1>1, <1>2
<1>4. i \in DOMAIN f.members
  BY <1>1 DEF Winner
<1>5. f.members[i].size \in Nat /\ f.members[i] \in Members
  BY <1>4, MembersType
<1>6. Contents(f.members[i]) \in Seq(Cell)
  BY <1>4, MembersType, ContentsType
<1>7. /\ f.indexed /\ Len(f.members) <= MaxEntries
      /\ f.members[i].header /\ ~f.members[i].encrypted /\ f.members[i].fits
      /\ f.members[i].method # "other" /\ f.members[i].size > 0
      /\ f.members[i].method = "stored" => f.members[i].csize = f.members[i].size
  BY DEF PickZipMember
<1>8. f.members[i].method \in {"stored", "deflated", "other"}
  BY <1>4, MembersType
<1> QED BY <1>2, <1>3, <1>4, <1>5, <1>6, <1>7, <1>8

LEMMA AbleMeans ==
  ASSUME NEW f \in Files
  PROVE  /\ Able(f) # {} <=> \E i \in DOMAIN f.members : ~f.members[i].dir
         /\ Able(f) = {} <=> \A i \in DOMAIN f.members : f.members[i].dir
BY DEF Able

LEMMA LargestIsAble ==
  ASSUME NEW f \in Files, Able(f) # {}
  PROVE  LargestMember(f) \in DOMAIN f.members /\ Winner(f) = {LargestMember(f)}
BY LargestExists, WinnerIsLargest DEF LargestMember

LEMMA UnpickedIsNotWhole ==
  ASSUME NEW f \in Files, f.made = "zip", PickZipMember(f) = {}
  PROVE  Verdict(f) \in {"damaged", "hopeless"}
<1>0. ZipVerdict(f) \in {"whole", "damaged", "hopeless"}
  BY DEF ZipVerdict
<1>1. SUFFICES ASSUME ZipVerdict(f) = "whole" PROVE FALSE
  BY <1>0 DEF Verdict
<1> DEFINE L == LargestMember(f)
           m == f.members[L]
<1>2. f.indexed /\ Able(f) # {} /\ ~(Len(f.members) > MaxEntries)
  BY <1>1, AbleMeans DEF ZipVerdict
<1>3. /\ m.header /\ ~m.encrypted /\ m.method # "other" /\ m.fits /\ m.size # 0
      /\ m.method = "stored" => m.csize = m.size
  BY <1>1, <1>2 DEF ZipVerdict
<1>4. L \in Winner(f) /\ L \in DOMAIN f.members
  BY <1>2, LargestIsAble
<1>5. m.size \in Nat
  BY <1>4, MembersType
<1>6. m.size > 0 /\ Len(f.members) <= MaxEntries
  BY <1>2, <1>3, <1>5, MembersType, BoundsAssumption
<1>7. L \in PickZipMember(f)
  BY <1>2, <1>3, <1>4, <1>6 DEF PickZipMember
<1> QED BY <1>7

LEMMA PickedIsHopeful ==
  ASSUME NEW f \in Files, f.made = "zip", NEW i \in PickZipMember(f)
  PROVE  Verdict(f) \in {"whole", "damaged"}
<1>1. i = LargestMember(f) /\ ~(f.members[i].size = 0) /\ ~(Len(f.members) > MaxEntries)
  BY MemberPicked, MembersType, BoundsAssumption
<1>2. ~(\A j \in DOMAIN f.members : f.members[j].dir)
  BY MemberPicked, AbleMeans
<1>3. ZipVerdict(f) \in {"whole", "damaged"}
  BY <1>1, <1>2, MemberPicked DEF ZipVerdict
<1> QED BY <1>3 DEF Verdict

LEMMA WholeMember ==
  ASSUME NEW f \in Files, f.made = "zip", NEW i \in PickZipMember(f)
  PROVE  /\ Image(f) = f.members[i].packed
         /\ Verdict(f) = "whole" <=>
              /\ f.members[i].size = Len(f.members[i].packed)
              /\ f.members[i].crc = f.members[i].packed
              /\ Contents(f.members[i]) = f.members[i].packed
              /\ f.members[i].method = "deflated" => f.members[i].sound
<1>1. i = LargestMember(f) /\ ~(f.members[i].size = 0) /\ ~(Len(f.members) > MaxEntries)
  BY MemberPicked, MembersType, BoundsAssumption
<1>2. \E j \in DOMAIN f.members : ~f.members[j].dir
  BY MemberPicked, AbleMeans
<1>3. Image(f) = f.members[i].packed
  BY <1>1, <1>2 DEF Image
<1>4. ZipVerdict(f) = "whole" <=>
              /\ f.members[i].size = Len(f.members[i].packed)
              /\ f.members[i].crc = f.members[i].packed
              /\ Contents(f.members[i]) = f.members[i].packed
              /\ f.members[i].method = "deflated" => f.members[i].sound
  BY <1>1, <1>2, MemberPicked DEF ZipVerdict
<1> QED BY <1>3, <1>4 DEF Verdict

\* A promise that is kept, down to the checksum, is kept of what was packed.
LEMMA KeptPromise ==
  ASSUME NEW f \in Files, f.made = "zip", NEW i \in PickZipMember(f),
         f.members[i].crc = Contents(f.members[i]),
         f.members[i].size = Len(Contents(f.members[i])),
         f.members[i].method = "stored" \/ f.members[i].sound
  PROVE  Verdict(f) = "whole" /\ Image(f) = Contents(f.members[i])
<1>1. f.made \in Magics
  BY DEF Magics
<1>2. f.members[i].packed = f.members[i].crc
  BY <1>1, FileType, MemberPicked DEF PackedFile
<1>3. f.members[i].method = "deflated" => f.members[i].sound
  OBVIOUS
<1> QED BY <1>2, <1>3, WholeMember

-----------------------------------------------------------------------------
\* What the readers of each kind start from, and a read.

LEMMA VerbatimImage ==
  ASSUME NEW f \in Files, f.made \in {"raw", "vhd"}, DetectCompression(f) = f.made
  PROVE  /\ Image(f) = IF f.made = "vhd" THEN SubSeq(f.bytes, 1, Len(f.bytes) - f.tail.length)
                       ELSE f.bytes
         /\ Image(f) \in Seq(Cell)
         /\ PayloadLen(f) = Len(Image(f)) /\ PayloadLen(f) \in Nat
         /\ f.bytes # <<>> => Verdict(f) = "whole"
         /\ f.bytes = <<>> => Verdict(f) = "hopeless"
<1>0. f.bytes \in Seq(Cell) /\ Len(f.bytes) \in Nat
  BY FileType
<1>1. CASE f.made = "raw"
  <2>1. Image(f) = f.bytes /\ PayloadLen(f) = Len(f.bytes)
    BY <1>1 DEF Image, PayloadLen
  <2>2. Verdict(f) = IF f.bytes = <<>> THEN "hopeless" ELSE "whole"
    BY <1>1 DEF Verdict
  <2> QED BY <1>0, <1>1, <2>1, <2>2
<1>2. CASE f.made = "vhd"
  <2>1. /\ Verdict(f) = "whole" /\ f.tail \in Footers /\ f.tail.length \in Nat
        /\ f.tail.length < Len(f.bytes)
    BY <1>2, VhdIsDetected
  <2>2. f.tail # None
    BY <2>1, NoneAssumption
  <2> DEFINE n == Len(f.bytes) - f.tail.length
  <2>3. n \in Nat /\ n <= Len(f.bytes) /\ f.bytes # <<>>
    BY <1>0, <2>1
  <2>4. Image(f) = SubSeq(f.bytes, 1, n)
    BY <1>2, <2>2 DEF Image
  <2>5. PayloadLen(f) = n
    BY <1>2 DEF PayloadLen
  <2> HIDE DEF n
  <2>6. SubSeq(f.bytes, 1, n) \in Seq(Cell) /\ Len(SubSeq(f.bytes, 1, n)) = n
    BY <1>0, <2>3
  <2> QED BY <1>2, <2>1, <2>3, <2>4, <2>5, <2>6 DEF n
<1> QED BY <1>1, <1>2

LEMMA EndsType ==
  ASSUME NEW f, NEW j
  PROVE  Ends(f, j) \in BOOLEAN
BY DEF Ends, EndsWell

\* The streams of a file that its reader reads to the end are a beginning of what
\* was packed, or altered; damage that stops the reader is damage that shows.
LEMMA StreamedImage ==
  ASSUME NEW f \in Files, f.made \notin {"raw", "vhd", "zip"}
  PROVE  /\ Image(f) = f.packed /\ Image(f) \in Seq(Cell)
         /\ Joined(f.streams)[Len(f.streams)] \in Seq(Cell)
         /\ Verdict(f) \in {"whole", "damaged", "cut", "altered"}
         /\ Verdict(f) = "damaged" <=> ~AllEnd(f)
         /\ Verdict(f) \in {"whole", "cut"} =>
              IsPrefix(Joined(f.streams)[Len(f.streams)], Image(f))
         /\ Verdict(f) = "whole" => Joined(f.streams)[Len(f.streams)] = Image(f)
         /\ f.streams \in Seq(Streams) /\ f.streams # <<>> /\ Len(f.streams) \in Nat \ {0}
         /\ f.made \notin Multi => Len(f.streams) = 1
<1> DEFINE s == f.streams
           J == Joined(s)[Len(s)]
<1>1. s \in Seq(Streams) /\ f.packed \in Seq(Cell)
  BY FileType, FilesAssumption
<1>2. /\ s # <<>> /\ (f.made \notin Multi => Len(s) = 1) /\ Unaltered(f)
      /\ f.made \in {"lzma", "lzw"} => s[1].opens
  <2>1. CASE f.made = "lzma"
    BY <1>1, <2>1, FileType DEF LzmaFile
  <2>2. CASE f.made # "lzma"
    <3>1. f.made \in Magics \ {"zip"}
      BY <2>2, FileType DEF Formats, Magics
    <3> QED BY <2>2, <3>1, FileType DEF PackedFile, Multi, Magics
  <2> QED BY <2>1, <2>2
<1>3. Len(s) \in Nat \ {0} /\ DOMAIN s = 1..Len(s) /\ 1 \in DOMAIN s
  BY <1>1, <1>2
<1>4. Image(f) = f.packed /\ Verdict(f) = StreamVerdict(f)
  BY DEF Image, Verdict
<1>5. J \in Seq(Cell)
  <2>1. Len(s) \in 0..Len(s)
    BY <1>3
  <2> QED BY <1>1, <2>1, JoinedPrefixes
<1>6. \A j \in DOMAIN s : s[j].damage \in {"none", "cut", "altered", "corrupt"}
  <2>1. \A j \in DOMAIN s : s[j] \in Streams
    BY <1>1
  <2> QED BY <2>1 DEF Streams
<1>7. f.made \in {"lzma", "lzw"} => \A j \in DOMAIN s : j = 1
  <2>1. f.made \in {"lzma", "lzw"} => Len(s) = 1
    BY <1>2 DEF Multi
  <2>2. DOMAIN s = 1..Len(s) /\ \A j \in 1..1 : j = 1
    BY <1>3
  <2> HIDE DEF s
  <2> QED BY <2>1, <2>2
<1>8. Unaltered(f) <=>
        ((\A i \in DOMAIN s : s[i].damage \in {"none", "cut"}) => IsPrefix(J, f.packed))
  BY Zenon DEF Unaltered
<1>9. StreamVerdict(f) =
        IF \A i \in DOMAIN s : s[i].opens /\ s[i].damage = "none"
        THEN IF J = f.packed THEN "whole" ELSE "cut"
        ELSE CASE f.made = "lzw" /\ s[1].damage = "cut" -> "cut"
               [] f.made \in {"lzw", "lzma"} /\ s[1].damage = "altered" -> "altered"
               [] OTHER -> "damaged"
  BY Zenon DEF StreamVerdict
<1> HIDE DEF J
<1>10. AllEnd(f) <=> \A j \in DOMAIN s : s[j].opens /\ EndsWell(f.made, s[j])
  BY DEF AllEnd, Ends
<1> HIDE DEF s
<1> DEFINE Goal ==
      /\ Verdict(f) \in {"whole", "damaged", "cut", "altered"}
      /\ Verdict(f) = "damaged" <=> ~AllEnd(f)
      /\ Verdict(f) \in {"whole", "cut"} => IsPrefix(J, Image(f))
      /\ Verdict(f) = "whole" => J = Image(f)
<1>13. SUFFICES Goal
  BY <1>1, <1>2, <1>3, <1>4, <1>5 DEF s, J
<1>11. CASE \A i \in DOMAIN s : s[i].opens /\ s[i].damage = "none"
  <2>1. AllEnd(f)
    BY <1>10, <1>11 DEF EndsWell
  <2>2. IsPrefix(J, f.packed)
    BY <1>2, <1>8, <1>11
  <2> QED BY <1>4, <1>9, <1>11, <2>1, <2>2
<1>12. CASE ~\A i \in DOMAIN s : s[i].opens /\ s[i].damage = "none"
  <2>1. CASE f.made = "lzw" /\ s[1].damage = "cut"
    <3>1. \A j \in DOMAIN s : s[j].opens /\ s[j].damage = "cut"
      BY <1>2, <1>7, <2>1 DEF s
    <3>2. AllEnd(f)
      BY <1>10, <2>1, <3>1 DEF EndsWell
    <3>3. IsPrefix(J, f.packed)
      BY <1>2, <1>8, <3>1
    <3>4. Verdict(f) = "cut"
      BY <1>4, <1>9, <1>12, <2>1
    <3> QED BY <1>4, <3>2, <3>3, <3>4
  <2>2. CASE f.made \in {"lzw", "lzma"} /\ s[1].damage = "altered"
    <3>1. \A j \in DOMAIN s : s[j].opens /\ s[j].damage = "altered"
      BY <1>2, <1>7, <2>2 DEF s
    <3>2. AllEnd(f)
      BY <1>10, <2>2, <3>1 DEF EndsWell
    <3>3. Verdict(f) = "altered"
      BY <1>4, <1>9, <1>12, <2>2
    <3> QED BY <3>2, <3>3
  <2>3. CASE /\ ~(f.made = "lzw" /\ s[1].damage = "cut")
             /\ ~(f.made \in {"lzw", "lzma"} /\ s[1].damage = "altered")
    <3>1. Verdict(f) = "damaged"
      BY <1>4, <1>9, <1>12, <2>3
    <3>2. PICK i \in DOMAIN s : ~(s[i].opens /\ s[i].damage = "none")
      BY <1>12
    <3>3. ASSUME s[i].opens, EndsWell(f.made, s[i]) PROVE FALSE
      <4>1. s[i].damage # "none" /\ f.made \in {"lzw", "lzma"}
        BY <3>2, <3>3 DEF EndsWell
      <4>2. i = 1
        BY <1>7, <4>1
      <4> QED BY <2>3, <3>3, <4>1, <4>2 DEF EndsWell
    <3> QED BY <1>10, <3>1, <3>2, <3>3
  <2> QED BY <2>1, <2>2, <2>3
<1> QED BY <1>11, <1>12

LEMMA PayloadLenType ==
  ASSUME NEW f \in Files, DetectCompression(f) = f.made
  PROVE  PayloadLen(f) \in Nat \union {None}
<1>1. CASE f.made \in {"raw", "vhd"}
  BY <1>1, VerbatimImage
<1>2. CASE f.made \notin {"raw", "vhd"}
  BY <1>2 DEF PayloadLen
<1> QED BY <1>1, <1>2

LEMMA CutsAdjoin ==
  ASSUME NEW r \in Seq(Cell), NEW n \in 1..Len(r)
  PROVE  SubSeq(r, 1, n) \o SubSeq(r, n + 1, Len(r)) = r
<1>1. /\ 1 \in 1..Len(r) + 1 /\ n \in (1 - 1)..Len(r) /\ Len(r) \in n..Len(r)
      /\ Len(r) \in Nat
  OBVIOUS
<1>2. \A m \in 1..Len(r) + 1 : \A k \in (m - 1)..Len(r) : \A l \in k..Len(r) :
        SubSeq(r, m, k) \o SubSeq(r, k + 1, l) = SubSeq(r, m, l)
  BY ConcatAdjacentSubSeq, Zenon
<1>3. SubSeq(r, 1, n) \o SubSeq(r, n + 1, Len(r)) = SubSeq(r, 1, Len(r))
  BY <1>1, <1>2, Zenon
<1> QED BY <1>3, SubSeqFull

LEMMA CellsAssociate ==
  ASSUME NEW x \in Seq(Cell), NEW y \in Seq(Cell), NEW z \in Seq(Cell)
  PROVE  (x \o y) \o z = x \o (y \o z)
BY ConcatAssociative

\* A read moves the first cells that are left behind those delivered.
LEMMA ReadMoves ==
  ASSUME NEW o \in Seq(Cell), NEW r \in Seq(Cell), NEW n \in 1..Len(r)
  PROVE  LET a == SubSeq(r, 1, n)
             b == SubSeq(r, n + 1, Len(r))
         IN  /\ o \o a \in Seq(Cell) /\ b \in Seq(Cell) /\ (o \o a) \o b = o \o r
             /\ Len(o \o a) = Len(o) + n /\ IsPrefix(o, o \o a) /\ o # o \o a
<1> DEFINE a == SubSeq(r, 1, n)
           b == SubSeq(r, n + 1, Len(r))
<1>1. a \in Seq(Cell) /\ b \in Seq(Cell) /\ Len(a) = n /\ Len(o) \in Nat
  OBVIOUS
<1>2. a \o b = r
  BY CutsAdjoin
<1> HIDE DEF a, b
<1>3. o \o a \in Seq(Cell) /\ Len(o \o a) = Len(o) + Len(a)
  BY <1>1, ConcatProperties
<1>4. (o \o a) \o b = o \o r
  <2>1. (o \o a) \o b = o \o (a \o b)
    BY <1>1, CellsAssociate
  <2> QED BY <2>1, <1>2, Zenon
<1>5. IsPrefix(o, o \o a)
  BY <1>1, PrefixOfConcat
<1>6. Len(o \o a) = Len(o) + n /\ o # o \o a
  BY <1>1, <1>3
<1> QED BY <1>1, <1>3, <1>4, <1>5, <1>6 DEF a, b

-----------------------------------------------------------------------------
\* Each action keeps the invariant.

LEMMA InitInvariant ==
  ASSUME Init
  PROVE  IInv
<1>1. file \in Files /\ file.made \in Formats
  BY FileType DEF Init
<1>2. /\ stage = "unmeasured" /\ measured = None /\ format = "raw" /\ rest = <<>>
      /\ sound = TRUE /\ later = <<>> /\ left = None /\ out = <<>>
  BY DEF Init
<1>3. TypeOK
  BY <1>1, <1>2 DEF TypeOK, Formats
<1>4. Recognised
  BY <1>1, <1>2 DEF Recognised
<1>5. Verbatim /\ Streaming /\ Unzipping /\ Finished
  BY <1>2 DEF Verbatim, Streaming, Unzipping, Finished
<1> QED BY <1>3, <1>4, <1>5 DEF IInv

LEMMA MeasureKeeps ==
  ASSUME IInv, Measure
  PROVE  IInv'
<1>0. TypeOK /\ Recognised
  BY DEF IInv
<1>1. file \in Files /\ stage = "unmeasured" /\ out = <<>>
  BY <1>0 DEF Recognised, Measure
<1>2. /\ file' = file /\ format' = format /\ rest' = rest /\ sound' = sound
      /\ later' = later /\ left' = left /\ out' = out
  BY DEF Measure
<1>3. \/ DetectCompression(file) = "refused" /\ stage' = "refused" /\ measured' = measured
      \/ DetectCompression(file) = file.made /\ stage' = "closed" /\ measured' = PayloadLen(file)
  BY <1>1, KindIsDetected DEF Measure
<1>4. TypeOK'
  <2>1. measured' \in Nat \union {None}
    BY <1>0, <1>1, <1>3, PayloadLenType DEF TypeOK
  <2>2. stage' \in {"refused", "closed"}
    BY <1>3
  <2> QED BY <1>0, <1>2, <2>1, <2>2 DEF TypeOK
<1>5. Recognised'
  BY <1>1, <1>2, <1>3 DEF Recognised
<1>6. Verbatim' /\ Streaming' /\ Unzipping' /\ Finished'
  BY <1>3 DEF Verbatim, Streaming, Unzipping, Finished
<1> QED BY <1>4, <1>5, <1>6 DEF IInv

LEMMA OpenVerbatimKeeps ==
  ASSUME IInv, OpenVerbatim
  PROVE  IInv' /\ Verdict(file) = "whole"
<1>0. TypeOK /\ Recognised
  BY DEF IInv
<1>1. /\ file \in Files /\ stage = "closed" /\ out = <<>>
      /\ DetectCompression(file) = file.made /\ measured = PayloadLen(file)
      /\ file.made \in {"raw", "vhd"} /\ file.bytes # <<>>
  BY <1>0 DEF Recognised, OpenVerbatim
<1>2. file' = file /\ measured' = measured /\ out' = out
  BY DEF OpenVerbatim
<1>3. /\ stage' = "open" /\ format' = file.made /\ sound' = TRUE /\ later' = <<>> /\ left' = None
      /\ rest' = Image(file)
  BY <1>1, VerbatimImage DEF OpenVerbatim, Reads
<1>4. Image(file) \in Seq(Cell) /\ Verdict(file) = "whole"
  BY <1>1, VerbatimImage
<1>5. TypeOK'
  BY <1>0, <1>1, <1>2, <1>3, <1>4 DEF TypeOK
<1>6. Recognised'
  BY <1>1, <1>2, <1>3 DEF Recognised
<1>7. Verbatim'
  <2>1. <<>> \o Image(file) = Image(file)
    BY <1>4
  <2> QED BY <1>1, <1>2, <1>3, <1>4, <2>1 DEF Verbatim
<1>8. Streaming' /\ Unzipping' /\ Finished'
  BY <1>1, <1>2, <1>3 DEF Streaming, Unzipping, Finished
<1> QED BY <1>4, <1>5, <1>6, <1>7, <1>8 DEF IInv

LEMMA SubSeqType ==
  ASSUME NEW s \in Seq(Streams), NEW i \in 1..Len(s) + 1
  PROVE  SubSeq(s, i, Len(s)) \in Seq(Streams)
OBVIOUS

LEMMA OpenStreamsKeeps ==
  ASSUME IInv, OpenStreams
  PROVE  IInv' /\ Verdict(file) # "hopeless"
<1>0. TypeOK /\ Recognised
  BY DEF IInv
<1>1. /\ file \in Files /\ stage = "closed" /\ out = <<>>
      /\ DetectCompression(file) = file.made /\ measured = PayloadLen(file)
      /\ file.made \notin {"raw", "vhd", "zip"}
  BY <1>0 DEF Recognised, OpenStreams
<1> DEFINE s == file.streams
<1>2. file' = file /\ measured' = measured /\ out' = out
  BY DEF OpenStreams
<1>3. /\ s \in Seq(Streams) /\ s # <<>> /\ Len(s) \in Nat \ {0}
      /\ file.made \notin Multi => Len(s) = 1
  BY <1>1, StreamedImage
<1>4. /\ s[1] \in Streams /\ s[1].cells \in Seq(Cell) /\ Ends(file, 1) \in BOOLEAN
      /\ Head(s) = s[1] /\ Tail(s) = SubSeq(s, 2, Len(s)) /\ SubSeq(s, 1, Len(s)) = s
      /\ Tail(s) \in Seq(Streams)
  <2>1. s[1] \in Streams /\ Head(s) = s[1] /\ Tail(s) = SubSeq(s, 2, Len(s))
        /\ Tail(s) \in Seq(Streams)
    BY <1>3
  <2>2. SubSeq(s, 1, Len(s)) = s
    BY <1>3, SubSeqFull
  <2> QED BY <2>1, <2>2, EndsType DEF Streams
<1>5. file.made \in Formats
  BY <1>1, FileType
<1>6. /\ stage' = "open" /\ left' = None /\ format' = file.made
      /\ \/ /\ file.made = "zstd" /\ s[1].opens
            /\ rest' = s[1].cells /\ sound' = Ends(file, 1) /\ later' = SubSeq(s, 2, Len(s))
         \/ rest' = <<>> /\ sound' = TRUE /\ later' = s
  <2>1. CASE file.made = "zstd"
    BY <1>1, <1>4, <2>1 DEF OpenStreams, Reads, Ends
  <2>2. CASE file.made # "zstd" /\ file.made \in Multi
    BY <1>1, <2>2 DEF OpenStreams, Reads
  <2>3. CASE file.made # "zstd" /\ file.made \notin Multi
    <3>1. <<Head(s)>> = s
      BY <1>3, <1>4, <2>3
    <3> QED BY <1>1, <2>3, <3>1 DEF OpenStreams, Reads
  <2> QED BY <2>1, <2>2, <2>3
<1> HIDE DEF s
<1>7. later' \in Seq(Streams) /\ rest' \in Seq(Cell) /\ sound' \in BOOLEAN
  <2>1. SubSeq(s, 2, Len(s)) \in Seq(Streams) /\ <<>> \in Seq(Cell)
    BY <1>4
  <2> QED BY <1>3, <1>4, <1>6, <2>1
<1>8. TypeOK'
  <2>1. \A i \in DOMAIN later' : later'[i] \in Streams
    BY <1>7
  <2> QED BY <1>0, <1>2, <1>5, <1>6, <1>7, <2>1 DEF TypeOK
<1>9. Recognised'
  BY <1>1, <1>2, <1>6 DEF Recognised
<1>10. Joined(s)[0] = <<>> /\ Joined(s)[1] = <<>> \o s[1].cells
  <2>1. Joined(s)[0] = <<>> /\ \A n \in 1..Len(s) : Joined(s)[n] = Joined(s)[n - 1] \o s[n].cells
    BY <1>3, JoinedSteps, Zenon
  <2>2. 1 \in 1..Len(s) /\ 1 - 1 = 0
    BY <1>3
  <2>3. Joined(s)[1] = Joined(s)[1 - 1] \o s[1].cells
    BY <2>1, <2>2, Zenon
  <2> QED BY <2>1, <2>2, <2>3, Zenon
<1>11. Streaming'
  <2>1. CASE file.made = "zstd" /\ s[1].opens
             /\ rest' = s[1].cells /\ sound' = Ends(file, 1) /\ later' = SubSeq(s, 2, Len(s))
    <3>1. Begun(1)'
      <4>1. \A j \in 1..1 : s[j].opens /\ (j < 1 => Ends(file, j))
        BY <2>1
      <4>2. later' = SubSeq(s, 1 + 1, Len(s)) /\ out' \o rest' = Joined(s)[1]
        BY <1>1, <1>2, <1>10, <2>1
      <4>3. sound' = (1 = 0 \/ Ends(file, 1))
        BY <1>4, <2>1
      <4> QED BY <1>2, <4>1, <4>2, <4>3, Zenon DEF Begun, Ends, s
    <3>2. 1 \in 0..Len(s)
      BY <1>3
    <3> QED BY <1>1, <1>2, <1>6, <3>1, <3>2 DEF Streaming, s
  <2>2. CASE rest' = <<>> /\ sound' = TRUE /\ later' = s
    <3>1. Begun(0)'
      <4>1. SubSeq(s, 0 + 1, Len(s)) = s
        BY <1>4
      <4>2. <<>> \o <<>> = Joined(s)[0]
        BY <1>10
      <4>3. later' = SubSeq(s, 0 + 1, Len(s)) /\ out' \o rest' = Joined(s)[0]
        BY <1>1, <1>2, <2>2, <4>1, <4>2, Zenon
      <4>4. \A j \in 1..0 : s[j].opens /\ (j < 0 => Ends(file, j))
        OBVIOUS
      <4>5. sound' = (0 = 0 \/ Ends(file, 0))
        BY <2>2, Zenon
      <4> QED BY <1>2, <4>3, <4>4, <4>5, Zenon DEF Begun, Ends, s
    <3>2. 0 \in 0..Len(s)
      BY <1>3
    <3> QED BY <1>1, <1>2, <1>6, <3>1, <3>2 DEF Streaming, s
  <2> QED BY <1>6, <2>1, <2>2
<1>12. Verbatim' /\ Unzipping' /\ Finished'
  BY <1>1, <1>2, <1>6 DEF Verbatim, Unzipping, Finished
<1>13. Verdict(file) # "hopeless"
  BY <1>1, StreamedImage
<1> QED BY <1>8, <1>9, <1>11, <1>12, <1>13 DEF IInv

LEMMA OpenMemberKeeps ==
  ASSUME IInv, OpenMember
  PROVE  IInv' /\ Verdict(file) # "hopeless"
<1>0. TypeOK /\ Recognised
  BY DEF IInv
<1>1. /\ file \in Files /\ stage = "closed" /\ out = <<>>
      /\ DetectCompression(file) = file.made /\ measured = PayloadLen(file)
      /\ file.made = "zip"
  BY <1>0 DEF Recognised, OpenMember
<1>2. file' = file /\ measured' = measured /\ out' = out
  BY DEF OpenMember
<1>3. PICK i \in PickZipMember(file) :
        /\ rest' = Contents(file.members[i]) /\ later' = <<>> /\ left' = file.members[i].size
        /\ sound' = (file.members[i].method = "stored" \/ file.members[i].sound)
        /\ stage' = "open"
  BY DEF OpenMember, Reads
<1> DEFINE m == file.members[i]
<1>4. /\ i = LargestMember(file) /\ PickZipMember(file) = {i} /\ Able(file) # {}
      /\ i \in DOMAIN file.members
      /\ Contents(m) \in Seq(Cell) /\ m.size \in Nat /\ m.size > 0
  BY <1>1, MemberPicked
<1>5. m.sound \in BOOLEAN
  BY <1>1, <1>4, MembersType
<1> HIDE DEF m
<1>6. TypeOK'
  <2>1. sound' \in BOOLEAN
    BY <1>3, <1>5 DEF m
  <2>2. format' = "zip"
    BY DEF OpenMember
  <2> QED BY <1>0, <1>2, <1>3, <1>4, <2>1, <2>2 DEF TypeOK, Formats, m
<1>7. Recognised'
  BY <1>1, <1>2, <1>3 DEF Recognised
<1>8. Unzipping'
  <2>1. <<>> \o Contents(m) = Contents(m) /\ Len(<<>>) = 0
    BY <1>4
  <2>2. m.size = m.size - 0 /\ 0 <= m.size
    BY <1>4
  <2>3. Len(out') = 0 /\ out' \o rest' = Contents(m) /\ left' = m.size - 0
    BY <1>1, <1>2, <1>3, <2>1, <2>2 DEF m
  <2> QED BY <1>2, <1>3, <1>4, <2>2, <2>3 DEF Unzipping, m
<1>9. Verbatim' /\ Streaming' /\ Finished'
  BY <1>1, <1>2, <1>3 DEF Verbatim, Streaming, Finished
<1>10. Verdict(file) # "hopeless"
  BY <1>1, PickedIsHopeful
<1> QED BY <1>6, <1>7, <1>8, <1>9, <1>10 DEF IInv

LEMMA OpenRefusesKeeps ==
  ASSUME IInv, OpenRefuses
  PROVE  IInv' /\ Verdict(file) \in {"damaged", "hopeless"}
<1>0. TypeOK /\ Recognised
  BY DEF IInv
<1>1. /\ file \in Files /\ stage = "closed" /\ out = <<>>
      /\ DetectCompression(file) = file.made
  BY <1>0 DEF Recognised, OpenRefuses
<1>2. /\ stage' = "refused" /\ file' = file /\ measured' = measured /\ format' = format
      /\ rest' = rest /\ sound' = sound /\ later' = later /\ left' = left /\ out' = out
  BY DEF OpenRefuses, Stop
<1>3. IInv'
  BY <1>0, <1>1, <1>2
     DEF IInv, TypeOK, Recognised, Verbatim, Streaming, Unzipping, Finished
<1>4. Verdict(file) \in {"damaged", "hopeless"}
  <2>1. CASE file.made \in {"raw", "vhd"} /\ file.bytes = <<>>
    BY <1>1, <2>1, VerbatimImage
  <2>2. CASE file.made = "zip" /\ PickZipMember(file) = {}
    BY <1>1, <2>2, UnpickedIsNotWhole
  <2>3. CASE file.made = "zstd" /\ ~Head(file.streams).opens
    <3>1. /\ Verdict(file) = "damaged" <=> ~AllEnd(file)
          /\ file.streams \in Seq(Streams) /\ file.streams # <<>>
      BY <1>1, <2>3, StreamedImage
    <3>2. Head(file.streams) = file.streams[1] /\ 1 \in DOMAIN file.streams
      BY <3>1
    <3>3. ~AllEnd(file)
      BY <2>3, <3>2 DEF AllEnd
    <3> QED BY <3>1, <3>3
  <2> QED BY <1>1, <2>1, <2>2, <2>3 DEF OpenRefuses
<1> QED BY <1>3, <1>4

LEMMA ReadKeeps ==
  ASSUME IInv, Read
  PROVE  /\ IInv'
         /\ out' \in Seq(Cell) /\ IsStrictPrefix(out, out')
         /\ Promised(file) # None => Len(out') <= Promised(file)
         /\ Verdict(file) \in {"whole", "cut"} => IsPrefix(out', Image(file))
<1>0. TypeOK /\ Recognised /\ Verbatim /\ Streaming /\ Unzipping
  BY DEF IInv
<1>1. file \in Files /\ stage = "open" /\ rest \in Seq(Cell) /\ out \in Seq(Cell)
  BY <1>0 DEF Recognised, Read, TypeOK
<1>2. PICK n \in 1..MaxRead :
        /\ n <= Len(rest) /\ (left # None => n <= left)
        /\ out' = out \o SubSeq(rest, 1, n)
        /\ rest' = SubSeq(rest, n + 1, Len(rest))
        /\ left' = IF left = None THEN None ELSE left - n
  BY DEF Read
<1>3. /\ file' = file /\ stage' = stage /\ measured' = measured /\ format' = format
      /\ sound' = sound /\ later' = later
  BY DEF Read
<1>4. n \in 1..Len(rest)
  BY <1>1, <1>2, BoundsAssumption
<1>5. /\ out' \in Seq(Cell) /\ rest' \in Seq(Cell) /\ out' \o rest' = out \o rest
      /\ Len(out') = Len(out) + n /\ IsPrefix(out, out') /\ out # out'
  BY <1>1, <1>2, <1>4, ReadMoves
<1>6. IsStrictPrefix(out, out')
  BY <1>5, Zenon DEF IsStrictPrefix
<1>7. IsPrefix(out', out \o rest) /\ out \o rest \in Seq(Cell)
  <2>1. IsPrefix(out', out' \o rest') /\ out' \o rest' \in Seq(Cell)
    BY <1>5, PrefixOfConcat
  <2> QED BY <1>5, <2>1
<1>8. left' \in Nat \union {None}
  BY <1>0, <1>2, <1>4 DEF TypeOK
<1>9. TypeOK'
  BY <1>0, <1>3, <1>5, <1>8 DEF TypeOK
<1>10. Recognised' /\ Finished'
  BY <1>0, <1>1, <1>3 DEF Recognised, Finished
<1>11. CASE file.made \in {"raw", "vhd"}
  <2>1. Verbatim'
    BY <1>0, <1>1, <1>2, <1>3, <1>5, <1>11 DEF Verbatim
  <2>2. Streaming' /\ Unzipping'
    BY <1>3, <1>11 DEF Streaming, Unzipping
  <2>3. Promised(file) = None
    BY <1>11 DEF Promised
  <2>4. IsPrefix(out', Image(file))
    BY <1>0, <1>1, <1>7, <1>11 DEF Verbatim
  <2> QED BY <1>5, <1>6, <1>9, <1>10, <2>1, <2>2, <2>3, <2>4 DEF IInv
<1>12. CASE file.made \notin {"raw", "vhd", "zip"}
  <2>1. PICK i \in 0..Len(file.streams) : left = None /\ format = file.made /\ Begun(i)
    BY <1>0, <1>1, <1>12 DEF Streaming
  <2>2. Begun(i)'
    BY <1>3, <1>5, <2>1, Zenon DEF Begun
  <2>3. Streaming'
    BY <1>2, <1>3, <2>1, <2>2 DEF Streaming
  <2>4. Verbatim' /\ Unzipping'
    BY <1>3, <1>12 DEF Verbatim, Unzipping
  <2>5. Promised(file) = None
    BY <1>12 DEF Promised
  <2> DEFINE J == Joined(file.streams)[Len(file.streams)]
  <2>6. /\ J \in Seq(Cell) /\ Image(file) \in Seq(Cell)
        /\ Verdict(file) \in {"whole", "cut"} => IsPrefix(J, Image(file))
        /\ file.streams \in Seq(Streams) /\ Len(file.streams) \in Nat
    BY <1>1, <1>12, StreamedImage
  <2>7. IsPrefix(out \o rest, J)
    <3>1. IsPrefix(Joined(file.streams)[i], J)
      <4>1. Len(file.streams) \in 0..Len(file.streams)
        BY <2>6
      <4> QED BY <2>1, <2>6, <4>1, JoinedPrefixes
    <3>2. out \o rest = Joined(file.streams)[i]
      BY <2>1 DEF Begun
    <3> QED BY <2>6, <3>1, <3>2
  <2> HIDE DEF J
  <2>8. Verdict(file) \in {"whole", "cut"} => IsPrefix(out', Image(file))
    <3>1. IsPrefix(out', J)
      BY <1>5, <1>7, <2>6, <2>7, PrefixTransitive
    <3> QED BY <1>5, <2>6, <3>1, PrefixTransitive
  <2> QED BY <1>5, <1>6, <1>9, <1>10, <2>3, <2>4, <2>5, <2>8 DEF IInv
<1>13. CASE file.made = "zip"
  <2> DEFINE L == LargestMember(file)
             m == file.members[L]
  <2>1. /\ PickZipMember(file) = {L} /\ Able(file) # {} /\ L \in PickZipMember(file)
        /\ Len(out) <= m.size /\ left = m.size - Len(out)
        /\ sound = (m.method = "stored" \/ m.sound)
        /\ out \o rest = Contents(m)
    BY <1>0, <1>1, <1>13 DEF Unzipping
  <2>2. m.size \in Nat /\ Contents(m) \in Seq(Cell)
    BY <1>1, <2>1, MemberPicked
  <2>3. left # None
    BY <1>1, <2>1, <2>2, NoneAssumption
  <2>4. Len(out') <= m.size /\ left' = m.size - Len(out')
    <3>1. n <= left /\ left' = left - n /\ n \in Nat /\ Len(out) \in Nat
      BY <1>1, <1>2, <2>3
    <3>2. left = m.size - Len(out) /\ Len(out) <= m.size
      BY <2>1
    <3> HIDE DEF m
    <3> QED BY <1>5, <2>2, <3>1, <3>2
  <2>5. Unzipping'
    BY <1>3, <1>5, <2>1, <2>4 DEF Unzipping
  <2>6. Verbatim' /\ Streaming'
    BY <1>3, <1>13 DEF Verbatim, Streaming
  <2>7. Promised(file) = m.size
    BY <1>1, <1>13, <2>1, AbleMeans DEF Promised
  <2>8. Verdict(file) \in {"whole", "cut"} => IsPrefix(out', Image(file))
    <3>1. Verdict(file) = "whole" => Contents(m) = Image(file)
      BY <1>1, <1>13, <2>1, WholeMember
    <3>2. Verdict(file) # "cut"
      BY <1>1, <1>13, <2>1, PickedIsHopeful
    <3> QED BY <1>7, <2>1, <3>1, <3>2
  <2> QED BY <1>5, <1>6, <1>9, <1>10, <2>4, <2>5, <2>6, <2>7, <2>8 DEF IInv
<1> QED BY <1>11, <1>12, <1>13

LEMMA NextStreamKeeps ==
  ASSUME IInv, NextStream
  PROVE  /\ IInv'
         /\ stage' = "open" \/ (stage' = "failed" /\ Verdict(file) = "damaged")
<1>0. TypeOK /\ Recognised /\ Verbatim /\ Streaming /\ Unzipping
  BY DEF IInv
<1>1. /\ file \in Files /\ stage = "open" /\ rest = <<>> /\ sound /\ left = None
      /\ later # <<>> /\ out \in Seq(Cell)
  BY <1>0 DEF Recognised, NextStream, TypeOK
<1>2. /\ file' = file /\ measured' = measured /\ format' = format /\ left' = left /\ out' = out
  BY DEF NextStream
<1>3. file.made \notin {"raw", "vhd"}
  BY <1>0, <1>1 DEF Verbatim
<1>4. file.made # "zip"
  <2>1. SUFFICES ASSUME file.made = "zip" PROVE FALSE
    OBVIOUS
  <2> DEFINE m == file.members[LargestMember(file)]
  <2>2. /\ LargestMember(file) \in PickZipMember(file)
        /\ Len(out) <= m.size /\ left = m.size - Len(out)
    BY <1>0, <1>1, <2>1 DEF Unzipping
  <2>3. m.size \in Nat
    BY <1>1, <2>2, MemberPicked
  <2> HIDE DEF m
  <2>4. m.size - Len(out) \in Nat
    BY <1>1, <2>2, <2>3
  <2> QED BY <1>1, <2>2, <2>4, NoneAssumption
<1> DEFINE s == file.streams
<1>5. /\ s \in Seq(Streams) /\ Len(s) \in Nat \ {0}
      /\ Verdict(file) = "damaged" <=> ~AllEnd(file)
  BY <1>1, <1>3, <1>4, StreamedImage
<1>6. PICK i \in 0..Len(s) : Begun(i) /\ format = file.made
  BY <1>0, <1>1, <1>3, <1>4 DEF Streaming
<1>7. /\ later = SubSeq(s, i + 1, Len(s))
      /\ \A j \in 1..i : s[j].opens /\ (j < i => Ends(file, j))
      /\ i = 0 \/ Ends(file, i)
      /\ out \o rest = Joined(s)[i]
  BY <1>1, <1>6 DEF Begun
<1> HIDE DEF s
<1>8. /\ i + 1 \in 1..Len(s) /\ Head(later) = s[i + 1] /\ s[i + 1] \in Streams
      /\ Tail(later) = SubSeq(s, i + 2, Len(s)) /\ Tail(later) \in Seq(Streams)
  <2>1. i + 1 \in 1..Len(s)
    <3>1. CASE i = Len(s)
      BY <1>1, <1>5, <1>7, <3>1
    <3>2. CASE i # Len(s)
      BY <1>5, <3>2
    <3> QED BY <3>1, <3>2
  <2>2. Len(s) \in i + 1..Len(s)
    BY <1>5, <2>1
  <2>3. Head(later) = s[i + 1] /\ Tail(later) = SubSeq(s, (i + 1) + 1, Len(s))
    BY <1>5, <1>7, <2>1, <2>2, HeadTailOfSubSeq
  <2>4. (i + 1) + 1 = i + 2 /\ i + 2 \in 1..Len(s) + 1 /\ s[i + 1] \in Streams
    BY <1>5, <2>1
  <2>5. SubSeq(s, i + 2, Len(s)) \in Seq(Streams)
    BY <1>5, <2>4, SubSeqType
  <2> QED BY <2>1, <2>3, <2>4, <2>5
<1>9. s[i + 1].opens \in BOOLEAN /\ Ends(file, i + 1) \in BOOLEAN /\ s[i + 1].cells \in Seq(Cell)
  BY <1>8, EndsType DEF Streams
<1>10. CASE s[i + 1].opens
  <2>1. /\ rest' = s[i + 1].cells /\ sound' = Ends(file, i + 1)
        /\ later' = SubSeq(s, i + 2, Len(s)) /\ stage' = stage
    BY <1>6, <1>8, <1>10 DEF NextStream, Ends, s
  <2>2. TypeOK'
    <3>1. later' \in Seq(Streams)
      BY <1>8, <2>1
    <3>2. \A k \in DOMAIN later' : later'[k] \in Streams
      BY <3>1
    <3> QED BY <1>0, <1>2, <1>9, <2>1, <3>2 DEF TypeOK
  <2>3. Begun(i + 1)'
    <3>1. later' = SubSeq(s, (i + 1) + 1, Len(s))
      <4>1. (i + 1) + 1 = i + 2
        BY <1>5
      <4> QED BY <2>1, <4>1
    <3>2. \A j \in 1..i + 1 : s[j].opens /\ (j < i + 1 => Ends(file, j))
      <4>1. ASSUME NEW j \in 1..i + 1 PROVE s[j].opens /\ (j < i + 1 => Ends(file, j))
        <5>1. CASE j = i + 1
          BY <5>1, <1>10
        <5>2. CASE j = i /\ j # 0
          BY <5>2, <1>7
        <5>3. CASE j < i
          BY <5>3, <1>7
        <5> QED BY <5>1, <5>2, <5>3
      <4> QED BY <4>1
    <3>3. i + 1 # 0
      BY <1>8
    <3>4. sound' = (i + 1 = 0 \/ Ends(file, i + 1))
      BY <1>9, <2>1, <3>3
    <3>5. out' \o rest' = Joined(s)[i + 1]
      <4>1. out = Joined(s)[i]
        BY <1>1, <1>7
      <4>2. (i + 1) - 1 = i
        BY <1>5
      <4>3. \A n \in 1..Len(s) : Joined(s)[n] = Joined(s)[n - 1] \o s[n].cells
        BY <1>5, JoinedSteps, Zenon
      <4>4. Joined(s)[i + 1] = Joined(s)[(i + 1) - 1] \o s[i + 1].cells
        BY <1>8, <4>3, Zenon
      <4> QED BY <1>2, <2>1, <4>1, <4>2, <4>4, Zenon
    <3> QED BY <1>2, <3>1, <3>2, <3>4, <3>5, Zenon DEF Begun, Ends, s
  <2>4. Streaming'
    BY <1>1, <1>2, <1>6, <1>8, <2>3 DEF Streaming, s
  <2>5. Recognised' /\ Verbatim' /\ Unzipping' /\ Finished'
    BY <1>0, <1>1, <1>2, <1>3, <1>4, <2>1
       DEF Recognised, Verbatim, Unzipping, Finished
  <2> QED BY <1>1, <2>1, <2>2, <2>4, <2>5 DEF IInv
<1>11. CASE ~s[i + 1].opens
  <2>1. stage' = "failed" /\ rest' = rest /\ sound' = sound /\ later' = later
    BY <1>8, <1>11 DEF NextStream
  <2>2. TypeOK'
    BY <1>0, <1>2, <2>1 DEF TypeOK
  <2>3. Recognised' /\ Verbatim' /\ Streaming' /\ Unzipping' /\ Finished'
    BY <1>0, <1>1, <1>2, <2>1 DEF Recognised, Verbatim, Streaming, Unzipping, Finished
  <2>4. ~AllEnd(file)
    BY <1>5, <1>8, <1>11 DEF AllEnd, s
  <2> QED BY <1>5, <2>1, <2>2, <2>3, <2>4 DEF IInv
<1> QED BY <1>10, <1>11

\* A stop from "open" leaves nothing to keep but what its verdict must be.
LEMMA StopKeeps ==
  ASSUME IInv, stage = "open", NEW how \in {"ended", "failed"}, Stop(how),
         how = "ended" => Delivered
  PROVE  IInv'
<1>1. /\ file' = file /\ stage' = how /\ measured' = measured /\ format' = format
      /\ rest' = rest /\ sound' = sound /\ later' = later /\ left' = left /\ out' = out
  BY DEF Stop
<1>2. TypeOK'
  BY <1>1 DEF IInv, TypeOK
<1>3. Recognised'
  BY <1>1 DEF IInv, Recognised
<1>4. Verbatim' /\ Streaming' /\ Unzipping' /\ Finished'
  BY <1>1 DEF Verbatim, Streaming, Unzipping, Finished, Delivered
<1> QED BY <1>2, <1>3, <1>4 DEF IInv

LEMMA StreamEndsKeeps ==
  ASSUME IInv, StreamEnds
  PROVE  /\ IInv'
         /\ \/ stage' = "ended" /\ Delivered
            \/ stage' = "failed" /\ Verdict(file) = "damaged"
<1>0. TypeOK /\ Recognised /\ Verbatim /\ Streaming /\ Unzipping
  BY DEF IInv
<1>1. /\ file \in Files /\ stage = "open" /\ rest = <<>> /\ left = None /\ out \in Seq(Cell)
      /\ out \o rest = out
  BY <1>0 DEF Recognised, StreamEnds, TypeOK
<1>2. \/ sound /\ later = <<>> /\ Stop("ended")
      \/ ~sound /\ Stop("failed")
  BY DEF StreamEnds
<1>3. CASE file.made \in {"raw", "vhd"}
  <2>1. sound /\ Verdict(file) = "whole" /\ out = Image(file)
    BY <1>0, <1>1, <1>3 DEF Verbatim
  <2>2. Stop("ended")
    BY <1>2, <2>1
  <2>3. stage' = "ended" /\ Delivered
    BY <2>1, <2>2 DEF Stop, Delivered
  <2> QED BY <1>1, <2>2, <2>3, StopKeeps
<1>4. CASE file.made = "zip"
  <2> DEFINE m == file.members[LargestMember(file)]
  <2>1. /\ LargestMember(file) \in PickZipMember(file)
        /\ Len(out) <= m.size /\ left = m.size - Len(out)
    BY <1>0, <1>1, <1>4 DEF Unzipping
  <2>2. m.size \in Nat
    BY <1>1, <2>1, MemberPicked
  <2> HIDE DEF m
  <2>3. m.size - Len(out) \in Nat
    BY <1>1, <2>1, <2>2
  <2> QED BY <1>1, <2>1, <2>3, NoneAssumption
<1>5. CASE file.made \notin {"raw", "vhd", "zip"}
  <2> DEFINE s == file.streams
  <2>1. /\ s \in Seq(Streams) /\ Len(s) \in Nat \ {0}
        /\ Verdict(file) \in {"whole", "damaged", "cut", "altered"}
        /\ Verdict(file) = "damaged" <=> ~AllEnd(file)
        /\ Verdict(file) = "whole" => Joined(s)[Len(s)] = Image(file)
    BY <1>1, <1>5, StreamedImage
  <2>2. PICK i \in 0..Len(s) : Begun(i)
    BY <1>0, <1>1, <1>5 DEF Streaming
  <2>3. /\ later = SubSeq(s, i + 1, Len(s))
        /\ \A j \in 1..i : s[j].opens /\ (j < i => Ends(file, j))
        /\ sound = (i = 0 \/ Ends(file, i))
        /\ out = Joined(s)[i]
    BY <1>1, <2>2 DEF Begun
  <2> HIDE DEF s
  <2>4. CASE sound /\ later = <<>> /\ Stop("ended")
    <3>1. i = Len(s)
      <4>1. SUFFICES ASSUME i # Len(s) PROVE FALSE
        OBVIOUS
      <4>2. Len(SubSeq(s, i + 1, Len(s))) = Len(s) - i /\ Len(s) - i > 0
        BY <2>1, <4>1
      <4>3. Len(later) = 0
        BY <2>4
      <4>4. Len(later) = Len(s) - i
        BY <2>3, <4>2, Zenon
      <4> HIDE DEF s
      <4> QED BY <4>2, <4>3, <4>4
    <3>2. AllEnd(file)
      <4>1. ASSUME NEW j \in 1..Len(s) PROVE s[j].opens /\ Ends(file, j)
        <5>1. CASE j = i
          BY <2>1, <2>3, <2>4, <3>1, <5>1
        <5>2. CASE j # i
          BY <2>1, <2>3, <3>1, <5>2
        <5> QED BY <5>1, <5>2
      <4>2. DOMAIN s = 1..Len(s)
        BY <2>1
      <4> QED BY <4>1, <4>2 DEF AllEnd, s
    <3>3. Delivered
      BY <2>1, <2>3, <3>1, <3>2 DEF Delivered
    <3>4. stage' = "ended"
      BY <2>4 DEF Stop
    <3> QED BY <1>1, <2>4, <3>3, <3>4, StopKeeps
  <2>5. CASE ~sound /\ Stop("failed")
    <3>1. i # 0 /\ ~Ends(file, i)
      BY <2>3, <2>5
    <3>2. i \in DOMAIN s
      BY <2>1, <3>1
    <3>3. Verdict(file) = "damaged"
      BY <2>1, <3>1, <3>2 DEF AllEnd, s
    <3>4. stage' = "failed"
      BY <2>5 DEF Stop
    <3> QED BY <1>1, <2>5, <3>3, <3>4, StopKeeps
  <2> QED BY <1>2, <2>4, <2>5
<1> QED BY <1>3, <1>4, <1>5

\* A member that is promised is the one of a zip.
LEMMA PromiseIsOfZip ==
  ASSUME IInv, stage = "open", left # None
  PROVE  LET L == LargestMember(file)
             m == file.members[L]
         IN  /\ file \in Files /\ file.made = "zip"
             /\ L \in PickZipMember(file) /\ PickZipMember(file) = {L}
             /\ m.size \in Nat /\ Contents(m) \in Seq(Cell)
             /\ Len(out) <= m.size /\ left = m.size - Len(out)
             /\ sound = (m.method = "stored" \/ m.sound)
             /\ out \o rest = Contents(m) /\ out \in Seq(Cell) /\ rest \in Seq(Cell)
<1>1. file \in Files /\ out \in Seq(Cell) /\ rest \in Seq(Cell)
  BY DEF IInv, Recognised, TypeOK
<1>2. file.made = "zip"
  BY DEF IInv, Verbatim, Streaming
<1> DEFINE L == LargestMember(file)
           m == file.members[L]
<1>3. /\ L \in PickZipMember(file) /\ PickZipMember(file) = {L}
      /\ Len(out) <= m.size /\ left = m.size - Len(out)
      /\ sound = (m.method = "stored" \/ m.sound)
      /\ out \o rest = Contents(m)
  BY <1>2 DEF IInv, Unzipping
<1>4. m.size \in Nat /\ Contents(m) \in Seq(Cell)
  BY <1>1, <1>3, MemberPicked
<1> QED BY <1>1, <1>2, <1>3, <1>4

LEMMA MemberEndsShortKeeps ==
  ASSUME IInv, MemberEndsShort
  PROVE  IInv' /\ stage' = "failed" /\ Verdict(file) = "damaged"
<1>1. stage = "open" /\ left # None /\ left # 0 /\ rest = <<>> /\ Stop("failed")
  BY DEF MemberEndsShort
<1>2. stage' = "failed" /\ IInv'
  BY <1>1, StopKeeps DEF Stop
<1> DEFINE L == LargestMember(file)
           m == file.members[L]
<1>3. /\ file \in Files /\ file.made = "zip" /\ L \in PickZipMember(file)
      /\ m.size \in Nat /\ left = m.size - Len(out)
      /\ out \o rest = Contents(m) /\ out \in Seq(Cell)
  BY <1>1, PromiseIsOfZip
<1>4. out = Contents(m)
  BY <1>1, <1>3
<1>5. Verdict(file) \in {"whole", "damaged"}
  BY <1>3, PickedIsHopeful
<1>6. Verdict(file) = "whole" => m.size = Len(m.packed) /\ Contents(m) = m.packed
  BY <1>3, WholeMember
<1>7. m.size # Len(out)
  <2> HIDE DEF m
  <2> QED BY <1>1, <1>3
<1> QED BY <1>2, <1>4, <1>5, <1>6, <1>7

LEMMA MemberEndsKeeps ==
  ASSUME IInv, MemberEnds
  PROVE  /\ IInv'
         /\ \/ stage' = "ended" /\ Verdict(file) = "whole" /\ out = Image(file)
            \/ stage' = "failed" /\ Verdict(file) = "damaged"
<1>1. stage = "open" /\ left = 0 /\ left # None
  BY NoneAssumption DEF MemberEnds
<1> DEFINE L == LargestMember(file)
           m == file.members[L]
           kept == rest = <<>> /\ sound /\ m.crc = out
<1>2. /\ file \in Files /\ file.made = "zip"
      /\ L \in PickZipMember(file) /\ PickZipMember(file) = {L}
      /\ m.size \in Nat /\ Contents(m) \in Seq(Cell)
      /\ Len(out) <= m.size /\ left = m.size - Len(out)
      /\ sound = (m.method = "stored" \/ m.sound)
      /\ out \o rest = Contents(m) /\ out \in Seq(Cell) /\ rest \in Seq(Cell)
  BY <1>1, PromiseIsOfZip
<1>3. \/ kept /\ Stop("ended")
      \/ ~kept /\ Stop("failed")
  BY <1>2 DEF MemberEnds
<1>4. m.size = Len(out)
  <2> HIDE DEF m
  <2> QED BY <1>1, <1>2
<1>5. CASE kept /\ Stop("ended")
  <2>1. out = Contents(m)
    BY <1>2, <1>5
  <2>2. Verdict(file) = "whole" /\ Image(file) = Contents(m)
    BY <1>2, <1>4, <1>5, <2>1, KeptPromise
  <2>3. stage' = "ended"
    BY <1>5 DEF Stop
  <2>4. Delivered
    BY <2>1, <2>2 DEF Delivered
  <2> QED BY <1>1, <1>5, <2>1, <2>2, <2>3, <2>4, StopKeeps
<1>6. CASE ~kept /\ Stop("failed")
  <2>1. stage' = "failed" /\ IInv'
    BY <1>1, <1>6, StopKeeps DEF Stop
  <2>2. SUFFICES ASSUME Verdict(file) = "whole" PROVE FALSE
    BY <1>2, <2>1, PickedIsHopeful
  <2>3. /\ m.size = Len(m.packed) /\ m.crc = m.packed /\ Contents(m) = m.packed
        /\ m.method = "deflated" => m.sound
    BY <1>2, <2>2, WholeMember
  <2>4. m.method \in {"stored", "deflated"}
    BY <1>2, MemberPicked
  <2>5. sound
    BY <1>2, <2>3, <2>4
  <2>6. Len(out \o rest) = Len(out) + Len(rest) /\ Len(out \o rest) = Len(out)
    <3>1. Len(out \o rest) = Len(out)
      BY <1>2, <1>4, <2>3, Zenon
    <3>2. Len(out \o rest) = Len(out) + Len(rest)
      BY <1>2, ConcatProperties
    <3> QED BY <3>1, <3>2
  <2>7. rest = <<>>
    BY <1>2, <2>6
  <2>8. out = Contents(m)
    BY <1>2, <2>7
  <2> QED BY <1>6, <2>3, <2>5, <2>7, <2>8
<1> QED BY <1>3, <1>5, <1>6

LEMMA StepKeeps ==
  ASSUME IInv, [Next]_vars
  PROVE  IInv'
<1>1. CASE UNCHANGED vars
  BY <1>1 DEF vars, IInv, TypeOK, Recognised, Verbatim, Streaming, Begun, Unzipping, Finished,
              Delivered
<1>2. CASE Next
  BY <1>2, MeasureKeeps, OpenVerbatimKeeps, OpenStreamsKeeps, OpenMemberKeeps,
     OpenRefusesKeeps, ReadKeeps, NextStreamKeeps, StreamEndsKeeps, MemberEndsKeeps,
     MemberEndsShortKeeps DEF Next
<1> QED BY <1>1, <1>2

LEMMA Invariance == Spec => []IInv
BY InitInvariant, StepKeeps, PTL DEF Spec

\* Whatever the file and however damaged, the readers keep to their types: no
\* more is taken of a member than was promised of it.
THEOREM TypeCorrect == Spec => []TypeOK
BY Invariance, PTL DEF IInv

\* What payload_len answers before a drive is wiped is what the image puts on it.
THEOREM MeasuredLengthIsDelivered == Spec => []MeasuredIsDelivered
<1>1. ASSUME IInv PROVE MeasuredIsDelivered
  <2>1. SUFFICES ASSUME stage = "ended", measured # None PROVE Len(out) = measured
    BY DEF MeasuredIsDelivered
  <2>2. /\ file \in Files /\ DetectCompression(file) = file.made
        /\ measured = PayloadLen(file) /\ Delivered
    BY <1>1, <2>1 DEF IInv, Recognised, Finished
  <2>3. file.made \in {"raw", "vhd"}
    BY <2>1, <2>2 DEF PayloadLen
  <2>4. Verdict(file) \in {"whole", "hopeless"}
    BY <2>3 DEF Verdict
  <2>5. out = Image(file)
    BY <2>2, <2>4 DEF Delivered
  <2> QED BY <2>2, <2>3, <2>5, VerbatimImage
<1> QED BY <1>1, Invariance, PTL

-----------------------------------------------------------------------------
\* The refinement of ImageSource.

LEMMA ImageType ==
  ASSUME NEW f \in Files
  PROVE  Image(f) \in Seq(Cell) /\ Promised(f) \in Nat \union {None}
         /\ Verdict(f) \in {"whole", "damaged", "hopeless", "cut", "altered"}
<1>1. CASE f.made \in {"raw", "vhd"}
  <2>1. Promised(f) = None /\ Verdict(f) \in {"whole", "hopeless"}
    BY <1>1 DEF Promised, Verdict
  <2>2. CASE DetectCompression(f) = f.made
    BY <1>1, <2>1, <2>2, VerbatimImage
  <2>3. CASE f.made = "vhd" /\ DetectCompression(f) # f.made
    <3>1. f.tail = None \/ (f.tail \in Footers /\ ParseTail(f.tail, Len(f.bytes)))
      BY <2>3, FileType DEF VhdFile
    <3>2. CASE f.tail = None
      BY <2>1, <2>3, <3>2 DEF Image
    <3>3. CASE f.tail # None
      <4> DEFINE n == Len(f.bytes) - f.tail.length
      <4>1. f.bytes \in Seq(Cell) /\ f.tail.length \in Nat /\ Len(f.bytes) > f.tail.length
        BY <3>1, <3>3, FileType DEF Footers, ParseTail
      <4>2. n \in Nat /\ n <= Len(f.bytes)
        BY <4>1
      <4>3. Image(f) = SubSeq(f.bytes, 1, n)
        BY <2>3, <3>3 DEF Image
      <4> HIDE DEF n
      <4>4. SubSeq(f.bytes, 1, n) \in Seq(Cell)
        BY <4>1, <4>2
      <4> QED BY <2>1, <4>3, <4>4
    <3> QED BY <3>2, <3>3
  <2> QED BY <1>1, <2>2, <2>3, RawIsDetected
<1>2. CASE f.made \notin {"raw", "vhd", "zip"}
  BY <1>2, StreamedImage DEF Promised
<1>3. CASE f.made = "zip"
  <2>1. Verdict(f) \in {"whole", "damaged", "hopeless"}
    BY <1>3 DEF Verdict, ZipVerdict
  <2>2. CASE Able(f) = {}
    <3>1. Image(f) = <<>> /\ Promised(f) = None
      BY <1>3, <2>2, AbleMeans DEF Image, Promised
    <3> QED BY <2>1, <3>1
  <2>3. CASE Able(f) # {}
    <3>1. LargestMember(f) \in DOMAIN f.members
      BY <2>3, LargestIsAble
    <3>2. /\ f.members[LargestMember(f)].packed \in Seq(Cell)
          /\ f.members[LargestMember(f)].size \in Nat
      BY <3>1, MembersType
    <3>3. Image(f) = f.members[LargestMember(f)].packed
      BY <1>3, <2>3, AbleMeans DEF Image
    <3>4. Promised(f) = f.members[LargestMember(f)].size
      BY <1>3, <2>3, AbleMeans DEF Promised
    <3> QED BY <2>1, <3>2, <3>3, <3>4
  <2> QED BY <2>2, <2>3
<1> QED BY <1>1, <1>2, <1>3

LEMMA InitRefines ==
  ASSUME Init
  PROVE  Source!Init
<1>1. file \in Files /\ stage = "unmeasured" /\ out = <<>>
  BY DEF Init
<1>2. Stage = "closed"
  BY <1>1 DEF Stage
<1> QED BY <1>1, <1>2, ImageType DEF Source!Init

\* A step of the readers is one of the source, or changes nothing that it sees.
LEMMA StepRefines ==
  ASSUME IInv, [Next]_vars
  PROVE  [Source!Next]_(Source!vars)
<1>0. file \in Files
  BY DEF IInv, Recognised
<1>1. CASE UNCHANGED vars
  <2>1. file' = file /\ Stage' = Stage /\ out' = out
    BY <1>1 DEF vars, Stage
  <2> QED BY <2>1, Zenon DEF Source!vars
<1>2. CASE Measure
  <2>1. file' = file /\ out' = out /\ stage = "unmeasured" /\ stage' \in {"refused", "closed"}
    BY <1>2 DEF Measure
  <2>2. CASE stage' = "closed"
    <3>1. Stage' = Stage
      BY <2>1, <2>2 DEF Stage
    <3> QED BY <2>1, <3>1, Zenon DEF Source!vars
  <2>3. CASE stage' = "refused"
    <3>1. Stage = "closed" /\ Stage' = "refused"
      BY <2>1, <2>3 DEF Stage
    <3>2. Verdict(file) \in {"damaged", "hopeless"}
      <4>1. DetectCompression(file) = "refused"
        BY <1>2, <2>3 DEF Measure
      <4>2. file.made # "refused"
        BY <1>0, FileType DEF Formats
      <4> QED BY <1>0, <4>1, <4>2, KindIsDetected
    <3>3. Source!Refuse
      BY <2>1, <3>1, <3>2 DEF Source!Refuse
    <3> QED BY <3>3, Zenon DEF Source!Next
  <2> QED BY <2>1, <2>2, <2>3
<1>3. CASE OpenVerbatim \/ OpenStreams \/ OpenMember
  <2>1. Verdict(file) # "hopeless"
    BY <1>3, OpenVerbatimKeeps, OpenStreamsKeeps, OpenMemberKeeps
  <2>2. file' = file /\ out' = out /\ stage = "closed" /\ stage' = "open"
    BY <1>3 DEF OpenVerbatim, OpenStreams, OpenMember, Reads
  <2>3. Stage = "closed" /\ Stage' = "open"
    BY <2>2 DEF Stage
  <2>4. Source!Open
    BY <2>1, <2>2, <2>3 DEF Source!Open
  <2> QED BY <2>4, Zenon DEF Source!Next
<1>4. CASE OpenRefuses
  <2>1. Verdict(file) \in {"damaged", "hopeless"}
    BY <1>4, OpenRefusesKeeps
  <2>2. file' = file /\ out' = out /\ Stage = "closed" /\ Stage' = "refused"
    BY <1>4 DEF OpenRefuses, Stop, Stage
  <2>3. Source!Refuse
    BY <2>1, <2>2 DEF Source!Refuse
  <2> QED BY <2>3, Zenon DEF Source!Next
<1>5. CASE Read
  <2>1. /\ out' \in Seq(Cell) /\ IsStrictPrefix(out, out')
        /\ Promised(file) # None => Len(out') <= Promised(file)
        /\ Verdict(file) \in {"whole", "cut"} => IsPrefix(out', Image(file))
    BY <1>5, ReadKeeps
  <2>2. file' = file /\ stage = "open" /\ stage' = "open"
    BY <1>5 DEF Read
  <2>3. Stage = "open" /\ Stage' = Stage
    BY <2>2 DEF Stage
  <2>4. Source!Deliver
    BY <2>1, <2>2, <2>3, Zenon DEF Source!Deliver, Source!IsStrictPrefix, Source!IsPrefix,
       IsStrictPrefix, IsPrefix
  <2> QED BY <2>4, Zenon DEF Source!Next
<1>6. CASE NextStream \/ StreamEnds \/ MemberEnds \/ MemberEndsShort
  <2>1. \/ stage' = "open"
        \/ stage' = "ended" /\ Delivered
        \/ stage' = "failed" /\ Verdict(file) = "damaged"
    BY <1>6, NextStreamKeeps, StreamEndsKeeps, MemberEndsKeeps, MemberEndsShortKeeps DEF Delivered
  <2>2. file' = file /\ out' = out /\ stage = "open"
    BY <1>6 DEF NextStream, StreamEnds, MemberEnds, MemberEndsShort, Stop
  <2>3. Stage = "open" /\ Stage' = stage'
    BY <2>1, <2>2 DEF Stage
  <2>4. CASE stage' = "open"
    BY <2>2, <2>3, <2>4, Zenon DEF Source!vars
  <2>5. CASE stage' = "ended" /\ Delivered
    <3>1. Source!End
      BY <2>2, <2>3, <2>5 DEF Source!End, Delivered
    <3> QED BY <3>1, Zenon DEF Source!Next
  <2>6. CASE stage' = "failed" /\ Verdict(file) = "damaged"
    <3>1. Source!Fail
      BY <2>2, <2>3, <2>6 DEF Source!Fail
    <3> QED BY <3>1, Zenon DEF Source!Next
  <2> QED BY <2>1, <2>4, <2>5, <2>6
<1> QED BY <1>1, <1>2, <1>3, <1>4, <1>5, <1>6 DEF Next

\* The writer is given the image that was packed, whatever in, and told of its end
\* when it has it all; or the file has lost something of which it shows no trace.
THEOREM ImageIsDelivered == Spec => DeliversImage
<1>1. Init => Source!Init
  BY InitRefines
<1>2. IInv /\ [Next]_vars => [Source!Next]_(Source!vars)
  BY StepRefines
<1> QED BY Invariance, <1>1, <1>2, PTL DEF Spec, DeliversImage, Source!Spec
=============================================================================
