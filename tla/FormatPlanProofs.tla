-------------------------- MODULE FormatPlanProofs --------------------------
(***************************************************************************)
(* Theorems about FormatPlan for every drive of 2 to 512 GiB, to the unit  *)
(* of 512 bytes: TLC looks at the sizes about the limits, these hold for   *)
(* those in between.  The arithmetic comes first, one lemma for each       *)
(* bound, and then the invariant that carries it from step to step.        *)
(***************************************************************************)
EXTENDS FormatPlan, FiniteSetTheorems, TLAPS

Sectors == {512, 1024, 2048, 4096, 8192, 16384}

LEMMA Sizes == GB \in Nat /\ 2^28 - 12 <= 128 * GB
  BY DEF GB, MB

LEMMA DriveType ==
  ASSUME NEW d \in Drives
  PROVE  /\ d \in Volume /\ d.size \in Nat /\ d.sector \in Sectors
         /\ Safe(d) => d.size >= 2 * GB /\ d.size <= 512 * GB
<1>0. GB \in Nat
  BY DEF GB, MB
<1>1. d \in Volume /\ d.size \in Nat
  BY <1>0, VolumesAssumption DEF Volume
<1>2. PICK k \in 9..16 : d.sector = 2^k
  BY <1>1 DEF Volume
<1>3. d.sector <= 16384
  BY SectorsAssumption
<1>4. d.sector \in Sectors
  <2>1. k = 9 \/ k = 10 \/ k = 11 \/ k = 12 \/ k = 13 \/ k = 14 \/ k = 15 \/ k = 16
    OBVIOUS
  <2>2. CASE k = 9
    BY <1>2, <2>2 DEF Sectors
  <2>3. CASE k = 10
    BY <1>2, <2>3 DEF Sectors
  <2>4. CASE k = 11
    BY <1>2, <2>4 DEF Sectors
  <2>5. CASE k = 12
    BY <1>2, <2>5 DEF Sectors
  <2>6. CASE k = 13
    BY <1>2, <2>6 DEF Sectors
  <2>7. CASE k = 14
    BY <1>2, <2>7 DEF Sectors
  <2>8. CASE k = 15
    BY <1>2, <1>3, <2>8
  <2>9. CASE k = 16
    BY <1>2, <1>3, <2>9
  <2> QED
    BY <2>1, <2>2, <2>3, <2>4, <2>5, <2>6, <2>7, <2>8, <2>9
<1>5. Safe(d) => d.size >= 2 * GB /\ d.size <= 512 * GB
  BY <1>0, <1>1 DEF Safe
<1> QED
  BY <1>1, <1>4, <1>5

-----------------------------------------------------------------------------
\* The cluster sizes.

\* So many numbers from 0 to n.
LEMMA Few ==
  ASSUME NEW n \in Nat, NEW S, \A k \in S : k \in Nat /\ k <= n
  PROVE  Cardinality(S) \in Nat /\ Cardinality(S) <= n + 1
<1>1. IsFiniteSet(0..n) /\ Cardinality(0..n) = n + 1
  BY FS_Interval
<1>2. S \in SUBSET (0..n)
  OBVIOUS
<1> QED
  BY <1>1, <1>2, FS_Subset, FS_CardinalityType

\* A drive below the limit of 2^k times 32 MB has passed no more than k limits.
LEMMA FewShifts ==
  ASSUME NEW size \in Nat
  PROVE  /\ Shifts(size) \in Nat /\ Shifts(size) <= 11
         /\ size < Threshold(2048) => Shifts(size) <= 6
         /\ size < Threshold(4096) => Shifts(size) <= 7
         /\ size < Threshold(8192) => Shifts(size) <= 8
         /\ size < Threshold(16384) => Shifts(size) <= 9
         /\ size < Threshold(32768) => Shifts(size) <= 10
<1> DEFINE S == {k \in 0..10 : size >= Threshold(32 * 2^k)}
<1>1. \A k \in S : k \in Nat /\ k <= 10
  OBVIOUS
<1>2. \A k \in S : size >= Threshold(32 * 2^k)
  OBVIOUS
<1>3. Shifts(size) = Cardinality(S)
  BY DEF Shifts
<1> HIDE DEF S
<1>4. /\ 6 \in S => size >= Threshold(2048)
      /\ 7 \in S => size >= Threshold(4096)
      /\ 8 \in S => size >= Threshold(8192)
      /\ 9 \in S => size >= Threshold(16384)
      /\ 10 \in S => size >= Threshold(32768)
  <2>1. \A k \in S : \A n : n = 32 * 2^k => size >= Threshold(n)
    BY <1>2
  <2>2. \A k : k = 6 => 2048 = 32 * 2^k
    OBVIOUS
  <2>3. \A k : k = 7 => 4096 = 32 * 2^k
    OBVIOUS
  <2>4. \A k : k = 8 => 8192 = 32 * 2^k
    OBVIOUS
  <2>5. \A k : k = 9 => 16384 = 32 * 2^k
    OBVIOUS
  <2>6. \A k : k = 10 => 32768 = 32 * 2^k
    OBVIOUS
  <2> QED
    BY <2>1, <2>2, <2>3, <2>4, <2>5, <2>6
<1>5. /\ Threshold(2048) < Threshold(4096) /\ Threshold(4096) < Threshold(8192)
      /\ Threshold(4096) < Threshold(16384) /\ Threshold(4096) < Threshold(32768)
      /\ Threshold(8192) < Threshold(16384) /\ Threshold(16384) < Threshold(32768)
      /\ Threshold(2048) \in Nat /\ Threshold(4096) \in Nat /\ Threshold(8192) \in Nat
      /\ Threshold(16384) \in Nat /\ Threshold(32768) \in Nat
  BY DEF Threshold, MB
<1>6. ASSUME size < Threshold(4096) PROVE Shifts(size) <= 7
  <2>1. 7 \notin S /\ 8 \notin S /\ 9 \notin S /\ 10 \notin S
    BY <1>4, <1>5, <1>6
  <2>2. \A k \in S : k \in Nat /\ k <= 6
    BY <1>1, <2>1
  <2> QED
    BY <1>3, <2>2, Few
<1>7. ASSUME size < Threshold(2048) PROVE Shifts(size) <= 6
  <2>1. 6 \notin S /\ 7 \notin S /\ 8 \notin S /\ 9 \notin S /\ 10 \notin S
    BY <1>4, <1>5, <1>7
  <2>2. \A k \in S : k \in Nat /\ k <= 5
    BY <1>1, <2>1
  <2> QED
    BY <1>3, <2>2, Few
<1>8. ASSUME size < Threshold(8192) PROVE Shifts(size) <= 8
  <2>1. 8 \notin S /\ 9 \notin S /\ 10 \notin S
    BY <1>4, <1>5, <1>8
  <2>2. \A k \in S : k \in Nat /\ k <= 7
    BY <1>1, <2>1
  <2> QED
    BY <1>3, <2>2, Few
<1>9. ASSUME size < Threshold(16384) PROVE Shifts(size) <= 9
  <2>1. 9 \notin S /\ 10 \notin S
    BY <1>4, <1>5, <1>9
  <2>2. \A k \in S : k \in Nat /\ k <= 8
    BY <1>1, <2>1
  <2> QED
    BY <1>3, <2>2, Few
<1>10. ASSUME size < Threshold(32768) PROVE Shifts(size) <= 10
  <2>1. 10 \notin S
    BY <1>4, <1>5, <1>10
  <2>2. \A k \in S : k \in Nat /\ k <= 9
    BY <1>1, <2>1
  <2> QED
    BY <1>3, <2>2, Few
<1> QED
  BY <1>1, <1>3, <1>6, <1>7, <1>8, <1>9, <1>10, Few

\* One of 2 GiB has passed six limits, and one beyond the limit at 2048 MB seven.
LEMMA ManyShifts ==
  ASSUME NEW size \in Nat, size >= 2 * GB - MB
  PROVE  Shifts(size) >= 6 /\ (size >= Threshold(2048) => Shifts(size) >= 7)
<1> DEFINE S == {k \in 0..10 : size >= Threshold(32 * 2^k)}
<1>1. Shifts(size) = Cardinality(S) /\ S \in SUBSET (0..10)
  BY DEF Shifts
<1>2. \A k \in 0..10 : size >= Threshold(32 * 2^k) => k \in S
  OBVIOUS
<1> HIDE DEF S
<1>3. IsFiniteSet(S)
  <2>1. PICK m \in Nat : m = 10
    OBVIOUS
  <2>2. IsFiniteSet(0..m)
    BY FS_Interval
  <2>3. S \in SUBSET (0..m)
    BY <1>1, <2>1
  <2> QED
    BY <2>2, <2>3, FS_Subset
<1>4. ASSUME NEW m \in Nat, \A k \in 0..m : k \in S
      PROVE  Cardinality(S) >= m + 1
  <2>1. 0..m \in SUBSET S
    BY <1>4
  <2>2. Cardinality(0..m) = m + 1
    BY FS_Interval
  <2>3. Cardinality(0..m) <= Cardinality(S)
    BY <1>3, <2>1, FS_Subset
  <2>4. Cardinality(S) \in Nat
    BY <1>3, FS_CardinalityType
  <2> QED
    BY <2>2, <2>3, <2>4
<1>5. /\ size >= Threshold(32) /\ size >= Threshold(64) /\ size >= Threshold(128)
      /\ size >= Threshold(256) /\ size >= Threshold(512) /\ size >= Threshold(1024)
  BY DEF Threshold, GB, MB
<1>6. 0 \in S /\ 1 \in S /\ 2 \in S /\ 3 \in S /\ 4 \in S /\ 5 \in S
  <2>1. \A k \in 0..10 : \A n : n = 32 * 2^k /\ size >= Threshold(n) => k \in S
    BY <1>2
  <2>2. \A k : k = 0 => 32 = 32 * 2^k
    OBVIOUS
  <2>3. \A k : k = 1 => 64 = 32 * 2^k
    OBVIOUS
  <2>4. \A k : k = 2 => 128 = 32 * 2^k
    OBVIOUS
  <2>5. \A k : k = 3 => 256 = 32 * 2^k
    OBVIOUS
  <2>6. \A k : k = 4 => 512 = 32 * 2^k
    OBVIOUS
  <2>7. \A k : k = 5 => 1024 = 32 * 2^k
    OBVIOUS
  <2> QED
    BY <1>5, <2>1, <2>2, <2>3, <2>4, <2>5, <2>6, <2>7
<1>7. size >= Threshold(2048) => 6 \in S
  <2>1. \A k \in 0..10 : \A n : n = 32 * 2^k /\ size >= Threshold(n) => k \in S
    BY <1>2
  <2>2. \A k : k = 6 => 2048 = 32 * 2^k
    OBVIOUS
  <2> QED
    BY <2>1, <2>2
<1>8. Cardinality(S) >= 6
  <2>1. \A k \in 0..5 : k \in S
    BY <1>6
  <2>2. Cardinality(S) >= 5 + 1
    BY <1>4, <2>1
  <2> QED
    BY <2>2
<1>9. ASSUME size >= Threshold(2048) PROVE Cardinality(S) >= 7
  <2>1. \A k \in 0..6 : k \in S
    BY <1>6, <1>7, <1>9
  <2>2. Cardinality(S) >= 6 + 1
    BY <1>4, <2>1
  <2> QED
    BY <2>2
<1> QED
  BY <1>1, <1>8, <1>9

\* What the masks allow of the filesystems of a Windows medium.
LEMMA MaskBounds ==
  ASSUME NEW volume, volume.size \in Nat, NEW fs \in {"fat32", "ntfs"},
         NEW n \in ClusterMask(fs, volume)
  PROVE  /\ n \in 9..16 /\ 2^n >= volume.sector
         /\ fs = "fat32" => /\ n <= 8 + Shifts(volume.size)
                            /\ volume.size >= 32 * GB => n >= 14
<1>1. n \in RufusMask(fs, volume.size) /\ 2^n >= volume.sector
  BY DEF ClusterMask
<1>2. CASE fs = "fat32"
  <2>1. /\ n \in (3 + Shifts(volume.size))..(8 + Shifts(volume.size)) /\ n \in 9..16
        /\ volume.size >= 32 * GB => n >= 14
    BY <1>1, <1>2 DEF RufusMask
  <2> QED
    BY <1>1, <2>1, FewShifts
<1>3. CASE fs = "ntfs"
  BY <1>1, <1>3 DEF RufusMask
<1> QED
  BY <1>2, <1>3

\* A set of cluster sizes has a smallest.
LEMMA SmallestCluster ==
  ASSUME NEW S, S \subseteq 9..16, S # {}
  PROVE  Min(S) \in S
<1>1. \E x \in S : \A y \in S : x <= y
  <2>1. \A x \in S : x = 9 \/ x = 10 \/ x = 11 \/ x = 12 \/ x = 13 \/ x = 14 \/ x = 15 \/ x = 16
    OBVIOUS
  <2>2. CASE 9 \in S
    BY <2>2
  <2>3. CASE 9 \notin S /\ 10 \in S
    BY <2>3
  <2>4. CASE 9 \notin S /\ 10 \notin S /\ 11 \in S
    BY <2>4
  <2>5. CASE 9 \notin S /\ 10 \notin S /\ 11 \notin S /\ 12 \in S
    BY <2>5
  <2>6. CASE 9 \notin S /\ 10 \notin S /\ 11 \notin S /\ 12 \notin S /\ 13 \in S
    BY <2>6
  <2>7. CASE /\ 9 \notin S /\ 10 \notin S /\ 11 \notin S /\ 12 \notin S /\ 13 \notin S
             /\ 14 \in S
    BY <2>7
  <2>8. CASE /\ 9 \notin S /\ 10 \notin S /\ 11 \notin S /\ 12 \notin S /\ 13 \notin S
             /\ 14 \notin S /\ 15 \in S
    BY <2>1, <2>8
  <2>9. CASE /\ 9 \notin S /\ 10 \notin S /\ 11 \notin S /\ 12 \notin S /\ 13 \notin S
             /\ 14 \notin S /\ 15 \notin S
    <3>1. \A x \in S : x = 16
      BY <2>1, <2>9
    <3>2. 16 \in S
      BY <3>1
    <3> QED
      BY <3>1, <3>2
  <2> QED
    BY <2>2, <2>3, <2>4, <2>5, <2>6, <2>7, <2>8, <2>9
<1> QED
  BY <1>1 DEF Min

\* The size a plan settles on is one the masks allow.
LEMMA PlannedIsAllowed ==
  ASSUME NEW volume, volume.size \in Nat, NEW r, r.fs \in {"fat32", "ntfs"}, Valid(r, volume)
  PROVE  PlannedCluster(r, volume) \in ClusterMask(r.fs, volume)
<1>1. ClusterMask(r.fs, volume) \subseteq 9..16 /\ ClusterMask(r.fs, volume) # {}
  BY MaskBounds DEF Valid
<1>2. Min(ClusterMask(r.fs, volume)) \in ClusterMask(r.fs, volume)
  BY <1>1, SmallestCluster
<1>3. DefaultClusterSize(r.fs, volume) \in ClusterMask(r.fs, volume)
  BY <1>2 DEF DefaultClusterSize
<1> QED
  BY <1>3 DEF PlannedCluster, Valid

-----------------------------------------------------------------------------
\* The partitions.

\* What PartitionsHold asks of them.
Holding(p, d) ==
  /\ p.data.start % Mib(d) = 0 /\ p.data.start > 33 /\ p.data.size > 0
  /\ p.data.start + p.data.size - 1 <= Total(d) - 34
  /\ p.helper # None =>
       /\ p.data.start + p.data.size <= p.helper.start /\ p.helper.start % Mib(d) = 0
       /\ p.helper.start + Helper(d) - 1 <= Total(d) - 34

LEMMA PartitionsFit ==
  ASSUME NEW d \in Drives, Safe(d), NEW layout \in Layout
  PROVE  /\ Holding(PartitionsFor(layout, d), d)
         /\ LastUsable(d) > Mib(d) + Helper(d)
         /\ LastUsable(d) \in Int /\ Mib(d) + Helper(d) \in Int
<1>1. /\ d.size \in Nat /\ d.size >= 2 * GB /\ d.size <= 512 * GB
      /\ d.sector \in Sectors
  BY DriveType
<1>2. /\ Mib(d) \in {64, 128, 256, 512, 1024, 2048} /\ Helper(d) = Mib(d)
      /\ Total(d) \in Int /\ Total(d) >= 65536
      /\ LastUsable(d) = Total(d) - 34
  <2>1. CASE d.sector = 512
    BY <1>1, <2>1, SMT DEF Mib, Total, LastUsable, Helper, GB, MB
  <2>2. CASE d.sector = 1024
    BY <1>1, <2>2, SMT DEF Mib, Total, LastUsable, Helper, GB, MB
  <2>3. CASE d.sector = 2048
    BY <1>1, <2>3, SMT DEF Mib, Total, LastUsable, Helper, GB, MB
  <2>4. CASE d.sector = 4096
    BY <1>1, <2>4, SMT DEF Mib, Total, LastUsable, Helper, GB, MB
  <2>5. CASE d.sector = 8192
    BY <1>1, <2>5, SMT DEF Mib, Total, LastUsable, Helper, GB, MB
  <2>6. CASE d.sector = 16384
    BY <1>1, <2>6, SMT DEF Mib, Total, LastUsable, Helper, GB, MB
  <2> QED
    BY <1>1, <2>1, <2>2, <2>3, <2>4, <2>5, <2>6, SMT DEF Sectors
<1> DEFINE m == Mib(d)
           t == Total(d)
           h == HelperStart(d)
<1> HIDE DEF m, t, h
<1>3. h % m = 0 /\ h + m <= t - 33 /\ h > t - 33 - 2 * m /\ h \in Int /\ m % m = 0
  <2>1. h = ((t - 34 - m + 1) \div m) * m
    BY <1>2 DEF h, m, t, HelperStart
  <2>2. m \in {64, 128, 256, 512, 1024, 2048} /\ t \in Int
    BY <1>2 DEF m, t
  <2>3. CASE m = 64
    BY <2>1, <2>2, <2>3
  <2>4. CASE m = 128
    BY <2>1, <2>2, <2>4
  <2>5. CASE m = 256
    BY <2>1, <2>2, <2>5
  <2>6. CASE m = 512
    BY <2>1, <2>2, <2>6
  <2>7. CASE m = 1024
    BY <2>1, <2>2, <2>7
  <2>8. CASE m = 2048
    BY <2>1, <2>2, <2>8
  <2> QED
    BY <2>2, <2>3, <2>4, <2>5, <2>6, <2>7, <2>8
<1>4. CASE layout = "ntfsUefiNtfs"
  <2>1. /\ PartitionsFor(layout, d).data = [start |-> m, size |-> h - m]
        /\ PartitionsFor(layout, d).helper = [start |-> h, size |-> m]
    BY <1>2, <1>4 DEF PartitionsFor, m, h
  <2> QED
    BY <1>2, <1>3, <2>1 DEF Holding, m, t
<1>5. CASE layout = "fat32Split"
  <2>1. /\ PartitionsFor(layout, d).data = [start |-> m, size |-> t - 33 - m]
        /\ PartitionsFor(layout, d).helper = None
    BY <1>2, <1>5 DEF PartitionsFor, m, t
  <2> QED
    BY <1>2, <1>3, <2>1 DEF Holding, m, t
<1> QED
  BY <1>4, <1>5 DEF Layout

-----------------------------------------------------------------------------
\* FAT32.

\* The exponents that occur.
LEMMA Powers ==
  ASSUME NEW c, c \in 9..16
  PROVE  \/ c = 9 /\ 2^c = 512
         \/ c = 10 /\ 2^c = 1024
         \/ c = 11 /\ 2^c = 2048
         \/ c = 12 /\ 2^c = 4096
         \/ c = 13 /\ 2^c = 8192
         \/ c = 14 /\ 2^c = 16384
         \/ c = 15 /\ 2^c = 32768
         \/ c = 16 /\ 2^c = 65536
<1>1. c = 9 \/ c = 10 \/ c = 11 \/ c = 12 \/ c = 13 \/ c = 14 \/ c = 15 \/ c = 16
  OBVIOUS
<1>2. CASE c = 9
  BY <1>2
<1>3. CASE c = 10
  BY <1>3
<1>4. CASE c = 11
  BY <1>4
<1>5. CASE c = 12
  BY <1>5
<1>6. CASE c = 13
  BY <1>6
<1>7. CASE c = 14
  BY <1>7
<1>8. CASE c = 15
  BY <1>8
<1>9. CASE c = 16
  BY <1>9
<1> QED
  BY <1>1, <1>2, <1>3, <1>4, <1>5, <1>6, <1>7, <1>8, <1>9

\* Spare, of any volume and cluster size.
SpareOf(v, c) == LET n == v \div 2^(c - 9)
                 IN  n \div 100 - n \div 2^(c - 3) - 72

\* What l units fill, 99% of the volume or less, leaves the clusters that Spare
\* says, whatever the sectors that the partition lacks; there are enough clusters
\* for FAT32 as long as their size is one the limits of the masks allow.  For each
\* sector and cluster size this is linear arithmetic.
LEMMA FatRoom ==
  ASSUME NEW size \in Nat, size >= 2 * GB, size <= 512 * GB,
         NEW sector \in Sectors, NEW c, c \in 9..16, sector <= 2^c,
         NEW n, n = Fat32Clusters(size \div (sector \div 512) - 34 - 2^20 \div sector + 1,
                                  sector, c),
         NEW l \in Nat, 100 * l <= 99 * (size - MB)
  PROVE  /\ n \in Nat /\ n <= size - MB
         /\ c >= 14 => 32 * n <= size - MB
         /\ l \div 2^(c - 9) + SpareOf(size - MB, c) <= n
         /\ (c = 15 => size - MB >= Threshold(2048)) /\ (c = 16 => size - MB >= Threshold(4096))
              => n >= 65525
<1> DEFINE b == 2^c
<1>0. /\ sector <= b
      /\ \/ c = 9 /\ b = 512
         \/ c = 10 /\ b = 1024
         \/ c = 11 /\ b = 2048
         \/ c = 12 /\ b = 4096
         \/ c = 13 /\ b = 8192
         \/ c = 14 /\ b = 16384
         \/ c = 15 /\ b = 32768
         \/ c = 16 /\ b = 65536
  BY Powers
<1> HIDE DEF b
<1> USE DEF Fat32Clusters, Threshold, GB, MB, SpareOf
<1>1. CASE sector = 512
  <2>1. c = 9 \/ c = 10 \/ c = 11 \/ c = 12 \/ c = 13 \/ c = 14 \/ c = 15 \/ c = 16
    BY <1>0, <1>1
  <2>2. CASE c = 9
    BY <1>1, <2>2, SMT
  <2>3. CASE c = 10
    BY <1>1, <2>3, SMT
  <2>4. CASE c = 11
    BY <1>1, <2>4, SMT
  <2>5. CASE c = 12
    BY <1>1, <2>5, SMT
  <2>6. CASE c = 13
    BY <1>1, <2>6, SMT
  <2>7. CASE c = 14
    BY <1>1, <2>7, SMT
  <2>8. CASE c = 15
    BY <1>1, <2>8, SMT
  <2>9. CASE c = 16
    BY <1>1, <2>9, SMT
  <2> QED
    BY <2>1, <2>2, <2>3, <2>4, <2>5, <2>6, <2>7, <2>8, <2>9
<1>2. CASE sector = 1024
  <2>1. c = 10 \/ c = 11 \/ c = 12 \/ c = 13 \/ c = 14 \/ c = 15 \/ c = 16
    BY <1>0, <1>2
  <2>2. CASE c = 10
    BY <1>2, <2>2, SMT
  <2>3. CASE c = 11
    BY <1>2, <2>3, SMT
  <2>4. CASE c = 12
    BY <1>2, <2>4, SMT
  <2>5. CASE c = 13
    BY <1>2, <2>5, SMT
  <2>6. CASE c = 14
    BY <1>2, <2>6, SMT
  <2>7. CASE c = 15
    BY <1>2, <2>7, SMT
  <2>8. CASE c = 16
    BY <1>2, <2>8, SMT
  <2> QED
    BY <2>1, <2>2, <2>3, <2>4, <2>5, <2>6, <2>7, <2>8
<1>3. CASE sector = 2048
  <2>1. c = 11 \/ c = 12 \/ c = 13 \/ c = 14 \/ c = 15 \/ c = 16
    BY <1>0, <1>3
  <2>2. CASE c = 11
    BY <1>3, <2>2, SMT
  <2>3. CASE c = 12
    BY <1>3, <2>3, SMT
  <2>4. CASE c = 13
    BY <1>3, <2>4, SMT
  <2>5. CASE c = 14
    BY <1>3, <2>5, SMT
  <2>6. CASE c = 15
    BY <1>3, <2>6, SMT
  <2>7. CASE c = 16
    BY <1>3, <2>7, SMT
  <2> QED
    BY <2>1, <2>2, <2>3, <2>4, <2>5, <2>6, <2>7
<1>4. CASE sector = 4096
  <2>1. c = 12 \/ c = 13 \/ c = 14 \/ c = 15 \/ c = 16
    BY <1>0, <1>4
  <2>2. CASE c = 12
    BY <1>4, <2>2, SMT
  <2>3. CASE c = 13
    BY <1>4, <2>3, SMT
  <2>4. CASE c = 14
    BY <1>4, <2>4, SMT
  <2>5. CASE c = 15
    BY <1>4, <2>5, SMT
  <2>6. CASE c = 16
    BY <1>4, <2>6, SMT
  <2> QED
    BY <2>1, <2>2, <2>3, <2>4, <2>5, <2>6
<1>5. CASE sector = 8192
  <2>1. c = 13 \/ c = 14 \/ c = 15 \/ c = 16
    BY <1>0, <1>5
  <2>2. CASE c = 13
    BY <1>5, <2>2, SMT
  <2>3. CASE c = 14
    BY <1>5, <2>3, SMT
  <2>4. CASE c = 15
    BY <1>5, <2>4, SMT
  <2>5. CASE c = 16
    BY <1>5, <2>5, SMT
  <2> QED
    BY <2>1, <2>2, <2>3, <2>4, <2>5
<1>6. CASE sector = 16384
  <2>1. c = 14 \/ c = 15 \/ c = 16
    BY <1>0, <1>6
  <2>2. CASE c = 14
    BY <1>6, <2>2, SMT
  <2>3. CASE c = 15
    BY <1>6, <2>3, SMT
  <2>4. CASE c = 16
    BY <1>6, <2>4, SMT
  <2> QED
    BY <2>1, <2>2, <2>3, <2>4
<1> QED
  BY <1>1, <1>2, <1>3, <1>4, <1>5, <1>6 DEF Sectors

\* A cluster is a number of sectors that mkfs.fat takes.
LEMMA ClusterSectors ==
  ASSUME NEW sector \in Sectors, NEW c \in 9..16, sector <= 2^c
  PROVE  2^c \div sector \in 1..128
<1> DEFINE b == 2^c
<1>0. /\ sector <= b
      /\ \/ c = 9 /\ b = 512
         \/ c = 10 /\ b = 1024
         \/ c = 11 /\ b = 2048
         \/ c = 12 /\ b = 4096
         \/ c = 13 /\ b = 8192
         \/ c = 14 /\ b = 16384
         \/ c = 15 /\ b = 32768
         \/ c = 16 /\ b = 65536
  BY Powers
<1> HIDE DEF b
<1>1. b \div sector \in Int /\ b \div sector >= 1 /\ b \div sector <= 128
  <2>1. CASE sector = 512
    BY <1>0, <2>1
  <2>2. CASE sector = 1024
    BY <1>0, <2>2
  <2>3. CASE sector = 2048
    BY <1>0, <2>3
  <2>4. CASE sector = 4096
    BY <1>0, <2>4
  <2>5. CASE sector = 8192
    BY <1>0, <2>5
  <2>6. CASE sector = 16384
    BY <1>0, <2>6
  <2> QED
    BY <2>1, <2>2, <2>3, <2>4, <2>5, <2>6 DEF Sectors
<1>2. b \div sector \in 1..128
  <2> DEFINE q == b \div sector
  <2>1. q \in Int /\ q >= 1 /\ q <= 128
    BY <1>1
  <2> HIDE DEF q
  <2>2. q \in 1..128
    BY <2>1
  <2> QED
    BY <2>2 DEF q
<1> QED
  BY <1>2 DEF b

\* The room of the fit check, 99% of the volume.
LEMMA UsableRoom ==
  ASSUME NEW d \in Drives, Safe(d)
  PROVE  /\ Usable(d) \in Nat /\ Usable(d) >= 1 /\ Usable(d) + 1 <= 512 * GB
         /\ 100 * Usable(d) <= 99 * (d.size - MB)
         /\ WindowsVolumeSize(d) = d.size - MB /\ d.size - MB \in Nat
<1>1. d.size \in Nat /\ d.size >= 2 * GB /\ d.size <= 512 * GB
  BY DriveType
<1> DEFINE v == d.size - MB
           q == v \div 100
           r == v % 100
           t == (r * 99) \div 100
<1>2. v \in Nat /\ v >= 200 /\ v <= 512 * GB - MB /\ WindowsVolumeSize(d) = v
  BY <1>1, SMT DEF WindowsVolumeSize, GB, MB
<1>3. Usable(d) = q * 99 + t
  BY <1>2 DEF Usable
<1> HIDE DEF v
<1>4. q \in Nat /\ r \in 0..99 /\ v = 100 * q + r
  BY <1>2
<1> HIDE DEF q, r
<1>5. t \in Nat /\ 100 * t <= 99 * r
  BY <1>4
<1> HIDE DEF t
<1>6. /\ Usable(d) \in Nat /\ Usable(d) >= 1 /\ Usable(d) + 1 <= v
      /\ 100 * Usable(d) <= 99 * v
  BY <1>2, <1>3, <1>4, <1>5
<1>7. v <= 512 * GB
  BY <1>2, SMT DEF GB, MB
<1> QED
  BY <1>2, <1>6, <1>7, Sizes DEF v

\* What a plan for this drive may be.
Allowed(p, d) ==
  /\ d \in Drives /\ Safe(d) /\ d.sector <= 2^p.cluster
  /\ p.layout = "fat32Split" =>
       /\ p.cluster <= 8 + Shifts(d.size - MB)
       /\ d.size - MB >= 32 * GB => p.cluster >= 14

\* A plan that is allowed makes a volume that FAT32 can be, with clusters to spare
\* beside what passed the fit check.
LEMMA VolumeHolds ==
  ASSUME NEW p \in Plan, NEW d, Allowed(p, d), p.layout = "fat32Split",
         NEW n, n = Fat32Clusters(PartitionsFor(p.layout, d).data.size, d.sector, p.cluster),
         NEW l \in Nat, l <= Usable(d)
  PROVE  /\ n \in Nat /\ n >= 65525 /\ n <= 2^28 - 12
         /\ l \div 2^(p.cluster - 9) + SpareOf(d.size - MB, p.cluster) <= n
<1>1. /\ d \in Drives /\ Safe(d) /\ d.sector \in Sectors /\ d.sector <= 2^p.cluster
      /\ d.size \in Nat /\ d.size >= 2 * GB /\ d.size <= 512 * GB
      /\ p.cluster \in 9..16
  BY DriveType DEF Allowed, Plan
<1>2. n = Fat32Clusters(d.size \div (d.sector \div 512) - 34 - 2^20 \div d.sector + 1,
                           d.sector, p.cluster)
  BY DEF PartitionsFor, LastUsable, Total, Mib
<1>3. p.cluster = 15 => d.size - MB >= Threshold(2048)
  BY <1>1, FewShifts DEF Allowed, Threshold, GB, MB
<1>4. p.cluster = 16 => d.size - MB >= Threshold(4096)
  BY <1>1, FewShifts DEF Allowed, Threshold, GB, MB
<1>5. 100 * l <= 99 * (d.size - MB)
  BY <1>1, UsableRoom
<1>6. /\ n \in Nat /\ n >= 65525 /\ n <= d.size - MB
      /\ p.cluster >= 14 => 32 * n <= d.size - MB
      /\ l \div 2^(p.cluster - 9) + SpareOf(d.size - MB, p.cluster) <= n
  BY <1>1, <1>2, <1>3, <1>4, <1>5, FatRoom
<1>7. n <= 2^28 - 12
  BY <1>1, <1>6, SMT DEF Allowed, GB, MB
<1> QED
  BY <1>6, <1>7

-----------------------------------------------------------------------------
\* The cluster size that the program settles on by itself.

\* How large a volume is for the size preferred for it.
Roomy(v, c) ==
  \/ c = 12
  \/ c = 13 /\ v >= Threshold(8192)
  \/ c = 14 /\ v >= Threshold(16384)
  \/ c = 15 /\ v >= 32 * GB

LEMMA PreferredIsRoomy ==
  ASSUME NEW v \in Nat, v >= 2 * GB - MB
  PROVE  /\ Fat32Preferred(v) \in 12..15 /\ Roomy(v, Fat32Preferred(v))
         /\ Fat32Preferred(v) = 12 => v < Threshold(8192)
         /\ Fat32Preferred(v) = 13 => v < Threshold(16384)
         /\ Fat32Preferred(v) = 15 <=> v >= 32 * GB
<1> DEFINE S == {k \in 0..1 : v >= Threshold(8 * 1024 * 2^k)}
<1>1. /\ Threshold(8192) \in Nat /\ Threshold(16384) \in Nat
      /\ Threshold(8192) < Threshold(16384) /\ 256 * MB <= 2 * GB - MB
      /\ 256 * MB \in Nat /\ 32 * GB \in Nat /\ 2 * GB - MB \in Nat
  BY DEF Threshold, GB, MB
<1>2. /\ 0 \in S <=> v >= Threshold(8192)
      /\ 1 \in S <=> v >= Threshold(16384)
  <2>1. \A k \in 0..1 : \A n : n = 8 * 1024 * 2^k => (k \in S <=> v >= Threshold(n))
    OBVIOUS
  <2>2. \A k : k = 0 => 8192 = 8 * 1024 * 2^k
    OBVIOUS
  <2>3. \A k : k = 1 => 16384 = 8 * 1024 * 2^k
    OBVIOUS
  <2> HIDE DEF S
  <2> QED
    BY <2>1, <2>2, <2>3
<1>3. S \in SUBSET (0..1)
  OBVIOUS
<1>4. ~(v < 256 * MB)
  BY <1>1
<1>5. Fat32Preferred(v) = IF v >= 32 * GB THEN 15 ELSE 12 + Cardinality(S)
  <2> DEFINE large == v >= 32 * GB
             small == v < 256 * MB
             a == 8 + Shifts(v)
             b == 12 + Cardinality(S)
  <2>1. Fat32Preferred(v) = CASE large -> 15 [] small -> a [] OTHER -> b
    BY DEF Fat32Preferred
  <2>2. ~small
    BY <1>4
  <2> HIDE DEF large, small, a, b
  <2>3. (CASE large -> 15 [] small -> a [] OTHER -> b) = IF large THEN 15 ELSE b
    BY <2>2
  <2> QED
    BY <2>1, <2>3 DEF large, b
<1> HIDE DEF S
<1>6. CASE v >= 32 * GB
  BY <1>1, <1>5, <1>6 DEF Roomy
<1>7. CASE ~(v >= 32 * GB) /\ v >= Threshold(16384)
  <2>1. 0 \in S /\ 1 \in S
    BY <1>1, <1>2, <1>7
  <2>2. Cardinality(S) = 2
    <3>1. \A m \in Nat : Cardinality(0..m) = m + 1
      BY FS_Interval
    <3>2. \A k : k \in 0..1 => k = 0 \/ k = 1
      OBVIOUS
    <3>3. \A k : k \in 0..1 => k \in S
      BY <2>1, <3>2
    <3>4. S = 0..1
      BY <1>3, <3>3
    <3>5. Cardinality(S) = 1 + 1
      BY <3>1, <3>4, Zenon
    <3> QED
      BY <3>5
  <2> QED
    BY <1>1, <1>5, <1>7, <2>2 DEF Roomy
<1>8. CASE ~(v >= 32 * GB) /\ ~(v >= Threshold(16384)) /\ v >= Threshold(8192)
  <2>1. 0 \in S /\ 1 \notin S
    BY <1>2, <1>8
  <2>2. S = {0}
    <3>1. \A k \in S : k = 0 \/ k = 1
      BY <1>3
    <3> QED
      BY <2>1, <3>1
  <2>3. Cardinality(S) = 1
    BY <2>2, FS_Singleton
  <2> QED
    BY <1>1, <1>5, <1>8, <2>3 DEF Roomy
<1>9. CASE ~(v >= 32 * GB) /\ ~(v >= Threshold(16384)) /\ ~(v >= Threshold(8192))
  <2>1. S = {}
    <3>1. 0 \notin S /\ 1 \notin S
      BY <1>2, <1>9
    <3>2. \A k \in S : k = 0 \/ k = 1
      BY <1>3
    <3> QED
      BY <3>1, <3>2
  <2>2. Cardinality(S) = 0
    BY <2>1, FS_EmptySet
  <2> QED
    BY <1>1, <1>5, <1>9, <2>2 DEF Roomy
<1> QED
  BY <1>6, <1>7, <1>8, <1>9

\* The size preferred is one that the masks allow, so it is the one planned.
LEMMA DefaultIsRoomy ==
  ASSUME NEW volume, volume.size \in Nat, volume.size >= 2 * GB - MB,
         volume.sector \in Nat, volume.sector <= 4096
  PROVE  Roomy(volume.size, DefaultClusterSize("fat32", volume))
<1> DEFINE v == volume.size
           c == Fat32Preferred(v)
           h == Shifts(v)
<1>1. c \in 12..15 /\ Roomy(v, c)
  BY PreferredIsRoomy
<1>2. /\ h \in Nat /\ h >= 6 /\ (v >= Threshold(2048) => h >= 7) /\ h <= 11
      /\ v < Threshold(8192) => h <= 8
      /\ v < Threshold(16384) => h <= 9
      /\ v < Threshold(32768) => h <= 10
  BY FewShifts, ManyShifts
<1>3. /\ v >= 32 * MB /\ 32 * GB >= Threshold(2048) /\ 32 * GB < Threshold(32768)
      /\ 32 * GB \in Nat /\ Threshold(8192) \in Nat /\ Threshold(16384) \in Nat
      /\ Threshold(2048) \in Nat /\ Threshold(32768) \in Nat
      /\ Threshold(8192) < Threshold(16384) /\ Threshold(16384) < 32 * GB
      /\ v >= 512
  BY DEF Threshold, GB, MB
<1>4. /\ c = 12 => v < Threshold(8192)
      /\ c = 13 => v < Threshold(16384)
      /\ c = 15 <=> v >= 32 * GB
  BY PreferredIsRoomy
<1>5. /\ c = 12 \/ c = 13 \/ c = 14 \/ c = 15
      /\ c \in (3 + h)..(8 + h) /\ c \in 9..16 /\ (v >= 32 * GB => c >= 14)
  <2> HIDE DEF v, c, h
  <2>0. v \in Nat
    BY DEF v
  <2>1. c \in Int /\ 3 + h <= c /\ c <= 8 + h /\ 9 <= c /\ c <= 16
    BY <1>1, <1>2, <1>3, <1>4, <2>0
  <2> QED
    BY <1>1, <1>2, <1>4, <2>1
<1>6. 2^c >= volume.sector /\ 2^(c - 9) <= v \div 4
  <2>1. /\ c = 12 => 2^c = 4096 /\ 2^(c - 9) = 8
        /\ c = 13 => 2^c = 8192 /\ 2^(c - 9) = 16
        /\ c = 14 => 2^c = 16384 /\ 2^(c - 9) = 32
        /\ c = 15 => 2^c = 32768 /\ 2^(c - 9) = 64
    <3>1. \A k : k = 12 => 2^k = 4096 /\ 2^(k - 9) = 8
      OBVIOUS
    <3>2. \A k : k = 13 => 2^k = 8192 /\ 2^(k - 9) = 16
      OBVIOUS
    <3>3. \A k : k = 14 => 2^k = 16384 /\ 2^(k - 9) = 32
      OBVIOUS
    <3>4. \A k : k = 15 => 2^k = 32768 /\ 2^(k - 9) = 64
      OBVIOUS
    <3> HIDE DEF c
    <3> QED
      <4>1. CASE c = 12
        BY <3>1, <4>1
      <4>2. CASE c = 13
        BY <3>2, <4>2
      <4>3. CASE c = 14
        BY <3>3, <4>3
      <4>4. CASE c = 15
        BY <3>4, <4>4
      <4> QED
        BY <1>5, <4>1, <4>2, <4>3, <4>4
  <2>2. v \div 4 \in Nat /\ v \div 4 >= 128
    BY <1>3
  <2> HIDE DEF c, v
  <2> QED
    BY <1>5, <2>1, <2>2
<1>7. c \in ClusterMask("fat32", volume)
  BY <1>3, <1>5, <1>6 DEF ClusterMask, RufusMask
<1>8. DefaultClusterSize("fat32", volume) = c
  BY <1>7 DEF DefaultClusterSize
<1> QED
  BY <1>1, <1>8

LEMMA SpareType ==
  ASSUME NEW v \in Nat, NEW c \in 9..16
  PROVE  SpareOf(v, c) \in Int
<1>1. c = 9 \/ c = 10 \/ c = 11 \/ c = 12 \/ c = 13 \/ c = 14 \/ c = 15 \/ c = 16
  OBVIOUS
<1>2. CASE c = 9
  BY <1>2 DEF SpareOf
<1>3. CASE c = 10
  BY <1>3 DEF SpareOf
<1>4. CASE c = 11
  BY <1>4 DEF SpareOf
<1>5. CASE c = 12
  BY <1>5 DEF SpareOf
<1>6. CASE c = 13
  BY <1>6 DEF SpareOf
<1>7. CASE c = 14
  BY <1>7 DEF SpareOf
<1>8. CASE c = 15
  BY <1>8 DEF SpareOf
<1>9. CASE c = 16
  BY <1>9 DEF SpareOf
<1> QED
  BY <1>1, <1>2, <1>3, <1>4, <1>5, <1>6, <1>7, <1>8, <1>9

\* A volume that is roomy for its clusters has more than 4000 to spare.
LEMMA RoomySpares ==
  ASSUME NEW v \in Nat, v >= 2 * GB - MB, NEW c \in 9..16, Roomy(v, c)
  PROVE  SpareOf(v, c) \in Int /\ SpareOf(v, c) >= 4000
<1>1. CASE c = 12
  BY <1>1, SMT DEF SpareOf, GB, MB
<1>2. CASE c = 13 /\ v >= Threshold(8192)
  BY <1>2, SMT DEF SpareOf, Threshold, GB, MB
<1>3. CASE c = 14 /\ v >= Threshold(16384)
  BY <1>3, SMT DEF SpareOf, Threshold, GB, MB
<1>4. CASE c = 15 /\ v >= 32 * GB
  BY <1>4, SMT DEF SpareOf, GB, MB
<1> QED
  BY <1>1, <1>2, <1>3, <1>4 DEF Roomy

-----------------------------------------------------------------------------
\* The invariant.

Planned ==
  plan # None =>
    /\ Allowed(plan, drive)
    /\ plan.layout = "fat32Split" /\ request.cluster = None /\ drive.sector <= 4096 =>
         Roomy(drive.size - MB, plan.cluster)

Staged ==
  /\ phase \in {"checked", "partitioned", "formatted"} => contents.length <= Usable(drive)
  /\ parts # None => plan # None /\ parts = PartitionsFor(plan.layout, drive)
  /\ phase \in {"partitioned", "formatted"} => parts = PartitionsFor(plan.layout, drive)
  /\ phase = "formatted" =>
       /\ plan.layout = "fat32Split"
       /\ made = Fat32Clusters(parts.data.size, drive.sector, plan.cluster)

IInv == /\ TypeOK /\ Planned /\ Staged
        /\ AdvertisedValidates /\ PartitionsHold /\ PlanFormats /\ CheckedFits

LEMMA InitIInv == Init => IInv
<1> SUFFICES ASSUME Init PROVE IInv
  OBVIOUS
<1>1. TypeOK
  <2>1. NoContents \in Contents
    BY Sizes DEF NoContents, Contents
  <2> QED
    BY <2>1, Sizes DEF Init, TypeOK
<1> QED
  BY <1>1 DEF Init, IInv, Planned, Staged, AdvertisedValidates, PartitionsHold, PlanFormats,
              CheckedFits

\* format-options lists nothing that validate refuses.
LEMMA ShowKeeps ==
  ASSUME IInv, ShowOptions
  PROVE  IInv'
<1>1. phase' \in {"nothing", "listed"}
  <2> DEFINE rows == {[scheme |-> s, target |-> t, fs |-> f, cluster |-> None,
                       helper |-> FALSE] : s \in Scheme, t \in Target, f \in FileSystem}
             listed == {r \in rows : r.fs \in FilesystemsFor(r.scheme, r.target, drive)}
  <2>1. \A r \in listed : r.cluster = None /\ r.fs \in FilesystemsFor(r.scheme, r.target, drive)
    OBVIOUS
  <2>2. phase' = CASE listed = {} -> "nothing"
                   [] \A r \in listed : Valid(r, drive) -> "listed"
                   [] OTHER -> "contradicted"
    BY DEF ShowOptions, Stop
  <2> HIDE DEF listed
  <2>3. \A r \in listed : Valid(r, drive)
    BY <2>1 DEF FilesystemsFor, Valid
  <2> QED
    BY <2>2, <2>3
<1>2. UNCHANGED <<drive, request, oversized, plan, contents, parts, made>> /\ plan = None
  BY DEF ShowOptions, Stop, Inputs, IInv, TypeOK
<1> QED
  BY <1>1, <1>2 DEF IInv, TypeOK, Planned, Staged, AdvertisedValidates, PartitionsHold, PlanFormats,
                    CheckedFits

LEMMA ValidateKeeps ==
  ASSUME IInv, Validate
  PROVE  IInv'
<1>1. /\ UNCHANGED <<drive, request, oversized, contents, parts, made>>
      /\ phase = "start" /\ phase' \in {"planned", "refused"}
      /\ phase' = "refused" => plan' = plan
  BY DEF Validate, Stop, Inputs
<1>2. parts = None
  BY <1>1 DEF IInv, TypeOK, Staged
<1>3. ASSUME phase' = "planned"
      PROVE  /\ plan' \in Plan /\ Allowed(plan', drive)
             /\ plan'.layout = "fat32Split" /\ request.cluster = None /\ drive.sector <= 4096 =>
                  Roomy(drive.size - MB, plan'.cluster)
  <2> DEFINE l == IF request.layout = None THEN DefaultFor(oversized) ELSE request.layout
             r == [scheme |-> "gpt", target |-> "uefi", cluster |-> request.cluster,
                   fs |-> IF l = "fat32Split" THEN "fat32" ELSE "ntfs",
                   helper |-> l = "ntfsUefiNtfs"]
             volume == [drive EXCEPT !.size = WindowsVolumeSize(drive)]
  <2>1. /\ drive \in Drives /\ Safe(drive) /\ Valid(r, volume)
        /\ plan' = [layout |-> l, cluster |-> PlannedCluster(r, volume)]
    BY <1>3 DEF Validate, Stop
  <2>2. drive \in Volume /\ WindowsVolumeSize(drive) = drive.size - MB /\ drive.size - MB \in Nat
    BY <2>1, DriveType, UsableRoom
  <2>3. volume.size = drive.size - MB /\ volume.sector = drive.sector
    BY <2>2 DEF Volume
  <2>4. l \in Layout
    BY DEF IInv, TypeOK, DefaultFor, Layout
  <2>5. r.fs \in {"fat32", "ntfs"} /\ (l = "fat32Split" => r.fs = "fat32")
    OBVIOUS
  <2>10. r.cluster = request.cluster
    OBVIOUS
  <2> HIDE DEF l, r, volume
  <2>6. PlannedCluster(r, volume) \in ClusterMask(r.fs, volume)
    BY <2>1, <2>2, <2>3, <2>5, PlannedIsAllowed
  <2> DEFINE n == PlannedCluster(r, volume)
  <2>7. /\ n \in 9..16 /\ 2^n >= volume.sector
        /\ r.fs = "fat32" => /\ n <= 8 + Shifts(volume.size)
                             /\ volume.size >= 32 * GB => n >= 14
    BY <2>2, <2>3, <2>5, <2>6, MaskBounds
  <2>8. drive.sector \in Nat /\ 2^n \in Nat
    BY <2>1, <2>7, DriveType, Powers DEF Sectors
  <2>11. ASSUME l = "fat32Split", request.cluster = None, drive.sector <= 4096
        PROVE  Roomy(drive.size - MB, n)
    <3>1. n = DefaultClusterSize("fat32", volume)
      BY <2>5, <2>10, <2>11 DEF PlannedCluster
    <3>2. drive.size >= 2 * GB /\ drive.size \in Nat
      BY <2>1, DriveType
    <3>3. volume.size \in Nat /\ volume.size >= 2 * GB - MB
      BY <2>2, <2>3, <3>2 DEF GB, MB
    <3>4. volume.sector \in Nat /\ volume.sector <= 4096
      BY <2>3, <2>8, <2>11
    <3> QED
      BY <2>3, <3>1, <3>3, <3>4, DefaultIsRoomy
  <2> HIDE DEF n
  <2>9. plan' = [layout |-> l, cluster |-> n]
    BY <2>1 DEF n
  <2> QED
    BY <2>1, <2>3, <2>4, <2>5, <2>7, <2>8, <2>9, <2>11 DEF Plan, Allowed
<1>4. TypeOK'
  BY <1>1, <1>3, NoneAssumption DEF IInv, TypeOK
<1> QED
  BY <1>1, <1>2, <1>3, <1>4 DEF IInv, TypeOK, Planned, Staged, AdvertisedValidates, PartitionsHold,
                                PlanFormats, CheckedFits

LEMMA MeasureKeeps ==
  ASSUME IInv, Measure
  PROVE  IInv'
<1>1. /\ UNCHANGED <<drive, request, oversized, plan, parts, made>>
      /\ phase = "planned" /\ phase' \in {"refused", "checked"}
      /\ phase' = "checked" => ~(contents'.length > Usable(drive))
  BY DEF Measure, Inputs
<1>2. plan # None /\ plan \in Plan /\ drive \in Drives /\ Safe(drive)
  BY <1>1 DEF IInv, TypeOK, Planned, Allowed
<1>3. Usable(drive) \in Nat /\ Usable(drive) >= 1 /\ Usable(drive) + 1 <= 512 * GB
  BY <1>2, UsableRoom
<1>4. contents' \in Contents /\ (phase' = "checked" => contents'.length <= Usable(drive))
  <2>1. PICK t \in Trees :
          /\ t.short <= Usable(drive)
          /\ contents' = [length |-> Usable(drive) - t.short, files |-> t.files,
                          others |-> t.others]
    BY DEF Measure
  <2>2. t.short \in Int /\ t.short >= -1 /\ t.files \in Nat /\ t.others \in Nat
    BY TreesAssumption
  <2> DEFINE n == Usable(drive) - t.short
  <2>3. n \in 0..512 * GB
    BY <1>3, <2>1, <2>2, Sizes
  <2>4. contents'.length = n
    BY <2>1
  <2> HIDE DEF n
  <2>5. contents' \in Contents
    BY <2>1, <2>2, <2>3 DEF Contents, n
  <2>6. contents'.length \in Int
    BY <2>3, <2>4, Sizes
  <2> QED
    BY <1>1, <1>3, <2>5, <2>6
<1>5. TypeOK'
  BY <1>1, <1>2, <1>4 DEF IInv, TypeOK
<1> QED
  BY <1>1, <1>4, <1>5 DEF IInv, Planned, Staged, AdvertisedValidates, PartitionsHold, PlanFormats,
                          CheckedFits, Usable

LEMMA PartitionKeeps ==
  ASSUME IInv, Partition
  PROVE  IInv'
<1>1. phase = "checked" /\ plan \in Plan /\ plan # None /\ Allowed(plan, drive)
  BY DEF Partition, IInv, TypeOK, Planned
<1>2. drive \in Drives /\ Safe(drive) /\ plan.layout \in Layout
  BY <1>1 DEF Allowed, Plan
<1>3. /\ phase' = "partitioned" /\ parts' = PartitionsFor(plan.layout, drive)
      /\ UNCHANGED <<drive, request, oversized, plan, contents, made>>
  <2>1. LastUsable(drive) > Mib(drive) + Helper(drive)
    BY <1>2, PartitionsFit
  <2>2. LastUsable(drive) \in Int /\ Mib(drive) + Helper(drive) \in Int
    BY <1>2, PartitionsFit
  <2> QED
    BY <2>1, <2>2 DEF Partition, Inputs, Stop
<1>4. Holding(parts', drive)
  BY <1>2, <1>3, PartitionsFit
<1>5. PartitionsHold'
  BY <1>3, <1>4 DEF PartitionsHold, Holding, Mib, Total, Helper
<1>6. TypeOK'
  BY <1>1, <1>3 DEF IInv, TypeOK
<1>7. Staged' /\ Planned'
  BY <1>1, <1>3 DEF IInv, Staged, Planned, Usable, WindowsVolumeSize
<1> QED
  BY <1>3, <1>5, <1>6, <1>7 DEF IInv, AdvertisedValidates, PlanFormats, CheckedFits

LEMMA MkfsFatKeeps ==
  ASSUME IInv, MkfsFat
  PROVE  IInv'
<1>1. /\ phase = "partitioned" /\ plan.layout = "fat32Split"
      /\ plan \in Plan /\ plan # None /\ Allowed(plan, drive)
      /\ parts = PartitionsFor(plan.layout, drive)
  BY DEF MkfsFat, IInv, TypeOK, Planned, Staged
<1>2. 2^plan.cluster \div drive.sector \in 1..128
  BY <1>1, DriveType, ClusterSectors DEF Allowed, Plan
<1>3. /\ phase' = "formatted"
      /\ made' = Fat32Clusters(parts.data.size, drive.sector, plan.cluster)
      /\ UNCHANGED <<drive, request, oversized, plan, contents, parts>>
  BY <1>2 DEF MkfsFat, Inputs
<1>4. made' \in Nat /\ made' >= 65525 /\ made' <= 2^28 - 12
  <2>1. Usable(drive) \in Nat /\ 0 <= Usable(drive)
    BY <1>1, UsableRoom DEF Allowed
  <2>2. \A n : n = Fat32Clusters(PartitionsFor(plan.layout, drive).data.size, drive.sector,
                                 plan.cluster)
              => n \in Nat /\ n >= 65525 /\ n <= 2^28 - 12
    BY <1>1, <2>1, VolumeHolds
  <2> QED
    BY <1>1, <1>3, <2>2
<1>5. made' \in 0..128 * GB
  BY <1>4, Sizes
<1>6. TypeOK'
  BY <1>1, <1>3, <1>5 DEF IInv, TypeOK
<1>7. Staged' /\ Planned'
  BY <1>1, <1>3 DEF IInv, Staged, Planned
<1> QED
  BY <1>3, <1>4, <1>6, <1>7 DEF IInv, AdvertisedValidates, PartitionsHold, PlanFormats, CheckedFits

LEMMA MkfsNtfsKeeps ==
  ASSUME IInv, MkfsNtfs
  PROVE  IInv'
BY DEF MkfsNtfs, Inputs, IInv, TypeOK, Planned, Staged, AdvertisedValidates, PartitionsHold,
       PlanFormats, CheckedFits

\* Files that fill no more than the check allows need, on top of what their sum
\* fills, at most one cluster each.
LEMMA MostNeeds ==
  ASSUME NEW c \in Contents, NEW n \in 9..16
  PROVE  /\ c.length \div 2^(n - 9) \in Int /\ Most(c, n) \in Int
         /\ Most(c, n) <= c.files + c.others + c.length \div 2^(n - 9)
<1>1. c.length \in Nat /\ c.files \in Nat /\ c.others \in Nat
  BY Sizes DEF Contents
<1> DEFINE l == c.length
           f == (c.files + 511) \div 512
           s == 2^(n - 9)
<1>2. f \in Nat
  BY <1>1
<1>3. s \in {1, 2, 4, 8, 16, 32, 64, 128}
  <2>1. \/ n = 9 /\ 2^(n - 9) = 1
        \/ n = 10 /\ 2^(n - 9) = 2
        \/ n = 11 /\ 2^(n - 9) = 4
        \/ n = 12 /\ 2^(n - 9) = 8
        \/ n = 13 /\ 2^(n - 9) = 16
        \/ n = 14 /\ 2^(n - 9) = 32
        \/ n = 15 /\ 2^(n - 9) = 64
        \/ n = 16 /\ 2^(n - 9) = 128
    <3>1. n = 9 \/ n = 10 \/ n = 11 \/ n = 12 \/ n = 13 \/ n = 14 \/ n = 15 \/ n = 16
      OBVIOUS
    <3>2. CASE n = 9
      BY <3>2
    <3>3. CASE n = 10
      BY <3>3
    <3>4. CASE n = 11
      BY <3>4
    <3>5. CASE n = 12
      BY <3>5
    <3>6. CASE n = 13
      BY <3>6
    <3>7. CASE n = 14
      BY <3>7
    <3>8. CASE n = 15
      BY <3>8
    <3>9. CASE n = 16
      BY <3>9
    <3> QED
      BY <3>1, <3>2, <3>3, <3>4, <3>5, <3>6, <3>7, <3>8, <3>9
  <2> QED
    BY <2>1
<1>4. l \in Nat
  BY <1>1
<1> HIDE DEF l, f, s
<1>5. l \div s \in Int /\ (l - f) \div s \in Int /\ (l - f) \div s <= l \div s
  <2>1. CASE s = 1
    BY <1>2, <1>4, <2>1
  <2>2. CASE s = 2
    BY <1>2, <1>4, <2>2
  <2>3. CASE s = 4
    BY <1>2, <1>4, <2>3
  <2>4. CASE s = 8
    BY <1>2, <1>4, <2>4
  <2>5. CASE s = 16
    BY <1>2, <1>4, <2>5
  <2>6. CASE s = 32
    BY <1>2, <1>4, <2>6
  <2>7. CASE s = 64
    BY <1>2, <1>4, <2>7
  <2>8. CASE s = 128
    BY <1>2, <1>4, <2>8
  <2> QED
    BY <1>3, <2>1, <2>2, <2>3, <2>4, <2>5, <2>6, <2>7, <2>8
<1>6. Most(c, n) = c.files + c.others + (l - f) \div s
  BY DEF Most, l, f, s
<1>7. c.length \div 2^(n - 9) = l \div s
  BY DEF l, s
<1> DEFINE p == l \div s
           q == (l - f) \div s
<1>8. p \in Int /\ q \in Int /\ q <= p
  BY <1>5
<1>9. Most(c, n) = c.files + c.others + q /\ c.length \div 2^(n - 9) = p
  BY <1>6, <1>7
<1> HIDE DEF p, q
<1> QED
  BY <1>1, <1>8, <1>9

LEMMA CopyKeeps ==
  ASSUME IInv, Copy
  PROVE  IInv'
<1>1. /\ phase = "formatted" /\ phase' \in {"done", "full"}
      /\ phase' = "full" => Most(contents, plan.cluster) > made
      /\ UNCHANGED <<drive, request, oversized, plan, contents, parts, made>>
  BY DEF Copy, Inputs
<1>2. /\ plan \in Plan /\ plan # None /\ Allowed(plan, drive) /\ plan.layout = "fat32Split"
      /\ made = Fat32Clusters(PartitionsFor(plan.layout, drive).data.size, drive.sector,
                              plan.cluster)
      /\ contents.length <= Usable(drive) /\ contents \in Contents
      /\ drive \in Drives /\ Safe(drive) /\ plan.cluster \in 9..16
  BY <1>1 DEF IInv, TypeOK, Planned, Staged, Allowed, Plan
<1>3. /\ contents.length \in Nat /\ contents.files \in Nat /\ contents.others \in Nat
      /\ WindowsVolumeSize(drive) = drive.size - MB /\ drive.size - MB \in Nat
      /\ drive.size - MB >= 2 * GB - MB
  <2>1. drive.size \in Nat /\ drive.size >= 2 * GB
    BY <1>2, DriveType
  <2>2. WindowsVolumeSize(drive) = drive.size - MB /\ drive.size - MB \in Nat
    BY <1>2, UsableRoom
  <2> QED
    BY <1>2, <2>1, <2>2, Sizes DEF Contents, MB
<1> DEFINE v == drive.size - MB
           p == contents.length \div 2^(plan.cluster - 9)
           m == Most(contents, plan.cluster)
           s == SpareOf(v, plan.cluster)
<1>4. Spare = s
  BY <1>3 DEF Spare, SpareOf
<1>5. \A n : n = Fat32Clusters(PartitionsFor(plan.layout, drive).data.size, drive.sector,
                               plan.cluster)
            => n \in Nat /\ p + s <= n
  BY <1>2, <1>3, VolumeHolds
<1>6. made \in Nat /\ p + s <= made
  BY <1>2, <1>5
<1>7. p \in Int /\ m \in Int /\ m <= contents.files + contents.others + p
  BY <1>2, MostNeeds
<1>8. s \in Int
  BY <1>2, <1>3, SpareType
<1>9. request.cluster = None /\ drive.sector <= 4096 => s >= 4000
  BY <1>2, <1>3, RoomySpares DEF IInv, Planned
<1>10. ASSUME phase' = "full"
       PROVE  /\ contents.files + contents.others > Spare
              /\ request.cluster = None /\ drive.sector <= 4096 =>
                   contents.files + contents.others > 4000
  <2>1. m > made
    BY <1>1, <1>10
  <2> DEFINE k == contents.files + contents.others
  <2>2. k \in Nat
    BY <1>3
  <2> HIDE DEF v, p, m, s, k
  <2>3. k > s
    BY <1>6, <1>7, <1>8, <2>1, <2>2 DEF k
  <2> QED
    BY <1>4, <1>8, <1>9, <2>2, <2>3 DEF k
<1>11. CheckedFits'
  <2>1. Spare' = Spare
    BY <1>1 DEF Spare, WindowsVolumeSize
  <2> QED
    BY <1>1, <1>10, <2>1 DEF CheckedFits
<1>12. TypeOK'
  BY <1>1, <1>2 DEF IInv, TypeOK
<1> QED
  BY <1>1, <1>11, <1>12 DEF IInv, Planned, Staged, AdvertisedValidates, PartitionsHold, PlanFormats

LEMMA StepIInv == IInv /\ [Next]_vars => IInv'
<1> SUFFICES ASSUME IInv, [Next]_vars PROVE IInv'
  OBVIOUS
<1>1. CASE UNCHANGED vars
  <2>1. UNCHANGED <<phase, drive, request, oversized, plan, contents, parts, made>>
    BY <1>1 DEF vars
  <2>2. TypeOK'
    BY <2>1 DEF IInv, TypeOK
  <2>3. Planned' /\ Staged'
    BY <2>1 DEF IInv, Planned, Staged
  <2>4. AdvertisedValidates' /\ PlanFormats'
    BY <2>1 DEF IInv, AdvertisedValidates, PlanFormats
  <2>5. PartitionsHold'
    BY <2>1 DEF IInv, PartitionsHold
  <2>6. CheckedFits'
    BY <2>1 DEF IInv, CheckedFits, Spare
  <2> QED
    BY <2>2, <2>3, <2>4, <2>5, <2>6 DEF IInv
<1> QED
  BY <1>1, ShowKeeps, ValidateKeeps, MeasureKeeps, PartitionKeeps, MkfsFatKeeps, MkfsNtfsKeeps,
     CopyKeeps DEF Next

LEMMA Invariance == Spec => []IInv
BY InitIInv, StepIInv, PTL DEF Spec

-----------------------------------------------------------------------------
\* Every variable stays in its range, with a plan once and only once it was
\* validated.
THEOREM TypeCorrect == Spec => []TypeOK
<1>1. IInv => TypeOK
  BY DEF IInv
<1> QED
  BY <1>1, Invariance, PTL

\* Whatever volume format-options is asked about, all it lists is valid.
THEOREM ListedIsValid == Spec => []AdvertisedValidates
<1>1. IInv => AdvertisedValidates
  BY DEF IInv
<1> QED
  BY <1>1, Invariance, PTL

\* partition_for_layout, on every drive that the safety gate lets through.
THEOREM PartitionsAreApart == Spec => []PartitionsHold
<1>1. IInv => PartitionsHold
  BY DEF IInv
<1> QED
  BY <1>1, Invariance, PTL

\* Whatever plan validate returns for such a drive, mkfs.fat can make it, and
\* what it makes is FAT32.
THEOREM PlansFormat == Spec => []PlanFormats
<1>1. IInv => PlanFormats
  BY DEF IInv
<1> QED
  BY <1>1, Invariance, PTL

\* The margin of the fit check, on every drive of 2 to 512 GiB and with any number of
\* files of any lengths: it is lost only to more files and directories than Spare,
\* and where the program chose the cluster size that is more than 4000 of them.
THEOREM FitsAsChecked == Spec => []CheckedFits
<1>1. IInv => CheckedFits
  BY DEF IInv
<1> QED
  BY <1>1, Invariance, PTL
=============================================================================
