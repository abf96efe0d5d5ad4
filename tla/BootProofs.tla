----------------------------- MODULE BootProofs -----------------------------
(***************************************************************************)
(* Proofs about Boot: for every machine and volume, a BIOS that fails, lies*)
(* or hands over the wrong drive number included, the boot code passes     *)
(* control only to the sector it is meant to, and to a BOOTMGR that is     *)
(* whole.  The argument is in two halves.  Up to the jump out of the       *)
(* master boot record, a signed sector at 0x7C00 is the one wanted of the  *)
(* drive in DL (Fresh): the signature is gone before each attempt, and the *)
(* cylinder, head and sector asked for are exactly the sector's number     *)
(* (AddressIsExact).  From then on, what is loaded is the beginning of     *)
(* BOOTMGR as the chain of its clusters has it, and the next sector to be  *)
(* read is the next one of it (Loaded).                                    *)
(***************************************************************************)
EXTENDS Boot, WellFoundedInduction, SequenceTheorems, TLAPS

-----------------------------------------------------------------------------
\* Arithmetic of clusters and sectors.

LEMMA ProductMonotone ==
  ASSUME NEW s \in Nat \ {0}, NEW a \in Int, NEW b \in Int, a < b
  PROVE  a * s + s <= b * s /\ a * s \in Int /\ b * s \in Int
<1>1. (b - a) * s >= s
  OBVIOUS
<1>2. (b - a) * s = b * s - a * s
  OBVIOUS
<1>3. a * s \in Int /\ b * s \in Int
  OBVIOUS
<1> QED BY <1>1, <1>2, <1>3

LEMMA QuotientIsUnique ==
  ASSUME NEW s \in Nat \ {0}, NEW q \in Nat, NEW r \in 0..s - 1
  PROVE  (q * s + r) \div s = q /\ (q * s + r) % s = r
OBVIOUS

LEMMA QuotientDef ==
  ASSUME NEW s \in Nat \ {0}, NEW x \in Nat
  PROVE  /\ x \div s \in Nat /\ x % s \in 0..s - 1
         /\ x = (x \div s) * s + (x % s) /\ x \div s <= x
OBVIOUS

\* The cylinder, head and sector of a sector within reach name that sector.
LEMMA AddressIsExact ==
  ASSUME NEW lba \in Nat, NEW g, g.sectors \in Nat \ {0}, g.heads \in Nat \ {0},
         Cylinder(lba, g) <= MaxCylinder
  PROVE  Addressed(lba, g) = lba
<1> DEFINE sec == g.sectors
           head == g.heads
           track == lba \div sec
           cyl == track \div head
<1>1. sec \in Nat \ {0} /\ head \in Nat \ {0} /\ MaxCylinder \in Nat
  BY BoundsAssumption
<1> HIDE DEF sec, head
<1>2. track \in Nat /\ lba = track * sec + (lba % sec)
  BY <1>1, QuotientDef
<1> HIDE DEF track
<1>3. cyl \in Nat /\ track = cyl * head + (track % head)
  BY <1>1, <1>2, QuotientDef
<1>4. cyl <= MaxCylinder
  BY DEF Cylinder, track, sec, head
<1> HIDE DEF cyl
<1>5. cyl % (MaxCylinder + 1) = cyl
  BY <1>1, <1>3, <1>4
<1>6. Addressed(lba, g) = ((cyl % (MaxCylinder + 1)) * head + (track % head)) * sec + (lba % sec)
  BY DEF Addressed, Cylinder, cyl, track, head, sec
<1> QED BY <1>2, <1>3, <1>5, <1>6

-----------------------------------------------------------------------------
\* The links of a chain.

\* Every set of numbers that is not empty has a least one: with it a statement
\* about all numbers is proved by looking at the first that it fails for.
LEMMA Least ==
  ASSUME NEW T \in SUBSET Nat, T # {}
  PROVE  \E x \in T : \A y \in T : x <= y
<1> DEFINE R == OpToRel(<, Nat)
<1>1. IsWellFoundedOn(R, Nat)
  BY NatLessThanWellFounded
<1>2. \E x \in T : \A y \in T : ~(<<y, x>> \in R)
  <2> HIDE DEF R
  <2> QED BY <1>1, WFMin, Zenon
<1>3. PICK x \in T : \A y \in T : ~(<<y, x>> \in R)
  BY <1>2
<1>4. ASSUME NEW y \in T PROVE x <= y
  <2>1. x \in Nat /\ y \in Nat
    OBVIOUS
  <2>2. y < x => <<y, x>> \in R
    BY <2>1 DEF OpToRel
  <2> HIDE DEF R
  <2>3. ~(y < x)
    BY <2>2, <1>3
  <2> QED BY <2>1, <2>3
<1> QED
  BY <1>4

\* What makes a function the chain; there is one, and Links is it.
IsLinks(g, v, first, n) ==
  g = [i \in 1..n |-> IF i = 1 THEN first
                      ELSE IF g[i - 1] = EndOfChain THEN EndOfChain ELSE v.fat[g[i - 1]]]

LEMMA LinksExist ==
  ASSUME NEW v, NEW first, NEW N \in Nat
  PROVE  \E g : IsLinks(g, v, first, N)
<1> DEFINE T == {n \in Nat : ~\E g : IsLinks(g, v, first, n)}
<1>1. SUFFICES ASSUME T # {} PROVE FALSE
  OBVIOUS
<1>2. PICK m \in T : \A y \in T : m <= y
  BY Least, <1>1
<1>3. m # 0
  <2>1. IsLinks(<<>>, v, first, 0)
    BY DEF IsLinks
  <2> QED BY <2>1
<1>4. m - 1 \in Nat /\ m - 1 \notin T
  BY <1>2, <1>3
<1>5. PICK g : IsLinks(g, v, first, m - 1)
  BY <1>4
<1> DEFINE next(h, i) == IF i = 1 THEN first
                         ELSE IF h[i - 1] = EndOfChain THEN EndOfChain ELSE v.fat[h[i - 1]]
           f == [i \in 1..m |-> IF i = m THEN next(g, m) ELSE g[i]]
<1>6. \A i \in 1..(m - 1) : g[i] = next(g, i)
  BY <1>5, Zenon DEF IsLinks
<1>7. ASSUME NEW i \in 1..m PROVE f[i] = next(f, i)
  <2>1. i # 1 => i - 1 \in 1..m /\ i - 1 # m /\ f[i - 1] = g[i - 1]
    BY <1>4
  <2>2. next(f, i) = next(g, i)
    BY <2>1
  <2>3. CASE i = m
    BY <2>2, <2>3
  <2>4. CASE i # m
    <3>1. i \in 1..(m - 1)
      BY <2>4, <1>4
    <3> QED BY <2>2, <2>4, <3>1, <1>6
  <2> QED BY <2>3, <2>4
<1>8. f = [i \in 1..m |-> f[i]]
  OBVIOUS
<1> HIDE DEF f
<1>9. IsLinks(f, v, first, m)
  BY <1>7, <1>8, Zenon DEF IsLinks
<1> QED BY <1>9

LEMMA LinksDef ==
  ASSUME NEW v, NEW first, NEW n \in Nat, NEW i \in 1..n
  PROVE  Links(v, first, n)[i] =
           IF i = 1 THEN first
           ELSE IF Links(v, first, n)[i - 1] = EndOfChain THEN EndOfChain
           ELSE v.fat[Links(v, first, n)[i - 1]]
<1> DEFINE g == Links(v, first, n)
<1>1. \E h : IsLinks(h, v, first, n)
  BY LinksExist
<1>2. g = CHOOSE h : IsLinks(h, v, first, n)
  BY Zenon DEF Links, IsLinks
<1> HIDE DEF g
<1>3. IsLinks(g, v, first, n)
  BY <1>1, <1>2, Zenon
<1>4. g[i] = IF i = 1 THEN first
             ELSE IF g[i - 1] = EndOfChain THEN EndOfChain ELSE v.fat[g[i - 1]]
  BY <1>3, Zenon DEF IsLinks
<1> QED BY <1>4, Zenon DEF g

\* Behind the end of a chain is nothing but its end.
LEMMA EndStays ==
  ASSUME NEW v, NEW first, NEW n \in Nat, NEW i \in 1..n, NEW j \in i..n,
         Links(v, first, n)[i] = EndOfChain
  PROVE  Links(v, first, n)[j] = EndOfChain
<1> DEFINE at == Links(v, first, n)
           T == {k \in Nat : k \in i..n /\ at[k] # EndOfChain}
<1>1. \A k \in i + 1..n : at[k - 1] = EndOfChain => at[k] = EndOfChain
  <2>1. ASSUME NEW k \in i + 1..n, at[k - 1] = EndOfChain PROVE at[k] = EndOfChain
    <3>1. k \in 1..n /\ k # 1
      OBVIOUS
    <3>2. at[k] = IF k = 1 THEN first
                  ELSE IF at[k - 1] = EndOfChain THEN EndOfChain ELSE v.fat[at[k - 1]]
      BY <3>1, LinksDef
    <3> HIDE DEF at
    <3> QED BY <2>1, <3>1, <3>2
  <2> QED BY <2>1
<1>2. at[i] = EndOfChain
  OBVIOUS
<1> HIDE DEF at
<1>3. ASSUME T # {} PROVE FALSE
  <2>1. PICK m \in T : \A y \in T : m <= y
    <3>1. T \subseteq Nat
      OBVIOUS
    <3> HIDE DEF T
    <3> QED BY <3>1, <1>3, Least
  <2>2. m \in i..n /\ at[m] # EndOfChain
    OBVIOUS
  <2>3. m # i /\ m - 1 \in i..n /\ m - 1 \in Nat /\ m \in i + 1..n /\ m - 1 < m
    BY <1>2, <2>2
  <2>4. m - 1 \notin T
    <3> HIDE DEF T
    <3> QED BY <2>1, <2>2, <2>3
  <2> QED BY <1>1, <2>2, <2>3, <2>4
<1>4. j \in Nat /\ j \notin T
  BY <1>3
<1> QED BY <1>4 DEF at

-----------------------------------------------------------------------------
\* The inductive invariant.

\* Once the table has been read there is one active partition, the drive is the
\* one handed over or, for want of it, the first disk; and what is signed at
\* 0x7C00 has come from there.
Wanted == [drive |-> drive, lba |-> machine.table[active].lba]

Chosen ==
  /\ machine \in Machines
  /\ pc \notin {"scan"} \union Messages => Actives = {active} /\ active \in 1..4
  /\ \/ drive = machine.handed
     \/ drive = FirstDisk /\ (machine.handed >= FirstDisk => machine.geometry[machine.handed] = None)
  /\ pc = "unread" => machine.geometry[drive] = None \/ drive < FirstDisk
  /\ pc = "chs" => LET g == machine.geometry[drive]
                   IN  g # None /\ g.sectors # 0 /\ Cylinder(machine.table[active].lba, g) <= MaxCylinder

Fresh ==
  /\ pc \in {"lba", "geometry", "chs", "verify"} /\ signed => boot = Wanted
  /\ pc \in {"dir", "dirNext", "file", "fileNext", "foreign", "bootmgr"} => boot = Wanted
  /\ pc # "itself"

\* What is loaded is the beginning of BOOTMGR, and the cluster being read is the
\* one that its next sector is in, or was in up to now.
Link(k) == Links(Volume, Volume.first, LoadLimit)[k]

InFile(k, n) ==
  /\ k \in 1..LoadLimit /\ cluster = Link(k)
  /\ Len(loaded) = n /\ n < LoadLimit /\ n < Volume.size

Loaded ==
  /\ loaded \in Seq(Nat \X Nat)
  /\ \A i \in 1..Len(loaded) :
       loaded[i] = Place(Volume, i) /\ i <= Volume.size /\ Place(Volume, i)[1] # EndOfChain
  /\ pc \notin {"file", "fileNext", "bootmgr", "diskError"} => loaded = <<>>
  /\ pc \in {"scan", "read", "lba", "geometry", "chs", "unread", "verify"} => sector = 1
  /\ pc = "file" => \E k \in 1..LoadLimit :
       sector \in 1..Volume.spc /\ InFile(k, (k - 1) * Volume.spc + (sector - 1))
  /\ pc = "fileNext" => sector = 1 /\ \E k \in 1..LoadLimit : InFile(k, k * Volume.spc)
  /\ pc = "bootmgr" => \/ Len(loaded) \in {LoadLimit, Volume.size}
                       \/ \E k \in 1..LoadLimit :
                            /\ Len(loaded) = k * Volume.spc /\ Len(loaded) < LoadLimit
                            /\ Link(k + 1) = EndOfChain

IInv == TypeOK /\ Chosen /\ Fresh /\ Loaded

LEMMA MachineFacts ==
  ASSUME machine \in Machines
  PROVE  Drives(machine) /\ FatVolume(Volume)
BY MachinesAssumption DEF Volume

LEMMA InitInvariant == ASSUME Init PROVE IInv
<1>1. Drives(machine)
  BY MachineFacts DEF Init
<1>2. LoadLimit \in Nat
  BY BoundsAssumption
<1>3. TypeOK
  <2>1. drive \in DOMAIN machine.disk /\ pc = "scan" /\ active = None
    BY <1>1 DEF Init, Drives
  <2>2. signed = TRUE /\ fault = FALSE
    BY DEF Init
  <2>3. sector = 1 /\ Len(loaded) = 0 /\ Len(loaded) <= LoadLimit /\ sector \in Nat \ {0}
    BY <1>2 DEF Init
  <2>4. signed \in BOOLEAN /\ fault \in BOOLEAN
    BY <2>2
  <2>5. /\ pc \in {"scan", "read", "lba", "geometry", "chs", "unread", "verify", "dir", "dirNext",
                   "file", "fileNext"} \union Ended
        /\ pc \in {"dir", "dirNext", "file", "fileNext"} => cluster \in DOMAIN Volume.fat
        /\ active \in (1..4) \union {None}
    BY <2>1
  <2> QED BY <2>1, <2>3, <2>4, <2>5, Zenon DEF TypeOK
<1>4. Chosen
  BY DEF Init, Chosen
<1>5. Fresh
  BY DEF Init, Fresh
<1>6. Loaded
  BY DEF Init, Loaded
<1> QED BY <1>3, <1>4, <1>5, <1>6 DEF IInv

\* The steps of the master boot record leave nothing loaded.
Booting == {"scan", "read", "lba", "geometry", "chs", "unread", "verify"}

LEMMA NothingLoadedYet ==
  ASSUME IInv, pc \in Booting, UNCHANGED <<machine, record>>,
         pc' \in Booting \union Messages \union {"foreign"}
  PROVE  Loaded' /\ Len(loaded)' <= LoadLimit /\ sector' \in Nat \ {0}
<1>1. loaded = <<>> /\ sector = 1
  BY DEF IInv, Loaded, Booting
<1>2. loaded' = <<>> /\ sector' = 1
  BY <1>1 DEF record
<1>3. LoadLimit \in Nat
  BY BoundsAssumption
<1> QED BY <1>2, <1>3 DEF Loaded, Booting, Messages

LEMMA ScanKeeps == ASSUME IInv, Scan PROVE IInv'
<1>1. pc = "scan" /\ pc' \in {"badTable", "noActive", "read"}
  BY DEF Scan
<1>2. UNCHANGED <<machine, record>> /\ UNCHANGED <<drive, boot, signed, fault>>
  BY DEF Scan
<1>3. Loaded' /\ Len(loaded)' <= LoadLimit /\ sector' \in Nat \ {0}
  BY <1>1, <1>2, NothingLoadedYet DEF Booting, Messages
<1>4. CASE pc' = "read"
  <2>1. ~BadTable /\ Actives # {} /\ active' \in Actives
    BY <1>4 DEF Scan
  <2>2. \A p \in Actives : p = active'
    BY <2>1 DEF BadTable
  <2>3. Actives = {active'} /\ active' \in 1..4 /\ Actives' = Actives
    BY <2>1, <2>2, <1>2 DEF Actives
  <2>4. TypeOK'
    BY <1>2, <1>3, <1>4, <2>3 DEF IInv, TypeOK
  <2>5. Chosen'
    BY <1>2, <1>4, <2>3 DEF IInv, Chosen
  <2>6. Fresh'
    BY <1>4 DEF Fresh
  <2> QED BY <1>3, <2>4, <2>5, <2>6 DEF IInv
<1>5. CASE pc' \in {"badTable", "noActive"}
  <2>1. active' = None
    BY <1>5 DEF Scan
  <2>2. TypeOK'
    BY <1>2, <1>3, <1>5, <2>1 DEF IInv, TypeOK, Ended, Messages
  <2>3. Chosen'
    BY <1>2, <1>5 DEF IInv, Chosen, Messages
  <2>4. Fresh'
    BY <1>5 DEF Fresh
  <2> QED BY <1>3, <2>2, <2>3, <2>4 DEF IInv
<1> QED BY <1>1, <1>4, <1>5

LEMMA ReadKeeps == ASSUME IInv, Read PROVE IInv'
<1>1. pc = "read" /\ pc' \in {"lba", "geometry"} /\ signed' = FALSE
  BY DEF Read
<1>2. UNCHANGED <<machine, record>> /\ UNCHANGED <<drive, active, boot, fault>>
  BY DEF Read
<1>3. Loaded' /\ Len(loaded)' <= LoadLimit /\ sector' \in Nat \ {0}
  BY <1>1, <1>2, NothingLoadedYet DEF Booting, Messages
<1>4. TypeOK'
  BY <1>1, <1>2, <1>3 DEF IInv, TypeOK
<1>5. Chosen'
  BY <1>1, <1>2 DEF IInv, Chosen, Messages, Actives
<1>6. Fresh'
  BY <1>1 DEF Fresh
<1> QED BY <1>3, <1>4, <1>5, <1>6 DEF IInv

\* A call of the BIOS for the sector wanted.
LEMMA CallKeeps ==
  ASSUME IInv, pc \in {"lba", "chs"}, NEW failed \in {"geometry", "readError", "unread"},
         Call(Wanted, failed), UNCHANGED <<machine, drive, active, record>>,
         failed = "unread" => drive < FirstDisk
  PROVE  IInv'
<1>1. UNCHANGED <<machine, record>> /\ UNCHANGED <<drive, active>> /\ Wanted' = Wanted
  BY DEF Wanted
<1>2. pc' \in {"verify", failed}
  BY DEF Call
<1>3. Loaded' /\ Len(loaded)' <= LoadLimit /\ sector' \in Nat \ {0}
  BY <1>1, <1>2, NothingLoadedYet DEF Booting, Messages
<1>4. boot' = Wanted \/ (boot' = boot /\ signed' = signed)
  BY DEF Call, Transfer, NoTransfer
<1>5. signed' \in BOOLEAN /\ fault' \in BOOLEAN
  <2>1. signed \in BOOLEAN /\ fault \in BOOLEAN
    BY DEF IInv, TypeOK
  <2>2. signed' = signed \/ signed' = (Contents(Wanted) # "blank")
    BY DEF Call, Transfer, NoTransfer
  <2>3. fault' = fault \/ fault' = TRUE
    BY DEF Call
  <2> QED BY <2>1, <2>2, <2>3
<1>6. TypeOK'
  BY <1>1, <1>2, <1>3, <1>5 DEF IInv, TypeOK, Ended, Messages
<1>7. Chosen'
  <2>1. pc \notin {"scan"} \union Messages /\ pc' \notin {"scan", "chs"}
    BY <1>2 DEF Messages
  <2> QED BY <1>1, <1>2, <2>1 DEF IInv, Chosen, Actives
<1>8. Fresh'
  <2>1. signed => boot = Wanted
    BY DEF IInv, Fresh
  <2> QED BY <1>1, <1>2, <1>4, <2>1 DEF Fresh
<1> QED BY <1>3, <1>6, <1>7, <1>8 DEF IInv

LEMMA ReadLbaKeeps == ASSUME IInv, ReadLba PROVE IInv'
<1>1. Call(Wanted, "geometry")
  BY DEF ReadLba, Wanted
<1> QED BY <1>1, CallKeeps DEF ReadLba

\* Cylinder, head and sector are those of the sector wanted.
LEMMA ReadChsKeeps == ASSUME IInv, ReadChs PROVE IInv'
<1> DEFINE g == machine.geometry[drive]
           lba == machine.table[active].lba
<1>1. pc = "chs" /\ Drives(machine) /\ drive \in DOMAIN machine.disk
  BY MachineFacts DEF IInv, TypeOK, Chosen, ReadChs
<1>2. active \in 1..4
  BY <1>1 DEF IInv, Chosen, Messages
<1>3. lba \in Nat
  BY <1>1, <1>2 DEF Drives
<1>4. g # None /\ g.sectors # 0 /\ Cylinder(lba, g) <= MaxCylinder
  BY <1>1 DEF IInv, Chosen
<1>5. g.sectors \in Nat \ {0} /\ g.heads \in Nat \ {0}
  BY <1>1, <1>4 DEF Drives
<1>6. Addressed(lba, g) = lba
  BY <1>3, <1>4, <1>5, AddressIsExact
<1> DEFINE failed == IF drive >= FirstDisk THEN "readError" ELSE "unread"
<1>7. Call([drive |-> drive, lba |-> Addressed(lba, g)], failed)
  BY DEF ReadChs
<1>8. Call(Wanted, failed)
  BY <1>6, <1>7, Zenon DEF Wanted
<1>9. failed = "unread" => drive < FirstDisk
  <2>1. drive \in Nat
    BY <1>1 DEF Drives
  <2> QED BY <2>1 DEF FirstDisk
<1>10. UNCHANGED <<machine, drive, active, record>>
  BY DEF ReadChs
<1>11. failed \in {"geometry", "readError", "unread"}
  OBVIOUS
<1> HIDE DEF failed
<1> QED BY <1>1, <1>8, <1>9, <1>10, <1>11, CallKeeps

LEMMA GeometryKeeps == ASSUME IInv, Geometry PROVE IInv'
<1> DEFINE g == machine.geometry[drive]
<1>1. pc = "geometry" /\ pc' \in {"unread", "readError", "chs"}
  BY DEF Geometry
<1>2. UNCHANGED <<machine, record>> /\ UNCHANGED <<drive, active, boot, signed, fault>>
  BY DEF Geometry
<1>3. Loaded' /\ Len(loaded)' <= LoadLimit /\ sector' \in Nat \ {0}
  BY <1>1, <1>2, NothingLoadedYet DEF Booting, Messages
<1>4. TypeOK'
  BY <1>1, <1>2, <1>3 DEF IInv, TypeOK, Ended, Messages
<1>5. Chosen'
  <2>1. Drives(machine) /\ drive \in DOMAIN machine.disk /\ active \in 1..4
    BY <1>1, MachineFacts DEF IInv, TypeOK, Chosen, Messages
  <2>2. machine.table[active].lba \in Nat /\ MaxCylinder \in Nat
    BY <2>1, BoundsAssumption DEF Drives
  <2>3. g # None => g.sectors \in Nat /\ g.heads \in Nat \ {0}
    BY <2>1 DEF Drives
  <2>4. pc' = "unread" => g = None
    BY DEF Geometry
  <2>5. pc' = "chs" => /\ g # None /\ g.sectors # 0
                       /\ ~(Cylinder(machine.table[active].lba, g) > MaxCylinder)
    BY DEF Geometry
  <2>6. pc' = "chs" => Cylinder(machine.table[active].lba, g) \in Nat
    <3>1. ASSUME NEW x \in Nat, NEW s \in Nat \ {0}, NEW h \in Nat \ {0}
          PROVE  (x \div s) \div h \in Nat
      BY QuotientDef
    <3> QED BY <2>2, <2>3, <2>5, <3>1 DEF Cylinder
  <2>7. pc' = "chs" => g # None /\ g.sectors # 0 /\ Cylinder(machine.table[active].lba, g) <= MaxCylinder
    BY <2>2, <2>5, <2>6
  <2> QED BY <1>1, <1>2, <2>4, <2>7 DEF IInv, Chosen, Messages, Actives, Cylinder
<1>6. Fresh'
  BY <1>1, <1>2 DEF IInv, Fresh, Wanted
<1> QED BY <1>3, <1>4, <1>5, <1>6 DEF IInv

LEMMA UnreadKeeps == ASSUME IInv, Unread PROVE IInv'
<1>1. pc = "unread" /\ pc' \in {"readError", "read"}
  BY DEF Unread
<1>2. UNCHANGED <<machine, record>> /\ UNCHANGED <<active, boot, signed, fault>>
  BY DEF Unread
<1>3. Loaded' /\ Len(loaded)' <= LoadLimit /\ sector' \in Nat \ {0}
  BY <1>1, <1>2, NothingLoadedYet DEF Booting, Messages
<1>4. drive' = drive \/ (drive # FirstDisk /\ drive' = FirstDisk)
  BY DEF Unread
<1>5. Drives(machine)
  BY MachineFacts DEF IInv, Chosen
<1>6. TypeOK'
  BY <1>1, <1>2, <1>3, <1>4, <1>5 DEF IInv, TypeOK, Ended, Messages, Drives
<1>7. Chosen'
  <2>1. /\ machine' \in Machines
        /\ pc' \notin {"scan"} \union Messages => Actives' = {active'} /\ active' \in 1..4
    BY <1>1, <1>2 DEF IInv, Chosen, Messages, Actives
  <2>2. machine.handed \in Nat
    BY <1>5 DEF Drives
  <2>3. drive # FirstDisk => drive = machine.handed /\ (drive >= FirstDisk => machine.geometry[drive] = None)
    BY <1>1, <2>2 DEF IInv, Chosen, FirstDisk
  <2>4. \/ drive' = machine.handed
        \/ drive' = FirstDisk /\ (machine.handed >= FirstDisk => machine.geometry[machine.handed] = None)
    BY <1>4, <2>3 DEF IInv, Chosen
  <2> QED BY <1>1, <1>2, <2>1, <2>4 DEF Chosen
<1>8. Fresh'
  BY <1>1 DEF Fresh
<1> QED BY <1>3, <1>6, <1>7, <1>8 DEF IInv

LEMMA VerifyKeeps == ASSUME IInv, Verify PROVE IInv'
<1>1. pc = "verify" /\ UNCHANGED machine /\ UNCHANGED <<drive, active, boot, signed, fault>>
  BY DEF Verify
<1>2. Drives(machine) /\ FatVolume(Volume) /\ Volume' = Volume
  BY <1>1, MachineFacts DEF IInv, Chosen, Volume
<1>3. signed => boot = Wanted
  BY <1>1 DEF IInv, Fresh
<1>4. Wanted # None
  <2>1. active \in 1..4 /\ drive \in DOMAIN machine.disk
    BY <1>1 DEF IInv, TypeOK, Chosen, Messages
  <2>2. drive \in Nat /\ machine.table[active].lba \in Nat
    BY <1>2, <2>1 DEF Drives
  <2> QED BY <2>2, NoneAssumption DEF Wanted
<1>5. \/ pc' = "notBootSector" /\ UNCHANGED record
      \/ pc' = "foreign" /\ signed /\ UNCHANGED record
      \/ pc' = "dir" /\ signed /\ cluster' = Volume.root /\ UNCHANGED <<sector, cached, loaded>>
  BY <1>3, <1>4 DEF Verify, Volume
<1>6. Loaded' /\ Len(loaded)' <= LoadLimit /\ sector' \in Nat \ {0}
  <2>1. loaded' = <<>> /\ sector' = 1 /\ pc' \notin {"file", "fileNext", "bootmgr"}
    BY <1>1, <1>5 DEF IInv, Loaded, record
  <2> QED BY <2>1, BoundsAssumption DEF Loaded
<1>7. TypeOK'
  <2>1. pc' = "dir" => cluster' \in DOMAIN Volume.fat
    BY <1>2, <1>5 DEF FatVolume
  <2> QED BY <1>1, <1>2, <1>5, <1>6, <2>1 DEF IInv, TypeOK, Ended, Messages
<1>8. Chosen'
  BY <1>1, <1>5 DEF IInv, Chosen, Actives, Messages
<1>9. Fresh'
  BY <1>1, <1>3, <1>5 DEF Fresh, Wanted
<1> QED BY <1>6, <1>7, <1>8, <1>9 DEF IInv

-----------------------------------------------------------------------------
\* The steps of the volume boot record leave what the first did alone.

Loading == {"dir", "dirNext", "file", "fileNext"}

LEMMA BootStays ==
  ASSUME IInv, pc \in Loading, UNCHANGED mbr, pc' \in Loading \union {"bootmgr", "notFound", "diskError"}
  PROVE  /\ Chosen' /\ Fresh'
         /\ Volume' = Volume /\ FatVolume(Volume) /\ cluster \in DOMAIN Volume.fat
         /\ drive' \in DOMAIN machine'.disk /\ active' \in (1..4) \union {None} /\ signed' \in BOOLEAN
<1>1. UNCHANGED machine /\ UNCHANGED <<drive, active, boot, signed>> /\ Volume' = Volume
  BY DEF mbr, Volume
<1>2. Chosen'
  BY <1>1 DEF IInv, Chosen, Actives, Messages, Loading
<1>3. Fresh'
  BY <1>1 DEF IInv, Fresh, Wanted, Loading
<1>4. FatVolume(Volume)
  BY MachineFacts DEF IInv, Chosen
<1>5. /\ cluster \in DOMAIN Volume.fat
      /\ drive' \in DOMAIN machine'.disk /\ active' \in (1..4) \union {None} /\ signed' \in BOOLEAN
  BY <1>1 DEF IInv, TypeOK, Loading
<1> QED BY <1>1, <1>2, <1>3, <1>4, <1>5

LEMMA DiskErrorKeeps ==
  ASSUME IInv, pc \in Loading, UNCHANGED mbr, DiskError
  PROVE  IInv'
<1>1. pc' = "diskError" /\ fault' = TRUE /\ UNCHANGED <<cluster, sector, cached, loaded>>
  BY DEF DiskError, record
<1>2. /\ Chosen' /\ Fresh' /\ Volume' = Volume
      /\ drive' \in DOMAIN machine'.disk /\ active' \in (1..4) \union {None} /\ signed' \in BOOLEAN
  BY <1>1, BootStays
<1>3. TypeOK'
  BY <1>1, <1>2 DEF IInv, TypeOK, Ended, Messages
<1>4. Loaded'
  BY <1>1, <1>2 DEF IInv, Loaded
<1> QED BY <1>2, <1>3, <1>4 DEF IInv

LEMMA ReadDirKeeps == ASSUME IInv, ReadDir PROVE IInv'
<1>1. pc = "dir" /\ UNCHANGED mbr /\ pc \in Loading
  BY DEF ReadDir, Loading
<1>2. CASE DiskError
  BY <1>1, <1>2, DiskErrorKeeps
<1>3. CASE /\ \/ /\ pc' = "file" /\ cluster' = Volume.first /\ sector' = 1
                 /\ Volume.size > 0 /\ Volume.first # EndOfChain
              \/ pc' = "notFound" /\ UNCHANGED <<cluster, sector>>
              \/ pc' = "dir" /\ UNCHANGED cluster /\ sector' = sector + 1
              \/ pc' = "dirNext" /\ UNCHANGED cluster /\ sector' = 1
           /\ UNCHANGED <<cached, loaded, fault>>
  <2>1. pc' \in Loading \union {"bootmgr", "notFound", "diskError"}
    BY <1>3 DEF Loading
  <2>2. /\ Chosen' /\ Fresh' /\ Volume' = Volume /\ FatVolume(Volume) /\ cluster \in DOMAIN Volume.fat
        /\ drive' \in DOMAIN machine'.disk /\ active' \in (1..4) \union {None} /\ signed' \in BOOLEAN
    BY <1>1, <2>1, BootStays
  <2>3. sector' \in Nat \ {0} /\ fault' \in BOOLEAN
    BY <1>3 DEF IInv, TypeOK
  <2>4. cluster' \in DOMAIN Volume.fat
    BY <1>3, <2>2 DEF FatVolume
  <2>5. loaded' = <<>> /\ Len(loaded)' = 0
    BY <1>1, <1>3 DEF IInv, Loaded
  <2>6. LoadLimit \in Nat \ {0} /\ Volume.size \in Nat /\ Volume.spc \in Nat \ {0}
    BY <2>2, BoundsAssumption DEF FatVolume
  <2>7. TypeOK'
    BY <1>3, <2>2, <2>3, <2>4, <2>5, <2>6 DEF TypeOK, Ended, Messages
  <2>8. Loaded'
    <3>1. pc' = "file" => \E k \in 1..LoadLimit :
            sector' \in 1..(Volume').spc /\ InFile(k, (k - 1) * Volume.spc + (sector - 1))'
      <4>1. ASSUME pc' = "file" PROVE sector' \in 1..(Volume').spc /\ InFile(1, (1 - 1) * Volume.spc + (sector - 1))'
        <5>1. sector' = 1 /\ cluster' = Volume.first /\ Volume.size > 0
          BY <1>3, <4>1
        <5>2. 1 \in 1..LoadLimit
          BY <2>6
        <5>3. Link(1)' = Volume.first
          BY <2>2, <2>6, <5>2, LinksDef DEF Link
        <5>4. (1 - 1) * Volume.spc + (1 - 1) = 0
          BY <2>6
        <5> QED BY <2>2, <2>5, <2>6, <5>1, <5>2, <5>3, <5>4 DEF InFile
      <4> QED BY <2>6, <4>1
    <3>2. pc' \in {"file", "notFound", "dir", "dirNext"}
      BY <1>3
    <3> QED BY <2>5, <3>1, <3>2 DEF Loaded
  <2> QED BY <2>2, <2>7, <2>8 DEF IInv
<1> QED BY <1>2, <1>3 DEF ReadDir

\* The next cluster, if there is one, is a cluster of the volume.
LEMMA FatNextFacts ==
  ASSUME NEW end, NEW more, FatNext(end, more), FatVolume(Volume), cluster \in DOMAIN Volume.fat
  PROVE  \/ DiskError
         \/ /\ UNCHANGED <<sector, loaded, fault>>
            /\ \/ pc' = end /\ cluster' = cluster /\ Volume.fat[cluster] = EndOfChain
               \/ pc' = more /\ cluster' = Volume.fat[cluster] /\ cluster' \in DOMAIN Volume.fat
BY DEF FatNext, FatVolume

LEMMA DirNextKeeps == ASSUME IInv, DirNext PROVE IInv'
<1>1. pc = "dirNext" /\ UNCHANGED mbr /\ pc \in Loading
  BY DEF DirNext, Loading
<1>2. FatVolume(Volume) /\ cluster \in DOMAIN Volume.fat
  BY <1>1, MachineFacts DEF IInv, Chosen, TypeOK
<1>3. CASE DiskError
  BY <1>1, <1>3, DiskErrorKeeps
<1>4. CASE /\ UNCHANGED <<sector, loaded, fault>>
           /\ \/ pc' = "notFound" /\ cluster' = cluster
              \/ pc' = "dir" /\ cluster' \in DOMAIN Volume.fat
  <2>1. pc' \in Loading \union {"bootmgr", "notFound", "diskError"}
    BY <1>4 DEF Loading
  <2>2. /\ Chosen' /\ Fresh' /\ Volume' = Volume
        /\ drive' \in DOMAIN machine'.disk /\ active' \in (1..4) \union {None} /\ signed' \in BOOLEAN
    BY <1>1, <2>1, BootStays
  <2>3. TypeOK'
    BY <1>4, <2>2 DEF IInv, TypeOK, Ended, Messages
  <2>4. Loaded'
    BY <1>1, <1>4, <2>2 DEF IInv, Loaded
  <2> QED BY <2>2, <2>3, <2>4 DEF IInv
<1> QED BY <1>2, <1>3, <1>4, FatNextFacts DEF DirNext

LEMMA FileNextKeeps == ASSUME IInv, FileNext PROVE IInv'
<1>1. pc = "fileNext" /\ UNCHANGED mbr /\ pc \in Loading
  BY DEF FileNext, Loading
<1>2. FatVolume(Volume) /\ cluster \in DOMAIN Volume.fat
  BY <1>1, MachineFacts DEF IInv, Chosen, TypeOK
<1>3. CASE DiskError
  BY <1>1, <1>3, DiskErrorKeeps
<1>4. CASE /\ UNCHANGED <<sector, loaded, fault>>
           /\ \/ pc' = "bootmgr" /\ cluster' = cluster /\ Volume.fat[cluster] = EndOfChain
              \/ pc' = "file" /\ cluster' = Volume.fat[cluster] /\ cluster' \in DOMAIN Volume.fat
  <2>1. pc' \in Loading \union {"bootmgr", "notFound", "diskError"}
    BY <1>4 DEF Loading
  <2>2. /\ Chosen' /\ Fresh' /\ Volume' = Volume
        /\ drive' \in DOMAIN machine'.disk /\ active' \in (1..4) \union {None} /\ signed' \in BOOLEAN
    BY <1>1, <2>1, BootStays
  <2>3. TypeOK'
    BY <1>4, <2>2 DEF IInv, TypeOK, Ended, Messages
  <2>4. PICK k \in 1..LoadLimit : InFile(k, k * Volume.spc)
    BY <1>1 DEF IInv, Loaded
  <2>5. sector = 1
    BY <1>1 DEF IInv, Loaded
  <2>6. LoadLimit \in Nat \ {0} /\ Volume.size \in Nat /\ Volume.spc \in Nat \ {0}
    BY <1>2, BoundsAssumption DEF FatVolume
  <2>7. k + 1 \in 1..LoadLimit
    <3>1. k <= k * Volume.spc
      <4> DEFINE s == Volume.spc
      <4>1. s \in Nat \ {0} /\ k \in Nat
        BY <2>6
      <4> HIDE DEF s
      <4>2. k * (s - 1) >= 0 /\ k * (s - 1) = k * s - k
        BY <4>1
      <4>3. k <= k * s
        BY <4>1, <4>2
      <4> QED BY <4>3 DEF s
    <3>2. k * Volume.spc < LoadLimit /\ k * Volume.spc \in Nat
      BY <2>4, <2>6 DEF InFile
    <3> QED BY <2>6, <3>1, <3>2
  <2>8. Link(k + 1) = Volume.fat[cluster]
    <3>1. Link(k + 1) = IF k + 1 = 1 THEN Volume.first
                        ELSE IF Link((k + 1) - 1) = EndOfChain THEN EndOfChain
                        ELSE Volume.fat[Link((k + 1) - 1)]
      BY <2>6, <2>7, LinksDef DEF Link
    <3>2. k + 1 # 1 /\ (k + 1) - 1 = k
      OBVIOUS
    <3>3. Link(k) = cluster /\ cluster # EndOfChain
      BY <1>2, <2>4 DEF InFile, FatVolume
    <3> QED BY <3>1, <3>2, <3>3
  <2>9. Loaded'
    <3>1. CASE pc' = "bootmgr"
      <4>1. /\ Len(loaded') = k * (Volume').spc /\ Len(loaded') < LoadLimit /\ Link(k + 1)' = EndOfChain
        BY <1>4, <2>2, <2>4, <2>8, <3>1 DEF InFile, Link
      <4>2. k \in 1..LoadLimit /\ loaded' = loaded
        BY <1>4
      <4> QED BY <2>2, <3>1, <4>1, <4>2 DEF IInv, Loaded
    <3>2. CASE pc' = "file"
      <4> DEFINE j == k + 1
      <4>1. j \in 1..LoadLimit /\ j - 1 = k
        BY <2>7
      <4>2. Link(j)' = cluster'
        BY <1>4, <2>2, <2>8, <3>2 DEF Link
      <4> HIDE DEF j
      <4>3. sector' = 1 /\ loaded' = loaded
        BY <1>4, <2>5
      <4>4. k * Volume.spc \in Nat
        BY <2>6
      <4>5. (j - 1) * (Volume').spc + (sector' - 1) = k * Volume.spc
        BY <2>2, <4>1, <4>3, <4>4
      <4>6. InFile(j, (j - 1) * Volume.spc + (sector - 1))'
        BY <2>2, <2>4, <4>1, <4>2, <4>3, <4>5 DEF InFile
      <4>7. sector' \in 1..(Volume').spc
        BY <2>2, <2>6, <4>3
      <4> QED BY <2>2, <3>2, <4>1, <4>3, <4>6, <4>7 DEF IInv, Loaded
    <3> QED BY <1>4, <3>1, <3>2
  <2> QED BY <2>2, <2>3, <2>9 DEF IInv
<1> QED BY <1>2, <1>3, <1>4, FatNextFacts DEF FileNext

\* The sector read next is the one that BOOTMGR has in that place.
LEMMA ReadFileKeeps == ASSUME IInv, ReadFile PROVE IInv'
<1>1. pc = "file" /\ UNCHANGED mbr /\ pc \in Loading
  BY DEF ReadFile, Loading
<1>2. FatVolume(Volume) /\ cluster \in DOMAIN Volume.fat
  BY <1>1, MachineFacts DEF IInv, Chosen, TypeOK
<1>3. CASE DiskError
  BY <1>1, <1>3, DiskErrorKeeps
<1>4. CASE /\ loaded' = Append(loaded, <<cluster, sector>>)
           /\ IF Len(loaded') \in {LoadLimit, Volume.size}
              THEN pc' = "bootmgr" /\ UNCHANGED sector
              ELSE IF sector < Volume.spc THEN sector' = sector + 1 /\ UNCHANGED pc
              ELSE sector' = 1 /\ pc' = "fileNext"
           /\ UNCHANGED <<cluster, cached, fault>>
  <2>1. pc' \in Loading \union {"bootmgr", "notFound", "diskError"}
    BY <1>1, <1>4 DEF Loading
  <2>2. /\ Chosen' /\ Fresh' /\ Volume' = Volume
        /\ drive' \in DOMAIN machine'.disk /\ active' \in (1..4) \union {None} /\ signed' \in BOOLEAN
    BY <1>1, <2>1, BootStays
  <2> DEFINE spc == Volume.spc
             n == Len(loaded)
  <2>3. PICK k \in 1..LoadLimit : sector \in 1..spc /\ InFile(k, (k - 1) * spc + (sector - 1))
    BY <1>1 DEF IInv, Loaded
  <2>4. LoadLimit \in Nat \ {0} /\ Volume.size \in Nat /\ spc \in Nat \ {0}
    BY <1>2, BoundsAssumption DEF FatVolume
  <2>5. /\ cluster = Link(k) /\ n = (k - 1) * spc + (sector - 1)
        /\ n < LoadLimit /\ n < Volume.size
    BY <2>3 DEF InFile
  <2>6. loaded \in Seq(Nat \X Nat)
    BY DEF IInv, Loaded
  <2>7. cluster \in Nat /\ cluster # EndOfChain
    BY <1>2 DEF FatVolume
  <2>8. n \in Nat
    BY <2>6
  <2>9. /\ loaded' \in Seq(Nat \X Nat) /\ Len(loaded') = n + 1
        /\ loaded'[n + 1] = <<cluster, sector>> /\ \A i \in 1..n : loaded'[i] = loaded[i]
    <3>1. <<cluster, sector>> \in Nat \X Nat
      BY <2>3, <2>4, <2>7
    <3> QED BY <1>4, <2>6, <3>1
  <2> HIDE DEF spc, n
  <2>10. n \div spc = k - 1 /\ n % spc = sector - 1
    <3>1. k - 1 \in Nat /\ sector - 1 \in 0..spc - 1
      BY <2>3, <2>4
    <3> QED BY <2>4, <2>5, <3>1, QuotientIsUnique
  <2>11. Place(Volume, n + 1) = <<cluster, sector>>
    <3>1. (n + 1) - 1 = n /\ (k - 1) + 1 = k /\ (sector - 1) + 1 = sector
      BY <2>3, <2>4, <2>8
    <3>2. Nth(Volume, n + 1) = k
      BY <2>10, <3>1 DEF Nth, spc
    <3>3. (((n + 1) - 1) % Volume.spc) + 1 = sector
      BY <2>10, <3>1 DEF spc
    <3> QED BY <2>5, <3>2, <3>3 DEF Place, Link
  <2>12. n + 1 <= LoadLimit /\ n + 1 <= Volume.size
    BY <2>4, <2>5, <2>8
  <2>13. \A i \in 1..Len(loaded') :
           loaded'[i] = Place(Volume, i) /\ i <= Volume.size /\ Place(Volume, i)[1] # EndOfChain
    <3>1. \A i \in 1..n : loaded[i] = Place(Volume, i) /\ i <= Volume.size /\ Place(Volume, i)[1] # EndOfChain
      BY DEF IInv, Loaded, n
    <3>2. ASSUME NEW i \in 1..Len(loaded')
          PROVE  loaded'[i] = Place(Volume, i) /\ i <= Volume.size /\ Place(Volume, i)[1] # EndOfChain
      <4>1. CASE i = n + 1
        BY <2>7, <2>9, <2>11, <2>12, <4>1
      <4>2. CASE i \in 1..n
        BY <2>9, <3>1, <4>2
      <4> QED BY <2>8, <2>9, <4>1, <4>2
    <3> QED BY <3>2
  <2>14. sector' \in Nat \ {0}
    BY <1>4, <2>3, <2>4
  <2>15. TypeOK'
    <3>1. fault' \in BOOLEAN /\ cluster' \in DOMAIN (Volume').fat
      BY <1>2, <1>4, <2>2 DEF IInv, TypeOK
    <3>2. pc' \in {"file", "fileNext", "bootmgr"}
      BY <1>1, <1>4
    <3> QED BY <2>2, <2>9, <2>12, <2>14, <3>1, <3>2 DEF TypeOK, Ended
  <2>16. Loaded'
    <3>1. \/ pc' = "bootmgr" /\ Len(loaded') \in {LoadLimit, Volume.size}
          \/ /\ pc' = "file" /\ sector < spc /\ sector' = sector + 1
             /\ n + 1 < LoadLimit /\ n + 1 < Volume.size
          \/ /\ pc' = "fileNext" /\ sector = spc /\ sector' = 1
             /\ n + 1 < LoadLimit /\ n + 1 < Volume.size
      BY <1>1, <1>4, <2>3, <2>4, <2>8, <2>9, <2>12 DEF spc
    <3>2. /\ loaded' \in Seq(Nat \X Nat)
          /\ \A i \in 1..Len(loaded') :
               loaded'[i] = Place(Volume', i) /\ i <= (Volume').size /\ Place(Volume', i)[1] # EndOfChain
      BY <2>2, <2>9, <2>13
    <3>3. CASE pc' = "bootmgr"
      BY <2>2, <3>1, <3>2, <3>3 DEF Loaded
    <3>4. CASE pc' = "file"
      <4>1. (k - 1) * spc \in Nat
        BY <2>3, <2>4
      <4>2. n + 1 = (k - 1) * spc + (sector' - 1) /\ sector' \in 1..spc
        BY <2>3, <2>4, <2>5, <3>1, <3>4, <4>1
      <4>3. InFile(k, (k - 1) * Volume.spc + (sector - 1))'
        BY <1>4, <2>2, <2>3, <2>5, <2>9, <3>1, <3>4, <4>2 DEF InFile, Link, spc
      <4>4. sector' \in 1..(Volume').spc
        BY <2>2, <4>2 DEF spc
      <4> QED BY <2>3, <3>2, <3>4, <4>3, <4>4 DEF Loaded
    <3>5. CASE pc' = "fileNext"
      <4>1. n + 1 = k * spc
        <5>1. (k - 1) * spc + spc = k * spc /\ (k - 1) * spc \in Nat
          BY <2>3, <2>4
        <5> QED BY <2>4, <2>5, <3>1, <3>5, <5>1
      <4>2. InFile(k, k * Volume.spc)'
        BY <1>4, <2>2, <2>3, <2>5, <2>9, <3>1, <3>5, <4>1 DEF InFile, Link, spc
      <4>3. sector' = 1
        BY <3>1, <3>5
      <4> QED BY <2>3, <3>2, <3>5, <4>2, <4>3 DEF Loaded
    <3> QED BY <3>1, <3>3, <3>4, <3>5
  <2> QED BY <2>2, <2>15, <2>16 DEF IInv
<1> QED BY <1>3, <1>4 DEF ReadFile

LEMMA StepKeeps == ASSUME IInv, [Next]_vars PROVE IInv'
<1>1. CASE UNCHANGED vars
  <2>1. UNCHANGED <<machine, pc, drive, active, boot, signed, cluster, sector, cached, loaded, fault>>
    BY <1>1 DEF vars
  <2>2. TypeOK'
    BY <2>1 DEF IInv, TypeOK, Volume
  <2>3. Chosen'
    BY <2>1 DEF IInv, Chosen, Actives
  <2>4. Fresh'
    BY <2>1 DEF IInv, Fresh, Wanted
  <2>5. Volume' = Volume
    BY <2>1 DEF Volume
  <2>6. Loaded'
    BY <2>1, <2>5 DEF IInv, Loaded, InFile, Link
  <2> QED BY <2>2, <2>3, <2>4, <2>6 DEF IInv
<1> QED
  BY <1>1, ScanKeeps, ReadKeeps, ReadLbaKeeps, GeometryKeeps, ReadChsKeeps, UnreadKeeps, VerifyKeeps,
     ReadDirKeeps, DirNextKeeps, ReadFileKeeps, FileNextKeeps DEF Next

\* The inductive invariant holds throughout.
THEOREM Invariant == Spec => []IInv
<1>1. Init => IInv
  BY InitInvariant
<1>2. IInv /\ [Next]_vars => IInv'
  BY StepKeeps
<1> QED BY <1>1, <1>2, PTL DEF Spec

-----------------------------------------------------------------------------
\* What follows from it.

\* The variables of the boot code have their types: the load stays below the
\* EBDA whatever BOOTMGR's size, and no cluster that is none is ever read.
THEOREM TypeCorrect == Spec => []TypeOK
<1>1. IInv => TypeOK
  BY DEF IInv
<1> QED BY <1>1, Invariant, PTL

\* What is in memory when BOOTMGR is entered is all that there is to load.
LEMMA AllIsLoaded ==
  ASSUME IInv, pc = "bootmgr"
  PROVE  {i \in 1..LoadLimit : i <= Volume.size /\ Place(Volume, i)[1] # EndOfChain} = 1..Len(loaded)
<1> DEFINE there == {i \in 1..LoadLimit : i <= Volume.size /\ Place(Volume, i)[1] # EndOfChain}
           n == Len(loaded)
           spc == Volume.spc
<1>1. FatVolume(Volume)
  BY MachineFacts DEF IInv, Chosen
<1>2. LoadLimit \in Nat \ {0} /\ Volume.size \in Nat /\ spc \in Nat \ {0}
  BY <1>1, BoundsAssumption DEF FatVolume
<1>3. n \in Nat /\ n <= LoadLimit
  BY DEF IInv, TypeOK, Loaded
<1>4. \A i \in 1..n : i <= Volume.size /\ Place(Volume, i)[1] # EndOfChain
  BY DEF IInv, Loaded
<1>5. \/ n \in {LoadLimit, Volume.size}
      \/ \E k \in 1..LoadLimit : n = k * spc /\ n < LoadLimit /\ Link(k + 1) = EndOfChain
  BY DEF IInv, Loaded
<1> HIDE DEF n, spc
<1>6. 1..n \subseteq there
  BY <1>2, <1>3, <1>4
<1>7. ASSUME NEW i \in there, i > n PROVE FALSE
  <2>1. i \in 1..LoadLimit /\ i <= Volume.size /\ Place(Volume, i)[1] # EndOfChain
    OBVIOUS
  <2> HIDE DEF there
  <2>2. PICK k \in 1..LoadLimit : n = k * spc /\ n < LoadLimit /\ Link(k + 1) = EndOfChain
    BY <1>2, <1>3, <1>5, <1>7, <2>1
  <2> DEFINE q == (i - 1) \div spc
  <2>3. q \in Nat /\ q <= i - 1 /\ i - 1 = q * spc + ((i - 1) % spc) /\ (i - 1) % spc \in 0..spc - 1
    <3>1. i - 1 \in Nat
      BY <2>1, <1>2
    <3> QED BY <3>1, <1>2, QuotientDef
  <2> HIDE DEF q
  <2>4. k <= q
    <3>1. ASSUME q < k PROVE FALSE
      <4>1. q * spc + spc <= k * spc
        BY <1>2, <2>3, <3>1, ProductMonotone
      <4> QED BY <1>2, <1>3, <1>7, <2>1, <2>2, <2>3, <4>1
    <3> QED BY <2>3, <3>1
  <2>5. k + 1 \in 1..LoadLimit /\ q + 1 \in (k + 1)..LoadLimit
    BY <1>2, <2>1, <2>3, <2>4
  <2>6. Links(Volume, Volume.first, LoadLimit)[q + 1] = EndOfChain
    BY <1>2, <2>2, <2>5, EndStays DEF Link
  <2>7. Place(Volume, i)[1] = EndOfChain
    BY <2>6 DEF Place, Nth, q, spc
  <2> QED BY <2>1, <2>7
<1>8. there \subseteq 1..n
  <2>1. ASSUME NEW i \in there PROVE i \in 1..n
    <3>1. i \in 1..LoadLimit
      OBVIOUS
    <3> HIDE DEF there
    <3> QED BY <1>2, <1>3, <1>7, <3>1
  <2> HIDE DEF there
  <2> QED BY <2>1
<1> QED BY <1>6, <1>8 DEF n

\* Control passes only to the first sector of the one active partition, just
\* read from the drive DL names, and to BOOTMGR only when all there is of it to
\* load is in memory, in order: mbr.asm and fat32.asm.
THEOREM BootsFromTheActivePartition == Spec => []BootsWhatIsActive
<1>1. ASSUME IInv PROVE BootsWhatIsActive
  <2>1. pc # "itself"
    BY <1>1 DEF IInv, Fresh
  <2>2. pc \in {"dir", "dirNext", "file", "fileNext", "foreign", "bootmgr"} =>
          /\ Actives = {active}
          /\ boot = [drive |-> drive, lba |-> machine.table[active].lba]
          /\ \/ drive = machine.handed
             \/ drive = FirstDisk /\ (machine.handed >= FirstDisk => machine.geometry[machine.handed] = None)
    BY <1>1 DEF IInv, Fresh, Chosen, Wanted, Messages
  <2>3. ASSUME pc = "bootmgr" PROVE loaded = BootmgrOf(Volume)
    <3> DEFINE there == {i \in 1..LoadLimit : i <= Volume.size /\ Place(Volume, i)[1] # EndOfChain}
               n == Len(loaded)
               m == CHOOSE k \in 0..LoadLimit : there = 1..k
    <3>1. there = 1..n
      BY <1>1, <2>3, AllIsLoaded
    <3>2. n \in 0..LoadLimit
      BY <1>1, BoundsAssumption DEF IInv, TypeOK, Loaded
    <3>3. loaded = [i \in 1..n |-> Place(Volume, i)]
      <4>1. loaded \in Seq(Nat \X Nat) /\ \A i \in 1..n : loaded[i] = Place(Volume, i)
        BY <1>1 DEF IInv, Loaded
      <4>2. loaded = [i \in 1..n |-> loaded[i]]
        BY <4>1
      <4> HIDE DEF n
      <4> QED BY <4>1, <4>2
    <3>4. BootmgrOf(Volume) = [i \in 1..m |-> Place(Volume, i)]
      BY DEF BootmgrOf
    <3> HIDE DEF there, n
    <3>5. m \in 0..LoadLimit /\ there = 1..m
      BY <3>1, <3>2
    <3> HIDE DEF m
    <3>6. m = n
      <4>1. LoadLimit \in Nat
        BY BoundsAssumption
      <4> QED BY <3>1, <3>2, <3>5, <4>1
    <3> QED BY <3>3, <3>4, <3>6
  <2> QED BY <2>1, <2>2, <2>3 DEF BootsWhatIsActive
<1> QED BY <1>1, Invariant, PTL
=============================================================================
