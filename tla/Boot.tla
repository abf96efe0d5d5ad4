--------------------------------- MODULE Boot ---------------------------------
(***************************************************************************)
(* The BIOS boot code (crates/core/boot): the master boot record, mbr.asm, *)
(* which finds the one active partition, reads its first sector and jumps  *)
(* to it, and the volume boot record, fat32.asm, which finds BOOTMGR in    *)
(* the root directory of a FAT32 volume, loads it and jumps to it.  One    *)
(* action is one call of the BIOS, which may fail, or claim to have read   *)
(* what it has not, or give the boot code the wrong number for its drive.  *)
(***************************************************************************)
EXTENDS Integers, Sequences

CONSTANTS
  Machines,     \* firmware, the drives it has, and a volume on some of them
  MaxCylinder,  \* the highest a BIOS can be asked for (1023)
  EntriesPerFatSector,  \* 128
  LoadLimit,    \* sectors from 0x20000 to 0x9F000
  None

EndOfChain == 0   \* any mark from 0x0FFFFFF8 up
FirstDisk  == 128 \* 0x80; floppies have the numbers below
Messages   == {"noActive", "badTable", "readError", "notBootSector", "notFound", "diskError"}

\* A directory entry: none from here on, BOOTMGR, the label or a directory of
\* that name, or anything else.
Entries == {"end", "bootmgr", "label", "other"}

\* handed is the number in DL.  A drive that is there has a geometry, at times
\* with no sectors; packet names those with the extensions.  A sector is the
\* volume boot record, another boot sector, or none.
Drives(m) ==
  /\ DOMAIN m.disk \subseteq 0..255
  /\ m.handed \in DOMAIN m.disk /\ FirstDisk \in DOMAIN m.disk /\ m.packet \subseteq DOMAIN m.disk
  /\ \A p \in 1..4 : m.table[p].status \in {"inactive", "active", "other"} /\ m.table[p].lba \in Nat
  /\ \A d \in DOMAIN m.disk :
       /\ \A l \in DOMAIN m.disk[d] : m.disk[d][l] \in {"volume", "foreign", "blank"}
       /\ \/ m.geometry[d] = None /\ d \notin m.packet
          \/ m.geometry[d].sectors \in Nat /\ m.geometry[d].heads \in Nat \ {0}

\* spc is sectors per cluster; dir is what is in each cluster as a directory;
\* size, in sectors, and first are what BOOTMGR's entry says.
FatVolume(v) ==
  /\ v.spc \in Nat \ {0} /\ v.root \in DOMAIN v.fat /\ EndOfChain \notin DOMAIN v.fat
  /\ \A c \in DOMAIN v.fat : c \in Nat /\ v.fat[c] \in DOMAIN v.fat \union {EndOfChain}
  /\ v.dir \in [DOMAIN v.fat -> [1..v.spc -> Seq(Entries)]]
  /\ v.size \in Nat /\ v.first \in DOMAIN v.fat \union {EndOfChain}

ASSUME MachinesAssumption == \A m \in Machines : Drives(m) /\ FatVolume(m.volume)
ASSUME BoundsAssumption ==
  MaxCylinder \in Nat /\ EntriesPerFatSector \in Nat \ {0} /\ LoadLimit \in Nat \ {0}
ASSUME NoneAssumption == None \notin [drive : Nat, lba : Nat]

VARIABLES
  machine,   \* the machine
  pc,        \* where the boot code is, or the message it has stopped with
  drive,     \* [drive], then BS_DrvNum
  active,    \* DI: the partition to boot
  boot,      \* the sector at 0x7C00, or None while that is the master boot record
  signed,    \* does it end in 0x55AA
  cluster,   \* the cluster being read
  sector,    \* the sector of it to be read next, from 1
  cached,    \* the FAT sector in FATBUF, or None
  loaded,    \* the sectors from 0x20000 up
  fault      \* has a call of the BIOS failed without reason, or lied

vars == <<machine, pc, drive, active, boot, signed, cluster, sector, cached, loaded, fault>>
record == <<cluster, sector, cached, loaded>>

Init ==
  /\ machine \in Machines
  /\ pc = "scan" /\ drive = machine.handed /\ active = None
  /\ boot = None /\ signed = TRUE
  /\ cluster = EndOfChain /\ sector = 1 /\ cached = None /\ loaded = <<>>
  /\ fault = FALSE

-----------------------------------------------------------------------------
\* mbr.asm.

Actives == {p \in 1..4 : machine.table[p].status = "active"}

BadTable ==
  \/ \E p \in 1..4 : machine.table[p].status = "other"
  \/ \E p \in Actives : machine.table[p].lba = 0
  \/ \E p, q \in Actives : p # q

Scan ==
  /\ pc = "scan"
  /\ pc' = CASE BadTable -> "badTable" [] ~BadTable /\ Actives = {} -> "noActive" [] OTHER -> "read"
  /\ active' \in IF pc' = "read" THEN Actives ELSE {None}
  /\ UNCHANGED <<machine, drive, boot, signed, record, fault>>

\* Mutant of Read: the signature of what is at 0x7C00 is left there.
ReadOverOld ==
  /\ pc = "read"
  /\ pc' = IF drive \in machine.packet THEN "lba" ELSE "geometry"
  /\ UNCHANGED <<machine, drive, active, boot, signed, record, fault>>

\* The old signature is taken away, and the BIOS asked for its extensions.
Read ==
  /\ pc = "read"
  /\ signed' = FALSE
  /\ pc' = IF drive \in machine.packet THEN "lba" ELSE "geometry"
  /\ UNCHANGED <<machine, drive, active, boot, record, fault>>

Contents(s) == machine.disk[s.drive][s.lba]

\* The BIOS has put a sector at 0x7C00.
Transfer(s) == boot' = s /\ signed' = (Contents(s) # "blank")
NoTransfer == UNCHANGED <<boot, signed>>

\* It has, or says that it has and has not, or fails having done either.
Call(s, failed) ==
  \/ Transfer(s) /\ pc' = "verify" /\ UNCHANGED fault
  \/ NoTransfer /\ pc' = "verify" /\ fault' = TRUE
  \/ (Transfer(s) \/ NoTransfer) /\ pc' = failed /\ fault' = TRUE

ReadLba ==
  /\ pc = "lba"
  /\ Call([drive |-> drive, lba |-> machine.table[active].lba], "geometry")
  /\ UNCHANGED <<machine, drive, active, record>>

Cylinder(lba, g) == (lba \div g.sectors) \div g.heads

\* Cylinder, head and sector name this sector to the BIOS.
Addressed(lba, g) ==
  ((Cylinder(lba, g) % (MaxCylinder + 1)) * g.heads + ((lba \div g.sectors) % g.heads)) * g.sectors
    + (lba % g.sectors)

\* The drive has no geometry only if it is not there.
Geometry ==
  /\ pc = "geometry"
  /\ LET g == machine.geometry[drive]
     IN  pc' = IF g = None THEN "unread"
               ELSE IF g.sectors = 0 THEN "readError"
               ELSE IF Cylinder(machine.table[active].lba, g) > MaxCylinder THEN "readError"
               ELSE "chs"
  /\ UNCHANGED <<machine, drive, active, boot, signed, record, fault>>

ReadChs ==
  /\ pc = "chs"
  /\ Call([drive |-> drive, lba |-> Addressed(machine.table[active].lba, machine.geometry[drive])],
          IF drive >= FirstDisk THEN "readError" ELSE "unread")
  /\ UNCHANGED <<machine, drive, active, record>>

\* The number handed over was wrong: the first hard disk is tried, once.
Unread ==
  /\ pc = "unread"
  /\ IF drive = FirstDisk THEN pc' = "readError" /\ UNCHANGED drive
     ELSE pc' = "read" /\ drive' = FirstDisk
  /\ UNCHANGED <<machine, active, boot, signed, record, fault>>

\* Control passes to the sector, the volume boot record or another.
Verify ==
  /\ pc = "verify"
  /\ IF ~signed THEN pc' = "notBootSector" /\ UNCHANGED record
     ELSE IF boot = None THEN pc' = "itself" /\ UNCHANGED record
     ELSE IF Contents(boot) = "foreign" THEN pc' = "foreign" /\ UNCHANGED record
     ELSE pc' = "dir" /\ cluster' = machine.volume.root /\ UNCHANGED <<sector, cached, loaded>>
  /\ UNCHANGED <<machine, drive, active, boot, signed, fault>>

-----------------------------------------------------------------------------
\* fat32.asm.

Volume == machine.volume
mbr == <<machine, drive, active, boot, signed>>

DiskError == pc' = "diskError" /\ fault' = TRUE /\ UNCHANGED record

\* The first entry that ends the scan of a directory sector, if one does.
Hit(entries) ==
  {i \in DOMAIN entries : /\ entries[i] \in {"end", "bootmgr"}
                          /\ \A j \in 1..(i - 1) : entries[j] \notin {"end", "bootmgr"}}

\* A sector of the root directory is read and scanned.  An empty BOOTMGR, or
\* one without a cluster, is none.
ReadDir ==
  /\ pc = "dir"
  /\ \/ DiskError
     \/ /\ LET entries == Volume.dir[cluster][sector]
           IN  \/ \E i \in Hit(entries) :
                    IF entries[i] = "bootmgr" /\ Volume.size > 0 /\ Volume.first # EndOfChain
                    THEN pc' = "file" /\ cluster' = Volume.first /\ sector' = 1
                    ELSE pc' = "notFound" /\ UNCHANGED <<cluster, sector>>
               \/ /\ Hit(entries) = {} /\ UNCHANGED cluster
                  /\ IF sector < Volume.spc THEN sector' = sector + 1 /\ UNCHANGED pc
                     ELSE sector' = 1 /\ pc' = "dirNext"
        /\ UNCHANGED <<cached, loaded, fault>>
  /\ UNCHANGED mbr

FatSector(c) == c \div EntriesPerFatSector

\* Mutant of FatNext: the FAT sector is read the first time only.
FatNextStale(end, more) ==
  \/ cached = None /\ DiskError
  \/ LET held == IF cached = None THEN FatSector(cluster) ELSE cached
         at == held * EntriesPerFatSector + (cluster % EntriesPerFatSector)
         next == IF at \in DOMAIN Volume.fat THEN Volume.fat[at] ELSE EndOfChain
     IN  /\ cached' = held
         /\ pc' = IF next = EndOfChain THEN end ELSE more
         /\ cluster' = IF next = EndOfChain THEN cluster ELSE next
         /\ UNCHANGED <<sector, loaded, fault>>

\* The next cluster of the chain, by the FAT sector held or one read now.
FatNext(end, more) ==
  \/ cached # FatSector(cluster) /\ DiskError
  \/ LET next == Volume.fat[cluster]
     IN  /\ cached' = FatSector(cluster)
         /\ pc' = IF next = EndOfChain THEN end ELSE more
         /\ cluster' = IF next = EndOfChain THEN cluster ELSE next
         /\ UNCHANGED <<sector, loaded, fault>>

DirNext == pc = "dirNext" /\ FatNext("notFound", "dir") /\ UNCHANGED mbr

\* Mutant of ReadFile: the load ends by the size of the file alone.
ReadFileUnbounded ==
  /\ pc = "file"
  /\ \/ DiskError
     \/ /\ loaded' = Append(loaded, <<cluster, sector>>)
        /\ IF Len(loaded') = Volume.size
           THEN pc' = "bootmgr" /\ UNCHANGED sector
           ELSE IF sector < Volume.spc THEN sector' = sector + 1 /\ UNCHANGED pc
           ELSE sector' = 1 /\ pc' = "fileNext"
        /\ UNCHANGED <<cluster, cached, fault>>
  /\ UNCHANGED mbr

\* A sector of the file goes to memory; the last one by its size, or the last
\* there is room for, ends it.
ReadFile ==
  /\ pc = "file"
  /\ \/ DiskError
     \/ /\ loaded' = Append(loaded, <<cluster, sector>>)
        /\ IF Len(loaded') \in {LoadLimit, Volume.size}
           THEN pc' = "bootmgr" /\ UNCHANGED sector
           ELSE IF sector < Volume.spc THEN sector' = sector + 1 /\ UNCHANGED pc
           ELSE sector' = 1 /\ pc' = "fileNext"
        /\ UNCHANGED <<cluster, cached, fault>>
  /\ UNCHANGED mbr

FileNext == pc = "fileNext" /\ FatNext("bootmgr", "file") /\ UNCHANGED mbr

Next == Scan \/ Read \/ ReadLba \/ Geometry \/ ReadChs \/ Unread \/ Verify
        \/ ReadDir \/ DirNext \/ ReadFile \/ FileNext

\* The processor does not stop before it is halted.
Spec == Init /\ [][Next]_vars /\ WF_vars(Next)

-----------------------------------------------------------------------------
\* Properties.

Ended == Messages \union {"itself", "foreign", "bootmgr"}

\* The load stays below the EBDA, and a chain is never followed into a cluster
\* that is none.
TypeOK ==
  /\ drive \in DOMAIN machine.disk
  /\ pc \in {"scan", "read", "lba", "geometry", "chs", "unread", "verify", "dir", "dirNext", "file",
             "fileNext"} \union Ended
  /\ active \in (1..4) \union {None} /\ signed \in BOOLEAN /\ fault \in BOOLEAN
  /\ pc \in {"dir", "dirNext", "file", "fileNext"} => cluster \in DOMAIN Volume.fat
  /\ sector \in Nat \ {0} /\ Len(loaded) <= LoadLimit

\* The first n clusters of a chain, and EndOfChain behind the last.
Links(v, first, n) ==
  LET at[i \in 1..n] == IF i = 1 THEN first
                        ELSE IF at[i - 1] = EndOfChain THEN EndOfChain ELSE v.fat[at[i - 1]]
  IN  at

\* The cluster, and the sector of it, that the i-th sector of a file is in.
Nth(v, i)   == ((i - 1) \div v.spc) + 1
Place(v, i) == <<Links(v, v.first, LoadLimit)[Nth(v, i)], ((i - 1) % v.spc) + 1>>

\* BOOTMGR as its volume has it: as far as its size, its chain, and what there
\* is room for go.
BootmgrOf(v) ==
  LET there == {i \in 1..LoadLimit : i <= v.size /\ Place(v, i)[1] # EndOfChain}
      n == CHOOSE k \in 0..LoadLimit : there = 1..k
  IN  [i \in 1..n |-> Place(v, i)]

\* The comments of the two files.  Control passes to a sector only if it is the
\* first of the one active partition, just read, on the drive that DL then
\* names, and that is the one handed over unless there is no such hard disk; a
\* hard disk that failed a read is not answered for by another; the boot record
\* is never run again in place of what was not read.  BOOTMGR is entered only
\* with what its volume has of it in memory, in order.
BootsWhatIsActive ==
  /\ pc # "itself"
  /\ pc \in {"dir", "dirNext", "file", "fileNext", "foreign", "bootmgr"} =>
       /\ Actives = {active}
       /\ boot = [drive |-> drive, lba |-> machine.table[active].lba]
       /\ \/ drive = machine.handed
          \/ drive = FirstDisk /\ (machine.handed >= FirstDisk => machine.geometry[machine.handed] = None)
  /\ pc = "bootmgr" => loaded = BootmgrOf(Volume)

ChainFrom(v, first, n) == SelectSeq(Links(v, first, n), LAMBDA c : c # EndOfChain)

\* The entries of the root directory, as far as it can be followed.
RootEntries(v) ==
  LET chain == ChainFrom(v, v.root, 8)
      all[i \in 0..Len(chain) * v.spc] ==
        IF i = 0 THEN <<>> ELSE all[i - 1] \o v.dir[chain[((i - 1) \div v.spc) + 1]][((i - 1) % v.spc) + 1]
  IN  all[Len(chain) * v.spc]

HasBootmgr(v) ==
  /\ v.size > 0 /\ v.first # EndOfChain
  /\ \E i \in Hit(RootEntries(v)) : RootEntries(v)[i] = "bootmgr"

RootEnds(v) == v.fat[ChainFrom(v, v.root, 8)[Len(ChainFrom(v, v.root, 8))]] = EndOfChain

\* The drive and the sector a sound machine boots from.
BootDrive(m) == IF m.geometry[m.handed] # None THEN m.handed ELSE FirstDisk
Active(m)    == {p \in 1..4 : m.table[p].status = "active"}
Marked(m) ==
  /\ \A p \in 1..4 : m.table[p].status # "other"
  /\ \E p \in Active(m) : Active(m) = {p} /\ m.table[p].lba > 0
TheSector(m) == m.disk[BootDrive(m)][m.table[CHOOSE p \in 1..4 : p \in Active(m)].lba]
Reachable(m) ==
  \/ BootDrive(m) \in m.packet
  \/ LET g == m.geometry[BootDrive(m)]
     IN  /\ g # None
         /\ g.sectors > 0
         /\ \A p \in Active(m) : (m.table[p].lba \div g.sectors) \div g.heads <= MaxCylinder
Bootable(m) == Marked(m) /\ Reachable(m) /\ TheSector(m) = "volume" /\ HasBootmgr(m.volume)

\* Unless the BIOS fails, a medium that is marked as it should be and has
\* BOOTMGR in its root directory boots, also from a drive the BIOS has given
\* the wrong number, and also without extensions; and whatever is on it, the
\* machine comes to an end: it boots or says why not.  The exception is a root
\* directory whose chain comes back to itself and has neither BOOTMGR nor an
\* end: it is searched for ever, in silence.
BootsOrSays ==
  /\ Bootable(machine) => <>(fault \/ pc = "bootmgr")
  /\ (RootEnds(Volume) \/ Hit(RootEntries(Volume)) # {}) => <>(pc \in Ended)
=============================================================================
