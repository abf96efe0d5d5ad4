-------------------------------- MODULE MCBoot --------------------------------
(***************************************************************************)
(* Two hard disks and a floppy number, any of which may be the drive handed*)
(* over or not be there; volumes of four clusters in two FAT sectors.      *)
(***************************************************************************)
EXTENDS Boot, TLC

\* Chains through one FAT sector and to and fro between both, one that comes
\* back to itself, BOOTMGR in the first root sector or the last, or behind the
\* end, or in name only; a file of every size up to past the limit.
Fats == {(2 :> EndOfChain) @@ (3 :> EndOfChain) @@ (4 :> EndOfChain) @@ (5 :> EndOfChain),
         (2 :> 4) @@ (3 :> 5) @@ (4 :> EndOfChain) @@ (5 :> EndOfChain),
         (2 :> 3) @@ (3 :> EndOfChain) @@ (4 :> 5) @@ (5 :> EndOfChain),
         (2 :> 4) @@ (3 :> EndOfChain) @@ (4 :> 5) @@ (5 :> EndOfChain),
         (2 :> 4) @@ (3 :> EndOfChain) @@ (4 :> 2) @@ (5 :> 3)}
Full == <<"other", "label">>
Roots == {<<"label", "bootmgr">>, <<"end", "bootmgr">>, <<"bootmgr", "end">>, Full}
TheVolumes ==
  {[spc |-> k, root |-> 2, fat |-> fat, size |-> n, first |-> f,
    dir |-> [c \in 2..5 |-> [s \in 1..k |->
               IF c = where /\ s = k THEN r ELSE Full]]] :
     k \in 1..2, fat \in Fats, n \in 0..4, f \in {EndOfChain, 3, 5}, r \in Roots, where \in {2, 4, 5}}

Entry(s, l) == [status |-> s, lba |-> l]
Table(a, b) == <<a, b, Entry("inactive", 0), Entry("inactive", 7)>>
Tables == {Table(Entry("inactive", 1), Entry("active", 2)),
           Table(Entry("active", 5), Entry("inactive", 2)),
           Table(Entry("active", 2), Entry("active", 5)),
           Table(Entry("active", 0), Entry("inactive", 2)),
           Table(Entry("active", 2), Entry("other", 2)),
           Table(Entry("inactive", 2), Entry("inactive", 0))}

Plain == (2 :> 4) @@ (3 :> 5) @@ (4 :> EndOfChain) @@ (5 :> EndOfChain)
AVolume == [spc |-> 1, root |-> 2, fat |-> Plain, size |-> 2, first |-> 3,
            dir |-> [c \in 2..5 |-> <<IF c = 4 THEN <<"bootmgr", "end">> ELSE Full>>]]

Numbers == {1, 128, 129}
Geometries == {None, [sectors |-> 0, heads |-> 1], [sectors |-> 2, heads |-> 1],
               [sectors |-> 2, heads |-> 2]}
Disk(s2, s5) == [l \in 0..7 |-> CASE l = 2 -> s2 [] l = 5 -> s5 [] OTHER -> "foreign"]

\* Every table, geometry and wrong number with one volume, and every volume on
\* a machine that has nothing else to go wrong.
OddMachines ==
  {m \in [handed : Numbers, table : Tables, packet : SUBSET Numbers, geometry : [Numbers -> Geometries],
          disk : {(1 :> Disk("volume", "blank")) @@ (128 :> Disk("foreign", "volume"))
                    @@ (129 :> Disk("blank", "volume"))}, volume : {AVolume}] :
     /\ \A d \in m.packet : m.geometry[d] # None
     /\ m.geometry[1] \in {None, [sectors |-> 2, heads |-> 2]}
     /\ \A d \in Numbers \ {m.handed, 128} : m.geometry[d] = None}
PlainMachines ==
  {[handed |-> 128, table |-> Table(Entry("inactive", 1), Entry("active", 2)), packet |-> {128},
    geometry |-> [d \in Numbers |-> IF d = 128 THEN [sectors |-> 2, heads |-> 2] ELSE None],
    disk |-> [d \in Numbers |-> Disk("volume", "blank")], volume |-> v] : v \in TheVolumes}
TheMachines == OddMachines \union PlainMachines
=============================================================================
