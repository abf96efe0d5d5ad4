---------------------------- MODULE MCFormatPlan ----------------------------
(***************************************************************************)
(* Drives on both sides of every limit between 2 and 512 GiB, with 512 and *)
(* 4096 byte sectors, and one too small and one too large; volumes for     *)
(* format-options from 2 MiB on.  Sizes in units of 512 bytes.             *)
(***************************************************************************)
EXTENDS FormatPlan

\* In MB: the limits of the rules.
Edges == {2048, 4096, 8192, 16384, 32768}

Around(x) == {x - 1, x, x + 1}

\* Drives about a limit, and drives whose volume, or partition, is about it.
DriveSizes ==
  Around(2^30) \union
  UNION {Around(e * MB) \union
         {Threshold(e) + k : k \in {-1, 0, 1} \union {MB + j : j \in {-8, -1, 0, 1, 8, 32, 33, 34}}} :
           e \in Edges}

Sectors == {512, 4096}

MCDrives == [size : {s \in DriveSizes : s <= 2^30}, sector : {512}]
              \union [size : {s \in DriveSizes : s % 8 = 0 /\ s <= 2^30}, sector : {4096}]

MCVolumes ==
  {[size |-> s, sector |-> b] :
     s \in UNION {Around(e * MB) \union Around(Threshold(e)) : e \in {2, 8, 32, 64, 256, 2048}}
           \union {2^27},
     b \in Sectors \union {65536}}

\* Trees at the limit of the check, of one file, of as many as a Windows medium
\* has, and of so many that some plan has no room to round them up.
MCTrees ==
  [short : {-1, 0, 1}, files : {1}, others : {1}]
    \union [short : {0}, files : {500, 1200, 4000, 5000}, others : {0}]
    \union [short : {2^16}, files : {5000}, others : {100}]

MCClusters == {9, 10, 11, 12, 13, 14, 15, 16, 17}
=============================================================================
