----------------------------- MODULE MCCommand -----------------------------
(***************************************************************************)
(* Images old and new, plain and packed; two drive slots and, to be put in *)
(* them, two sticks and something that is none.                            *)
(***************************************************************************)
EXTENDS Command, TLC

CONSTANTS A, B, X, sdb, sdc

\* An older Windows ISO, whose files all tools see; a modern one, a UDF volume
\* with a stub beside it; both larger than FAT32 takes or not.  A compressed
\* installer, of which 7z sees one file and bsdtar, at best, all.
WindowsImages ==
  {i \in ImageType :
     /\ i.windows
     /\ IF i.packed THEN i.seven = "stub" /\ ~i.udf
        ELSE /\ i.seven = "files"
             /\ i.udf <=> i.bsdtar = "stub"
             /\ i.bsdtar # "fails"
     /\ i.big \/ ~i.packed}

\* Other images: any tool may read them or not, a few are UDF volumes.
OtherImages ==
  {i \in ImageType : ~i.windows /\ ~i.big /\ i.bsdtar # "stub" /\ i.seven # "stub"
                     /\ (i.udf => ~i.packed)}

AllImages == WindowsImages \union OtherImages

TheDisks == (A :> "stick") @@ (B :> "stick") @@ (X :> "fixed")

At(k, y, l, d) ==
  [via |-> "terminal", kind |-> k, yes |-> y, layout |-> l, device |-> d]
Invocations ==
  {At("auto", FALSE, None, d) : d \in {A, sdb}}
    \union {At("auto", FALSE, l, A) : l \in Layouts}
    \union {At("auto", TRUE, None, X), At("windows", FALSE, None, A), At("linux", TRUE, None, A)}
    \union {[via |-> "application", kind |-> "auto", yes |-> TRUE, layout |-> None, device |-> A]}
=============================================================================
