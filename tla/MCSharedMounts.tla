--------------------------- MODULE MCSharedMounts ---------------------------
(***************************************************************************)
(* Two users of one host, with an installer each; the second ISO lacks a   *)
(* file the first one has, so that a copy of the wrong ISO shows.          *)
(***************************************************************************)
EXTENDS SharedMounts, TLC

CONSTANTS a, b

TwoIsos == a :> Name @@ b :> {"bootloader"}
=============================================================================
