------------------------------ MODULE MCPumps ------------------------------
(***************************************************************************)
(* Commands that write up to four bytes in any mixture of the two streams, *)
(* or five to one, to pipes that hold two.                                 *)
(***************************************************************************)
EXTENDS Pumps

\* Text on either stream, and the ends of lines on standard output; standard
\* error ends its lines with NL only.
Writes == ({"out"} \X Bytes) \union ({"err"} \X {1, NL})
AllScripts == UNION {[1..n -> Writes] : n \in {0, 1, 4}} \union [1..5 -> {"out"} \X Bytes]
=============================================================================
