------------------------------- MODULE MCLzw -------------------------------
(***************************************************************************)
(* Two literals, codes of two bits growing to three, groups of four codes, *)
(* bytes of two bits: with eight slots the dictionary is full after five   *)
(* or six entries, which every longer input reaches.                       *)
(***************************************************************************)
EXTENDS Lzw

\* Every input of up to six literals, and longer ones that fill the dictionary
\* quickly (runs) or slowly (alternations).
SmallInputs ==
  BoundedSeq({0, 1}, 6)
    \union {[i \in 1..22 |-> 0], [i \in 1..20 |-> i % 2],
            [i \in 1..18 |-> IF i % 3 = 0 THEN 1 ELSE 0]}

SmallNoise == UNION {[1..n -> Bit] : n \in {2, 8}}

\* Inputs that fill a dictionary of eight slots, and no noise.
FillingInputs == {[i \in 1..20 |-> i % 2], [i \in 1..24 |-> 0]}
NoNoise == {}
=============================================================================
