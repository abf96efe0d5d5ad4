---------------------------- MODULE ImageSource ----------------------------
(***************************************************************************)
(* What an image file is to the writer that reads it, whatever it is       *)
(* packed in: a sequence of cells, delivered in order and in full before   *)
(* the end is announced.  A file that can be seen to hold no image is      *)
(* refused before the first cell, one that holds a whole image never is,   *)
(* and one that can be seen to be damaged never reaches the end.  What is  *)
(* lost or altered without a trace is not seen.                            *)
(***************************************************************************)
EXTENDS Integers, SequencesExt

CONSTANTS
  Cell,       \* what images are made of
  Unlimited   \* no promise of a length was made

VARIABLES
  verdict,   \* "whole"; "damaged" or "hopeless", it shows that nothing can be written;
             \* "cut" or "altered", and nothing shows it
  image,     \* what was packed
  promised,  \* the length the container promises, or Unlimited
  stage,     \* "closed", "open", then "ended", "refused" or "failed"
  out        \* what has been delivered

vars == <<verdict, image, promised, stage, out>>

Init ==
  /\ verdict \in {"whole", "damaged", "hopeless", "cut", "altered"}
  /\ image \in Seq(Cell)
  /\ promised \in Nat \union {Unlimited}
  /\ stage = "closed" /\ out = <<>>

Open ==
  /\ stage = "closed" /\ verdict # "hopeless"
  /\ stage' = "open"
  /\ UNCHANGED <<verdict, image, promised, out>>

Refuse ==
  /\ stage = "closed" /\ verdict \in {"damaged", "hopeless"}
  /\ stage' = "refused"
  /\ UNCHANGED <<verdict, image, promised, out>>

Deliver ==
  /\ stage = "open"
  /\ out' \in Seq(Cell) /\ IsStrictPrefix(out, out')
  /\ promised # Unlimited => Len(out') <= promised
  /\ verdict \in {"whole", "cut"} => IsPrefix(out', image)
  /\ UNCHANGED <<verdict, image, promised, stage>>

End ==
  /\ stage = "open"
  /\ (verdict = "whole" /\ out = image) \/ verdict \in {"cut", "altered"}
  /\ stage' = "ended"
  /\ UNCHANGED <<verdict, image, promised, out>>

Fail ==
  /\ stage = "open" /\ verdict = "damaged"
  /\ stage' = "failed"
  /\ UNCHANGED <<verdict, image, promised, out>>

Next == Open \/ Refuse \/ Deliver \/ End \/ Fail

Spec == Init /\ [][Next]_vars
=============================================================================
