---------------------------- MODULE MCImageWrite ----------------------------
(***************************************************************************)
(* Small jobs for ImageWrite: drives that claim up to three blocks, honest *)
(* or wrapping around after one or two, or losing a block; images of up to *)
(* four blocks over two contents; blockdev there or not.                   *)
(***************************************************************************)
EXTENDS ImageWrite, SequencesExt

Honest   == [b \in Cells |-> b]
Wraps(k) == [b \in Cells |-> ((b - 1) % k) + 1]
Loses(k) == [b \in Cells |-> IF b = k THEN 0 ELSE b]
Drives   == {Honest, Wraps(1), Wraps(2), Loses(2)}

Payloads == BoundedSeq(Data, 3) \union {<<d, d, d, d>> : d \in Data}

SmallJobs ==
  [image : [blocks : Payloads, sound : BOOLEAN, kind : {"verbatim", "compressed"}],
   dev : [removable : {TRUE}, size : {2, 3}, cell : Drives],
   verify : BOOLEAN, blockdev : BOOLEAN]
    \union
  [image : [blocks : {<<>>}, sound : {TRUE}, kind : {"rejected"}],
   dev : [removable : BOOLEAN, size : {1, 2}, cell : {Honest}],
   verify : {TRUE}, blockdev : {TRUE}]
=============================================================================
