---------------------------- MODULE FlashPromise ----------------------------
(***************************************************************************)
(* What a flash operation promises the user, whichever kind of image it    *)
(* writes: the drive keeps its contents while the run is still probing; a  *)
(* refusal leaves it untouched; once erased the drive does not become what *)
(* it was; and success is reported of a drive that holds what was asked    *)
(* for, never of any other.                                                *)
(***************************************************************************)
VARIABLES
  phase,    \* "probing", "writing" or "ended"
  drive,    \* "kept", "erased" or "good", as this run has left it
  outcome   \* "none" until the run has ended, then "ok" or "error"

vars == <<phase, drive, outcome>>

Init == phase = "probing" /\ drive = "kept" /\ outcome = "none"

\* Something the input or the host lacks is found in time.
Refuse ==
  /\ phase = "probing"
  /\ phase' = "ended" /\ outcome' = "error"
  /\ UNCHANGED drive

\* All probes passed.
Commit ==
  /\ phase = "probing"
  /\ phase' = "writing"
  /\ UNCHANGED <<drive, outcome>>

\* The drive's former contents go, and nothing usable is there yet.
Erase ==
  /\ phase = "writing" /\ drive = "kept"
  /\ drive' = "erased"
  /\ UNCHANGED <<phase, outcome>>

Complete ==
  /\ phase = "writing" /\ drive = "erased"
  /\ drive' = "good"
  /\ UNCHANGED <<phase, outcome>>

Succeed ==
  /\ phase = "writing" /\ drive = "good"
  /\ phase' = "ended" /\ outcome' = "ok"
  /\ UNCHANGED drive

Fail ==
  /\ phase = "writing" /\ drive # "good"
  /\ phase' = "ended" /\ outcome' = "error"
  /\ UNCHANGED drive

\* The user starts over; what is on the drive now is what the run finds.
Again ==
  /\ phase = "ended"
  /\ phase' = "probing" /\ drive' = "kept" /\ outcome' = "none"

Next == Refuse \/ Commit \/ Erase \/ Complete \/ Succeed \/ Fail \/ Again

Spec == Init /\ [][Next]_vars
=============================================================================
