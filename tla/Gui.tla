-------------------------------- MODULE Gui --------------------------------
(***************************************************************************)
(* The desktop application: the page (app/src/main.ts), its backend        *)
(* (app/src-tauri/src/lib.rs), and the CLI it starts under pkexec          *)
(* (crates/cli/src/main.rs, the write command with --yes).                 *)
(*                                                                         *)
(* The backend's commands run on its main thread one after the other, so   *)
(* answers come in the order of the requests; but the user goes on         *)
(* clicking while one is out.  confirm() blocks the page, so between the   *)
(* click on FLASH and the request nothing of the page changes.             *)
(***************************************************************************)
EXTENDS Integers, Sequences

CONSTANTS
  Isos, Drives,
  KindOf,        \* what detect_iso_kind says of each image
  Costly,        \* the Windows images that will be written as NTFS
  None,          \* no image, no drive
  MaxPending     \* bound: requests the backend has not answered

ASSUME IsosAssumption ==
  /\ KindOf \in [Isos -> {"windows", "other"}]
  /\ Costly \subseteq {i \in Isos : KindOf[i] = "windows"}
  /\ None \notin Isos \union Drives /\ MaxPending \in Nat \ {0}

VARIABLES
  isoPath, isoKind, layoutCaveat, deviceById, flashing,   \* as in main.ts
  selected,       \* the drive the list shows, None while it shows a message
  options,        \* the drives in the list
  enabled,        \* may FLASH be clicked
  label,          \* what the FLASH button says
  pending,        \* the requests the backend has not answered, oldest first
  child,          \* the CLI the backend has started
  exit,           \* how the CLI of the last click ended, "none" before it has
  event,          \* the last event of the backend, until the page has seen it
  plugged,        \* the drives that are there
  detectFailed, scanFailed   \* did the last detection, the last scan fail

page    == <<isoPath, isoKind, layoutCaveat, deviceById, flashing, selected, options,
             enabled, label>>
failed  == <<detectFailed, scanFailed>>
vars    == <<page, pending, child, exit, event, plugged, failed>>

Request == [cmd : {"detect"}, iso : Isos] \union [cmd : {"list"}]
             \union [cmd : {"flash"}, iso : Isos, device : Drives,
                     kind : {"auto", "windows", "other"}]

\* What the confirm dialog said, kept beside the CLI that was started on it.
Confirmed == [name : Drives \union {None}, caveat : BOOLEAN, settled : BOOLEAN]
Child == [phase : {"none", "asked", "spawned", "writing", "ok", "failed"},
          iso : Isos \union {None}, device : Drives \union {None},
          kind : {"auto", "windows"}, confirmed : Confirmed]

NoChild == [phase |-> "none", iso |-> None, device |-> None, kind |-> "auto",
            confirmed |-> [name |-> None, caveat |-> FALSE, settled |-> FALSE]]

Init ==
  /\ isoPath = None /\ isoKind = "auto" /\ layoutCaveat = FALSE
  /\ deviceById = None /\ flashing = FALSE
  /\ selected = None /\ options = {} /\ enabled = FALSE /\ label = "FLASH"
  /\ pending = <<[cmd |-> "list"]>>
  /\ child = NoChild /\ exit = "none" /\ event = "none"
  /\ plugged \in SUBSET Drives
  /\ detectFailed = FALSE /\ scanFailed = FALSE

\* Mutant of UpdateFlash: a write in progress does not disable the button.
UpdateAlways(iso, device, busy) == enabled' = (iso # None /\ device # None)

\* updateFlash
UpdateFlash(iso, device, busy) == enabled' = (~busy /\ iso # None /\ device # None)

Ask(request) ==
  /\ Len(pending) < MaxPending
  /\ pending' = Append(pending, request)

\* The answer to the oldest request arrives.
Answered(cmd) ==
  /\ pending # <<>> /\ Head(pending).cmd = cmd
  /\ pending' = Tail(pending)

-----------------------------------------------------------------------------
\* Drives come and go.
Plug ==
  /\ \E d \in Drives : plugged' = (plugged \ {d}) \union ({d} \ plugged)
  /\ UNCHANGED <<page, pending, child, exit, event, failed>>

\* refreshDevices, up to its await: the list says "Scanning..." and the drive
\* chosen before stays chosen.
RefreshDevices ==
  /\ Ask([cmd |-> "list"])
  /\ selected' = None /\ options' = {}
  /\ UNCHANGED <<isoPath, isoKind, layoutCaveat, deviceById, flashing, enabled, label,
                 child, exit, event, plugged, failed>>

\* Mutant of ListAnswer: a rescan keeps the drive that was chosen before it.
ListAnswerKeepsChoice ==
  /\ Answered("list")
  /\ options' = plugged /\ scanFailed' = FALSE
  /\ selected' \in IF plugged = {} THEN {None} ELSE plugged
  /\ deviceById' = IF deviceById \in plugged THEN deviceById ELSE selected'
  /\ UpdateFlash(isoPath, deviceById', flashing)
  /\ UNCHANGED <<isoPath, isoKind, layoutCaveat, flashing, label, child, exit, event,
                 plugged, detectFailed>>

\* and after it: the first drive of the list is chosen, or the scan failed.
ListAnswer ==
  /\ Answered("list")
  /\ \/ /\ options' = plugged
        /\ selected' \in IF plugged = {} THEN {None} ELSE plugged
        /\ deviceById' = selected' /\ scanFailed' = FALSE
     \/ /\ options' = {} /\ selected' = None /\ scanFailed' = TRUE
        /\ UNCHANGED deviceById
  /\ UpdateFlash(isoPath, deviceById', flashing)
  /\ UNCHANGED <<isoPath, isoKind, layoutCaveat, flashing, label, child, exit, event,
                 plugged, detectFailed>>

\* Mutant of SelectDevice: the drive need not be one of the list.
SelectUnlisted ==
  /\ selected' \in Drives
  /\ deviceById' = selected'
  /\ UpdateFlash(isoPath, deviceById', flashing)
  /\ UNCHANGED <<isoPath, isoKind, layoutCaveat, flashing, options, label, pending, child,
                 exit, event, plugged, failed>>

\* Another drive of the list is selected.
SelectDevice ==
  /\ selected' \in options
  /\ deviceById' = selected'
  /\ UpdateFlash(isoPath, deviceById', flashing)
  /\ UNCHANGED <<isoPath, isoKind, layoutCaveat, flashing, options, label, pending, child,
                 exit, event, plugged, failed>>

\* Browsing, up to the await: the path is the new one, the kind still the old.
Browse ==
  /\ \E i \in Isos : isoPath' = i /\ Ask([cmd |-> "detect", iso |-> i])
  /\ layoutCaveat' = FALSE
  /\ UNCHANGED <<isoKind, deviceById, flashing, selected, options, enabled, label, child,
                 exit, event, plugged, failed>>

\* Mutant of DetectAnswer: the kind is settled by the first image detected.
DetectAnswerOnce ==
  /\ Answered("detect")
  /\ isoKind' = IF isoKind = "auto" THEN KindOf[Head(pending).iso] ELSE isoKind
  /\ layoutCaveat' = (isoKind' = "windows") /\ detectFailed' = FALSE
  /\ UpdateFlash(isoPath, deviceById, flashing)
  /\ UNCHANGED <<isoPath, deviceById, flashing, selected, options, label, child, exit,
                 event, plugged, scanFailed>>

\* and after it: what the image asked about turned out to be, or an error.
DetectAnswer ==
  /\ Answered("detect")
  /\ \/ /\ isoKind' = KindOf[Head(pending).iso]
        /\ layoutCaveat' = (isoKind' = "windows") /\ detectFailed' = FALSE
     \/ detectFailed' = TRUE /\ UNCHANGED <<isoKind, layoutCaveat>>
  /\ UpdateFlash(isoPath, deviceById, flashing)
  /\ UNCHANGED <<isoPath, deviceById, flashing, selected, options, label, child, exit,
                 event, plugged, scanFailed>>

\* Has everything the user asked for been answered, and well?
Settled == pending = <<>> /\ ~detectFailed /\ ~scanFailed

\* FLASH is clicked and the dialog confirmed; it names the drive the list shows
\* and the caveat of a Windows image.
ClickFlash ==
  /\ enabled /\ isoPath # None /\ deviceById # None
  /\ Ask([cmd |-> "flash", iso |-> isoPath, device |-> deviceById, kind |-> isoKind])
  /\ child' = [phase |-> "asked", iso |-> isoPath, device |-> deviceById,
               kind |-> IF isoKind = "windows" THEN "windows" ELSE "auto",
               confirmed |-> [name |-> selected,
                              caveat |-> isoKind = "windows" /\ layoutCaveat,
                              settled |-> Settled]]
  /\ flashing' = TRUE /\ enabled' = FALSE /\ label' = "FLASHING" /\ exit' = "none"
  /\ UNCHANGED <<isoPath, isoKind, layoutCaveat, deviceById, selected, options, event,
                 plugged, failed>>

Finish(ok) ==
  /\ flashing' = FALSE /\ label' = IF ok THEN "DONE" ELSE "FLASH"
  /\ UpdateFlash(isoPath, deviceById, FALSE)

\* The backend's flash command: no CLI, or an account name that cannot be, and
\* the request is rejected; else a thread goes on with it.
FlashAnswer ==
  /\ Answered("flash")
  /\ \/ /\ child' = [child EXCEPT !.phase = "spawned"]
        /\ UNCHANGED <<flashing, enabled, label>>
     \/ child' = NoChild /\ Finish(FALSE)
  /\ UNCHANGED <<isoPath, isoKind, layoutCaveat, deviceById, selected, options, exit,
                 event, plugged, failed>>

-----------------------------------------------------------------------------
\* The thread of the backend and the CLI under pkexec.

\* What the CLI takes the image for.
Resolved(c) == IF c.kind = "windows" THEN "windows" ELSE KindOf[c.iso]

\* The CLI is gone, and this is its exit status.
Exit(status) == child' = [child EXCEPT !.phase = status] /\ exit' = status

\* The CLI finds the drive among those plugged in and passes its checks, or not:
\* an image said to be Windows and is not fails on the probe, with the drive
\* intact.  Where pkexec cannot be started or is refused nothing happens either.
CliStart ==
  /\ child.phase = "spawned"
  /\ \/ /\ child.device \in plugged /\ Resolved(child) = KindOf[child.iso]
        /\ child' = [child EXCEPT !.phase = "writing"] /\ UNCHANGED exit
     \/ Exit("failed")
  /\ UNCHANGED <<page, pending, event, plugged, failed>>

CliEnd ==
  /\ child.phase = "writing"
  /\ \/ child.device \in plugged /\ Exit("ok")
     \/ Exit("failed")
  /\ UNCHANGED <<page, pending, event, plugged, failed>>

\* Mutant of Emit: a failure sends no event.
EmitOnlyDone ==
  /\ child.phase = "ok" /\ event = "none"
  /\ event' = "done" /\ child' = NoChild
  /\ UNCHANGED <<page, pending, exit, plugged, failed>>

\* The exit status becomes the one event that ends the write.
Emit ==
  /\ child.phase \in {"ok", "failed"} /\ event = "none"
  /\ event' = IF child.phase = "ok" THEN "done" ELSE "error"
  /\ child' = NoChild
  /\ UNCHANGED <<page, pending, exit, plugged, failed>>

\* flash-done and flash-error arrive at the page.
OnEvent ==
  /\ event # "none" /\ event' = "none"
  /\ Finish(event = "done")
  /\ UNCHANGED <<isoPath, isoKind, layoutCaveat, deviceById, selected, options, pending,
                 child, exit, plugged, failed>>

-----------------------------------------------------------------------------
User    == RefreshDevices \/ SelectDevice \/ Browse \/ ClickFlash
Answer  == ListAnswer \/ DetectAnswer \/ FlashAnswer
Cli     == CliStart \/ CliEnd
Backend == Emit \/ OnEvent

Next == User \/ Plug \/ Answer \/ Cli \/ Backend

Spec == Init /\ [][Next]_vars

\* The backend answers, the CLI ends (it terminates, and its output is drained),
\* and events reach the page.  Nobody makes the user click.
FairSpec == Spec /\ WF_vars(Answer) /\ WF_vars(Cli) /\ WF_vars(Backend)

-----------------------------------------------------------------------------
\* Properties.

\* The range of every variable.  The drive the list shows is one of its
\* options, so nothing is confirmed by the name of a drive that was never listed.
TypeOK ==
  /\ isoPath \in Isos \union {None} /\ isoKind \in {"auto", "windows", "other"}
  /\ layoutCaveat \in BOOLEAN /\ deviceById \in Drives \union {None}
  /\ flashing \in BOOLEAN /\ selected \in options \union {None}
  /\ options \subseteq Drives /\ enabled \in BOOLEAN
  /\ label \in {"FLASH", "FLASHING", "DONE"}
  /\ \A i \in 1..Len(pending) : pending[i] \in Request
  /\ child \in Child /\ exit \in {"none", "ok", "failed"}
  /\ event \in {"none", "done", "error"} /\ plugged \subseteq Drives
  /\ detectFailed \in BOOLEAN /\ scanFailed \in BOOLEAN

\* One window never has two CLIs, and two writes on the way: from the click
\* until the page has seen how it ended FLASH cannot be clicked again, whatever
\* is browsed, rescanned or selected meanwhile.
OneWrite ==
  /\ flashing => ~enabled
  /\ flashing <=> child.phase # "none" \/ event # "none"

\* Once the answers are in, the page knows the image it names: the kind and the
\* caveat are those of the last image chosen, in whatever order it all came.
KindSettles ==
  isoPath # None /\ pending = <<>> /\ ~detectFailed =>
    isoKind = KindOf[isoPath] /\ layoutCaveat = (isoKind = "windows")

\* What was confirmed with every answer in is what is written: the drive by the
\* name shown, the image as the kind shown, with the caveat where it costs.
SettledIsTruthful ==
  child.phase = "writing" /\ child.confirmed.settled =>
    /\ child.confirmed.name = child.device
    /\ (child.kind = "windows") = (KindOf[child.iso] = "windows")
    /\ child.iso \in Costly => child.confirmed.caveat

\* A write that was started is reported, and as what it was: the page does not
\* stay at FLASHING, and says DONE only when the command ended well.
WriteIsReported == (flashing ~> ~flashing) /\ [](label = "DONE" => exit = "ok")
=============================================================================
