----------------------------- MODULE GuiProofs -----------------------------
(***************************************************************************)
(* Theorems about Gui, for every set of images and drives and any number   *)
(* of unanswered requests.  The invariant is about the queue: what is      *)
(* still to be answered says which of the page's state is already final.   *)
(***************************************************************************)
EXTENDS Gui, TLAPS

Places == 1..Len(pending)
Waits(cmd) == \E i \in Places : pending[i].cmd = cmd

Ranges ==
  /\ TypeOK /\ pending \in Seq(Request)

\* One click, one request, one CLI, one event: they follow each other.
OneAfterOther ==
  /\ \A i, j \in Places : pending[i].cmd = "flash" /\ pending[j].cmd = "flash" => i = j
  /\ Waits("flash") => child.phase = "asked"
  /\ event # "none" => child.phase = "none"
  /\ child.phase # "none" => child.iso \in Isos /\ child.device \in Drives

\* The last detection asked for is that of the image shown, and when none is
\* awaited its answer is what the page goes by.
LastDetected ==
  /\ \A i \in Places : pending[i].cmd = "detect"
                         /\ (\A j \in Places : j > i => pending[j].cmd # "detect") =>
       isoPath = pending[i].iso
  /\ isoPath # None /\ ~Waits("detect") /\ ~detectFailed =>
       isoKind = KindOf[isoPath] /\ layoutCaveat = (isoKind = "windows")

\* With no list awaited the drive shown is the drive chosen.
ShownIsChosen == ~Waits("list") /\ ~scanFailed => selected = deviceById

\* What the dialog said, from the click to the end of the CLI.
ConfirmedIsTrue ==
  child.phase # "none" /\ child.confirmed.settled =>
    /\ child.confirmed.name = child.device
    /\ (child.kind = "windows") = (KindOf[child.iso] = "windows")
    /\ child.iso \in Costly => child.confirmed.caveat

IInv == Ranges /\ OneWrite /\ OneAfterOther /\ LastDetected /\ ShownIsChosen /\ ConfirmedIsTrue

-----------------------------------------------------------------------------
LEMMA InitIInv == Init => IInv
<1> SUFFICES ASSUME Init PROVE IInv
  OBVIOUS
<1> USE DEF Init
<1>1. pending = <<[cmd |-> "list"]>> /\ Len(pending) = 1 /\ pending[1].cmd = "list"
  OBVIOUS
<1>2. pending \in Seq(Request) /\ \A i \in 1..Len(pending) : pending[i] \in Request
  BY <1>1 DEF Request
<1>3. NoChild \in Child
  BY DEF NoChild, Child, Confirmed
<1>4. TypeOK
  BY <1>1, <1>2, <1>3 DEF TypeOK
<1>5. OneWrite /\ OneAfterOther
  BY <1>1 DEF OneWrite, OneAfterOther, NoChild, Places, Waits
<1>6. LastDetected /\ ShownIsChosen
  BY <1>1 DEF LastDetected, ShownIsChosen, Places, Waits
<1>7. ConfirmedIsTrue
  BY DEF ConfirmedIsTrue, NoChild
<1> QED
  BY <1>2, <1>4, <1>5, <1>6, <1>7 DEF IInv, Ranges

\* Asking puts a request behind the others.
LEMMA Asking ==
  ASSUME pending \in Seq(Request), NEW r \in Request, Ask(r)
  PROVE  /\ pending' \in Seq(Request) /\ Len(pending') = Len(pending) + 1
         /\ \A i \in 1..Len(pending') : pending'[i] \in Request
         /\ \A i \in Places : pending'[i] = pending[i]
         /\ pending'[Len(pending) + 1] = r
         /\ \A c : Waits(c)' <=> Waits(c) \/ r.cmd = c
BY DEF Ask, Waits, Places

\* An answer takes the first away, and the others move up.
LEMMA Answering ==
  ASSUME pending \in Seq(Request), NEW c, Answered(c)
  PROVE  /\ pending' \in Seq(Request) /\ Len(pending') = Len(pending) - 1
         /\ Len(pending) > 0 /\ pending[1] = Head(pending) /\ pending[1].cmd = c
         /\ pending[1] \in Request
         /\ \A i \in Places' : pending'[i] = pending[i + 1] /\ i + 1 \in Places
         /\ \A i \in Places : i # 1 => i - 1 \in Places' /\ pending'[i - 1] = pending[i]
         /\ \A d : d # c => (Waits(d)' <=> Waits(d))
<1>1. pending # <<>> /\ Head(pending).cmd = c /\ pending' = Tail(pending)
  BY DEF Answered
<1>2. /\ pending' \in Seq(Request) /\ Len(pending') = Len(pending) - 1 /\ Len(pending) \in Nat
      /\ Len(pending) > 0 /\ pending[1] = Head(pending) /\ pending[1] \in Request
      /\ \A i \in 1..Len(pending') : pending'[i] = pending[i + 1]
  BY <1>1
<1>3. /\ \A i \in Places' : pending'[i] = pending[i + 1] /\ i + 1 \in Places
      /\ \A i \in Places : i # 1 => i - 1 \in Places' /\ pending'[i - 1] = pending[i]
  BY <1>2 DEF Places
<1>4. ASSUME NEW d, d # c PROVE Waits(d)' <=> Waits(d)
  <2>1. Waits(d)' => Waits(d)
    BY <1>3 DEF Waits
  <2>2. ASSUME Waits(d) PROVE Waits(d)'
    <3>1. PICK i \in Places : pending[i].cmd = d
      BY <2>2 DEF Waits
    <3>2. i # 1
      BY <1>1, <1>2, <1>4, <3>1
    <3> QED
      BY <1>3, <3>1, <3>2 DEF Waits
  <2> QED
    BY <2>1, <2>2
<1> QED
  BY <1>1, <1>2, <1>3, <1>4

-----------------------------------------------------------------------------
\* The steps that leave the queue alone.
Quiet == Plug \/ SelectDevice \/ Cli \/ Backend

LEMMA StillWaiting ==
  ASSUME pending' = pending
  PROVE  Places' = Places /\ \A c : Waits(c)' = Waits(c)
BY DEF Places, Waits

LEMMA PlugKeeps ==
  ASSUME IInv, Plug
  PROVE  IInv'
<1> USE DEF Plug, page, failed
<1>1. Ranges'
  BY DEF IInv, Ranges, TypeOK
<1> QED
  BY <1>1, StillWaiting DEF IInv, OneWrite, OneAfterOther, LastDetected, ShownIsChosen,
                            ConfirmedIsTrue

LEMMA SelectKeeps ==
  ASSUME IInv, SelectDevice
  PROVE  IInv'
<1> USE DEF SelectDevice, failed
<1>1. Ranges'
  BY DEF IInv, Ranges, TypeOK, UpdateFlash
<1>2. OneWrite'
  BY DEF IInv, OneWrite, UpdateFlash
<1> QED
  BY <1>1, <1>2, StillWaiting DEF IInv, OneAfterOther, LastDetected, ShownIsChosen,
                                  ConfirmedIsTrue

\* The CLI goes on, keeping what it was started with.
LEMMA CliKeeps ==
  ASSUME IInv, Cli
  PROVE  IInv'
<1> USE DEF IInv, Cli, CliStart, CliEnd, Exit, page, failed
<1>1. /\ child' = [child EXCEPT !.phase = child'.phase]
      /\ child'.phase \in {"writing", "ok", "failed"}
      /\ child.phase \in {"spawned", "writing"} /\ child \in Child
      /\ exit' \in {"none", "ok", "failed"}
  BY DEF Ranges, TypeOK, Child
<1>2. /\ child' \in Child /\ child'.iso = child.iso /\ child'.device = child.device
      /\ child'.kind = child.kind /\ child'.confirmed = child.confirmed
  BY <1>1 DEF Child
<1>3. Ranges'
  BY <1>1, <1>2 DEF Ranges, TypeOK
<1>4. OneWrite'
  BY <1>1 DEF OneWrite
<1>5. OneAfterOther'
  BY <1>1, <1>2, StillWaiting DEF OneAfterOther
<1>6. LastDetected' /\ ShownIsChosen'
  BY StillWaiting DEF LastDetected, ShownIsChosen
<1>7. ConfirmedIsTrue'
  BY <1>1, <1>2 DEF ConfirmedIsTrue
<1> QED
  BY <1>3, <1>4, <1>5, <1>6, <1>7

\* The end of the CLI becomes an event, and the event the end of the write.
LEMMA BackendKeeps ==
  ASSUME IInv, Backend
  PROVE  IInv'
<1> USE DEF IInv, page, failed
<1>1. CASE Emit
  <2>1. NoChild \in Child /\ NoChild.phase = "none"
    BY DEF NoChild, Child, Confirmed
  <2>2. Ranges'
    BY <1>1, <2>1 DEF Emit, Ranges, TypeOK
  <2>3. ~Waits("flash") /\ event' # "none"
    BY <1>1 DEF Emit, OneAfterOther
  <2> QED
    BY <1>1, <2>1, <2>2, <2>3, StillWaiting
       DEF Emit, OneWrite, OneAfterOther, LastDetected, ShownIsChosen, ConfirmedIsTrue
<1>2. CASE OnEvent
  <2>1. Ranges'
    BY <1>2 DEF OnEvent, Finish, UpdateFlash, Ranges, TypeOK
  <2>2. child.phase = "none" /\ child' = child /\ ~flashing'
    BY <1>2 DEF OnEvent, Finish, OneAfterOther
  <2> QED
    BY <1>2, <2>1, <2>2, StillWaiting
       DEF OnEvent, OneWrite, OneAfterOther, LastDetected, ShownIsChosen, ConfirmedIsTrue
<1> QED
  BY <1>1, <1>2 DEF Backend

-----------------------------------------------------------------------------
\* The requests.

LEMMA RefreshKeeps ==
  ASSUME IInv, RefreshDevices
  PROVE  IInv'
<1> DEFINE r == [cmd |-> "list"]
<1> USE DEF IInv
<1>1. r \in Request /\ r.cmd = "list" /\ Ask(r) /\ pending \in Seq(Request)
  BY DEF RefreshDevices, Request, Ranges
<1> HIDE DEF r
<1>2. /\ pending' \in Seq(Request) /\ Len(pending') = Len(pending) + 1 /\ Len(pending) \in Nat
      /\ \A i \in 1..Len(pending') : pending'[i] \in Request
      /\ \A i \in Places : pending'[i] = pending[i]
      /\ pending'[Len(pending) + 1] = r
      /\ \A c : Waits(c)' <=> Waits(c) \/ r.cmd = c
  BY <1>1, Asking
<1>3. Places' = Places \union {Len(pending) + 1} /\ Len(pending) + 1 \notin Places
  BY <1>2 DEF Places
<1>4. Ranges'
  BY <1>1, <1>2 DEF RefreshDevices, Ranges, TypeOK, failed
<1>5. OneWrite' /\ OneAfterOther' /\ ConfirmedIsTrue'
  BY <1>1, <1>2, <1>3 DEF RefreshDevices, OneWrite, OneAfterOther, ConfirmedIsTrue
<1>6. LastDetected'
  <2>1. UNCHANGED <<isoPath, isoKind, layoutCaveat, detectFailed>>
    BY DEF RefreshDevices, failed
  <2>2. Waits("detect")' <=> Waits("detect")
    BY <1>1, <1>2
  <2>3. ASSUME NEW i \in Places', pending'[i].cmd = "detect",
               \A j \in Places' : j > i => pending'[j].cmd # "detect"
        PROVE  isoPath = pending'[i].iso
    <3>1. i \in Places /\ pending'[i] = pending[i]
      BY <1>1, <1>2, <1>3, <2>3
    <3>2. \A j \in Places : j > i => pending[j].cmd # "detect"
      BY <1>2, <1>3, <2>3
    <3> QED
      BY <2>3, <3>1, <3>2 DEF LastDetected
  <2> QED
    BY <2>1, <2>2, <2>3 DEF LastDetected
<1>7. ShownIsChosen'
  BY <1>1, <1>2 DEF ShownIsChosen
<1> QED
  BY <1>4, <1>5, <1>6, <1>7

LEMMA BrowseKeeps ==
  ASSUME IInv, Browse
  PROVE  IInv'
<1> USE DEF IInv
<1>0. PICK iso \in Isos : isoPath' = iso /\ Ask([cmd |-> "detect", iso |-> iso])
  BY DEF Browse
<1> DEFINE r == [cmd |-> "detect", iso |-> iso]
<1>1. /\ r \in Request /\ r.cmd = "detect" /\ r.iso = isoPath' /\ Ask(r)
      /\ pending \in Seq(Request)
  BY <1>0 DEF Request, Ranges
<1> HIDE DEF r
<1>2. /\ pending' \in Seq(Request) /\ Len(pending') = Len(pending) + 1 /\ Len(pending) \in Nat
      /\ \A i \in 1..Len(pending') : pending'[i] \in Request
      /\ \A i \in Places : pending'[i] = pending[i]
      /\ pending'[Len(pending) + 1] = r
      /\ \A c : Waits(c)' <=> Waits(c) \/ r.cmd = c
  BY <1>1, Asking
<1>3. /\ Places' = Places \union {Len(pending) + 1} /\ Len(pending) + 1 \notin Places
      /\ \A i \in Places : i < Len(pending) + 1
  BY <1>2 DEF Places
<1>4. Ranges'
  <2>1. isoPath' \in Isos \union {None}
    BY <1>0
  <2>2. layoutCaveat' \in BOOLEAN
    BY DEF Browse
  <2>3. UNCHANGED <<isoKind, deviceById, flashing, selected, options, enabled, label, child, exit,
                    event, plugged, detectFailed, scanFailed>>
    BY DEF Browse, failed
  <2> QED
    BY <1>2, <2>1, <2>2, <2>3 DEF Ranges, TypeOK
<1>5. OneWrite' /\ OneAfterOther' /\ ConfirmedIsTrue'
  BY <1>1, <1>2, <1>3 DEF Browse, OneWrite, OneAfterOther, ConfirmedIsTrue
<1>6. LastDetected'
  <2>1. Waits("detect")'
    BY <1>1, <1>2
  <2>2. ASSUME NEW i \in Places', \A j \in Places' : j > i => pending'[j].cmd # "detect"
        PROVE  isoPath' = pending'[i].iso
    BY <1>1, <1>2, <1>3, <2>2
  <2> QED
    BY <2>1, <2>2 DEF LastDetected
<1>7. ShownIsChosen'
  BY <1>1, <1>2 DEF Browse, ShownIsChosen, failed
<1> QED
  BY <1>4, <1>5, <1>6, <1>7

\* FLASH is clicked only while no write is on its way.
LEMMA ClickKeeps ==
  ASSUME IInv, ClickFlash
  PROVE  IInv'
<1> USE DEF IInv
<1> DEFINE r == [cmd |-> "flash", iso |-> isoPath, device |-> deviceById, kind |-> isoKind]
<1>0. isoPath \in Isos /\ deviceById \in Drives
  BY DEF ClickFlash, Ranges, TypeOK
<1>1. r \in Request /\ r.cmd = "flash" /\ Ask(r) /\ pending \in Seq(Request)
  BY <1>0 DEF ClickFlash, Request, Ranges, TypeOK
<1> HIDE DEF r
<1>2. /\ pending' \in Seq(Request) /\ Len(pending') = Len(pending) + 1 /\ Len(pending) \in Nat
      /\ \A i \in 1..Len(pending') : pending'[i] \in Request
      /\ \A i \in Places : pending'[i] = pending[i]
      /\ pending'[Len(pending) + 1] = r
      /\ \A c : Waits(c)' <=> Waits(c) \/ r.cmd = c
  BY <1>1, Asking
<1>3. Places' = Places \union {Len(pending) + 1} /\ Len(pending) + 1 \notin Places
  BY <1>2 DEF Places
<1>4. child.phase = "none" /\ event = "none" /\ ~Waits("flash")
  BY DEF ClickFlash, OneWrite, OneAfterOther, Ranges, TypeOK
<1>5. /\ child'.phase = "asked" /\ child'.iso = isoPath /\ child'.device = deviceById
      /\ child'.kind = IF isoKind = "windows" THEN "windows" ELSE "auto"
      /\ child'.confirmed.name = selected /\ child'.confirmed.settled = Settled
      /\ child'.confirmed.caveat = (isoKind = "windows" /\ layoutCaveat)
  BY DEF ClickFlash
<1>6. Ranges'
  <2>1. selected \in Drives \union {None}
    BY DEF Ranges, TypeOK
  <2>2. (isoKind = "windows" /\ layoutCaveat) \in BOOLEAN /\ Settled \in BOOLEAN
    BY DEF Settled
  <2>3. child' \in Child
    BY <1>0, <2>1, <2>2 DEF ClickFlash, Child, Confirmed
  <2> QED
    BY <1>2, <2>3 DEF ClickFlash, Ranges, TypeOK, failed
<1>7. OneWrite'
  BY <1>5 DEF ClickFlash, OneWrite
<1>8. OneAfterOther'
  <2>1. \A i \in Places : pending'[i].cmd # "flash"
    BY <1>2, <1>4 DEF Waits
  <2> QED
    BY <1>0, <1>3, <1>4, <1>5, <2>1 DEF ClickFlash, OneAfterOther
<1>9. LastDetected'
  <2>1. UNCHANGED <<isoPath, isoKind, layoutCaveat, detectFailed>>
    BY DEF ClickFlash, failed
  <2>2. Waits("detect")' <=> Waits("detect")
    BY <1>1, <1>2
  <2>3. ASSUME NEW i \in Places', pending'[i].cmd = "detect",
               \A j \in Places' : j > i => pending'[j].cmd # "detect"
        PROVE  isoPath = pending'[i].iso
    <3>1. i \in Places /\ pending'[i] = pending[i]
      BY <1>1, <1>2, <1>3, <2>3
    <3>2. \A j \in Places : j > i => pending[j].cmd # "detect"
      BY <1>2, <1>3, <2>3
    <3> QED
      BY <2>3, <3>1, <3>2 DEF LastDetected
  <2> QED
    BY <2>1, <2>2, <2>3 DEF LastDetected
<1>10. ShownIsChosen'
  BY <1>1, <1>2 DEF ClickFlash, ShownIsChosen, failed
<1>11. ConfirmedIsTrue'
  <2>1. SUFFICES ASSUME Settled
                 PROVE  /\ selected = deviceById
                        /\ isoKind = KindOf[isoPath] /\ layoutCaveat = (isoKind = "windows")
    BY <1>0, <1>5, <2>1, IsosAssumption DEF ConfirmedIsTrue
  <2>2. \A c : ~Waits(c)
    BY <2>1 DEF Settled, Waits, Places
  <2> QED
    BY <1>0, <2>1, <2>2, IsosAssumption DEF Settled, ShownIsChosen, LastDetected
<1> QED
  BY <1>6, <1>7, <1>8, <1>9, <1>10, <1>11

-----------------------------------------------------------------------------
\* The answers.

\* What an answer does to the parts of the invariant that are about the queue.
LEMMA AnswerKeepsOrder ==
  ASSUME IInv, NEW c, Answered(c), isoPath' = isoPath
  PROVE  /\ pending' \in Seq(Request) /\ \A i \in 1..Len(pending') : pending'[i] \in Request
         /\ \A i, j \in Places' : pending'[i].cmd = "flash" /\ pending'[j].cmd = "flash" => i = j
         /\ Waits("flash")' => Waits("flash")
         /\ c = "flash" => ~Waits("flash")'
         /\ \A i \in Places' : pending'[i].cmd = "detect"
                                /\ (\A j \in Places' : j > i => pending'[j].cmd # "detect") =>
              isoPath' = pending'[i].iso
<1> USE DEF IInv
<1>1. /\ pending' \in Seq(Request) /\ Len(pending') = Len(pending) - 1
      /\ Len(pending) > 0 /\ pending[1] = Head(pending) /\ pending[1].cmd = c
      /\ \A i \in Places' : pending'[i] = pending[i + 1] /\ i + 1 \in Places
      /\ \A i \in Places : i # 1 => i - 1 \in Places' /\ pending'[i - 1] = pending[i]
  BY Answering DEF Ranges
<1>2. Places' \subseteq Nat \ {0} /\ Places \subseteq Nat \ {0} /\ 1 \in Places
  BY <1>1 DEF Places, Ranges
<1>3. \A i, j \in Places' : pending'[i].cmd = "flash" /\ pending'[j].cmd = "flash" => i = j
  <2>1. SUFFICES ASSUME NEW i \in Places', NEW j \in Places',
                        pending'[i].cmd = "flash", pending'[j].cmd = "flash"
                 PROVE  i = j
    OBVIOUS
  <2>2. i + 1 = j + 1
    BY <1>1, <2>1 DEF OneAfterOther
  <2> QED
    BY <1>2, <2>2
<1>4. Waits("flash")' => Waits("flash")
  BY <1>1 DEF Waits
<1>5. c = "flash" => ~Waits("flash")'
  <2>1. SUFFICES ASSUME c = "flash", NEW i \in Places', pending'[i].cmd = "flash" PROVE FALSE
    BY DEF Waits
  <2>2. i + 1 = 1
    BY <1>1, <1>2, <2>1 DEF OneAfterOther
  <2> QED
    BY <1>2, <2>2
<1>6. ASSUME NEW i \in Places', pending'[i].cmd = "detect",
             \A j \in Places' : j > i => pending'[j].cmd # "detect"
      PROVE  isoPath' = pending'[i].iso
  <2>1. i + 1 \in Places /\ pending[i + 1].cmd = "detect" /\ pending'[i] = pending[i + 1]
    BY <1>1, <1>6
  <2>2. ASSUME NEW j \in Places, j > i + 1 PROVE pending[j].cmd # "detect"
    <3>1. j # 1 /\ j - 1 > i
      BY <1>2, <2>2
    <3> QED
      BY <1>1, <1>6, <3>1
  <2> QED
    BY <2>1, <2>2 DEF LastDetected
<1>7. \A i \in 1..Len(pending') : pending'[i] \in Request
  BY <1>1
<1> QED
  BY <1>1, <1>3, <1>4, <1>5, <1>6, <1>7

LEMMA ListKeeps ==
  ASSUME IInv, ListAnswer
  PROVE  IInv'
<1> USE DEF IInv
<1>1. Answered("list") /\ isoPath' = isoPath
  BY DEF ListAnswer
<1>2. /\ pending' \in Seq(Request) /\ \A i \in 1..Len(pending') : pending'[i] \in Request
      /\ \A i, j \in Places' : pending'[i].cmd = "flash" /\ pending'[j].cmd = "flash" => i = j
      /\ Waits("flash")' => Waits("flash")
      /\ \A i \in Places' : pending'[i].cmd = "detect"
                             /\ (\A j \in Places' : j > i => pending'[j].cmd # "detect") =>
           isoPath' = pending'[i].iso
  BY <1>1, AnswerKeepsOrder
<1>3. Waits("detect")' <=> Waits("detect")
  BY <1>1, Answering DEF Ranges
<1>4. Ranges'
  BY <1>2 DEF ListAnswer, UpdateFlash, Ranges, TypeOK
<1>5. OneWrite'
  BY DEF ListAnswer, UpdateFlash, OneWrite
<1>6. OneAfterOther'
  BY <1>2 DEF ListAnswer, OneAfterOther
<1>7. LastDetected'
  BY <1>2, <1>3 DEF ListAnswer, LastDetected
<1>8. ShownIsChosen' /\ ConfirmedIsTrue'
  BY DEF ListAnswer, ShownIsChosen, ConfirmedIsTrue
<1> QED
  BY <1>4, <1>5, <1>6, <1>7, <1>8

LEMMA DetectKeeps ==
  ASSUME IInv, DetectAnswer
  PROVE  IInv'
<1> USE DEF IInv
<1>1. Answered("detect") /\ isoPath' = isoPath /\ pending \in Seq(Request)
  BY DEF DetectAnswer, Ranges
<1>2. /\ pending' \in Seq(Request) /\ \A i \in 1..Len(pending') : pending'[i] \in Request
      /\ \A i, j \in Places' : pending'[i].cmd = "flash" /\ pending'[j].cmd = "flash" => i = j
      /\ Waits("flash")' => Waits("flash")
      /\ \A i \in Places' : pending'[i].cmd = "detect"
                             /\ (\A j \in Places' : j > i => pending'[j].cmd # "detect") =>
           isoPath' = pending'[i].iso
  BY <1>1, AnswerKeepsOrder
<1>3. /\ Waits("list")' <=> Waits("list")
      /\ Len(pending) > 0 /\ pending[1] = Head(pending) /\ pending[1].cmd = "detect"
      /\ pending[1] \in Request
      /\ \A i \in Places : i # 1 => i - 1 \in Places' /\ pending'[i - 1] = pending[i]
  BY <1>1, Answering
<1>4. pending[1].iso \in Isos
  BY <1>3 DEF Request
<1>5. Ranges'
  <2>1. /\ isoKind' \in {"auto", "windows", "other"} /\ layoutCaveat' \in BOOLEAN
        /\ detectFailed' \in BOOLEAN
    BY <1>3, <1>4, IsosAssumption DEF DetectAnswer, Ranges, TypeOK
  <2>2. enabled' \in BOOLEAN
    BY DEF DetectAnswer, UpdateFlash
  <2> QED
    BY <1>2, <2>1, <2>2 DEF DetectAnswer, Ranges, TypeOK
<1>6. OneWrite'
  BY DEF DetectAnswer, UpdateFlash, OneWrite
<1>7. OneAfterOther'
  BY <1>2 DEF DetectAnswer, OneAfterOther
<1>8. LastDetected'
  <2>1. SUFFICES ASSUME ~Waits("detect")', ~detectFailed'
                 PROVE  isoKind' = KindOf[isoPath'] /\ layoutCaveat' = (isoKind' = "windows")
    BY <1>2 DEF LastDetected
  <2>2. \A i \in Places : i > 1 => pending[i].cmd # "detect"
    BY <1>3, <2>1 DEF Waits
  <2>3. isoPath = pending[1].iso
    BY <1>1, <1>3, <2>2 DEF LastDetected, Places
  <2> QED
    BY <1>1, <1>3, <2>1, <2>3 DEF DetectAnswer
<1>9. ShownIsChosen' /\ ConfirmedIsTrue'
  BY <1>3 DEF DetectAnswer, ShownIsChosen, ConfirmedIsTrue
<1> QED
  BY <1>5, <1>6, <1>7, <1>8, <1>9

LEMMA FlashKeeps ==
  ASSUME IInv, FlashAnswer
  PROVE  IInv'
<1> USE DEF IInv
<1>1. Answered("flash") /\ isoPath' = isoPath /\ pending \in Seq(Request)
  BY DEF FlashAnswer, Ranges
<1>2. /\ pending' \in Seq(Request) /\ \A i \in 1..Len(pending') : pending'[i] \in Request
      /\ \A i, j \in Places' : pending'[i].cmd = "flash" /\ pending'[j].cmd = "flash" => i = j
      /\ ~Waits("flash")'
      /\ \A i \in Places' : pending'[i].cmd = "detect"
                             /\ (\A j \in Places' : j > i => pending'[j].cmd # "detect") =>
           isoPath' = pending'[i].iso
  BY <1>1, AnswerKeepsOrder
<1>3. (Waits("list")' <=> Waits("list")) /\ (Waits("detect")' <=> Waits("detect"))
  BY <1>1, Answering
<1>4. Len(pending) > 0 /\ pending[1].cmd = "flash" /\ Len(pending) \in Nat
  BY <1>1, Answering
<1>5. child.phase = "asked" /\ event = "none" /\ event' = event
  BY <1>4 DEF FlashAnswer, OneAfterOther, Waits, Places
<1>6. LastDetected' /\ ShownIsChosen'
  BY <1>2, <1>3 DEF FlashAnswer, LastDetected, ShownIsChosen, failed
<1>7. CASE child' = NoChild /\ Finish(FALSE)
  <2>1. child' \in Child /\ child'.phase = "none"
    BY <1>7 DEF NoChild, Child, Confirmed
  <2>2. Ranges'
    BY <1>2, <1>7, <2>1 DEF FlashAnswer, Finish, UpdateFlash, Ranges, TypeOK, failed
  <2>3. OneWrite' /\ OneAfterOther' /\ ConfirmedIsTrue'
    BY <1>2, <1>5, <1>7, <2>1 DEF Finish, OneWrite, OneAfterOther, ConfirmedIsTrue
  <2> QED
    BY <1>6, <2>2, <2>3
<1>8. CASE child' = [child EXCEPT !.phase = "spawned"] /\ UNCHANGED <<flashing, enabled, label>>
  <2>1. /\ child' \in Child /\ child'.phase = "spawned" /\ child'.iso = child.iso
        /\ child'.device = child.device /\ child'.kind = child.kind
        /\ child'.confirmed = child.confirmed
    BY <1>8 DEF Ranges, TypeOK, Child
  <2>2. Ranges'
    BY <1>2, <1>8, <2>1 DEF FlashAnswer, Ranges, TypeOK, failed
  <2>3. OneWrite' /\ OneAfterOther' /\ ConfirmedIsTrue'
    BY <1>2, <1>5, <1>8, <2>1 DEF OneWrite, OneAfterOther, ConfirmedIsTrue
  <2> QED
    BY <1>6, <2>2, <2>3
<1> QED
  BY <1>7, <1>8 DEF FlashAnswer

-----------------------------------------------------------------------------
LEMMA StepIInv == IInv /\ [Next]_vars => IInv'
<1> SUFFICES ASSUME IInv, [Next]_vars PROVE IInv'
  OBVIOUS
<1>1. CASE Next
  BY <1>1, PlugKeeps, SelectKeeps, CliKeeps, BackendKeeps, RefreshKeeps, BrowseKeeps, ClickKeeps,
     ListKeeps, DetectKeeps, FlashKeeps DEF Next, User, Answer
<1>2. CASE UNCHANGED vars
  BY <1>2, StillWaiting DEF vars, page, failed, IInv, Ranges, TypeOK, OneWrite, OneAfterOther,
                            LastDetected, ShownIsChosen, ConfirmedIsTrue
<1> QED
  BY <1>1, <1>2

LEMMA Invariance == Spec => []IInv
BY InitIInv, StepIInv, PTL DEF Spec

\* Every variable of the page, the queue and the backend stays in its range.
THEOREM TypeCorrect == Spec => []TypeOK
<1>1. IInv => TypeOK
  BY DEF IInv, Ranges
<1> QED
  BY <1>1, Invariance, PTL

\* From the click to the event that ends a write, FLASH cannot be clicked.
THEOREM OneWriteAtATime == Spec => []OneWrite
<1>1. IInv => OneWrite
  BY DEF IInv
<1> QED
  BY <1>1, Invariance, PTL

\* With all answers in, kind and caveat are those of the image shown, however
\* many images were browsed while detections were out.
THEOREM KindIsSettled == Spec => []KindSettles
<1>1. IInv => KindSettles
  BY DEF IInv, LastDetected, KindSettles, Waits, Places
<1> QED
  BY <1>1, Invariance, PTL

\* What was confirmed with all answers in is what the CLI writes.
THEOREM ConfirmedIsWritten == Spec => []SettledIsTruthful
<1>1. IInv => SettledIsTruthful
  BY DEF IInv, ConfirmedIsTrue, SettledIsTruthful
<1> QED
  BY <1>1, Invariance, PTL
=============================================================================
