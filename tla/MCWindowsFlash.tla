--------------------------- MODULE MCWindowsFlash ---------------------------
(***************************************************************************)
(* Small jobs for WindowsFlash.  One unit is a GiB: a file above 3 units   *)
(* is one FAT32 cannot hold, a usable device has 2 to 12 units, and the    *)
(* first unit of the drive is taken by the partition start.                *)
(***************************************************************************)
EXTENDS WindowsFlash

AnIso(files, image, other) ==
  [files |-> files, readable |-> TRUE,
   size |-> [f \in IsoFile |->
      CASE f \in {"install.wim", "install.esd"} -> image
        [] f = "other" -> other
        [] OTHER -> 0]]

Plain == {"bootloader", "boot.wim"}

GoodIsos == {AnIso(Plain \union {"install.wim"}, 2, 0),
             AnIso(Plain \union {"install.wim", "other"}, 4, 1),
             AnIso(Plain \union {"install.esd"}, 3, 0)}

OddIsos ==
  { AnIso(Plain, 0, 0),
    AnIso(Plain \union {"install.wim", "install.esd"}, 4, 0),
    AnIso({"bootloader", "install.wim"}, 2, 0),
    AnIso({"boot.wim", "install.esd"}, 2, 0),
    AnIso(Plain \union {"install.wim", "other"}, 2, 4),
    AnIso(Plain \union {"install.wim", "other"}, 4, 7),
    [AnIso(Plain \union {"install.wim"}, 2, 0) EXCEPT !.readable = FALSE] }

GoodHost == [tools |-> Tool, ntfsMounts |-> TRUE, loaderIntact |-> TRUE]
Hosts == {GoodHost, [GoodHost EXCEPT !.ntfsMounts = FALSE],
          [GoodHost EXCEPT !.loaderIntact = FALSE]}
           \union {[GoodHost EXCEPT !.tools = @ \ {t}] : t \in Tool}

GoodDevice == [removable |-> TRUE, size |-> 12]
Devices == {GoodDevice, [GoodDevice EXCEPT !.removable = FALSE],
            [GoodDevice EXCEPT !.size = 1], [GoodDevice EXCEPT !.size = 13],
            [GoodDevice EXCEPT !.size = 6], [GoodDevice EXCEPT !.size = 7]}

AnyPlan == [l \in Layouts |-> "ok"]
Plans == {AnyPlan, [AnyPlan EXCEPT ![Fat] = "invalid"],
          [AnyPlan EXCEPT ![Ntfs] = "unbuildable"]}

AJob(i, d, h, l, p, t) ==
  [iso |-> i, dev |-> d, host |-> h, layout |-> l, plan |-> p, tweaks |-> t]

AnyLayout == Layouts \union {"auto"}

\* Every ISO with every tweak on a good host and drive; and every host, drive
\* and plan with the good ISOs.
SmallJobs ==
  {AJob(i, GoodDevice, GoodHost, l, AnyPlan, t) :
      i \in GoodIsos \union OddIsos, l \in AnyLayout,
      t \in {"none", "noop", "valid", "badAccount"}}
    \union
  {AJob(i, GoodDevice, h, l, AnyPlan, "none") :
      i \in GoodIsos, h \in Hosts, l \in AnyLayout}
    \union
  {AJob(i, d, GoodHost, l, p, "none") :
      i \in GoodIsos, d \in Devices, l \in AnyLayout, p \in Plans}
=============================================================================
