------------------------------ MODULE AnswerFile ------------------------------
(***************************************************************************)
(* The options of the Windows installation on their way to autounattend.xml*)
(* on the drive: from the form of the page (currentTweaks in app/src/      *)
(* main.ts) through the backend (TweaksDto in app/src-tauri/src/lib.rs) to *)
(* the arguments of the write command, or from a terminal; from there      *)
(* (TweakArgs in crates/cli/src/main.rs) to WindowsTweaks, and to the file *)
(* that generate_autounattend makes of them (crates/core/src/lib.rs).      *)
(* What the file says is kept, how XML says it is not.                     *)
(***************************************************************************)
EXTENDS Integers, Sequences

CONSTANTS
  Texts,      \* what may be typed: names, passwords, locales, time zones
  Blank,      \* the empty text, one of Texts
  Trimmed,    \* each text without its outer spaces
  Stripped,   \* each text without the characters Windows forbids in a name, trimmed
  Reserved,   \* the names Windows keeps to itself, in any case
  Dashed,     \* the texts that begin with a hyphen and are not that hyphen alone
  Forms,      \* how the page may be filled in
  Lines,      \* how the command may be called from a terminal
  None        \* an option that is not there

Hardware == {"tpm", "secureBoot", "ram", "cpu", "storage"}
Flags    == Hardware \union {"skipMsAccount", "data", "bitlocker", "qol"}
Values   == {"account", "password", "region", "timezone"}

\* WindowsTweaks, and TweaksDto: what is on, and the four options with a value.
Tweaks == [on : SUBSET Flags, account : Texts \union {None}, password : Texts \union {None},
           region : Texts \union {None}, timezone : Texts \union {None}]

\* The page has one box for three of the checks and one for the other two.
FormType == [hw : BOOLEAN, extra : BOOLEAN, on : SUBSET (Flags \ Hardware),
             user : BOOLEAN, name : Texts]
\* On the command line a value follows its option, as an argument of its own
\* or, with an equals sign, in the same one.
LineType == [all : BOOLEAN, equals : BOOLEAN, tweaks : Tweaks]

ASSUME TextsAssumption ==
  /\ None \notin Texts
  /\ Blank \in Texts /\ Reserved \subseteq Texts /\ Dashed \subseteq Texts
  /\ Trimmed \in [Texts -> Texts] /\ Stripped \in [Texts -> Texts]
  /\ \A text \in Texts : Trimmed[Trimmed[text]] = Trimmed[text]
ASSUME FormsAssumption == Forms \subseteq FormType /\ Lines \subseteq LineType

VARIABLES
  via,      \* "application" or "terminal"
  form,     \* the page, or the command line
  args,     \* the arguments of the command
  tweaks,   \* what the command makes of them
  preview,  \* the file the page shows, with the form it was made for, or None
  media,    \* autounattend.xml on the drive, or None
  erased,   \* has the drive been erased
  step      \* where all this is

answerVars == <<via, form, args, tweaks, preview, media, erased, step>>

-----------------------------------------------------------------------------
NoTweaks == [on |-> {}, account |-> None, password |-> None, region |-> None, timezone |-> None]
IsNoop(t) == t = NoTweaks

NonEmpty(text) == IF text = None THEN None
                  ELSE IF Trimmed[text] = Blank THEN None ELSE Trimmed[text]

\* What the page sends: no password, locale or time zone is asked for there.
CurrentTweaks(f) ==
  [on |-> f.on \union (IF f.hw THEN {"tpm", "secureBoot", "ram"} ELSE {})
            \union (IF f.extra THEN {"cpu", "storage"} ELSE {}),
   account |-> IF f.user THEN NonEmpty(f.name) ELSE None,
   password |-> None, region |-> None, timezone |-> None]

ToCore(dto) == [dto EXCEPT !.account = NonEmpty(@), !.password = NonEmpty(@),
                           !.region = NonEmpty(@), !.timezone = NonEmpty(@)]

\* The backend passes on what it was sent, each value as an argument of its own
\* behind its flag.
ToArgs(dto) == [all |-> FALSE, equals |-> FALSE, tweaks |-> ToCore(dto)]

\* The argument parser takes an argument that begins with a hyphen for an option
\* it does not know; a value that is part of its option's argument passes.
Parses(a) == a.equals \/ \A v \in Values : a.tweaks[v] \notin Dashed

ToTweaks(a) == [a.tweaks EXCEPT !.on = @ \union (IF a.all THEN Hardware ELSE {})]

ValidAccount(t) ==
  t.account # None => Stripped[t.account] # Blank /\ Stripped[t.account] \notin Reserved

If(condition, item) == IF condition THEN <<item>> ELSE <<>>

BlankPassword(t) == t.password = None \/ t.password = Blank

\* Mutant of Specialize: the account does not skip the account screens.
SpecializeNoAccount(t) ==
  If("skipMsAccount" \in t.on, "BypassNRO") \o If("data" \in t.on, "AllowTelemetry")
    \o If("bitlocker" \in t.on, "PreventDeviceEncryption") \o If("qol" \in t.on, "machineKeys")

\* The commands of each pass, in order.  An empty list leaves its section out.
WindowsPE(t) ==
  If("tpm" \in t.on, "BypassTPMCheck") \o If("secureBoot" \in t.on, "BypassSecureBootCheck")
    \o If("ram" \in t.on, "BypassRAMCheck") \o If("cpu" \in t.on, "BypassCPUCheck")
    \o If("storage" \in t.on, "BypassStorageCheck")
Specialize(t) ==
  If("skipMsAccount" \in t.on \/ t.account # None, "BypassNRO")
    \o If("data" \in t.on, "AllowTelemetry")
    \o If("bitlocker" \in t.on, "PreventDeviceEncryption") \o If("qol" \in t.on, "machineKeys")
FirstLogon(t) ==
  If(t.account # None /\ BlankPassword(t), <<"changePassword", Stripped[t.account]>>)
    \o If(t.account # None /\ BlankPassword(t), <<"noExpiry">>)
    \o If("qol" \in t.on, <<"userKeys">>)

\* What goes with the commands of windowsPE, and the pages of the first start.
UserData(t) == IF WindowsPE(t) # <<>> THEN {"AcceptEula", "ProductKey"} ELSE {}

\* Mutant of Oobe: skipping the account screens hides them all.
OobeNoAccount(t) ==
  IF t.on \intersect {"data", "skipMsAccount"} # {}
  THEN {"HideEULAPage", "ProtectYourPC", "HideOnlineAccountScreens", "HideWirelessSetupInOOBE"}
  ELSE {}

Oobe(t) ==
  IF "data" \in t.on
  THEN {"HideEULAPage", "ProtectYourPC", "HideOnlineAccountScreens", "HideWirelessSetupInOOBE"}
  ELSE {}

\* The sections of the file; Setup does not take one without the key that the
\* windowsPE section carries along, and takes each section once.
GenerateAutounattend(t) ==
  IF ~ValidAccount(t) THEN None
  ELSE [windowsPE |-> WindowsPE(t), userData |-> UserData(t),
        specialize |-> Specialize(t),
        oobe |-> Oobe(t), timezone |-> t.timezone,
        account |-> IF t.account = None THEN <<>>
                    ELSE <<[name |-> Stripped[t.account],
                            password |-> IF t.password = None THEN Blank ELSE t.password]>>,
        firstLogon |-> FirstLogon(t), region |-> t.region]

-----------------------------------------------------------------------------
AnswerInit ==
  /\ \/ via = "application" /\ form \in Forms /\ step = "page" /\ args = None
     \/ via = "terminal" /\ form = None /\ step = "command" /\ args \in Lines
  /\ tweaks = NoTweaks /\ preview = None /\ media = None /\ erased = FALSE

Fail == step' = "failed"

\* A box of the form is changed; what the preview shows stays as it was.
Edit ==
  /\ step = "page"
  /\ form' \in Forms
  /\ UNCHANGED <<via, args, tweaks, preview, media, erased, step>>

Preview ==
  /\ step = "page"
  /\ preview' = [form |-> form, file |-> GenerateAutounattend(ToCore(CurrentTweaks(form)))]
  /\ UNCHANGED <<via, form, args, tweaks, media, erased, step>>

\* The request to flash: a name that makes no file is refused at once.
Confirm ==
  /\ step = "page"
  /\ LET dto == CurrentTweaks(form)
     IN  IF ~IsNoop(ToCore(dto)) /\ GenerateAutounattend(ToCore(dto)) = None
         THEN Fail /\ UNCHANGED args
         ELSE step' = "command" /\ args' = ToArgs(dto)
  /\ UNCHANGED <<via, form, tweaks, preview, media, erased>>

Parse ==
  /\ step = "command"
  /\ IF Parses(args) THEN tweaks' = ToTweaks(args) /\ step' = "checks"
     ELSE Fail /\ UNCHANGED tweaks
  /\ UNCHANGED <<via, form, args, preview, media, erased>>

\* The command makes the file once before anything is asked or erased, and may
\* not be confirmed.
Check ==
  /\ step = "checks"
  /\ \/ IsNoop(tweaks) /\ step' = "prepared"
     \/ GenerateAutounattend(tweaks) # None /\ step' = "prepared"
     \/ Fail
  /\ UNCHANGED <<via, form, args, tweaks, preview, media, erased>>

\* The drive is erased and the installer copied, in part or in whole.
Copy ==
  /\ step = "prepared"
  /\ erased' = TRUE
  /\ step' = "copied" \/ Fail
  /\ UNCHANGED <<via, form, args, tweaks, preview, media>>

\* flash_windows_iso makes the file again and writes it, if it says anything.
WriteAnswer ==
  /\ step = "copied"
  /\ IF IsNoop(tweaks) THEN step' = "done" /\ UNCHANGED media
     ELSE IF GenerateAutounattend(tweaks) = None THEN Fail /\ UNCHANGED media
     ELSE media' = GenerateAutounattend(tweaks) /\ step' = "done"
  /\ UNCHANGED <<via, form, args, tweaks, preview, erased>>

AnswerNext == Edit \/ Preview \/ Confirm \/ Parse \/ Check \/ Copy \/ WriteAnswer

AnswerSpec == AnswerInit /\ [][AnswerNext]_answerVars
-----------------------------------------------------------------------------
\* What was asked for, in the words of the page and of the command's help, and
\* what Windows Setup does when it finds the file.

Asked ==
  IF via = "terminal" THEN [args.tweaks EXCEPT !.on = IF args.all THEN @ \union Hardware ELSE @]
  ELSE [on |-> form.on \union {h \in Hardware : IF h \in {"cpu", "storage"} THEN form.extra
                                               ELSE form.hw},
        account |-> IF form.user /\ Trimmed[form.name] # Blank THEN Trimmed[form.name] ELSE None,
        password |-> None, region |-> None, timezone |-> None]

Wanted(t) ==
  [checks |-> t.on \intersect Hardware, settings |-> t.on \intersect {"data", "bitlocker", "qol"},
   offline |-> "skipMsAccount" \in t.on \/ t.account # None,
   accounts |-> IF t.account = None THEN {}
                ELSE {[name |-> Stripped[t.account], change |-> BlankPassword(t),
                       password |-> IF BlankPassword(t) THEN Blank ELSE t.password]},
   region |-> t.region, timezone |-> t.timezone]

Bypass == [tpm |-> "BypassTPMCheck", secureBoot |-> "BypassSecureBootCheck",
           ram |-> "BypassRAMCheck", cpu |-> "BypassCPUCheck", storage |-> "BypassStorageCheck"]

Has(list, item) == \E i \in DOMAIN list : list[i] = item

SetupDoes(file) ==
  IF file = None
  THEN [checks |-> {}, settings |-> {}, offline |-> FALSE, accounts |-> {}, region |-> None,
        timezone |-> None]
  ELSE [checks |-> {h \in Hardware : "ProductKey" \in file.userData /\ Has(file.windowsPE, Bypass[h])},
        settings |-> {s \in {"data", "bitlocker", "qol"} :
          CASE s = "data" -> "ProtectYourPC" \in file.oobe /\ Has(file.specialize, "AllowTelemetry")
            [] s = "bitlocker" -> Has(file.specialize, "PreventDeviceEncryption")
            [] s = "qol" -> Has(file.specialize, "machineKeys") /\ Has(file.firstLogon, <<"userKeys">>)},
        offline |-> Has(file.specialize, "BypassNRO"),
        accounts |-> {[name |-> a.name, change |-> Has(file.firstLogon, <<"changePassword", a.name>>),
                       password |-> a.password] : a \in {file.account[i] : i \in DOMAIN file.account}},
        region |-> file.region, timezone |-> file.timezone]

\* What Setup may do besides: take the licence for read, in the installer or at
\* the first start, leave pages out, and change settings of its own.
Besides ==
  {"installerLicence", "startLicence", "onlineAccount", "wireless", "passwordAge",
   "edgeFirstRun", "searchBox"}

AlsoDoes(file) ==
  {b \in Besides : file # None /\
     CASE b = "installerLicence" -> "AcceptEula" \in file.userData
       [] b = "startLicence" -> "HideEULAPage" \in file.oobe
       [] b = "onlineAccount" -> "HideOnlineAccountScreens" \in file.oobe
       [] b = "wireless" -> "HideWirelessSetupInOOBE" \in file.oobe
       [] b = "passwordAge" -> Has(file.firstLogon, <<"noExpiry">>)
       [] b = "edgeFirstRun" -> Has(file.specialize, "machineKeys")
       [] b = "searchBox" -> Has(file.firstLogon, <<"userKeys">>)}

\* Of these the options name one: no data collection is to "auto-accept the
\* EULA".  The others come along unnamed, each with an option of its own.
AlsoWanted(t) == IF "data" \in t.on THEN {"startLicence"} ELSE {}
ComesAlong(t) ==
  AlsoWanted(t)
    \union (IF "data" \in t.on THEN {"onlineAccount", "wireless"} ELSE {})
    \union (IF t.on \intersect Hardware # {} THEN {"installerLicence"} ELSE {})
    \union (IF t.account # None /\ BlankPassword(t) THEN {"passwordAge"} ELSE {})
    \union (IF "qol" \in t.on THEN {"edgeFirstRun", "searchBox"} ELSE {})

-----------------------------------------------------------------------------
\* Properties.

\* When the drive is done, Windows Setup does with it everything that was asked
\* for, whichever way the options came and however they were spelled; nothing
\* that was not, save what ComesAlong names of the options that were on: an
\* account alone hides no page, a bypass alone none of the first start.  The
\* file the page has shown, if the form is still the one it was shown for, does
\* the same.  No drive is erased for a name of which no file can be made (the
\* comments in flash, and in the write command: "Fail now, not after the drive
\* has already been wiped").
AsAsked ==
  /\ erased => ValidAccount(Asked)
  /\ step = "done" =>
       /\ SetupDoes(media) = Wanted(Asked)
       /\ AlsoWanted(Asked) \subseteq AlsoDoes(media)
       /\ AlsoDoes(media) \subseteq ComesAlong(Asked)
       /\ preview # None => (preview.form = form =>
            /\ SetupDoes(preview.file) = SetupDoes(media)
            /\ AlsoDoes(preview.file) = AlsoDoes(media))
=============================================================================
