---------------------------- MODULE MCAnswerFile ----------------------------
(***************************************************************************)
(* Names that are plain, spaced, with characters to strip, reserved as     *)
(* typed or once stripped, nothing at all once stripped, hyphenated.       *)
(***************************************************************************)
EXTENDS AnswerFile, TLC

CONSTANTS empty, spaces, plain, padded, marked, marks, guest, hidden, hyphen

AllTexts == {empty, spaces, plain, padded, marked, marks, guest, hidden, hyphen}
TheTrimmed == [x \in AllTexts |-> CASE x = spaces -> empty [] x = padded -> plain [] OTHER -> x]
TheStripped ==
  [x \in AllTexts |-> CASE x \in {spaces, marks} -> empty [] x \in {padded, marked} -> plain
                        [] x = hidden -> guest [] OTHER -> x]

\* Every set of boxes without an account, every name with a few.
AllForms ==
  {f \in FormType :
     IF f.user THEN ~f.hw /\ (f.extra <=> f.on # {}) /\ f.on \subseteq {"qol"} ELSE f.name = plain}

\* Every set of flags with no value; every value of each option, by itself and
\* with an account, with a few.
FewFlags == {{}, {"qol"}, {"data", "skipMsAccount"}, {"ram", "bitlocker"}}
TheLines ==
  {[all |-> a, equals |-> FALSE, tweaks |-> [NoTweaks EXCEPT !.on = on]] :
     a \in BOOLEAN, on \in SUBSET Flags}
    \union
  {[all |-> FALSE, equals |-> e,
    tweaks |-> [on |-> on, account |-> n, password |-> w, region |-> z, timezone |-> z]] :
     e \in BOOLEAN, on \in FewFlags, n \in AllTexts \union {None},
     w \in {None, empty, spaces, plain, hyphen}, z \in {None, plain}}
=============================================================================
