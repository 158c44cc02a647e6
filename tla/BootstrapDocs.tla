--------------------------- MODULE BootstrapDocs ---------------------------
(***************************************************************************)
(* The documentation pages open in several tabs, the customizer in one of  *)
(* them.  Loading that tab runs the load handlers of both scripts; a tab   *)
(* that is closed has nothing to click and gets no answers.                *)
(*                                                                         *)
(* What the user does is bounded by MaxActs; answers are not.              *)
(***************************************************************************)
EXTENDS Customizer, DocsPage

CONSTANTS CustomizerTab, MaxActs

ASSUME TabAssumption == CustomizerTab \in Tabs /\ MaxActs \in Nat

VARIABLE acts  \* what the user has done so far

siteVars == <<customizerVars, docsVars, acts>>

Init == CustomizerInit /\ DocsInit /\ acts = 0

Act == acts < MaxActs /\ acts' = acts + 1

OpenCustomizer ==
  /\ Act /\ LoadDocs(CustomizerTab)
  /\ \E id \in 0..Len(gists) : LoadCustomizer(id)

\* Of the closed page nothing is left: its variables are those of a page
\* that has yet to run.
CloseCustomizer == Act /\ CloseTab(CustomizerTab) /\ LoadCustomizer(0)

OpenPage == \E t \in Tabs \ {CustomizerTab} :
              Act /\ LoadDocs(t) /\ UNCHANGED customizerVars

ClosePage == \E t \in Tabs \ {CustomizerTab} :
               Act /\ CloseTab(t) /\ UNCHANGED customizerVars

Theme == \E t \in Tabs : Act /\ ToggleTheme(t) /\ UNCHANGED customizerVars

Customize ==
  CustomizerTab \in open /\ Act /\ CustomizerUser /\ UNCHANGED docsVars

Answer ==
  CustomizerTab \in open /\ CustomizerAnswer /\ UNCHANGED <<docsVars, acts>>

Next == \/ OpenCustomizer \/ CloseCustomizer \/ OpenPage \/ ClosePage
        \/ Theme \/ Customize \/ Answer

Spec == Init /\ [][Next]_siteVars

TypeOK == CustomizerTypeOK /\ DocsTypeOK /\ acts \in 0..MaxActs
=============================================================================
