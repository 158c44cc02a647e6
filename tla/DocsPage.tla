------------------------------ MODULE DocsPage ------------------------------
(***************************************************************************)
(* What the pages of the Bootstrap documentation share: the theme preview  *)
(* (assets/js/src/application.js), and the warning a page gives when it is *)
(* opened in an IE that emulates an older one                              *)
(* (ie-emulation-modes-warning.js).                                        *)
(*                                                                         *)
(* The pages are open in several tabs, opened, loaded anew and closed in   *)
(* any order.  A tab has its stylesheet link, all tabs have one            *)
(* localStorage; there is no handler for its storage event, so a tab looks *)
(* at the stored preference only when it is loaded.                        *)
(***************************************************************************)
EXTENDS Naturals

CONSTANTS Tabs,
          Browsers  \* [ie, mode, opera]: IE's version, 0 for none, its mode

ASSUME BrowserAssumption ==
  \A b \in Browsers : /\ b.ie \in {0} \cup (8..11) /\ b.mode <= b.ie
                      /\ b.mode \in Nat /\ (b.ie # 0 => b.mode >= 5)

VARIABLES
  open,          \* the tabs that are open
  theme,         \* those whose stylesheet link has the theme's address
  previewTheme,  \* the item in localStorage
  chosen,        \* whether the last click on a toggle, in any tab, gave the
                 \* theme to the tab it was made in, and the tabs that were
  recent,        \* loaded since, with that one (history variables)
  browser,       \* the browser all of them are open in
  warned         \* the tabs whose page warned when it was loaded

docsVars == <<open, theme, previewTheme, chosen, recent, browser, warned>>

-----------------------------------------------------------------------------
None == 0

\* Up to version 10, and in any mode below 11, the user agent names MSIE.
emulatedIEMajorVersion(b) == IF b.ie = 0 \/ b.mode = 11 THEN None ELSE b.mode

\* The engine's version as it is (a mutant of actualNonEmulatedIEMajorVersion).
actualVersionOfEngine(b) ==
  IF b.ie = 11 /\ b.mode = 11 THEN 11 ELSE IF b.ie < 9 THEN 5 ELSE b.ie

\* _jscript_version is the engine's, 5.8 in IE 8, and undefined in IE 11
\* when it emulates nothing.
actualNonEmulatedIEMajorVersion(b) ==
  IF b.ie = 11 /\ b.mode = 11 THEN 11 ELSE IF b.ie < 9 THEN 8 ELSE b.ie

EmulationAlert(b) ==
  /\ ~b.opera /\ emulatedIEMajorVersion(b) # None
  /\ emulatedIEMajorVersion(b) # actualNonEmulatedIEMajorVersion(b)

-----------------------------------------------------------------------------
DocsInit ==
  /\ open = Tabs /\ theme = {} /\ previewTheme = FALSE /\ chosen = FALSE /\ recent = Tabs
  /\ browser \in Browsers /\ warned = IF EmulationAlert(browser) THEN Tabs ELSE {}

\* A tab is opened, or loaded anew.
LoadDocs(t) ==
  /\ open' = open \cup {t} /\ recent' = recent \cup {t}
  /\ theme' = IF previewTheme THEN theme \cup {t} ELSE theme \ {t}
  /\ warned' = IF EmulationAlert(browser) THEN warned \cup {t} ELSE warned \ {t}
  /\ UNCHANGED <<previewTheme, chosen, browser>>

CloseTab(t) ==
  /\ t \in open /\ open' = open \ {t} /\ recent' = recent \ {t}
  /\ theme' = theme \ {t} /\ warned' = warned \ {t}
  /\ UNCHANGED <<previewTheme, chosen, browser>>

\* The item is turned over like the link (a mutant of ToggleTheme).
ToggleThemeTurnsItem(t) ==
  /\ t \in open
  /\ theme' = IF t \in theme THEN theme \ {t} ELSE theme \cup {t}
  /\ previewTheme' = ~previewTheme
  /\ chosen' = (t \notin theme) /\ recent' = {t}
  /\ UNCHANGED <<open, browser, warned>>

\* The click on the toggle goes by the tab's own link, not by the item.
ToggleTheme(t) ==
  /\ t \in open
  /\ IF t \in theme
     THEN theme' = theme \ {t} /\ previewTheme' = FALSE
     ELSE theme' = theme \cup {t} /\ previewTheme' = TRUE
  /\ chosen' = (t \notin theme) /\ recent' = {t}
  /\ UNCHANGED <<open, browser, warned>>

-----------------------------------------------------------------------------
DocsTypeOK ==
  /\ open \subseteq Tabs /\ theme \subseteq open /\ warned \subseteq open
  /\ recent \subseteq open /\ previewTheme \in BOOLEAN /\ chosen \in BOOLEAN
  /\ browser \in Browsers

\* The user's last word counts: a tab that is loaded looks like the one in
\* which a toggle was clicked last, also when that one no longer looked as the
\* preference said (another tab had changed it, and the click did not), and
\* when it has been closed since.
LastClickDecides == \A t \in recent : t \in theme <=> chosen

\* A page that is loaded warns exactly in an IE that is not in the mode of its
\* own version, though IE 11 hides its version in its own mode and IE 8 has
\* none to show.
WarnsOfEmulation ==
  \A t \in open : t \in warned <=> ~browser.opera /\ browser.mode # browser.ie
=============================================================================
