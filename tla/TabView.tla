------------------------------ MODULE TabView ------------------------------
(***************************************************************************)
(* The tab view of the main page (tabview, tabbar and multiview in         *)
(* codebase/webix.js): a bar of options, and under it the view of the one  *)
(* that is chosen.  Bar, registry of views and what is on the screen are   *)
(* told of a change one after the other.                                   *)
(*                                                                         *)
(* A tab opened again while it is open gets a second view of the same id,  *)
(* which takes the first one's place in the registry and on the screen;    *)
(* the first stays in the multiview, where nothing reaches it.             *)
(***************************************************************************)
EXTENDS Naturals, Sequences, SequencesExt

CONSTANTS Tabs, Hidden, NoTab

ASSUME TabAssumption == Hidden \notin Tabs /\ NoTab \notin Tabs \cup {Hidden}

VARIABLES
  options,  \* the bar; its first option is hidden
  value,    \* the option chosen in the bar, NoTab for none
  views,    \* ids with a view in the registry
  active    \* the id of the view on the screen, NoTab if it is destroyed

tabVars == <<options, value, views, active>>

TabsInit == options = <<Hidden>> /\ value = NoTab /\ views = {Hidden} /\ active = Hidden

-----------------------------------------------------------------------------
\* An option that is there already is not looked for (a mutant of addOption).
addOptionAgain(id) == Append(options, id)

addOption(id) == IF id \in ToSet(options) THEN options ELSE Append(options, id)

\* onChange of the bar: it shows the view registered under the id, if any.
aF(id) == IF id \in views THEN id ELSE active

\* A view that is shown sets the bar, too.
fc(id) == value' = id /\ active' = id

\* addView of the tab view, then show of the new view.
AddView(id) ==
  /\ options' = addOption(id)
  /\ views' = views \cup {id}
  /\ fc(id)

ClickTab(id) ==
  /\ id \in ToSet(options) \ {Hidden} /\ id # value
  /\ value' = id /\ active' = aF(id)
  /\ UNCHANGED <<options, views>>

\* The option after the one that was at i, or else the last before it.
NextOption(opts, i) ==
  LET from == IF i > Len(opts) THEN Len(opts) ELSE i
      shown == {k \in DOMAIN opts : opts[k] # Hidden}
      after == {k \in shown : k >= from}
  IN  CASE after # {} -> opts[CHOOSE k \in after : \A l \in after : k <= l]
        [] after = {} /\ shown # {} -> opts[CHOOSE k \in shown : \A l \in shown : k >= l]
        [] OTHER -> NoTab

\* onOptionRemove: the view, which may be on the screen, is destroyed.
Destruct(id, shown) ==
  /\ views' = views \ {id}
  /\ active' = IF shown = id THEN NoTab ELSE shown

\* removeOption: the bar moves on first.
RemoveOption(id) ==
  LET i == CHOOSE k \in DOMAIN options : options[k] = id
      rest == RemoveAt(options, i)
      next == NextOption(rest, i)
  IN  /\ options' = rest
      /\ value' = IF id = value THEN next ELSE value
      /\ Destruct(id, IF id = value THEN aF(next) ELSE active)

CloseTab(id) == id \in ToSet(options) \ {Hidden} /\ RemoveOption(id)

\* What the page does when an item was deleted: it closes the tab that is
\* shown.  With none there is nothing to remove; the search for the next
\* option throws.
CloseShown == IF value = NoTab THEN UNCHANGED tabVars ELSE RemoveOption(value)

-----------------------------------------------------------------------------
\* Whatever tabs are opened, opened twice, clicked and closed, by the user
\* or behind the user's back: each option is there once and has a view that
\* is not destroyed, and the one chosen in the bar is what the screen shows.
BarShowsView ==
  /\ ToSet(options) = views /\ \A i, j \in DOMAIN options : options[i] = options[j] => i = j
  /\ IF value = NoTab THEN options = <<Hidden>> ELSE value \in views /\ active = value
=============================================================================
