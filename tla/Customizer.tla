----------------------------- MODULE Customizer -----------------------------
(***************************************************************************)
(* The page on which a Bootstrap is put together (assets/js/src/           *)
(* customizer.js): its form, the configurations kept as gists, imports of  *)
(* configuration files, and the download.                                  *)
(*                                                                         *)
(* Three things answer late: the gist service, to which a configuration    *)
(* is posted before the download is built and from which one is fetched    *)
(* when the page is opened with an id; the readers of dropped files; and   *)
(* the image that shows that the browser can do it all.  The form can be   *)
(* changed while any of them is out.                                       *)
(*                                                                         *)
(* A Less source is the sequence of the files it is glued from, a script   *)
(* that of its plugins.  A configuration holds every variable; one that    *)
(* was left empty is NoValue.  The handler that saves the finished         *)
(* zip runs in a timer of its own and touches nothing else; it is part of  *)
(* the build here.                                                         *)
(***************************************************************************)
EXTENDS Naturals, FiniteSets, Sequences, SequencesExt

CONSTANTS
  LessBoxes, PluginBoxes,          \* values of the checkboxes of the two sections
  PluginOrder,                     \* those of the plugins as the page lists them
  VarNames, VarValues, NoValue,
  BrokenValues,                    \* values that make the Less parser fail
  Glyphicons,                      \* the box of glyphicons.less
  VariablesLess, BootstrapLess, ThemeLess, CustomLess,
  Imports,                         \* the files each Less file imports, in order
  DependenciesOf, DependentsOf,    \* the data-attributes of the boxes
  ConfigFiles, BadFile,            \* files a user may drop: configurations, others
  MaxGists

Boxes == LessBoxes \cup PluginBoxes

\* A form, and a configuration that a form was turned into.
Forms == [css : SUBSET LessBoxes, js : SUBSET PluginBoxes,
          vars : [VarNames -> VarValues \cup {NoValue}]]
NoVars == [v \in VarNames |-> NoValue]

\* Boxes within one section, with all that each of them needs.
DepsClosedIn(boxes) == \A b \in boxes : DependenciesOf[b] \subseteq boxes
ConfigClosed(c) == DepsClosedIn(c.css) /\ DepsClosedIn(c.js)

ASSUME BoxAssumption ==
  /\ LessBoxes \cap PluginBoxes = {} /\ Glyphicons \in LessBoxes
  /\ PluginOrder \in Seq(PluginBoxes) /\ PluginBoxes \subseteq ToSet(PluginOrder)
  /\ NoValue \notin VarValues /\ BrokenValues \subseteq VarValues
  /\ MaxGists \in Nat

\* The page lists with each box all it needs, directly or not, and with
\* each box all that need it; both are of the box's own section.
ASSUME DependencyAssumption ==
  /\ DependenciesOf \in [Boxes -> SUBSET Boxes]
  /\ DependentsOf \in [Boxes -> SUBSET Boxes]
  /\ \A a \in Boxes, b \in Boxes : b \in DependenciesOf[a] <=> a \in DependentsOf[b]
  /\ \A a \in Boxes : \A b \in DependenciesOf[a] : DependenciesOf[b] \subseteq DependenciesOf[a]
  /\ \A a \in Boxes : a \notin DependenciesOf[a]
  /\ \A a \in LessBoxes : DependenciesOf[a] \subseteq LessBoxes
  /\ \A a \in PluginBoxes : DependenciesOf[a] \subseteq PluginBoxes

\* A configuration file holds some of the keys; it was written by this page.
ASSUME FileAssumption ==
  /\ BadFile \notin ConfigFiles
  /\ \A d \in ConfigFiles : /\ d.keys \subseteq {"css", "js", "vars"}
                            /\ d.config \in Forms /\ ConfigClosed(d.config)

VARIABLES
  css, js, vars,   \* the form
  compileBtn,      \* "enabled" or "disabled"
  browserCheck,    \* "pending", "passed" or "failed"
  saving,          \* configurations posted whose answers are out
  gists,           \* the configurations the service has stored
  urlId,           \* the id in the page's address, 0 for none
  loading,         \* the gist being fetched, 0 for none
  readers,         \* files being read
  importAlerts,    \* alerts under the drop target
  errors,          \* what showError has put on the page
  zip              \* the last download, NoZip for none

formVars == <<css, js, vars>>
netVars == <<saving, gists, urlId, loading>>
pageVars == <<compileBtn, browserCheck, importAlerts, errors>>
customizerVars == <<formVars, netVars, pageVars, readers, zip>>

NoZip == [js |-> <<>>, bootstrap |-> <<>>, theme |-> <<>>, custom |-> <<>>,
          fonts |-> FALSE, config |-> [css |-> {}, js |-> {}, vars |-> NoVars]]

-----------------------------------------------------------------------------
getCustomizerData == [css |-> css, js |-> js, vars |-> vars]

\* For such a form getCustomizerData returns null, and "null" is what is posted.
IsNull(config) == config.css = {} /\ config.js = {} /\ config.vars = NoVars

\* Some file names, and those of new behind them that are not among them yet.
WithNew(names, new) ==
  LET imports[k \in 0..Len(new)] ==
        IF k = 0 THEN names
        ELSE IF new[k] \in ToSet(imports[k - 1]) THEN imports[k - 1]
             ELSE Append(imports[k - 1], new[k])
  IN  imports[Len(new)]

\* The files below a Less file, each after those it imports itself.
includedLessFilenames[f \in DOMAIN Imports] ==
  LET imports[i \in 0..Len(Imports[f])] ==
        IF i = 0 THEN <<>>
        ELSE Append(WithNew(imports[i - 1], includedLessFilenames[Imports[f][i]]),
                    Imports[f][i])
  IN  imports[Len(Imports[f])]

\* What raw-files.min.js holds: no file imports itself, directly or not; none
\* names an import that an earlier line of it has brought (the code would put
\* it in twice); every box of the form is a file of Bootstrap.
ASSUME ImportAssumption ==
  LET Files == DOMAIN Imports
  IN  /\ IsFiniteSet(Files) /\ Imports \in [Files -> Seq(Files)]
      /\ \A S \in SUBSET Files : S # {} => \E f \in S : ToSet(Imports[f]) \cap S = {}
      /\ \A f \in Files : \A i \in DOMAIN Imports[f], j \in DOMAIN Imports[f] :
           j < i => /\ Imports[f][i] # Imports[f][j]
                    /\ Imports[f][i] \notin ToSet(includedLessFilenames[Imports[f][j]])
      /\ BootstrapLess \in Files /\ ThemeLess \in Files /\ CustomLess \notin Files
      /\ VariablesLess \in Files \ {BootstrapLess, ThemeLess} /\ BootstrapLess \notin LessBoxes
      /\ LessBoxes \subseteq ToSet(includedLessFilenames[BootstrapLess])

\* The user's lines: the variables that have a value.
generateCustomLess(values) ==
  [v \in {w \in VarNames : values[w] # NoValue} |-> values[v]]

CustomLines(g) == IF g = VariablesLess THEN <<CustomLess>> ELSE <<>>
Kept(g, boxes) == IF g \in LessBoxes \ boxes THEN <<>> ELSE <<g>>

\* With the defaults after the user's lines (a mutant of generateLESS).
generateLESSCustomFirst(f, boxes) ==
  LET names == includedLessFilenames[f]
      source[k \in 0..Len(names)] ==
        IF k = 0 THEN <<f>>
        ELSE source[k - 1] \o CustomLines(names[k]) \o Kept(names[k], boxes)
  IN  source[Len(names)]

\* Only a file with a box of its own can be left out.
generateLESS(f, boxes) ==
  LET names == includedLessFilenames[f]
      source[k \in 0..Len(names)] ==
        IF k = 0 THEN <<f>>
        ELSE source[k - 1] \o Kept(names[k], boxes) \o CustomLines(names[k])
  IN  source[Len(names)]

\* Whether the parser refuses a source with these lines of the user's in it.
compileLESS(source, custom) ==
  /\ CustomLess \in ToSet(source)
  /\ \E v \in DOMAIN custom : custom[v] \in BrokenValues

\* The two sources, none for a form without a component; the theme's is
\* compiled like the other.
generateCSS ==
  IF css = {} THEN <<>> ELSE <<generateLESS(BootstrapLess, css), generateLESS(ThemeLess, css)>>

\* With :checked forgotten (a mutant of generateFonts).
generateFontsAlways == Glyphicons \in LessBoxes

generateFonts == Glyphicons \in css

generateJS ==
  LET script[k \in 0..Len(PluginOrder)] ==
        IF k = 0 THEN <<>>
        ELSE IF PluginOrder[k] \in js THEN Append(script[k - 1], PluginOrder[k])
             ELSE script[k - 1]
  IN  script[Len(PluginOrder)]

\* Why a build with the form as it is ends in showError.
BuildErrors ==
  LET sheets == generateCSS
      custom == generateCustomLess(vars)
  IN  (IF \E i \in DOMAIN sheets : compileLESS(sheets[i], custom) THEN {"less"} ELSE {})
      \cup (IF sheets = <<>> /\ generateJS = <<>> THEN {"no files"} ELSE {})

generateZip(config) ==
  LET sheets == generateCSS
  IN  [js |-> generateJS,
       bootstrap |-> IF sheets = <<>> THEN <<>> ELSE sheets[1],
       theme |-> IF sheets = <<>> THEN <<>> ELSE sheets[2],
       custom |-> IF sheets = <<>> THEN <<>> ELSE generateCustomLess(vars),
       fonts |-> generateFonts,
       config |-> config]

\* What the page tells its user stays until the user closes it.
showError(reasons) == errors' = errors \cup reasons
showAlert(type) == importAlerts' = importAlerts \cup {type}

-----------------------------------------------------------------------------
CustomizerInit ==
  /\ css = LessBoxes /\ js = PluginBoxes /\ vars = NoVars
  /\ compileBtn = "disabled" /\ browserCheck = "pending"
  /\ saving = <<>> /\ gists = <<>> /\ urlId = 0 /\ loading = 0
  /\ readers = {} /\ importAlerts = {} /\ errors = {} /\ zip = NoZip

\* The user opens the page anew, with the address it gave or that of any gist:
\* what was out is lost, parseUrl asks for the gist that the address names.
LoadCustomizer(id) ==
  /\ css' = LessBoxes /\ js' = PluginBoxes /\ vars' = NoVars
  /\ compileBtn' = "disabled" /\ browserCheck' = "pending"
  /\ saving' = <<>> /\ readers' = {} /\ importAlerts' = {} /\ errors' = {}
  /\ zip' = NoZip
  /\ urlId' = id /\ loading' = id
  /\ UNCHANGED gists

\* The form is hidden, and a callout says why.
failback == browserCheck' = "failed"

\* The image has loaded, or cannot be.
BrowserChecked ==
  /\ browserCheck = "pending"
  /\ \/ browserCheck' = "passed" /\ compileBtn' = "enabled"
     \/ failback /\ UNCHANGED compileBtn
  /\ UNCHANGED <<formVars, netVars, importAlerts, errors, readers, zip>>

Shown == browserCheck # "failed"

ChangesForm == UNCHANGED <<netVars, pageVars, readers, zip>>

\* Without the second handler (a mutant of ClickBox).
ClickBoxKeepsDependents(b) ==
  /\ Shown
  /\ LET boxes == css \cup js
         now == IF b \in boxes THEN boxes \ {b} ELSE boxes \cup {b} \cup DependenciesOf[b]
     IN  css' = now \cap LessBoxes /\ js' = now \cap PluginBoxes
  /\ UNCHANGED vars
  /\ ChangesForm

\* The handlers of data-dependencies and of data-dependents on one click.
ClickBox(b) ==
  /\ Shown
  /\ LET boxes == css \cup js
         now == IF b \in boxes THEN boxes \ ({b} \cup DependentsOf[b])
                ELSE boxes \cup {b} \cup DependenciesOf[b]
     IN  css' = now \cap LessBoxes /\ js' = now \cap PluginBoxes
  /\ UNCHANGED vars
  /\ ChangesForm

EnterVar(v, x) ==
  /\ Shown /\ vars' = [vars EXCEPT ![v] = x]
  /\ UNCHANGED <<css, js>>
  /\ ChangesForm

\* A section's toggle checks all of it if nothing of it is checked.
ToggleLess ==
  /\ Shown /\ css' = (IF css = {} THEN LessBoxes ELSE {})
  /\ UNCHANGED <<js, vars>>
  /\ ChangesForm

TogglePlugins ==
  /\ Shown /\ js' = (IF js = {} THEN PluginBoxes ELSE {})
  /\ UNCHANGED <<css, vars>>
  /\ ChangesForm

ResetVars ==
  /\ Shown /\ vars' = NoVars
  /\ UNCHANGED <<css, js>>
  /\ ChangesForm

\* Boxes are checked but never unchecked (a mutant of updateCustomizerFromJson).
updateCustomizerFromJsonChecks(keys, config) ==
  /\ css' = IF "css" \in keys THEN css \cup config.css ELSE css
  /\ js' = IF "js" \in keys THEN js \cup config.js ELSE js
  /\ vars' = IF "vars" \in keys
             THEN [v \in VarNames |-> IF config.vars[v] = NoValue THEN vars[v]
                                      ELSE config.vars[v]]
             ELSE vars

\* The boxes follow the data; an entered variable the data lacks stays.
updateCustomizerFromJson(keys, config) ==
  /\ css' = IF "css" \in keys THEN config.css ELSE css
  /\ js' = IF "js" \in keys THEN config.js ELSE js
  /\ vars' = IF "vars" \in keys
             THEN [v \in VarNames |-> IF config.vars[v] = NoValue THEN vars[v]
                                      ELSE config.vars[v]]
             ELSE vars

-----------------------------------------------------------------------------
\* A file is dropped on the target or chosen; drops pass over it before.
PickFile(d) ==
  /\ Shown /\ d \notin readers
  /\ readers' = readers \cup {d}
  /\ \/ importAlerts' = {}            \* handleConfigDragOver
     \/ UNCHANGED importAlerts
  /\ UNCHANGED <<formVars, netVars, compileBtn, browserCheck, errors, zip>>

\* The click on the manual trigger.
removeImportAlerts ==
  /\ Shown /\ importAlerts # {} /\ importAlerts' = {}
  /\ UNCHANGED <<formVars, netVars, compileBtn, browserCheck, errors, readers, zip>>

\* reader.onload; files are read in any order.
FileRead(d) ==
  /\ d \in readers /\ readers' = readers \ {d}
  /\ IF d = BadFile
     THEN showAlert("danger") /\ UNCHANGED formVars
     ELSE updateCustomizerFromJson(d.keys, d.config) /\ showAlert("success")
  /\ UNCHANGED <<netVars, compileBtn, browserCheck, errors, zip>>

\* The answer to parseUrl; JSON.parse gives null for a form saved empty,
\* and updateCustomizerFromJson throws on it.
GistFetched(found) ==
  /\ loading # 0 /\ loading' = 0
  /\ IF found /\ ~IsNull(gists[loading])
     THEN updateCustomizerFromJson({"css", "js", "vars"}, gists[loading])
     ELSE UNCHANGED formVars
  /\ showError(IF found THEN {} ELSE {"fetch"})
  /\ UNCHANGED <<saving, gists, urlId, compileBtn, browserCheck, importAlerts, readers, zip>>

\* The button is not disabled (a mutant of Compile).
CompileAgain ==
  /\ Shown /\ compileBtn = "enabled"
  /\ saving' = Append(saving, getCustomizerData)
  /\ UNCHANGED <<formVars, gists, urlId, loading, compileBtn, browserCheck, importAlerts,
                 errors, readers, zip>>

\* The click on the compile button.
Compile ==
  /\ Shown /\ compileBtn = "enabled" /\ compileBtn' = "disabled"
  /\ saving' = Append(saving, getCustomizerData)
  /\ UNCHANGED <<formVars, gists, urlId, loading, browserCheck, importAlerts, errors,
                 readers, zip>>

\* The promise is rejected without a word (a mutant of Build).
BuildQuiet(config, gistErrors) ==
  IF IsNull(config) \/ BuildErrors # {}
  THEN showError(gistErrors) /\ UNCHANGED <<compileBtn, zip>>
  ELSE showError(gistErrors) /\ zip' = generateZip(config) /\ compileBtn' = "enabled"

\* The callback of createGist: configData is from the click, all else is
\* read from the form now.  With configData null it throws at once.
Build(config, gistErrors) ==
  \/ /\ IsNull(config)
     /\ showError(gistErrors)
     /\ UNCHANGED <<compileBtn, zip>>
  \/ /\ ~IsNull(config) /\ BuildErrors # {}
     /\ showError(gistErrors \cup BuildErrors)
     /\ UNCHANGED <<compileBtn, zip>>
  \/ /\ ~IsNull(config) /\ BuildErrors = {}
     /\ showError(gistErrors)
     /\ zip' = generateZip(config)
     /\ compileBtn' = "enabled"

\* The answer to createGist; a failure to save does not stop the build.
GistAnswered(i) ==
  /\ i \in DOMAIN saving /\ saving' = RemoveAt(saving, i)
  /\ \/ /\ Len(gists) < MaxGists
        /\ gists' = Append(gists, saving[i]) /\ urlId' = Len(gists) + 1
        /\ Build(saving[i], {})
     \/ /\ UNCHANGED <<gists, urlId>>
        /\ Build(saving[i], {"gist"})
  /\ UNCHANGED <<formVars, loading, browserCheck, importAlerts, readers>>

-----------------------------------------------------------------------------
\* What the user may do to the open page.
CustomizerUser ==
  \/ \E b \in Boxes : ClickBox(b)
  \/ \E v \in VarNames, x \in VarValues \cup {NoValue} : EnterVar(v, x)
  \/ ToggleLess
  \/ TogglePlugins
  \/ ResetVars
  \/ \E d \in ConfigFiles \cup {BadFile} : PickFile(d)
  \/ removeImportAlerts
  \/ Compile

CustomizerAnswer ==
  \/ BrowserChecked
  \/ \E d \in ConfigFiles \cup {BadFile} : FileRead(d)
  \/ \E found \in BOOLEAN : GistFetched(found)
  \/ \E i \in DOMAIN saving : GistAnswered(i)

CustomizerNext ==
  \/ \E id \in 0..Len(gists) : LoadCustomizer(id)
  \/ CustomizerUser
  \/ CustomizerAnswer

CustomizerSpec == CustomizerInit /\ [][CustomizerNext]_customizerVars

-----------------------------------------------------------------------------
CustomizerTypeOK ==
  /\ getCustomizerData \in Forms
  /\ compileBtn \in {"enabled", "disabled"}
  /\ browserCheck \in {"pending", "passed", "failed"}
  /\ saving \in Seq(Forms) /\ gists \in Seq(Forms)
  /\ urlId \in 0..Len(gists) /\ loading \in 0..Len(gists)
  /\ readers \subseteq ConfigFiles \cup {BadFile}
  /\ importAlerts \subseteq {"success", "danger"}
  /\ errors \subseteq {"gist", "fetch", "less", "no files"}
  /\ zip.config \in Forms

\* Whatever is clicked, toggled, imported, saved and fetched again, in
\* whatever order the answers come: no box is checked without those it needs
\* (the handlers of lines 428 to 448 look one level deep, and a toggle or an
\* import does not call them).
DepsClosed ==
  /\ DepsClosedIn(css) /\ DepsClosedIn(js)
  /\ \A i \in DOMAIN gists : ConfigClosed(gists[i])

\* The button keeps builds apart although each goes over the network: no
\* second one starts before the first has been answered, not even through
\* the image that enables the button when it loads (line 512).
OneBuildAtATime ==
  Len(saving) <= 1 /\ (saving # <<>> => compileBtn = "disabled")

\* The Less source of a download: no file is in it twice, each comes after
\* those it imports (the @import lines themselves are cut out), and the
\* user's variables follow the defaults at once, so that they win.
SourceInOrder(source) ==
  /\ \A i, j \in DOMAIN source : source[i] = source[j] => i = j
  /\ \A i, j \in 2..Len(source) :
       source[i] # CustomLess /\ source[j] \in ToSet(Imports[source[i]]) => j < i
  /\ \A i \in DOMAIN source :
       source[i] = VariablesLess => i < Len(source) /\ source[i + 1] = CustomLess
LessInOrder == SourceInOrder(zip.bootstrap) /\ SourceInOrder(zip.theme)

\* The config.json in a zip is what was posted at the click, the rest of it
\* is made from the form when the post is answered.  Unless the form has
\* changed in between the two agree: the same boxes, plugins and variables,
\* fonts exactly with the glyphicons.
Describes(z) ==
  /\ ToSet(z.js) = z.config.js
  /\ ToSet(z.bootstrap) \cap LessBoxes = z.config.css
  /\ z.fonts <=> Glyphicons \in z.config.css
  /\ z.config.css # {} => z.custom = generateCustomLess(z.config.vars)
DownloadMatchesConfig ==
  [][zip' # zip /\ zip' # NoZip /\ getCustomizerData = zip'.config
       => Describes(zip')]_customizerVars

\* A build that does not end in a download leaves the button dead until the
\* page is opened again.  It then has told the user why, save for the form
\* in which nothing at all was chosen, where the handler just throws.
DeadButtonExplained ==
  [][saving # <<>> /\ saving' = <<>> /\ compileBtn' = "disabled" /\ browserCheck' = "passed"
       => IsNull(saving[1]) \/ errors' \cap {"less", "no files"} # {}]_customizerVars

\* What was saved comes back: fetched into a page in which no variable has
\* been entered yet, a stored configuration makes the form it was taken from,
\* whatever boxes the user has clicked while it was on its way.
SavedComesBack ==
  [][loading # 0 /\ loading' = 0 /\ "fetch" \notin errors' /\ urlId' = urlId
       /\ vars = NoVars /\ ~IsNull(gists[loading])
       => getCustomizerData' = gists[loading]]_customizerVars
=============================================================================
