------------------------ MODULE BootstrapDocsProofs ------------------------
(* Theorems about BootstrapDocs, for any boxes with any dependencies, any  *)
(* files, any number of gists, tabs and acts of the user.                  *)
EXTENDS BootstrapDocs, SequenceTheorems, FiniteSetTheorems, TLAPS

-----------------------------------------------------------------------------
(* The inductive invariant, in four parts that most steps disturb one of.  *)

\* The form is a form, and closed.
FormInv ==
  /\ css \subseteq LessBoxes /\ js \subseteq PluginBoxes
  /\ vars \in [VarNames -> VarValues \cup {NoValue}]
  /\ DepsClosedIn(css) /\ DepsClosedIn(js)

\* What is posted and what is stored was such a form.
NetInv ==
  /\ saving \in Seq(Forms) /\ gists \in Seq(Forms)
  /\ urlId \in 0..Len(gists) /\ loading \in 0..Len(gists)
  /\ \A i \in DOMAIN saving : ConfigClosed(saving[i])
  /\ \A i \in DOMAIN gists : ConfigClosed(gists[i])

\* Before the image has loaded nothing is built, so that it cannot enable the
\* button under a build.
ButtonInv ==
  /\ compileBtn \in {"enabled", "disabled"}
  /\ browserCheck \in {"pending", "passed", "failed"}
  /\ OneBuildAtATime
  /\ browserCheck = "pending" => compileBtn = "disabled" /\ saving = <<>>

RestInv ==
  /\ readers \subseteq ConfigFiles \cup {BadFile}
  /\ importAlerts \subseteq {"success", "danger"}
  /\ errors \subseteq {"gist", "fetch", "less", "no files"}
  /\ zip.config \in Forms

CustomizerInv == FormInv /\ NetInv /\ ButtonInv /\ RestInv

\* The stored preference is what the last click has made of it.
PreferenceKept == previewTheme <=> chosen

DocsInv == DocsTypeOK /\ PreferenceKept /\ LastClickDecides /\ WarnsOfEmulation

IInv == CustomizerInv /\ DocsInv /\ acts \in 0..MaxActs

-----------------------------------------------------------------------------
(* Facts about boxes, forms and sequences.                                 *)

\* One click checks what the box needs and unchecks what needs it: the
\* transitive lists make the one level the handlers look at enough.
LEMMA ClickKeepsClosed ==
  ASSUME NEW boxes \in SUBSET Boxes, DepsClosedIn(boxes), NEW b \in Boxes
  PROVE  /\ DepsClosedIn(boxes \ ({b} \cup DependentsOf[b]))
         /\ DepsClosedIn(boxes \cup {b} \cup DependenciesOf[b])
  <1>1. ASSUME NEW x \in boxes \ ({b} \cup DependentsOf[b]), NEW y \in DependenciesOf[x]
        PROVE  y \in boxes \ ({b} \cup DependentsOf[b])
    <2>1. y \in boxes /\ y \in Boxes /\ x \in Boxes
      BY DEF DepsClosedIn
    <2>2. y # b
      BY <2>1, DependencyAssumption
    <2>3. y \notin DependentsOf[b]
      BY <2>1, DependencyAssumption
    <2>4. QED
      BY <2>1, <2>2, <2>3
  <1>2. ASSUME NEW x \in boxes \cup {b} \cup DependenciesOf[b]
        PROVE  DependenciesOf[x] \subseteq boxes \cup {b} \cup DependenciesOf[b]
    BY DependencyAssumption DEF DepsClosedIn
  <1>3. QED
    BY <1>1, <1>2 DEF DepsClosedIn

\* The two sections are closed apart exactly if they are together.
LEMMA SectionsClosed ==
  /\ DepsClosedIn({}) /\ DepsClosedIn(LessBoxes) /\ DepsClosedIn(PluginBoxes)
  /\ \A boxes \in SUBSET Boxes :
       DepsClosedIn(boxes) => /\ DepsClosedIn(boxes \cap LessBoxes)
                              /\ DepsClosedIn(boxes \cap PluginBoxes)
  BY DependencyAssumption DEF DepsClosedIn, Boxes

LEMMA FormIsForm ==
  ASSUME FormInv
  PROVE  getCustomizerData \in Forms /\ ConfigClosed(getCustomizerData)
  BY DEF FormInv, getCustomizerData, Forms, ConfigClosed

LEMMA NoVarsType == NoVars \in [VarNames -> VarValues \cup {NoValue}]
  BY DEF NoVars

\* Whatever keys a configuration has, the form made from it is closed.
LEMMA ImportKeepsForm ==
  ASSUME FormInv, NEW keys, NEW config \in Forms, ConfigClosed(config),
         updateCustomizerFromJson(keys, config)
  PROVE  FormInv'
  <1>1. css' \subseteq LessBoxes /\ DepsClosedIn(css)'
    BY DEF FormInv, Forms, ConfigClosed, updateCustomizerFromJson, DepsClosedIn
  <1>2. js' \subseteq PluginBoxes /\ DepsClosedIn(js)'
    BY DEF FormInv, Forms, ConfigClosed, updateCustomizerFromJson, DepsClosedIn
  <1>3. config.vars \in [VarNames -> VarValues \cup {NoValue}]
    BY DEF Forms
  <1>4. vars' \in [VarNames -> VarValues \cup {NoValue}]
    BY <1>3 DEF FormInv, updateCustomizerFromJson
  <1>5. QED
    BY <1>1, <1>2, <1>4 DEF FormInv

\* With at most one post out, an answer leaves none.
LEMMA RemoveTheOne ==
  ASSUME NEW S, NEW s \in Seq(S), Len(s) <= 1, NEW i \in DOMAIN s
  PROVE  RemoveAt(s, i) = <<>>
  <1>1. Len(s) = 1 /\ i = 1
    <2>1. Len(s) \in Nat
      BY LenProperties
    <2>2. DOMAIN s = 1..Len(s)
      BY LenProperties
    <2>3. QED
      BY <2>1, <2>2
  <1>2. SubSeq(s, 1, 0) = <<>> /\ SubSeq(s, 2, 1) = <<>>
    BY SubSeqEmpty
  <1>3. <<>> \o <<>> = <<>>
    BY EmptySeq, ConcatEmptySeq
  <1>4. QED
    BY <1>1, <1>2, <1>3 DEF RemoveAt

-----------------------------------------------------------------------------
(* The steps of the customizer.                                            *)

LEMMA InitCustomizerInv == CustomizerInit => CustomizerInv
  <1> SUFFICES ASSUME CustomizerInit PROVE CustomizerInv
    OBVIOUS
  <1>1. FormInv
    BY SectionsClosed, NoVarsType DEF CustomizerInit, FormInv
  <1>2. NetInv
    BY EmptySeq DEF CustomizerInit, NetInv
  <1>3. ButtonInv
    BY DEF CustomizerInit, ButtonInv, OneBuildAtATime
  <1>4. RestInv
    BY NoVarsType DEF CustomizerInit, RestInv, NoZip, Forms
  <1>5. QED
    BY <1>1, <1>2, <1>3, <1>4 DEF CustomizerInv

LEMMA LoadCustomizerStep ==
  ASSUME CustomizerInv, NEW id \in 0..Len(gists), LoadCustomizer(id)
  PROVE  CustomizerInv'
  <1>1. FormInv'
    BY SectionsClosed, NoVarsType DEF LoadCustomizer, FormInv, DepsClosedIn
  <1>2. NetInv'
    BY EmptySeq DEF CustomizerInv, LoadCustomizer, NetInv
  <1>3. ButtonInv'
    BY DEF LoadCustomizer, ButtonInv, OneBuildAtATime
  <1>4. RestInv'
    BY NoVarsType DEF LoadCustomizer, RestInv, NoZip, Forms
  <1>5. QED
    BY <1>1, <1>2, <1>3, <1>4 DEF CustomizerInv

\* Clicks, entries and toggles disturb the form only.
LEMMA ChangesFormStep ==
  ASSUME CustomizerInv, ChangesForm, FormInv'
  PROVE  CustomizerInv'
  <1>1. NetInv'
    BY DEF CustomizerInv, ChangesForm, NetInv, netVars
  <1>2. ButtonInv'
    BY DEF CustomizerInv, ChangesForm, ButtonInv, OneBuildAtATime, netVars, pageVars
  <1>3. RestInv'
    BY DEF CustomizerInv, ChangesForm, RestInv, pageVars
  <1>4. QED
    BY <1>1, <1>2, <1>3 DEF CustomizerInv

LEMMA ClickBoxStep ==
  ASSUME CustomizerInv, NEW b \in Boxes, ClickBox(b)
  PROVE  CustomizerInv'
  <1> DEFINE boxes == css \cup js
             now == IF b \in boxes THEN boxes \ ({b} \cup DependentsOf[b])
                    ELSE boxes \cup {b} \cup DependenciesOf[b]
  <1>1. boxes \in SUBSET Boxes /\ DepsClosedIn(boxes)
    BY DEF CustomizerInv, FormInv, Boxes, DepsClosedIn
  <1>2. now \in SUBSET Boxes /\ DepsClosedIn(now)
    BY <1>1, ClickKeepsClosed, DependencyAssumption
  <1>3. css' = now \cap LessBoxes /\ js' = now \cap PluginBoxes /\ vars' = vars /\ ChangesForm
    BY DEF ClickBox
  <1> HIDE DEF now
  <1>4. FormInv'
    BY <1>2, <1>3, SectionsClosed DEF CustomizerInv, FormInv, DepsClosedIn
  <1>5. QED
    BY <1>3, <1>4, ChangesFormStep

LEMMA FormStep ==
  ASSUME CustomizerInv,
         \/ \E v \in VarNames, x \in VarValues \cup {NoValue} : EnterVar(v, x)
         \/ ToggleLess \/ TogglePlugins \/ ResetVars
  PROVE  CustomizerInv'
  <1>1. CASE \E v \in VarNames, x \in VarValues \cup {NoValue} : EnterVar(v, x)
    BY <1>1, ChangesFormStep DEF EnterVar, CustomizerInv, FormInv, DepsClosedIn
  <1>2. CASE ToggleLess
    <2>1. FormInv'
      BY <1>2, SectionsClosed DEF ToggleLess, CustomizerInv, FormInv, DepsClosedIn
    <2>2. QED
      BY <1>2, <2>1, ChangesFormStep DEF ToggleLess
  <1>3. CASE TogglePlugins
    <2>1. FormInv'
      BY <1>3, SectionsClosed DEF TogglePlugins, CustomizerInv, FormInv, DepsClosedIn
    <2>2. QED
      BY <1>3, <2>1, ChangesFormStep DEF TogglePlugins
  <1>4. CASE ResetVars
    <2>1. FormInv'
      BY <1>4, NoVarsType DEF ResetVars, CustomizerInv, FormInv, DepsClosedIn
    <2>2. QED
      BY <1>4, <2>1, ChangesFormStep DEF ResetVars
  <1>5. QED
    BY <1>1, <1>2, <1>3, <1>4

\* The image enables the button before anything has been built.
LEMMA BrowserCheckedStep ==
  ASSUME CustomizerInv, BrowserChecked
  PROVE  CustomizerInv'
  <1>1. FormInv' /\ NetInv'
    BY DEF CustomizerInv, BrowserChecked, FormInv, NetInv, DepsClosedIn, formVars, netVars
  <1>2. ButtonInv'
    BY DEF CustomizerInv, BrowserChecked, failback, ButtonInv, OneBuildAtATime, netVars
  <1>3. RestInv'
    BY DEF CustomizerInv, BrowserChecked, RestInv
  <1>4. QED
    BY <1>1, <1>2, <1>3 DEF CustomizerInv

LEMMA PickFileStep ==
  ASSUME CustomizerInv,
         removeImportAlerts \/ \E d \in ConfigFiles \cup {BadFile} : PickFile(d)
  PROVE  CustomizerInv'
  <1>1. UNCHANGED <<formVars, netVars, compileBtn, browserCheck, errors, zip>>
    BY DEF PickFile, removeImportAlerts
  <1>2. readers' \subseteq ConfigFiles \cup {BadFile} /\ importAlerts' \subseteq importAlerts
    BY DEF PickFile, removeImportAlerts, CustomizerInv, RestInv
  <1>3. FormInv' /\ NetInv' /\ ButtonInv'
    BY <1>1 DEF CustomizerInv, FormInv, NetInv, ButtonInv, OneBuildAtATime, DepsClosedIn,
                formVars, netVars
  <1>4. RestInv'
    BY <1>1, <1>2 DEF CustomizerInv, RestInv
  <1>5. QED
    BY <1>3, <1>4 DEF CustomizerInv

LEMMA FileReadStep ==
  ASSUME CustomizerInv, NEW d \in ConfigFiles \cup {BadFile}, FileRead(d)
  PROVE  CustomizerInv'
  <1>1. UNCHANGED <<netVars, compileBtn, browserCheck, errors, zip>>
        /\ readers' \subseteq readers /\ importAlerts' \subseteq importAlerts \cup {"success", "danger"}
    BY DEF FileRead, showAlert
  <1>2. FormInv'
    <2>1. CASE d = BadFile
      BY <2>1 DEF FileRead, CustomizerInv, FormInv, DepsClosedIn, formVars
    <2>2. CASE d # BadFile
      BY <2>2, FileAssumption, ImportKeepsForm DEF FileRead, CustomizerInv
    <2>3. QED
      BY <2>1, <2>2
  <1>3. NetInv' /\ ButtonInv'
    BY <1>1 DEF CustomizerInv, NetInv, ButtonInv, OneBuildAtATime, netVars
  <1>4. RestInv'
    BY <1>1 DEF CustomizerInv, RestInv
  <1>5. QED
    BY <1>2, <1>3, <1>4 DEF CustomizerInv

LEMMA GistFetchedStep ==
  ASSUME CustomizerInv, NEW found \in BOOLEAN, GistFetched(found)
  PROVE  CustomizerInv'
  <1>1. /\ loading # 0 /\ loading' = 0
        /\ UNCHANGED <<saving, gists, urlId, compileBtn, browserCheck, importAlerts, readers, zip>>
        /\ errors' \subseteq errors \cup {"fetch"}
    BY DEF GistFetched, showError
  <1>2. gists[loading] \in Forms /\ ConfigClosed(gists[loading])
    BY <1>1 DEF CustomizerInv, NetInv
  <1>3. FormInv'
    <2>1. CASE found /\ ~IsNull(gists[loading])
      BY <2>1, <1>2, ImportKeepsForm DEF GistFetched, CustomizerInv
    <2>2. CASE ~(found /\ ~IsNull(gists[loading]))
      BY <2>2 DEF GistFetched, CustomizerInv, FormInv, DepsClosedIn, formVars
    <2>3. QED
      BY <2>1, <2>2
  <1>4. NetInv' /\ ButtonInv'
    BY <1>1 DEF CustomizerInv, NetInv, ButtonInv, OneBuildAtATime
  <1>5. RestInv'
    BY <1>1 DEF CustomizerInv, RestInv
  <1>6. QED
    BY <1>3, <1>4, <1>5 DEF CustomizerInv

\* The button was enabled, so no post was out.
LEMMA CompileStep ==
  ASSUME CustomizerInv, Compile
  PROVE  CustomizerInv'
  <1>1. saving = <<>> /\ saving' = Append(saving, getCustomizerData)
        /\ compileBtn' = "disabled"
        /\ UNCHANGED <<formVars, gists, urlId, loading, browserCheck, importAlerts, errors,
                       readers, zip>>
    BY DEF CustomizerInv, ButtonInv, OneBuildAtATime, Compile
  <1>2. getCustomizerData \in Forms /\ ConfigClosed(getCustomizerData)
    BY FormIsForm DEF CustomizerInv
  <1>3. saving' = <<getCustomizerData>> /\ Len(saving') = 1 /\ saving' \in Seq(Forms)
    BY <1>1, <1>2
  <1>4. FormInv'
    BY <1>1 DEF CustomizerInv, FormInv, DepsClosedIn, formVars
  <1>5. NetInv'
    <2>1. \A i \in DOMAIN saving' : saving'[i] = getCustomizerData
      BY <1>3
    <2>2. \A i \in DOMAIN saving' : ConfigClosed(saving'[i])
      BY <2>1, <1>2
    <2>3. QED
      BY <1>1, <1>3, <2>2 DEF CustomizerInv, NetInv
  <1>6. ButtonInv'
    BY <1>1, <1>3 DEF CustomizerInv, ButtonInv, OneBuildAtATime, Compile
  <1>7. RestInv'
    BY <1>1 DEF CustomizerInv, RestInv
  <1>8. QED
    BY <1>4, <1>5, <1>6, <1>7 DEF CustomizerInv

\* A build tells its errors, puts a download together, or neither.
LEMMA BuildFacts ==
  ASSUME CustomizerInv, NEW config \in Forms,
         NEW gistErrors \in SUBSET {"gist"}, Build(config, gistErrors),
         UNCHANGED <<readers, importAlerts>>
  PROVE  RestInv'
  <1>1. BuildErrors \subseteq {"less", "no files"}
    BY DEF BuildErrors
  <1>2. errors' \subseteq errors \cup {"gist", "less", "no files"}
    BY <1>1 DEF Build, showError
  <1>3. zip' = zip \/ zip'.config = config
    BY DEF Build, generateZip
  <1>4. QED
    BY <1>2, <1>3 DEF CustomizerInv, RestInv

LEMMA GistAnsweredStep ==
  ASSUME CustomizerInv, NEW i \in DOMAIN saving, GistAnswered(i)
  PROVE  CustomizerInv'
  <1>1. saving[i] \in Forms /\ ConfigClosed(saving[i])
    BY DEF CustomizerInv, NetInv
  <1>2. saving' = <<>>
    BY RemoveTheOne DEF CustomizerInv, NetInv, ButtonInv, OneBuildAtATime, GistAnswered
  <1>3. /\ \/ gists' = Append(gists, saving[i]) /\ urlId' = Len(gists) + 1
           \/ UNCHANGED <<gists, urlId>>
        /\ Build(saving[i], {}) \/ Build(saving[i], {"gist"})
        /\ UNCHANGED <<formVars, loading, browserCheck, importAlerts, readers>>
    BY DEF GistAnswered
  <1>4. FormInv'
    BY <1>3 DEF CustomizerInv, FormInv, DepsClosedIn, formVars
  <1>5. NetInv'
    <2>1. gists' \in Seq(Forms) /\ urlId' \in 0..Len(gists') /\ loading' \in 0..Len(gists')
      <3>1. gists \in Seq(Forms) /\ Len(gists) \in Nat /\ urlId \in 0..Len(gists)
            /\ loading \in 0..Len(gists)
        BY LenProperties DEF CustomizerInv, NetInv
      <3>2. CASE gists' = Append(gists, saving[i]) /\ urlId' = Len(gists) + 1
        <4>1. gists' \in Seq(Forms) /\ Len(gists') = Len(gists) + 1
          BY <3>1, <3>2, <1>1
        <4>2. QED
          BY <3>1, <3>2, <4>1, <1>3
      <3>3. CASE UNCHANGED <<gists, urlId>>
        BY <3>1, <3>3, <1>3
      <3>4. QED
        BY <3>2, <3>3, <1>3
    <2>2. \A j \in DOMAIN gists' : ConfigClosed(gists'[j])
      BY <1>1, <1>3 DEF CustomizerInv, NetInv
    <2>3. QED
      BY <1>2, <2>1, <2>2, EmptySeq DEF NetInv
  <1>6. ButtonInv'
    <2>1. browserCheck # "pending" /\ compileBtn' \in {compileBtn, "enabled"}
      BY <1>3 DEF CustomizerInv, ButtonInv, Build
    <2>2. QED
      BY <1>2, <1>3, <2>1 DEF CustomizerInv, ButtonInv, OneBuildAtATime
  <1>7. RestInv'
    BY <1>1, <1>3, BuildFacts
  <1>8. QED
    BY <1>4, <1>5, <1>6, <1>7 DEF CustomizerInv

LEMMA UserStep == CustomizerInv /\ CustomizerUser => CustomizerInv'
  BY ClickBoxStep, FormStep, PickFileStep, CompileStep DEF CustomizerUser

LEMMA AnswerStep == CustomizerInv /\ CustomizerAnswer => CustomizerInv'
  BY BrowserCheckedStep, FileReadStep, GistFetchedStep, GistAnsweredStep DEF CustomizerAnswer

LEMMA CustomizerStutter == CustomizerInv /\ UNCHANGED customizerVars => CustomizerInv'
  BY DEF CustomizerInv, FormInv, NetInv, ButtonInv, RestInv, OneBuildAtATime, DepsClosedIn,
         customizerVars, formVars, netVars, pageVars

-----------------------------------------------------------------------------
(* The steps of the documentation pages.                                   *)

\* The comparison of the two versions finds every emulation, and no other.
LEMMA AlertIsRight ==
  ASSUME NEW b \in Browsers
  PROVE  EmulationAlert(b) <=> ~b.opera /\ b.mode # b.ie
  BY BrowserAssumption DEF EmulationAlert, emulatedIEMajorVersion,
       actualNonEmulatedIEMajorVersion, None

LEMMA DocsStep ==
  ASSUME DocsInv, NEW t \in Tabs, LoadDocs(t) \/ CloseTab(t) \/ ToggleTheme(t)
  PROVE  DocsInv'
  <1>1. PreferenceKept' /\ LastClickDecides'
    <2>1. CASE LoadDocs(t)
      <3>1. /\ UNCHANGED <<previewTheme, chosen>> /\ recent' = recent \cup {t}
            /\ theme' = IF previewTheme THEN theme \cup {t} ELSE theme \ {t}
        BY <2>1 DEF LoadDocs
      <3>2. \A u \in recent : u # t => (u \in theme' <=> u \in theme)
        BY <3>1
      <3>3. t \in theme' <=> previewTheme
        BY <3>1
      <3>4. QED
        BY <3>1, <3>2, <3>3 DEF DocsInv, PreferenceKept, LastClickDecides
    <2>2. CASE CloseTab(t)
      <3>1. /\ UNCHANGED <<previewTheme, chosen>> /\ recent' = recent \ {t}
            /\ \A u \in recent' : u \in theme' <=> u \in theme
        BY <2>2 DEF CloseTab
      <3>2. QED
        BY <3>1 DEF DocsInv, PreferenceKept, LastClickDecides
    <2>3. CASE ToggleTheme(t) /\ t \in theme
      <3>1. previewTheme' = FALSE /\ chosen' = FALSE /\ recent' = {t} /\ t \notin theme'
        BY <2>3 DEF ToggleTheme
      <3>2. QED
        BY <3>1 DEF PreferenceKept, LastClickDecides
    <2>4. CASE ToggleTheme(t) /\ t \notin theme
      <3>1. previewTheme' = TRUE /\ chosen' = TRUE /\ recent' = {t} /\ t \in theme'
        BY <2>4 DEF ToggleTheme
      <3>2. QED
        BY <3>1 DEF PreferenceKept, LastClickDecides
    <2>5. QED
      BY <2>1, <2>2, <2>3, <2>4
  <1>2. DocsTypeOK'
    BY DEF LoadDocs, CloseTab, ToggleTheme, DocsInv, DocsTypeOK
  <1>3. WarnsOfEmulation'
    BY AlertIsRight DEF LoadDocs, CloseTab, ToggleTheme, DocsInv, DocsTypeOK, WarnsOfEmulation
  <1>4. QED
    BY <1>1, <1>2, <1>3 DEF DocsInv

LEMMA DocsStutter == DocsInv /\ UNCHANGED docsVars => DocsInv'
  BY DEF DocsInv, DocsTypeOK, PreferenceKept, LastClickDecides, WarnsOfEmulation, docsVars

-----------------------------------------------------------------------------
LEMMA InitIInv == Init => IInv
  <1> SUFFICES ASSUME Init PROVE IInv
    OBVIOUS
  <1>1. DocsTypeOK
    BY DEF Init, DocsInit, DocsTypeOK
  <1>2. PreferenceKept /\ LastClickDecides
    BY DEF Init, DocsInit, PreferenceKept, LastClickDecides
  <1>3. WarnsOfEmulation
    BY AlertIsRight DEF Init, DocsInit, WarnsOfEmulation
  <1>4. QED
    BY <1>1, <1>2, <1>3, InitCustomizerInv, TabAssumption DEF Init, IInv, DocsInv

LEMMA NextIInv == IInv /\ [Next]_siteVars => IInv'
  <1> SUFFICES ASSUME IInv, [Next]_siteVars PROVE IInv'
    OBVIOUS
  <1> USE DEF IInv
  <1>1. ASSUME Act PROVE acts' \in 0..MaxActs
    BY <1>1, TabAssumption DEF Act
  <1>2. CASE OpenCustomizer
    BY <1>1, <1>2, LoadCustomizerStep, DocsStep, TabAssumption DEF OpenCustomizer
  <1>9. CASE CloseCustomizer
    BY <1>1, <1>9, LoadCustomizerStep, DocsStep, TabAssumption DEF CloseCustomizer, CustomizerInv, NetInv
  <1>10. CASE ClosePage
    BY <1>1, <1>10, CustomizerStutter, DocsStep DEF ClosePage
  <1>3. CASE OpenPage
    BY <1>1, <1>3, CustomizerStutter, DocsStep DEF OpenPage
  <1>4. CASE Theme
    BY <1>1, <1>4, CustomizerStutter, DocsStep DEF Theme
  <1>5. CASE Customize
    BY <1>1, <1>5, UserStep, DocsStutter DEF Customize
  <1>6. CASE Answer
    BY <1>6, AnswerStep, DocsStutter DEF Answer
  <1>7. CASE UNCHANGED siteVars
    BY <1>7, CustomizerStutter, DocsStutter DEF siteVars
  <1>8. QED
    BY <1>2, <1>3, <1>4, <1>5, <1>6, <1>7, <1>9, <1>10 DEF Next

\* The strengthened invariant, from which the properties below follow.
THEOREM InvariantHolds == Spec => []IInv
  BY InitIInv, NextIInv, PTL DEF Spec

\* The form, what is posted and stored, and the pages stay within their types.
THEOREM TypeCorrect == Spec => []TypeOK
  <1>1. IInv => TypeOK
    BY FormIsForm DEF IInv, DocsInv, CustomizerInv, NetInv, ButtonInv, RestInv, TypeOK, CustomizerTypeOK
  <1>2. QED
    BY <1>1, InvariantHolds, PTL

\* However boxes are clicked, sections toggled, files and gists put in, in
\* whatever order the answers come: no box is checked without all it needs.
THEOREM DepsClosedHolds == Spec => []DepsClosed
  <1>1. IInv => DepsClosed
    BY DEF IInv, CustomizerInv, FormInv, NetInv, DepsClosed
  <1>2. QED
    BY <1>1, InvariantHolds, PTL

\* The button, disabled at the click and enabled by the image and by a
\* download, never lets a second build start before the first is answered.
THEOREM OneBuildAtATimeHolds == Spec => []OneBuildAtATime
  <1>1. IInv => OneBuildAtATime
    BY DEF IInv, CustomizerInv, ButtonInv
  <1>2. QED
    BY <1>1, InvariantHolds, PTL

\* In any number of tabs, one that is loaded looks like the one in which a
\* toggle was clicked last.
THEOREM LastClickDecidesHolds == Spec => []LastClickDecides
  <1>1. IInv => LastClickDecides
    BY DEF IInv, DocsInv
  <1>2. QED
    BY <1>1, InvariantHolds, PTL

\* Every page warns in every browser that emulates an older one, and in no
\* other.
THEOREM WarnsOfEmulationHolds == Spec => []WarnsOfEmulation
  <1>1. IInv => WarnsOfEmulation
    BY DEF IInv, DocsInv
  <1>2. QED
    BY <1>1, InvariantHolds, PTL

-----------------------------------------------------------------------------
(* The action properties.                                                  *)

\* A configuration is fetched only for an address that names one; a save may
\* change the address meanwhile, but never to none.
Addressed == loading # 0 => urlId # 0

LEMMA AddressedInv == IInv /\ Addressed /\ [Next]_siteVars => Addressed'
  <1> SUFFICES ASSUME IInv, Addressed, [Next]_siteVars PROVE Addressed'
    OBVIOUS
  <1>1. ASSUME NEW id, LoadCustomizer(id) PROVE Addressed'
    BY <1>1 DEF LoadCustomizer, Addressed
  <1>2. ASSUME NEW i \in DOMAIN saving, GistAnswered(i) PROVE Addressed'
    <2>1. Len(gists) \in Nat
      BY LenProperties DEF IInv, CustomizerInv, NetInv
    <2>2. loading' = loading /\ (urlId' = urlId \/ urlId' = Len(gists) + 1)
      BY <1>2 DEF GistAnswered
    <2>3. QED
      BY <2>1, <2>2 DEF Addressed
  <1>3. CASE CustomizerUser
    BY <1>3 DEF CustomizerUser, ClickBox, EnterVar, ToggleLess, TogglePlugins, ResetVars,
                ChangesForm, PickFile, removeImportAlerts, Compile, netVars, Addressed
  <1>4. CASE CustomizerAnswer
    BY <1>2, <1>4 DEF CustomizerAnswer, BrowserChecked, FileRead, GistFetched, netVars, Addressed
  <1>5. CASE UNCHANGED customizerVars
    BY <1>5 DEF customizerVars, netVars, Addressed
  <1>6. QED
    BY <1>1, <1>3, <1>4, <1>5 DEF Next, OpenCustomizer, CloseCustomizer, OpenPage, ClosePage, Theme, Customize, Answer, siteVars

\* A gist is fetched only while the address names one.
THEOREM AddressedHolds == Spec => []Addressed
  <1>1. Init => Addressed
    BY DEF Init, CustomizerInit, Addressed
  <1>2. QED
    BY <1>1, AddressedInv, InvariantHolds, PTL DEF Spec

\* Only the answer to a post, or a reload, takes the post from the list; when
\* the answer does not bring the button back it has shown why.
THEOREM DeadButtonExplainedHolds == Spec => DeadButtonExplained
  <1>1. ASSUME IInv, [Next]_siteVars, saving # <<>>, saving' = <<>>,
               compileBtn' = "disabled", browserCheck' = "passed"
        PROVE  IsNull(saving[1]) \/ errors' \cap {"less", "no files"} # {}
    <2>1. ASSUME NEW id, LoadCustomizer(id) PROVE FALSE
      BY <1>1, <2>1 DEF LoadCustomizer
    <2>2. ~CustomizerUser
      <3>1. ~Compile
        BY <1>1 DEF Compile, IInv, CustomizerInv, ButtonInv, OneBuildAtATime
      <3>2. QED
        BY <1>1, <3>1 DEF CustomizerUser, ClickBox, EnterVar, ToggleLess, TogglePlugins,
             ResetVars, ChangesForm, PickFile, removeImportAlerts, netVars
    <2>3. ~UNCHANGED customizerVars
      BY <1>1 DEF customizerVars, netVars
    <2>4. PICK i \in DOMAIN saving : GistAnswered(i)
      BY <1>1, <2>1, <2>2, <2>3
         DEF Next, OpenCustomizer, CloseCustomizer, OpenPage, ClosePage, Theme, Customize, Answer, CustomizerAnswer,
             BrowserChecked, FileRead, GistFetched, netVars, siteVars
    <2>5. i = 1
      <3>1. saving \in Seq(Forms) /\ Len(saving) <= 1
        BY <1>1 DEF IInv, CustomizerInv, NetInv, ButtonInv, OneBuildAtATime
      <3>2. Len(saving) \in Nat /\ DOMAIN saving = 1..Len(saving)
        BY <3>1, LenProperties
      <3>3. QED
        BY <3>1, <3>2
    <2>6. PICK gistErrors \in {{}, {"gist"}} : Build(saving[1], gistErrors)
      BY <2>4, <2>5 DEF GistAnswered
    <2>7. CASE IsNull(saving[1])
      BY <2>7
    <2>8. CASE ~IsNull(saving[1]) /\ BuildErrors # {}
      <3>1. BuildErrors \subseteq {"less", "no files"}
        BY DEF BuildErrors
      <3>2. BuildErrors \subseteq errors'
        BY <2>6, <2>8 DEF Build, showError
      <3>3. QED
        BY <2>8, <3>1, <3>2
    <2>9. CASE ~IsNull(saving[1]) /\ BuildErrors = {}
      BY <1>1, <2>6, <2>9 DEF Build
    <2>10. QED
      BY <2>7, <2>8, <2>9
  <1>2. IInv /\ [Next]_siteVars =>
          [saving # <<>> /\ saving' = <<>> /\ compileBtn' = "disabled" /\ browserCheck' = "passed"
             => IsNull(saving[1]) \/ errors' \cap {"less", "no files"} # {}]_customizerVars
    BY <1>1
  <1>3. QED
    BY <1>2, InvariantHolds, PTL DEF Spec, DeadButtonExplained

\* A configuration put into a form without entered variables makes the form it
\* was taken from.
LEMMA ImportIntoEmptyForm ==
  ASSUME NEW config \in Forms, vars = NoVars,
         updateCustomizerFromJson({"css", "js", "vars"}, config)
  PROVE  getCustomizerData' = config
  <1>1. /\ config.vars \in [VarNames -> VarValues \cup {NoValue}]
        /\ config = [css |-> config.css, js |-> config.js, vars |-> config.vars]
    BY DEF Forms
  <1>2. css' = config.css /\ js' = config.js
    BY DEF updateCustomizerFromJson
  <1>3. vars' = [v \in VarNames |-> IF config.vars[v] = NoValue THEN vars[v] ELSE config.vars[v]]
    BY DEF updateCustomizerFromJson
  <1>4. vars' = config.vars
    BY <1>1, <1>3 DEF NoVars
  <1>5. QED
    BY <1>1, <1>2, <1>4 DEF getCustomizerData

\* A stored configuration comes back as it was saved, whatever boxes have been
\* clicked before it arrives.
THEOREM SavedComesBackHolds == Spec => SavedComesBack
  <1>1. ASSUME IInv, Addressed, [Next]_siteVars,
               loading # 0, loading' = 0, "fetch" \notin errors', urlId' = urlId,
               vars = NoVars, ~IsNull(gists[loading])
        PROVE  getCustomizerData' = gists[loading]
    <2>1. ASSUME NEW id, LoadCustomizer(id) PROVE FALSE
      BY <1>1, <2>1 DEF LoadCustomizer, Addressed
    <2>2. ~CustomizerUser
      BY <1>1 DEF CustomizerUser, ClickBox, EnterVar, ToggleLess, TogglePlugins,
             ResetVars, ChangesForm, PickFile, removeImportAlerts, Compile, netVars
    <2>3. ~UNCHANGED customizerVars
      BY <1>1 DEF customizerVars, netVars
    <2>4. PICK found \in BOOLEAN : GistFetched(found)
      BY <1>1, <2>1, <2>2, <2>3
         DEF Next, OpenCustomizer, CloseCustomizer, OpenPage, ClosePage, Theme, Customize, Answer, CustomizerAnswer,
             BrowserChecked, FileRead, GistAnswered, netVars, siteVars
    <2>5. found
      BY <1>1, <2>4 DEF GistFetched, showError
    <2>6. updateCustomizerFromJson({"css", "js", "vars"}, gists[loading])
      BY <1>1, <2>4, <2>5 DEF GistFetched
    <2>7. gists[loading] \in Forms
      BY <1>1 DEF IInv, CustomizerInv, NetInv
    <2>8. QED
      BY <1>1, <2>6, <2>7, ImportIntoEmptyForm
  <1>2. IInv /\ Addressed /\ [Next]_siteVars =>
          [loading # 0 /\ loading' = 0 /\ "fetch" \notin errors' /\ urlId' = urlId
             /\ vars = NoVars /\ ~IsNull(gists[loading])
             => getCustomizerData' = gists[loading]]_customizerVars
    BY <1>1
  <1>3. QED
    BY <1>2, AddressedHolds, InvariantHolds, PTL DEF Spec, SavedComesBack

-----------------------------------------------------------------------------
(* What the folds over lists of files give.                                *)

\* Induction comes from the order of the finite sets.
LEMMA LeastIndex ==
  ASSUME NEW S \in SUBSET Nat, S # {}
  PROVE  \E k \in S : \A l \in S : k <= l
  <1> DEFINE T == {1..k : k \in S}
             R == StrictSubsetOrdering(Nat)
  <1>1. IsWellFoundedOn(R, FiniteSubsetsOf(Nat))
    BY FS_StrictSubsetOrderingWellFounded
  <1>2. T \subseteq FiniteSubsetsOf(Nat)
    <2> SUFFICES ASSUME NEW k \in S PROVE 1..k \in FiniteSubsetsOf(Nat)
      OBVIOUS
    <2>1. IsFiniteSet(1..k) /\ 1..k \in SUBSET Nat
      BY FS_Interval
    <2>2. QED
      BY <2>1 DEF FiniteSubsetsOf
  <1>3. T # {}
    OBVIOUS
  <1> HIDE DEF T, R
  <1>4. PICK x \in T : \A y \in T : ~(<<y, x>> \in R)
    BY <1>1, <1>2, <1>3, WFMin
  <1>5. PICK k \in S : x = 1..k
    BY DEF T
  <1>6. ASSUME NEW l \in S, l < k PROVE FALSE
    <2>1. 1..l \in T
      BY DEF T
    <2>2. 1..l \subseteq 1..k /\ k \in 1..k /\ k \notin 1..l
      BY <1>6
    <2>3. <<1..l, 1..k>> \in R
      BY <2>2 DEF R, StrictSubsetOrdering
    <2>4. QED
      BY <1>4, <1>5, <2>1, <2>3
  <1>7. QED
    BY <1>6

\* Induction on the number of items gone through.
LEMMA EveryIndex ==
  ASSUME NEW n \in Nat, NEW P, 0 \in P, \A i \in 1..n : i - 1 \in P => i \in P
  PROVE  \A i \in 0..n : i \in P
  <1> DEFINE S == {i \in 0..n : i \notin P}
  <1>1. SUFFICES ASSUME S # {} PROVE FALSE
    OBVIOUS
  <1>2. PICK k \in S : \A l \in S : k <= l
    <2>1. S \in SUBSET Nat
      OBVIOUS
    <2> HIDE DEF S
    <2>2. QED
      BY <1>1, <2>1, LeastIndex
  <1>3. k \in 1..n /\ k - 1 \in 0..n /\ k \notin P
    OBVIOUS
  <1>4. k - 1 \in S
    BY <1>3
  <1> HIDE DEF S
  <1>5. QED
    BY <1>2, <1>3, <1>4

\* A goes through the list s item by item, from base on.
Folds(A, S, base, op, s) ==
  /\ A \in [0..Len(s) -> S]
  /\ A[0] = base /\ \A i \in 1..Len(s) : A[i] = op[A[i - 1]][s[i]]

LEMMA FoldExists ==
  ASSUME NEW S, NEW T, NEW base \in S, NEW op \in [S -> [T -> S]], NEW s \in Seq(T)
  PROVE  \E A : Folds(A, S, base, op, s)
  <1> DEFINE n == Len(s)
             Partial(m) == \E A \in [0..m -> S] :
                             A[0] = base /\ \A i \in 1..m : A[i] = op[A[i - 1]][s[i]]
             P == {m \in 0..n : Partial(m)}
  <1>1. n \in Nat
    OBVIOUS
  <1>2. Partial(0)
    <2> DEFINE A == [i \in 0..0 |-> base]
    <2>1. A \in [0..0 -> S] /\ A[0] = base /\ 1..0 = {}
      OBVIOUS
    <2> HIDE DEF A
    <2>2. QED
      BY <2>1
  <1>3. ASSUME NEW m \in 1..n, Partial(m - 1) PROVE Partial(m)
    <2>1. PICK A \in [0..m - 1 -> S] :
            A[0] = base /\ \A i \in 1..m - 1 : A[i] = op[A[i - 1]][s[i]]
      BY <1>3
    <2> DEFINE B == [i \in 0..m |-> IF i = m THEN op[A[m - 1]][s[m]] ELSE A[i]]
    <2>2. A[m - 1] \in S /\ s[m] \in T /\ op[A[m - 1]][s[m]] \in S
      BY <1>1
    <2>3. \A i \in 0..m : i # m => i \in 0..m - 1
      BY <1>1
    <2>4. \A i \in 0..m : B[i] \in S
      BY <2>2, <2>3
    <2>5. /\ B \in [0..m -> S]
          /\ \A i \in 0..m : i # m => B[i] = A[i]
          /\ B[m] = op[A[m - 1]][s[m]]
      BY <1>1, <2>4
    <2> HIDE DEF B
    <2>6. B[0] = base
      BY <1>1, <2>1, <2>5
    <2>7. ASSUME NEW i \in 1..m PROVE B[i] = op[B[i - 1]][s[i]]
      <3>1. i - 1 \in 0..m /\ i - 1 # m /\ i \in 0..m
        BY <1>1
      <3>2. CASE i = m
        BY <2>5, <3>1, <3>2
      <3>3. CASE i # m
        <4>1. i \in 1..m - 1
          BY <1>1, <3>3
        <4>2. A[i] = op[A[i - 1]][s[i]]
          BY <2>1, <4>1
        <4>3. QED
          BY <2>5, <3>1, <3>3, <4>2
      <3>4. QED
        BY <3>2, <3>3
    <2>8. QED
      BY <2>5, <2>6, <2>7
  <1> HIDE DEF Partial
  <1>4. \A m \in 0..n : m \in P
    <2>1. 0 \in P
      BY <1>1, <1>2
    <2>2. \A m \in 1..n : m - 1 \in P => m \in P
      BY <1>1, <1>3
    <2> HIDE DEF P
    <2>3. QED
      BY <1>1, <2>1, <2>2, EveryIndex
  <1>5. Partial(n)
    <2>1. n \in 0..n
      BY <1>1
    <2>2. QED
      BY <1>4, <2>1
  <1>6. QED
    BY <1>5 DEF Partial, Folds

\* The names of the Less files.
Files == DOMAIN Imports

\* Each name stands behind those of the files it imports.
Ordered(s) ==
  \A j \in 1..Len(s) : \A g \in ToSet(Imports[s[j]]) : \E i \in 1..Len(s) : i < j /\ s[i] = g

Distinct(s) == \A i, j \in 1..Len(s) : s[i] = s[j] => i = j

\* ToSet, of a list as it grows.
LEMMA ToSetFacts ==
  ASSUME NEW T, NEW s \in Seq(T)
  PROVE  /\ Len(s) \in Nat /\ DOMAIN s = 1..Len(s)
         /\ ToSet(s) = {s[i] : i \in 1..Len(s)} /\ ToSet(s) \subseteq T
         /\ \A x \in T : /\ Append(s, x) \in Seq(T) /\ Len(Append(s, x)) = Len(s) + 1
                         /\ \A i \in 1..Len(s) : Append(s, x)[i] = s[i]
                         /\ Append(s, x)[Len(s) + 1] = x
                         /\ ToSet(Append(s, x)) = ToSet(s) \cup {x}
  <1>1. /\ Len(s) \in Nat /\ DOMAIN s = 1..Len(s)
        /\ ToSet(s) = {s[i] : i \in 1..Len(s)} /\ ToSet(s) \subseteq T
    BY DEF ToSet
  <1>2. ASSUME NEW x \in T
        PROVE  /\ Append(s, x) \in Seq(T) /\ Len(Append(s, x)) = Len(s) + 1
               /\ \A i \in 1..Len(s) : Append(s, x)[i] = s[i]
               /\ Append(s, x)[Len(s) + 1] = x
               /\ ToSet(Append(s, x)) = ToSet(s) \cup {x}
    <2> DEFINE r == Append(s, x)
               n == Len(s)
    <2>1. /\ r \in Seq(T) /\ Len(r) = n + 1 /\ n \in Nat
          /\ \A i \in 1..n : r[i] = s[i]
          /\ r[n + 1] = x
      OBVIOUS
    <2> HIDE DEF r
    <2>2. ToSet(r) = {r[i] : i \in 1..n + 1}
      BY <2>1 DEF ToSet
    <2>3. 1..n + 1 = 1..n \cup {n + 1}
      BY <2>1
    <2>4. \A y : y \in ToSet(r) <=> y \in ToSet(s) \/ y = x
      BY <1>1, <2>1, <2>2, <2>3
    <2>5. ToSet(r) = ToSet(s) \cup {x}
      BY <2>4
    <2>6. QED
      BY <2>1, <2>5 DEF r
  <1>3. QED
    BY <1>1, <1>2

\* A name that is new, behind those of the files it imports.
LEMMA AppendOrdered ==
  ASSUME NEW T, NEW s \in Seq(T), NEW x \in T,
         Distinct(s), Ordered(s), x \notin ToSet(s), ToSet(Imports[x]) \subseteq ToSet(s)
  PROVE  Distinct(Append(s, x)) /\ Ordered(Append(s, x))
  <1> DEFINE r == Append(s, x)
             n == Len(s)
  <1>1. /\ n \in Nat /\ ToSet(s) = {s[i] : i \in 1..n}
        /\ Len(r) = n + 1 /\ r[n + 1] = x /\ \A i \in 1..n : r[i] = s[i]
    BY ToSetFacts
  <1>2. 1..n + 1 = 1..n \cup {n + 1}
    BY <1>1
  <1> HIDE DEF r
  <1>3. \A i \in 1..n : s[i] # x
    BY <1>1
  <1>4. Distinct(r)
    BY <1>1, <1>2, <1>3 DEF Distinct
  <1>5. ASSUME NEW j \in 1..n + 1, NEW g \in ToSet(Imports[r[j]])
        PROVE  \E i \in 1..n + 1 : i < j /\ r[i] = g
    <2>1. CASE j = n + 1
      <3>1. PICK i \in 1..n : s[i] = g
        BY <1>1, <1>5, <2>1
      <3>2. i < j /\ i \in 1..n + 1
        BY <1>1, <2>1
      <3>3. QED
        BY <1>1, <3>1, <3>2
    <2>2. CASE j \in 1..n
      <3>1. PICK i \in 1..n : i < j /\ s[i] = g
        BY <1>1, <1>5, <2>2 DEF Ordered
      <3>2. QED
        BY <1>1, <1>2, <3>1
    <2>3. QED
      BY <1>2, <2>1, <2>2
  <1>6. Ordered(r)
    BY <1>1, <1>5 DEF Ordered
  <1>7. QED
    BY <1>4, <1>6 DEF r

\* The equation of WithNew.
IsWithNew(A, names, new) ==
  A = [k \in 0..Len(new) |->
        IF k = 0 THEN names
        ELSE IF new[k] \in ToSet(A[k - 1]) THEN A[k - 1] ELSE Append(A[k - 1], new[k])]

LEMMA WithNewExists ==
  ASSUME NEW T, NEW names \in Seq(T), NEW new \in Seq(T)
  PROVE  \E A : IsWithNew(A, names, new) /\ WithNew(names, new) = A[Len(new)]
  <1> DEFINE n == Len(new)
             op == [s \in Seq(T) |-> [x \in T |-> IF x \in ToSet(s) THEN s ELSE Append(s, x)]]
             E(A, k) == IF k = 0 THEN names
                        ELSE IF new[k] \in ToSet(A[k - 1]) THEN A[k - 1]
                             ELSE Append(A[k - 1], new[k])
  <1>1. n \in Nat /\ \A k \in 1..n : new[k] \in T
    OBVIOUS
  <1>2. \A s \in Seq(T), x \in T : Append(s, x) \in Seq(T)
    OBVIOUS
  <1>3. op \in [Seq(T) -> [T -> Seq(T)]]
    BY <1>2
  <1>4. \A s \in Seq(T), x \in T : op[s][x] = IF x \in ToSet(s) THEN s ELSE Append(s, x)
    OBVIOUS
  <1> HIDE DEF op
  <1>5. PICK A : Folds(A, Seq(T), names, op, new)
    BY <1>3, FoldExists
  <1>6. /\ A \in [0..n -> Seq(T)]
        /\ A[0] = names /\ \A k \in 1..n : A[k] = op[A[k - 1]][new[k]]
    BY <1>5 DEF Folds
  <1>7. ASSUME NEW k \in 0..n PROVE A[k] = E(A, k)
    <2>1. CASE k = 0
      BY <1>6, <2>1
    <2>2. CASE k # 0
      <3>1. k \in 1..n /\ k - 1 \in 0..n
        BY <1>1, <2>2
      <3>2. A[k - 1] \in Seq(T) /\ new[k] \in T
        BY <1>1, <1>6, <3>1
      <3>3. A[k] = op[A[k - 1]][new[k]]
        BY <1>6, <3>1
      <3>4. QED
        BY <1>4, <2>2, <3>2, <3>3
    <2>3. QED
      BY <2>1, <2>2
  <1>8. A = [k \in 0..n |-> E(A, k)]
    <2> HIDE DEF E
    <2>1. QED
      BY <1>6, <1>7
  <1>9. IsWithNew(A, names, new)
    BY <1>8 DEF IsWithNew
  <1>10. WithNew(names, new) = (CHOOSE B : IsWithNew(B, names, new))[Len(new)]
    BY DEF WithNew, IsWithNew
  <1>11. QED
    BY <1>9, <1>10

\* What WithNew gives: all of both lists, and in the order they were in.
LEMMA WithNewFacts ==
  ASSUME NEW T, NEW names \in Seq(T), NEW new \in Seq(T)
  PROVE  /\ WithNew(names, new) \in Seq(T)
         /\ ToSet(WithNew(names, new)) = ToSet(names) \cup ToSet(new)
         /\ Distinct(names) /\ Ordered(names) /\ Ordered(new) =>
              Distinct(WithNew(names, new)) /\ Ordered(WithNew(names, new))
  <1> DEFINE n == Len(new)
             Passed(k) == {new[i] : i \in 1..k}
             Fine == Distinct(names) /\ Ordered(names) /\ Ordered(new)
  <1>1. PICK A : IsWithNew(A, names, new) /\ WithNew(names, new) = A[n]
    BY WithNewExists
  <1> DEFINE P(k) == /\ A[k] \in Seq(T)
                     /\ ToSet(A[k]) = ToSet(names) \cup Passed(k)
                     /\ Fine => Distinct(A[k]) /\ Ordered(A[k])
             Q == {k \in 0..n : P(k)}
             E(k) == IF k = 0 THEN names
                     ELSE IF new[k] \in ToSet(A[k - 1]) THEN A[k - 1]
                          ELSE Append(A[k - 1], new[k])
  <1>2. n \in Nat /\ \A k \in 1..n : new[k] \in T
    OBVIOUS
  <1>3. A = [k \in 0..n |-> E(k)]
    BY <1>1 DEF IsWithNew
  <1>4. \A k \in 0..n : A[k] = E(k)
    <2> HIDE DEF E
    <2>1. QED
      BY <1>3
  <1>5. P(0)
    <2>1. 0 \in 0..n /\ Passed(0) = {}
      BY <1>2
    <2>2. A[0] = names
      BY <1>4, <2>1
    <2>3. QED
      BY <2>1, <2>2
  <1>6. ASSUME NEW k \in 1..n, P(k - 1) PROVE P(k)
    <2>1. k \in 0..n /\ k # 0 /\ k - 1 \in 0..n
      BY <1>2
    <2>2. A[k] = IF new[k] \in ToSet(A[k - 1]) THEN A[k - 1] ELSE Append(A[k - 1], new[k])
      BY <1>4, <2>1
    <2>3. Passed(k) = Passed(k - 1) \cup {new[k]}
      <3>1. 1..k = 1..k - 1 \cup {k}
        BY <1>2
      <3>2. \A y : y \in Passed(k) <=> y \in Passed(k - 1) \/ y = new[k]
        BY <3>1
      <3>3. QED
        BY <3>2
    <2>4. A[k - 1] \in Seq(T) /\ new[k] \in T /\ ToSet(A[k - 1]) = ToSet(names) \cup Passed(k - 1)
      BY <1>2, <1>6
    <2>5. Fine => ToSet(Imports[new[k]]) \subseteq Passed(k - 1)
      <3>1. ASSUME Fine, NEW g \in ToSet(Imports[new[k]]) PROVE g \in Passed(k - 1)
        <4>1. PICK i \in 1..n : i < k /\ new[i] = g
          BY <3>1 DEF Ordered
        <4>2. i \in 1..k - 1
          BY <1>2, <4>1
        <4>3. QED
          BY <4>1, <4>2
      <3>2. QED
        BY <3>1
    <2>6. Fine => Distinct(A[k - 1]) /\ Ordered(A[k - 1])
      BY <1>6
    <2> HIDE DEF Passed, Fine, P
    <2>7. CASE new[k] \in ToSet(A[k - 1])
      BY <2>2, <2>3, <2>4, <2>6, <2>7 DEF P
    <2>8. CASE new[k] \notin ToSet(A[k - 1])
      <3>1. A[k] \in Seq(T) /\ ToSet(A[k]) = ToSet(A[k - 1]) \cup {new[k]}
        BY <2>2, <2>4, <2>8, ToSetFacts
      <3>2. Fine => Distinct(A[k]) /\ Ordered(A[k])
        <4>1. Fine => ToSet(Imports[new[k]]) \subseteq ToSet(A[k - 1])
          BY <2>4, <2>5
        <4>2. QED
          BY <2>2, <2>4, <2>6, <2>8, <4>1, AppendOrdered
      <3>3. QED
        BY <2>3, <2>4, <3>1, <3>2 DEF P
    <2>9. QED
      BY <2>7, <2>8
  <1> HIDE DEF P
  <1>7. \A k \in 0..n : k \in Q
    <2>1. 0 \in Q
      BY <1>2, <1>5
    <2>2. \A k \in 1..n : k - 1 \in Q => k \in Q
      BY <1>2, <1>6
    <2> HIDE DEF Q
    <2>3. QED
      BY <1>2, <2>1, <2>2, EveryIndex
  <1>8. P(n)
    <2>1. n \in 0..n
      BY <1>2
    <2>2. QED
      BY <1>7, <2>1
  <1>9. ToSet(new) = Passed(n)
    BY ToSetFacts
  <1>10. QED
    BY <1>1, <1>8, <1>9 DEF P

-----------------------------------------------------------------------------
(* The files below a Less file.                                            *)

\* What includedLessFilenames returns for f if F is what it returns for others.
LinesOf(F, f) ==
  LET imports[i \in 0..Len(Imports[f])] ==
        IF i = 0 THEN <<>>
        ELSE Append(WithNew(imports[i - 1], F[Imports[f][i]]), Imports[f][i])
  IN  imports[Len(Imports[f])]

\* The equation of its loop.
IsLines(A, F, f) ==
  A = [i \in 0..Len(Imports[f]) |->
        IF i = 0 THEN <<>>
        ELSE Append(WithNew(A[i - 1], F[Imports[f][i]]), Imports[f][i])]

\* The import lines of a file.
LEMMA ImportFacts ==
  ASSUME NEW f \in Files
  PROVE  /\ IsFiniteSet(Files)
         /\ Imports[f] \in Seq(Files) /\ Len(Imports[f]) \in Nat
         /\ \A i \in 1..Len(Imports[f]) : /\ Imports[f][i] \in Files
                                          /\ Imports[f][i] \in ToSet(Imports[f])
         /\ ToSet(Imports[f]) = {Imports[f][i] : i \in 1..Len(Imports[f])}
         /\ ToSet(Imports[f]) \subseteq Files
  <1>1. IsFiniteSet(Files) /\ Imports[f] \in Seq(Files)
    BY ImportAssumption DEF Files
  <1> DEFINE s == Imports[f]
  <1>2. s \in Seq(Files)
    BY <1>1
  <1> HIDE DEF s
  <1>3. /\ Len(s) \in Nat /\ ToSet(s) = {s[i] : i \in 1..Len(s)} /\ ToSet(s) \subseteq Files
    BY <1>2, ToSetFacts
  <1>4. \A i \in 1..Len(s) : s[i] \in Files /\ s[i] \in ToSet(s)
    BY <1>2, <1>3
  <1>5. QED
    BY <1>1, <1>3, <1>4 DEF s

LEMMA LinesAt ==
  ASSUME NEW A, NEW F, NEW f \in Files, IsLines(A, F, f)
  PROVE  /\ A[0] = <<>>
         /\ \A i \in 1..Len(Imports[f]) :
              A[i] = Append(WithNew(A[i - 1], F[Imports[f][i]]), Imports[f][i])
  <1> DEFINE n == Len(Imports[f])
             E(i) == IF i = 0 THEN <<>>
                     ELSE Append(WithNew(A[i - 1], F[Imports[f][i]]), Imports[f][i])
  <1>1. A = [i \in 0..n |-> E(i)]
    BY DEF IsLines
  <1>2. n \in Nat
    BY ImportFacts
  <1> HIDE DEF E, n
  <1>3. \A i \in 0..n : A[i] = E(i)
    BY <1>1
  <1>4. A[0] = E(0) /\ \A i \in 1..n : A[i] = E(i) /\ i # 0
    BY <1>2, <1>3
  <1>5. QED
    BY <1>4 DEF E, n

LEMMA LinesExist ==
  ASSUME NEW f \in Files, NEW F, \A g \in ToSet(Imports[f]) : F[g] \in Seq(Files)
  PROVE  \E A : IsLines(A, F, f) /\ \A i \in 0..Len(Imports[f]) : A[i] \in Seq(Files)
  <1> DEFINE s == Imports[f]
             n == Len(s)
             Direct == ToSet(s)
             op == [t \in Seq(Files) |-> [g \in Files |->
                     IF g \in Direct THEN Append(WithNew(t, F[g]), g) ELSE t]]
             E(A, i) == IF i = 0 THEN <<>> ELSE Append(WithNew(A[i - 1], F[s[i]]), s[i])
  <1>1. s \in Seq(Files) /\ n \in Nat /\ \A i \in 1..n : s[i] \in Files /\ s[i] \in Direct
    BY ImportFacts
  <1>2. ASSUME NEW t \in Seq(Files), NEW g \in Files, g \in Direct
        PROVE  Append(WithNew(t, F[g]), g) \in Seq(Files)
    <2>1. WithNew(t, F[g]) \in Seq(Files)
      BY <1>2, WithNewFacts
    <2>2. QED
      BY <2>1, ToSetFacts
  <1> HIDE DEF s, Direct
  <1>3. op \in [Seq(Files) -> [Files -> Seq(Files)]]
    BY <1>2
  <1>4. \A t \in Seq(Files), g \in Direct : g \in Files => op[t][g] = Append(WithNew(t, F[g]), g)
    OBVIOUS
  <1> HIDE DEF op
  <1>5. PICK A : Folds(A, Seq(Files), <<>>, op, s)
    <2>1. <<>> \in Seq(Files)
      OBVIOUS
    <2> DEFINE e == <<>>
    <2>2. e \in Seq(Files)
      BY <2>1
    <2> HIDE DEF e
    <2>3. \E A : Folds(A, Seq(Files), e, op, s)
      BY <1>1, <1>3, <2>2, FoldExists
    <2>4. QED
      BY <2>3 DEF e
  <1>6. /\ A \in [0..n -> Seq(Files)]
        /\ A[0] = <<>> /\ \A i \in 1..n : A[i] = op[A[i - 1]][s[i]]
    BY <1>5 DEF Folds
  <1>7. ASSUME NEW i \in 0..n PROVE A[i] = E(A, i)
    <2>1. CASE i = 0
      BY <1>6, <2>1
    <2>2. CASE i # 0
      <3>1. i \in 1..n /\ i - 1 \in 0..n
        BY <1>1, <2>2
      <3>2. A[i - 1] \in Seq(Files) /\ s[i] \in Files /\ s[i] \in Direct
        BY <1>1, <1>6, <3>1
      <3>3. A[i] = op[A[i - 1]][s[i]]
        BY <1>6, <3>1
      <3>4. QED
        BY <1>4, <2>2, <3>2, <3>3
    <2>3. QED
      BY <2>1, <2>2
  <1>8. A = [i \in 0..n |-> E(A, i)]
    <2> HIDE DEF E
    <2>1. QED
      BY <1>6, <1>7
  <1>9. IsLines(A, F, f)
    BY <1>8 DEF IsLines, s
  <1>10. \A i \in 0..Len(Imports[f]) : A[i] \in Seq(Files)
    BY <1>6 DEF s
  <1>11. QED
    BY <1>9, <1>10

\* What the loop gives depends on the imported files alone.
LEMMA LinesSame ==
  ASSUME NEW f \in Files, NEW F, NEW H,
         \A g \in ToSet(Imports[f]) : F[g] \in Seq(Files) /\ H[g] = F[g]
  PROVE  /\ LinesOf(H, f) \in Seq(Files) /\ LinesOf(H, f) = LinesOf(F, f)
         /\ \E A : IsLines(A, F, f) /\ LinesOf(F, f) = A[Len(Imports[f])]
  <1> DEFINE n == Len(Imports[f])
  <1>1. n \in Nat /\ \A i \in 1..n : Imports[f][i] \in ToSet(Imports[f])
    BY ImportFacts
  <1>2. PICK A : IsLines(A, F, f) /\ \A i \in 0..n : A[i] \in Seq(Files)
    BY LinesExist
  <1>3. PICK B : IsLines(B, H, f)
    BY LinesExist
  <1>4. LinesOf(F, f) = (CHOOSE C : IsLines(C, F, f))[n]
    BY DEF LinesOf, IsLines
  <1>5. LinesOf(H, f) = (CHOOSE C : IsLines(C, H, f))[n]
    BY DEF LinesOf, IsLines
  <1>6. PICK C : IsLines(C, F, f) /\ LinesOf(F, f) = C[n]
    BY <1>2, <1>4
  <1>7. PICK D : IsLines(D, H, f) /\ LinesOf(H, f) = D[n]
    BY <1>3, <1>5
  <1> HIDE DEF n
  <1>8. ASSUME NEW X, IsLines(X, F, f) \/ IsLines(X, H, f)
        PROVE  \A i \in 0..n : X[i] = A[i]
    <2> DEFINE P == {i \in 0..n : X[i] = A[i]}
    <2>1. /\ A[0] = <<>>
          /\ \A i \in 1..n : A[i] = Append(WithNew(A[i - 1], F[Imports[f][i]]), Imports[f][i])
      BY <1>2, LinesAt DEF n
    <2>2. /\ X[0] = <<>>
          /\ \A i \in 1..n : X[i] = Append(WithNew(X[i - 1], F[Imports[f][i]]), Imports[f][i])
      <3>1. CASE IsLines(X, F, f)
        BY <3>1, LinesAt DEF n
      <3>2. CASE IsLines(X, H, f)
        <4>1. /\ X[0] = <<>>
              /\ \A i \in 1..n : X[i] = Append(WithNew(X[i - 1], H[Imports[f][i]]), Imports[f][i])
          BY <3>2, LinesAt DEF n
        <4>2. \A i \in 1..n : H[Imports[f][i]] = F[Imports[f][i]]
          BY <1>1
        <4>3. QED
          BY <4>1, <4>2
      <3>3. QED
        BY <1>8, <3>1, <3>2
    <2>3. 0 \in P
      BY <1>1, <2>1, <2>2
    <2>4. ASSUME NEW i \in 1..n, i - 1 \in P PROVE i \in P
      <3>1. X[i - 1] = A[i - 1] /\ i \in 0..n
        BY <1>1, <2>4
      <3>2. /\ X[i] = Append(WithNew(X[i - 1], F[Imports[f][i]]), Imports[f][i])
            /\ A[i] = Append(WithNew(A[i - 1], F[Imports[f][i]]), Imports[f][i])
        BY <2>1, <2>2
      <3>3. X[i] = A[i]
        BY <3>1, <3>2
      <3>4. QED
        BY <3>1, <3>3
    <2>5. \A i \in 0..n : i \in P
      <3> HIDE DEF P
      <3>1. QED
        BY <1>1, <2>3, <2>4, EveryIndex
    <2>6. QED
      BY <2>5
  <1>9. n \in 0..n
    BY <1>1
  <1>10. C[n] = A[n] /\ D[n] = A[n] /\ A[n] \in Seq(Files)
    BY <1>2, <1>6, <1>7, <1>8, <1>9
  <1>11. QED
    BY <1>6, <1>7, <1>10 DEF n

\* U holds all files below its own, and F is what includedLessFilenames returns
\* for them.
Known(U, F) ==
  /\ U \subseteq Files /\ \A f \in U : ToSet(Imports[f]) \subseteq U
  /\ F \in [U -> Seq(Files)] /\ \A f \in U : F[f] = LinesOf(F, f)

\* One file more can be known, the imports of which are.
LEMMA OneMoreKnown ==
  ASSUME NEW U, NEW F, Known(U, F), U # Files
  PROVE  \E f \in Files \ U : \E H : Known(U \cup {f}, H)
  <1>1. PICK f \in Files \ U : ToSet(Imports[f]) \cap (Files \ U) = {}
    <2>1. Files \ U # {} /\ Files \ U \in SUBSET Files
      BY DEF Known
    <2>2. \A S \in SUBSET Files : S # {} => \E f \in S : ToSet(Imports[f]) \cap S = {}
      BY ImportAssumption DEF Files
    <2>3. QED
      BY <2>1, <2>2
  <1> DEFINE V == U \cup {f}
             H == [g \in V |-> IF g = f THEN LinesOf(F, f) ELSE F[g]]
  <1>2. ToSet(Imports[f]) \subseteq U
    BY <1>1, ImportFacts
  <1>3. \A g \in U : H[g] = F[g] /\ F[g] \in Seq(Files)
    BY <1>1 DEF Known
  <1>4. H[f] = LinesOf(F, f)
    OBVIOUS
  <1>5. ASSUME NEW g \in V, ToSet(Imports[g]) \subseteq U
        PROVE  LinesOf(H, g) = LinesOf(F, g) /\ LinesOf(H, g) \in Seq(Files)
    <2>1. g \in Files
      BY DEF Known
    <2> HIDE DEF H
    <2>2. \A h \in ToSet(Imports[g]) : F[h] \in Seq(Files) /\ H[h] = F[h]
      BY <1>3, <1>5
    <2>3. QED
      BY <2>1, <2>2, LinesSame
  <1>6. \A g \in V : ToSet(Imports[g]) \subseteq U
    BY <1>2 DEF Known
  <1>7. H \in [V -> Seq(Files)]
    <2>1. LinesOf(F, f) \in Seq(Files)
      BY <1>5, <1>6
    <2>2. QED
      BY <1>3, <2>1
  <1> HIDE DEF H
  <1>8. \A g \in V : H[g] = LinesOf(H, g)
    BY <1>1, <1>3, <1>4, <1>5, <1>6 DEF Known
  <1>9. Known(V, H)
    BY <1>6, <1>7, <1>8 DEF Known
  <1>10. QED
    BY <1>9

\* includedLessFilenames calls itself for no file without end.
LEMMA AllKnown == \E F : Known(Files, F)
  <1> DEFINE Whole == {U \in SUBSET Files : \E F : Known(U, F)}
             Sizes == {Cardinality(Files) - Cardinality(U) : U \in Whole}
  <1>1. IsFiniteSet(Files) /\ Cardinality(Files) \in Nat
    BY ImportAssumption, FS_CardinalityType DEF Files
  <1>2. \A U \in SUBSET Files :
          /\ IsFiniteSet(U) /\ Cardinality(U) \in Nat /\ Cardinality(U) <= Cardinality(Files)
    BY <1>1, FS_Subset, FS_CardinalityType
  <1>3. Whole # {}
    <2> DEFINE F == [g \in {} |-> <<>>]
    <2>1. Known({}, F)
      BY DEF Known
    <2>2. {} \in Whole
      BY <2>1
    <2>3. QED
      BY <2>2
  <1>4. Sizes \in SUBSET Nat /\ Sizes # {}
    <2>1. \A U \in Whole : Cardinality(Files) - Cardinality(U) \in Nat
      BY <1>1, <1>2
    <2> HIDE DEF Whole
    <2>2. \A m \in Sizes : m \in Nat
      BY <2>1
    <2>3. QED
      BY <1>3, <2>2
  <1>5. PICK m \in Sizes : \A l \in Sizes : m <= l
    <2> HIDE DEF Sizes
    <2>1. QED
      BY <1>4, LeastIndex
  <1>6. PICK U \in Whole : m = Cardinality(Files) - Cardinality(U)
    OBVIOUS
  <1>7. PICK F : Known(U, F)
    OBVIOUS
  <1>8. ASSUME U # Files PROVE FALSE
    <2>1. PICK f \in Files \ U : \E H : Known(U \cup {f}, H)
      BY <1>7, <1>8, OneMoreKnown
    <2>2. U \cup {f} \in SUBSET Files /\ U \in SUBSET Files
      BY <2>1 DEF Known
    <2>3. U \cup {f} \in Whole
      BY <2>1, <2>2
    <2>4. Cardinality(Files) - Cardinality(U \cup {f}) \in Sizes
      BY <2>3
    <2>5. Cardinality(U \cup {f}) = Cardinality(U) + 1
      BY <1>2, <2>1, <2>2, FS_AddElement
    <2> HIDE DEF Sizes, Whole
    <2>6. m <= Cardinality(Files) - Cardinality(U \cup {f})
      BY <1>5, <2>4
    <2>7. QED
      BY <1>1, <1>2, <1>6, <2>2, <2>5, <2>6
  <1>9. QED
    BY <1>7, <1>8

\* A property of files that each has if its imports have it, all have.
LEMMA EveryFile ==
  ASSUME NEW P, \A f \in Files : ToSet(Imports[f]) \subseteq P => f \in P
  PROVE  \A f \in Files : f \in P
  <1> DEFINE S == {f \in Files : f \notin P}
  <1>1. SUFFICES ASSUME S # {} PROVE FALSE
    OBVIOUS
  <1>2. PICK f \in S : ToSet(Imports[f]) \cap S = {}
    <2>1. S \in SUBSET Files
      OBVIOUS
    <2> HIDE DEF S
    <2>2. QED
      BY <1>1, <2>1, ImportAssumption DEF Files
  <1>3. ToSet(Imports[f]) \subseteq P
    BY <1>2, ImportFacts
  <1>4. QED
    BY <1>3

\* The equation of includedLessFilenames has a solution, which it is.
LEMMA Included ==
  \A f \in Files : /\ includedLessFilenames[f] \in Seq(Files)
                   /\ includedLessFilenames[f] = LinesOf(includedLessFilenames, f)
  <1> DEFINE I == includedLessFilenames
             Is(F) == F = [f \in Files |-> LinesOf(F, f)]
  <1>1. PICK F : Known(Files, F)
    BY AllKnown
  <1>2. F = [f \in Files |-> LinesOf(F, f)]
    BY <1>1 DEF Known
  <1>3. I = CHOOSE G : Is(G)
    BY DEF includedLessFilenames, LinesOf, Files
  <1>4. Is(F)
    BY <1>2
  <1>5. Is(I)
    <2> HIDE DEF Is, I
    <2>1. QED
      BY <1>3, <1>4
  <1> HIDE DEF I
  <1>6. \A f \in Files : I[f] = LinesOf(I, f)
    BY <1>5
  <1> DEFINE P == {f \in Files : I[f] \in Seq(Files)}
  <1>7. ASSUME NEW f \in Files, ToSet(Imports[f]) \subseteq P PROVE f \in P
    <2>1. \A g \in ToSet(Imports[f]) : I[g] \in Seq(Files)
      BY <1>7
    <2>2. LinesOf(I, f) \in Seq(Files)
      BY <2>1, LinesSame
    <2>3. QED
      BY <1>6, <2>2
  <1>8. \A f \in Files : f \in P
    <2> HIDE DEF P
    <2>1. QED
      BY <1>7, EveryFile
  <1>9. QED
    BY <1>6, <1>8 DEF I

\* Some way along its import lines: what the files named so far bring.
Brought(f, i, x) ==
  \E j \in 1..i : x = Imports[f][j] \/ x \in ToSet(includedLessFilenames[Imports[f][j]])

\* The lists that includedLessFilenames makes on its way along the lines of f.
IsPath(A, f) ==
  /\ \A i \in 0..Len(Imports[f]) : A[i] \in Seq(Files)
  /\ A[0] = <<>>
  /\ \A i \in 1..Len(Imports[f]) :
       A[i] = Append(WithNew(A[i - 1], includedLessFilenames[Imports[f][i]]), Imports[f][i])
  /\ includedLessFilenames[f] = A[Len(Imports[f])]
  /\ \A i \in 0..Len(Imports[f]) : \A x : x \in ToSet(A[i]) <=> Brought(f, i, x)

LEMMA IncludedPath ==
  ASSUME NEW f \in Files PROVE \E A : IsPath(A, f)
  <1> DEFINE I == includedLessFilenames
             s == Imports[f]
             n == Len(s)
  <1>1. \A g \in Files : I[g] \in Seq(Files) /\ I[g] = LinesOf(I, g)
    BY Included
  <1>2. n \in Nat /\ \A i \in 1..n : s[i] \in Files
    BY ImportFacts
  <1>3. PICK A : IsLines(A, I, f) /\ LinesOf(I, f) = A[n]
    <2>1. \A g \in ToSet(Imports[f]) : I[g] \in Seq(Files)
      BY <1>1, ImportFacts
    <2> HIDE DEF I
    <2>2. QED
      BY <2>1, LinesSame
  <1>4. A[0] = <<>> /\ \A i \in 1..n : A[i] = Append(WithNew(A[i - 1], I[s[i]]), s[i])
    BY <1>3, LinesAt
  <1> HIDE DEF I
  <1> DEFINE P == {i \in 0..n : /\ A[i] \in Seq(Files)
                               /\ \A x : x \in ToSet(A[i]) <=> Brought(f, i, x)}
  <1>5. 0 \in P
    <2>1. A[0] \in Seq(Files) /\ ToSet(A[0]) = {}
      BY <1>4 DEF ToSet
    <2>2. \A x : ~ Brought(f, 0, x)
      BY DEF Brought
    <2>3. QED
      BY <1>2, <2>1, <2>2
  <1>6. ASSUME NEW i \in 1..n, i - 1 \in P PROVE i \in P
    <2> DEFINE W == WithNew(A[i - 1], I[s[i]])
    <2>1. A[i - 1] \in Seq(Files) /\ I[s[i]] \in Seq(Files) /\ s[i] \in Files
      BY <1>1, <1>2, <1>6
    <2>2. W \in Seq(Files) /\ ToSet(W) = ToSet(A[i - 1]) \cup ToSet(I[s[i]])
      BY <2>1, WithNewFacts
    <2>3. A[i] = Append(W, s[i])
      BY <1>4
    <2> HIDE DEF W
    <2>4. A[i] \in Seq(Files) /\ ToSet(A[i]) = ToSet(W) \cup {s[i]}
      BY <2>1, <2>2, <2>3, ToSetFacts
    <2>5. \A x : x \in ToSet(A[i - 1]) <=> Brought(f, i - 1, x)
      BY <1>6
    <2>6. 1..i = 1..i - 1 \cup {i}
      BY <1>2
    <2>7. \A x : Brought(f, i, x) <=> Brought(f, i - 1, x) \/ x = s[i] \/ x \in ToSet(I[s[i]])
      BY <2>6 DEF Brought, I
    <2>8. \A x : x \in ToSet(A[i]) <=> Brought(f, i, x)
      BY <2>2, <2>4, <2>5, <2>7
    <2>9. i \in 0..n
      BY <1>2
    <2>10. QED
      BY <2>4, <2>8, <2>9
  <1>7. \A i \in 0..n : i \in P
    <2> HIDE DEF P
    <2>1. QED
      BY <1>2, <1>5, <1>6, EveryIndex
  <1>8. \A i \in 0..n : A[i] \in Seq(Files) /\ \A x : x \in ToSet(A[i]) <=> Brought(f, i, x)
    BY <1>7
  <1>9. I[f] = A[n]
    BY <1>1, <1>3
  <1> HIDE DEF P
  <1>10. IsPath(A, f)
    BY <1>4, <1>8, <1>9 DEF IsPath, I
  <1>11. QED
    BY <1>10

\* What is below a file: the files it names, and what is below those.
LEMMA IncludedSet ==
  ASSUME NEW f \in Files
  PROVE  \A x : x \in ToSet(includedLessFilenames[f]) <=>
                  \E g \in ToSet(Imports[f]) : x = g \/ x \in ToSet(includedLessFilenames[g])
  <1> DEFINE I == includedLessFilenames
             n == Len(Imports[f])
  <1>1. PICK A : IsPath(A, f)
    BY IncludedPath
  <1>2. /\ n \in Nat /\ n \in 0..n
        /\ ToSet(Imports[f]) = {Imports[f][i] : i \in 1..n}
    BY ImportFacts
  <1>3. \A x : x \in ToSet(I[f]) <=> Brought(f, n, x)
    BY <1>1, <1>2 DEF IsPath
  <1>4. \A x : Brought(f, n, x) <=> \E g \in ToSet(Imports[f]) : x = g \/ x \in ToSet(I[g])
    BY <1>2 DEF Brought
  <1>5. QED
    BY <1>3, <1>4

LEMMA NotBelowItself ==
  ASSUME NEW f \in Files PROVE f \notin ToSet(includedLessFilenames[f])
  <1> DEFINE I == includedLessFilenames
             S == {g \in Files : f \in ToSet(I[g])}
  <1>1. SUFFICES ASSUME f \in S PROVE FALSE
    OBVIOUS
  <1>2. PICK g \in S : ToSet(Imports[g]) \cap S = {}
    <2>1. S \in SUBSET Files /\ S # {}
      BY <1>1
    <2> HIDE DEF S
    <2>2. QED
      BY <2>1, ImportAssumption DEF Files
  <1>3. PICK h \in ToSet(Imports[g]) : f = h \/ f \in ToSet(I[h])
    BY <1>2, IncludedSet
  <1>4. h \in Files
    BY <1>2, <1>3, ImportFacts
  <1>5. h \in S
    BY <1>1, <1>3, <1>4
  <1>6. QED
    BY <1>2, <1>3, <1>5

\* No file is twice below another, and each is behind those it imports.
LEMMA IncludedOrdered ==
  \A f \in Files : Distinct(includedLessFilenames[f]) /\ Ordered(includedLessFilenames[f])
  <1> DEFINE I == includedLessFilenames
             Fine == {f \in Files : Distinct(I[f]) /\ Ordered(I[f])}
  <1>1. ASSUME NEW f \in Files, ToSet(Imports[f]) \subseteq Fine PROVE f \in Fine
    <2> DEFINE s == Imports[f]
               n == Len(s)
    <2>1. PICK A : IsPath(A, f)
      BY IncludedPath
    <2>2. /\ \A i \in 0..n : A[i] \in Seq(Files)
          /\ A[0] = <<>>
          /\ \A i \in 1..n : A[i] = Append(WithNew(A[i - 1], I[s[i]]), s[i])
          /\ I[f] = A[n]
          /\ \A i \in 0..n : \A x : x \in ToSet(A[i]) <=> Brought(f, i, x)
      BY <2>1 DEF IsPath
    <2>3. /\ n \in Nat
          /\ \A i \in 1..n : s[i] \in Files /\ s[i] \in ToSet(s)
      BY ImportFacts
    <2>4. ASSUME NEW i \in 1..n, NEW j \in 1..n, j < i
          PROVE  s[i] # s[j] /\ s[i] \notin ToSet(I[s[j]])
      <3>1. s \in Seq(Files)
        BY ImportFacts
      <3>2. DOMAIN s = 1..n
        BY <3>1
      <3>3. QED
        BY <2>4, <3>2, ImportAssumption DEF Files
    <2> DEFINE P == {i \in 0..n : Distinct(A[i]) /\ Ordered(A[i])}
    <2>5. 0 \in P
      <3>1. A[0] = <<>> /\ Len(A[0]) = 0 /\ 0 \in 0..n
        BY <2>2, <2>3
      <3>2. QED
        BY <3>1 DEF Distinct, Ordered
    <2>6. ASSUME NEW i \in 1..n, i - 1 \in P PROVE i \in P
      <3> DEFINE g == s[i]
                 W == WithNew(A[i - 1], I[g])
      <3>1. g \in Files /\ i - 1 \in 0..n /\ i \in 0..n
        BY <2>3
      <3>2. A[i - 1] \in Seq(Files) /\ Distinct(A[i - 1]) /\ Ordered(A[i - 1])
        BY <2>2, <2>6, <3>1
      <3>3. I[g] \in Seq(Files) /\ Ordered(I[g])
        BY <1>1, <2>3, <3>1, Included
      <3>4. /\ W \in Seq(Files) /\ ToSet(W) = ToSet(A[i - 1]) \cup ToSet(I[g])
            /\ Distinct(W) /\ Ordered(W)
        BY <3>2, <3>3, WithNewFacts
      <3>5. g \notin ToSet(A[i - 1])
        <4>1. SUFFICES ASSUME Brought(f, i - 1, g) PROVE FALSE
          BY <2>2, <3>1
        <4>2. PICK j \in 1..i - 1 : g = s[j] \/ g \in ToSet(I[s[j]])
          BY <4>1 DEF Brought
        <4>3. j \in 1..n /\ j < i
          BY <2>3, <4>2
        <4>4. QED
          BY <2>4, <4>2, <4>3
      <3>6. g \notin ToSet(W)
        BY <3>1, <3>4, <3>5, NotBelowItself
      <3>7. ToSet(Imports[g]) \subseteq ToSet(W)
        BY <3>1, <3>4, IncludedSet
      <3>8. A[i] = Append(W, g)
        BY <2>2
      <3> HIDE DEF W, g
      <3>9. Distinct(A[i]) /\ Ordered(A[i])
        BY <3>1, <3>4, <3>6, <3>7, <3>8, AppendOrdered
      <3>10. QED
        BY <3>1, <3>9
    <2>7. \A i \in 0..n : i \in P
      <3> HIDE DEF P
      <3>1. QED
        BY <2>3, <2>5, <2>6, EveryIndex
    <2>8. n \in 0..n
      BY <2>3
    <2>9. Distinct(I[f]) /\ Ordered(I[f])
      BY <2>2, <2>7, <2>8
    <2>10. QED
      BY <2>9
  <1>2. \A f \in Files : f \in Fine
    <2> HIDE DEF Fine
    <2>1. QED
      BY <1>1, EveryFile
  <1>3. QED
    BY <1>2

-----------------------------------------------------------------------------
(* The sources put together from them.                                     *)

Lines == Files \cup {CustomLess}

\* What SourceInOrder says of imports, and of the user's lines.
AfterImports(s) ==
  \A i, j \in 2..Len(s) : s[i] # CustomLess /\ s[j] \in ToSet(Imports[s[i]]) => j < i
Followed(s) ==
  \A i \in DOMAIN s : s[i] = VariablesLess => i < Len(s) /\ s[i + 1] = CustomLess

\* A source for f some way along, the names in U passed.
Source(s, f, U) ==
  /\ s \in Seq(Lines) /\ Len(s) >= 1 /\ s[1] = f
  /\ Distinct(s) /\ AfterImports(s)
  /\ ToSet(s) \subseteq U \cup {f, CustomLess}

LEMMA LineFacts ==
  /\ CustomLess \notin Files /\ BootstrapLess \in Files /\ ThemeLess \in Files
  /\ VariablesLess \in Files \ {BootstrapLess, ThemeLess}
  /\ BootstrapLess \notin LessBoxes
  /\ LessBoxes \subseteq ToSet(includedLessFilenames[BootstrapLess])
  /\ \A f \in Files : /\ ToSet(Imports[f]) \subseteq Files
                      /\ f \in Lines /\ CustomLess \notin ToSet(Imports[f])
  /\ CustomLess \in Lines
  <1>1. CustomLess \notin Files
    BY ImportAssumption DEF Files
  <1>2. QED
    BY <1>1, ImportAssumption, ImportFacts DEF Files, Lines

\* A file behind a source, those it imports passed before.
LEMMA AddFile ==
  ASSUME NEW f \in Files, NEW U \in SUBSET Files, NEW s, Source(s, f, U),
         NEW g \in Files, g \notin U, g # f, ToSet(Imports[g]) \subseteq U,
         \A h \in U : ToSet(Imports[h]) \subseteq U
  PROVE  Source(Append(s, g), f, U \cup {g})
  <1> DEFINE r == Append(s, g)
             n == Len(s)
  <1>1. /\ s \in Seq(Lines) /\ n >= 1 /\ s[1] = f /\ Distinct(s) /\ AfterImports(s)
        /\ ToSet(s) \subseteq U \cup {f, CustomLess}
    BY DEF Source
  <1>2. g \in Lines /\ g # CustomLess
    BY LineFacts
  <1>3. /\ n \in Nat /\ ToSet(s) = {s[i] : i \in 1..n}
        /\ r \in Seq(Lines) /\ Len(r) = n + 1 /\ r[n + 1] = g
        /\ \A i \in 1..n : r[i] = s[i]
        /\ ToSet(r) = ToSet(s) \cup {g}
    BY <1>1, <1>2, ToSetFacts
  <1> HIDE DEF r, n
  <1>4. 1..n + 1 = 1..n \cup {n + 1} /\ 2..n + 1 = 2..n \cup {n + 1} /\ 2..n \subseteq 1..n
    BY <1>1, <1>3
  <1>5. \A i \in 1..n : s[i] # g
    BY <1>1, <1>2, <1>3
  <1>6. Distinct(r)
    BY <1>1, <1>3, <1>4, <1>5 DEF Distinct, n
  <1>7. ASSUME NEW i \in 2..n + 1, NEW j \in 2..n + 1,
               r[i] # CustomLess, r[j] \in ToSet(Imports[r[i]])
        PROVE  j < i
    <2>1. CASE i = n + 1
      <3>1. j # n + 1
        BY <1>3, <1>7, <2>1
      <3>2. QED
        BY <1>3, <2>1, <3>1
    <2>2. CASE i \in 2..n
      <3>1. r[i] = s[i] /\ s[i] \in ToSet(s) /\ i \in 1..n /\ 1 \in 1..n /\ i # 1
        BY <1>1, <1>3, <1>4, <2>2
      <3>2. s[i] # f
        BY <1>1, <3>1 DEF Distinct, n
      <3>3. s[i] \in U
        BY <1>1, <1>7, <3>1, <3>2
      <3>4. r[j] # g
        BY <1>7, <3>1, <3>3
      <3>5. j \in 2..n /\ r[j] = s[j]
        BY <1>3, <1>4, <3>4
      <3>6. QED
        BY <1>1, <1>7, <2>2, <3>1, <3>5 DEF AfterImports, n
    <2>3. QED
      BY <1>4, <2>1, <2>2
  <1>8. AfterImports(r)
    BY <1>3, <1>7 DEF AfterImports
  <1>9. 1 \in 1..n /\ r[1] = f /\ Len(r) >= 1
    BY <1>1, <1>3
  <1>10. ToSet(r) \subseteq (U \cup {g}) \cup {f, CustomLess}
    BY <1>1, <1>3
  <1>11. Source(r, f, U \cup {g})
    BY <1>3, <1>6, <1>8, <1>9, <1>10 DEF Source
  <1>12. QED
    BY <1>11 DEF r

\* The user's lines behind a source without them.
LEMMA AddCustom ==
  ASSUME NEW f \in Files, NEW U \in SUBSET Files, NEW s, Source(s, f, U),
         CustomLess \notin ToSet(s)
  PROVE  Source(Append(s, CustomLess), f, U)
  <1> DEFINE r == Append(s, CustomLess)
             n == Len(s)
  <1>1. /\ s \in Seq(Lines) /\ n >= 1 /\ s[1] = f /\ Distinct(s) /\ AfterImports(s)
        /\ ToSet(s) \subseteq U \cup {f, CustomLess}
    BY DEF Source
  <1>2. CustomLess \in Lines
    BY LineFacts
  <1>3. /\ n \in Nat /\ ToSet(s) = {s[i] : i \in 1..n}
        /\ r \in Seq(Lines) /\ Len(r) = n + 1 /\ r[n + 1] = CustomLess
        /\ \A i \in 1..n : r[i] = s[i]
        /\ ToSet(r) = ToSet(s) \cup {CustomLess}
    BY <1>1, <1>2, ToSetFacts
  <1> HIDE DEF r, n
  <1>4. 1..n + 1 = 1..n \cup {n + 1} /\ 2..n + 1 = 2..n \cup {n + 1} /\ 2..n \subseteq 1..n
    BY <1>1, <1>3
  <1>5. \A i \in 1..n : s[i] # CustomLess /\ s[i] \in Files
    BY <1>1, <1>3
  <1>6. Distinct(r)
    BY <1>1, <1>3, <1>4, <1>5 DEF Distinct, n
  <1>7. ASSUME NEW i \in 2..n + 1, NEW j \in 2..n + 1,
               r[i] # CustomLess, r[j] \in ToSet(Imports[r[i]])
        PROVE  j < i
    <2>1. i \in 2..n /\ r[i] = s[i] /\ s[i] \in Files
      BY <1>3, <1>4, <1>5, <1>7
    <2>2. r[j] # CustomLess
      BY <1>7, <2>1, LineFacts
    <2>3. j \in 2..n /\ r[j] = s[j]
      BY <1>3, <1>4, <2>2
    <2>4. QED
      BY <1>1, <1>7, <2>1, <2>3 DEF AfterImports, n
  <1>8. AfterImports(r)
    BY <1>3, <1>7 DEF AfterImports
  <1>9. 1 \in 1..n /\ r[1] = f /\ Len(r) >= 1
    BY <1>1, <1>3
  <1>10. ToSet(r) \subseteq U \cup {f, CustomLess}
    BY <1>1, <1>3
  <1>11. Source(r, f, U)
    BY <1>3, <1>6, <1>8, <1>9, <1>10 DEF Source
  <1>12. QED
    BY <1>11 DEF r

\* The user's lines stay right behind the defaults whatever else follows.
LEMMA FollowedAppend ==
  ASSUME NEW s \in Seq(Lines), NEW x \in Lines
  PROVE  /\ Followed(s) /\ x # VariablesLess => Followed(Append(s, x))
         /\ Followed(s) => Followed(Append(Append(s, x), CustomLess))
  <1> DEFINE n == Len(s)
             r == Append(s, x)
             t == Append(r, CustomLess)
  <1>1. CustomLess \in Lines
    BY LineFacts
  <1>2. /\ n \in Nat /\ DOMAIN s = 1..n
        /\ r \in Seq(Lines) /\ Len(r) = n + 1 /\ r[n + 1] = x /\ \A i \in 1..n : r[i] = s[i]
    BY ToSetFacts
  <1> HIDE DEF r
  <1>3. /\ DOMAIN r = 1..n + 1
        /\ t \in Seq(Lines) /\ Len(t) = n + 2 /\ t[n + 2] = CustomLess
        /\ \A i \in 1..n + 1 : t[i] = r[i]
    <2>1. /\ DOMAIN r = 1..Len(r)
          /\ t \in Seq(Lines) /\ Len(t) = Len(r) + 1 /\ t[Len(r) + 1] = CustomLess
          /\ \A i \in 1..Len(r) : t[i] = r[i]
      BY <1>1, <1>2, ToSetFacts
    <2>2. Len(r) + 1 = n + 2
      BY <1>2
    <2>3. QED
      BY <1>2, <2>1, <2>2
  <1> HIDE DEF t, n
  <1>4. DOMAIN t = 1..n + 2
    BY <1>3
  <1>5. ASSUME Followed(s), NEW i \in 1..n, s[i] = VariablesLess
        PROVE  i < n /\ i + 1 \in 1..n /\ s[i + 1] = CustomLess
    <2>1. i < n /\ s[i + 1] = CustomLess
      BY <1>2, <1>5 DEF Followed, n
    <2>2. QED
      BY <1>2, <2>1
  <1>6. ASSUME Followed(s), x # VariablesLess PROVE Followed(r)
    <2>1. ASSUME NEW i \in 1..n + 1, r[i] = VariablesLess
          PROVE  i < n + 1 /\ r[i + 1] = CustomLess
      <3>1. i \in 1..n /\ s[i] = VariablesLess
        BY <1>2, <1>6, <2>1
      <3>2. i < n /\ i + 1 \in 1..n /\ s[i + 1] = CustomLess
        BY <1>5, <1>6, <3>1
      <3>3. QED
        BY <1>2, <3>2
    <2>2. QED
      BY <1>2, <1>3, <2>1 DEF Followed
  <1>7. ASSUME Followed(s) PROVE Followed(t)
    <2>1. ASSUME NEW i \in 1..n + 2, t[i] = VariablesLess
          PROVE  i < n + 2 /\ t[i + 1] = CustomLess
      <3>1. CASE i \in 1..n
        <4>1. s[i] = VariablesLess
          BY <1>2, <1>3, <2>1, <3>1
        <4>2. i < n /\ i + 1 \in 1..n /\ s[i + 1] = CustomLess
          BY <1>5, <1>7, <3>1, <4>1
        <4>3. i + 1 \in 1..n + 1 /\ t[i + 1] = s[i + 1]
          BY <1>2, <1>3, <4>2
        <4>4. QED
          BY <1>2, <4>2, <4>3
      <3>2. CASE i = n + 1
        BY <1>2, <1>3, <3>2
      <3>3. CASE i = n + 2
        <4>1. VariablesLess = CustomLess
          BY <1>3, <2>1, <3>3
        <4>2. QED
          BY <4>1, LineFacts
      <3>4. QED
        BY <1>2, <3>1, <3>2, <3>3
    <2>2. QED
      BY <1>3, <1>4, <2>1 DEF Followed
  <1>8. QED
    BY <1>6, <1>7 DEF r, t

\* What one name adds to a source.
Adds(g, boxes) == (IF g \in LessBoxes \ boxes THEN {} ELSE {g})
                    \cup (IF g = VariablesLess THEN {CustomLess} ELSE {})

LEMMA GlueEmpty ==
  ASSUME NEW T, NEW s \in Seq(T), NEW x \in T
  PROVE  s \o <<>> = s /\ s \o <<x>> = Append(s, x)
  BY ConcatEmptySeq, AppendIsConcat

\* A source some way along, and the name that is next.
IsNextName(g, s, f, U) ==
  /\ f \in Files /\ U \in SUBSET Files /\ Source(s, f, U) /\ Followed(s)
  /\ g \in Files /\ g \notin U /\ g # f /\ ToSet(Imports[g]) \subseteq U
  /\ \A h \in U : ToSet(Imports[h]) \subseteq U
  /\ CustomLess \in ToSet(s) => VariablesLess \in U

\* One name further: kept or not, with the user's lines behind it or not.
LEMMA OneNameMore ==
  ASSUME NEW g, NEW s, NEW f, NEW U, NEW boxes, IsNextName(g, s, f, U)
  PROVE  /\ Source(s \o Kept(g, boxes) \o CustomLines(g), f, U \cup {g})
         /\ Followed(s \o Kept(g, boxes) \o CustomLines(g))
         /\ ToSet(s \o Kept(g, boxes) \o CustomLines(g)) = ToSet(s) \cup Adds(g, boxes)
  <1>0. /\ f \in Files /\ U \in SUBSET Files /\ Source(s, f, U) /\ Followed(s)
        /\ g \in Files /\ g \notin U /\ g # f /\ ToSet(Imports[g]) \subseteq U
        /\ \A h \in U : ToSet(Imports[h]) \subseteq U
        /\ CustomLess \in ToSet(s) => VariablesLess \in U
    BY DEF IsNextName
  <1> DEFINE m == s \o Kept(g, boxes)
             r == m \o CustomLines(g)
             V == U \cup {g}
  <1>1. s \in Seq(Lines) /\ V \in SUBSET Files /\ g \in Lines /\ CustomLess \in Lines
    BY <1>0, LineFacts DEF Source
  <1>2. Source(s, f, V)
    BY <1>0 DEF Source
  <1>3. Source(Append(s, g), f, V)
    BY <1>0, AddFile
  <1>4. g # CustomLess
    BY <1>0, LineFacts
  <1>5. /\ Append(s, g) \in Seq(Lines) /\ ToSet(Append(s, g)) = ToSet(s) \cup {g}
    BY <1>0, <1>1, ToSetFacts
  <1>6. m = IF g \in LessBoxes \ boxes THEN s ELSE Append(s, g)
    BY <1>0, <1>1, GlueEmpty DEF Kept
  <1>7. Source(m, f, V) /\ m \in Seq(Lines)
    BY <1>0, <1>1, <1>2, <1>3, <1>5, <1>6
  <1>8. ToSet(m) = ToSet(s) \cup (IF g \in LessBoxes \ boxes THEN {} ELSE {g})
    BY <1>5, <1>6
  <1>9. g # VariablesLess => Followed(m)
    BY <1>0, <1>1, <1>6, FollowedAppend
  <1>10. Followed(Append(m, CustomLess))
    <2>1. CASE m = s
      <3>1. CustomLess # VariablesLess
        BY LineFacts
      <3>2. QED
        BY <1>0, <1>1, <2>1, <3>1, FollowedAppend
    <2>2. CASE m = Append(s, g)
      BY <1>0, <1>1, <2>2, FollowedAppend
    <2>3. QED
      BY <1>6, <2>1, <2>2
  <1> HIDE DEF m, V
  <1>11. r = IF g = VariablesLess THEN Append(m, CustomLess) ELSE m
    BY <1>0, <1>1, <1>7, GlueEmpty DEF CustomLines
  <1> HIDE DEF r
  <1>12. CASE g = VariablesLess
    <2>1. CustomLess \notin ToSet(m)
      BY <1>0, <1>4, <1>8, <1>12
    <2>2. Source(Append(m, CustomLess), f, V)
      BY <1>0, <1>1, <1>7, <2>1, AddCustom
    <2>3. ToSet(Append(m, CustomLess)) = ToSet(m) \cup {CustomLess}
      BY <1>0, <1>1, <1>7, ToSetFacts
    <2>4. ToSet(r) = ToSet(s) \cup Adds(g, boxes)
      BY <1>8, <1>11, <1>12, <2>3 DEF Adds
    <2>5. QED
      BY <1>10, <1>11, <1>12, <2>2, <2>4 DEF r, m, V
  <1>13. CASE g # VariablesLess
    <2>1. ToSet(r) = ToSet(s) \cup Adds(g, boxes)
      BY <1>8, <1>11, <1>13 DEF Adds
    <2>2. QED
      BY <1>7, <1>9, <1>11, <1>13, <2>1 DEF r, m, V
  <1>14. QED
    BY <1>12, <1>13

\* The sources generateLESS makes on its way along the files below f.
IsSource(A, f, boxes) ==
  A = [k \in 0..Len(includedLessFilenames[f]) |->
        IF k = 0 THEN <<f>>
        ELSE A[k - 1] \o Kept(includedLessFilenames[f][k], boxes)
                      \o CustomLines(includedLessFilenames[f][k])]

LEMMA GeneratePath ==
  ASSUME NEW f \in Files, NEW boxes
  PROVE  \E A : /\ A[0] = <<f>>
                /\ \A k \in 1..Len(includedLessFilenames[f]) :
                     A[k] = A[k - 1] \o Kept(includedLessFilenames[f][k], boxes)
                                     \o CustomLines(includedLessFilenames[f][k])
                /\ generateLESS(f, boxes) = A[Len(includedLessFilenames[f])]
  <1> DEFINE names == includedLessFilenames[f]
             n == Len(names)
             op == [s \in Seq(Lines) |-> [g \in Files |-> s \o Kept(g, boxes) \o CustomLines(g)]]
             E(A, k) == IF k = 0 THEN <<f>>
                        ELSE A[k - 1] \o Kept(names[k], boxes) \o CustomLines(names[k])
  <1>1. names \in Seq(Files) /\ n \in Nat
    BY Included
  <1>2. \A k \in 1..n : names[k] \in Files
    BY <1>1
  <1>3. ASSUME NEW s \in Seq(Lines), NEW g \in Files
        PROVE  s \o Kept(g, boxes) \o CustomLines(g) \in Seq(Lines)
    <2>1. Kept(g, boxes) \in Seq(Lines) /\ CustomLines(g) \in Seq(Lines)
      BY LineFacts DEF Kept, CustomLines
    <2>2. QED
      BY <2>1
  <1>4. op \in [Seq(Lines) -> [Files -> Seq(Lines)]]
    BY <1>3
  <1>5. \A s \in Seq(Lines), g \in Files : op[s][g] = s \o Kept(g, boxes) \o CustomLines(g)
    OBVIOUS
  <1> HIDE DEF op, names
  <1>6. PICK A : Folds(A, Seq(Lines), <<f>>, op, names)
    <2> DEFINE e == <<f>>
    <2>1. e \in Seq(Lines)
      BY LineFacts
    <2> HIDE DEF e
    <2>2. \E A : Folds(A, Seq(Lines), e, op, names)
      BY <1>1, <1>4, <2>1, FoldExists
    <2>3. QED
      BY <2>2 DEF e
  <1>7. /\ A \in [0..n -> Seq(Lines)]
        /\ A[0] = <<f>> /\ \A k \in 1..n : A[k] = op[A[k - 1]][names[k]]
    BY <1>6 DEF Folds
  <1>8. ASSUME NEW k \in 0..n PROVE A[k] = E(A, k)
    <2>1. CASE k = 0
      BY <1>7, <2>1
    <2>2. CASE k # 0
      <3>1. k \in 1..n /\ k - 1 \in 0..n
        BY <1>1, <2>2
      <3>2. A[k - 1] \in Seq(Lines) /\ names[k] \in Files
        BY <1>2, <1>7, <3>1
      <3>3. A[k] = op[A[k - 1]][names[k]]
        BY <1>7, <3>1
      <3>4. QED
        BY <1>5, <2>2, <3>2, <3>3
    <2>3. QED
      BY <2>1, <2>2
  <1>9. A = [k \in 0..n |-> E(A, k)]
    <2> HIDE DEF E
    <2>1. QED
      BY <1>7, <1>8
  <1>10. IsSource(A, f, boxes)
    BY <1>9 DEF IsSource, names
  <1>11. generateLESS(f, boxes) = (CHOOSE B : IsSource(B, f, boxes))[n]
    BY DEF generateLESS, IsSource, names
  <1>12. PICK B : IsSource(B, f, boxes) /\ generateLESS(f, boxes) = B[n]
    BY <1>10, <1>11
  <1>13. B = [k \in 0..n |-> E(B, k)]
    BY <1>12 DEF IsSource, names
  <1>14. \A k \in 0..n : B[k] = E(B, k)
    <2> HIDE DEF E, n
    <2>1. QED
      BY <1>13
  <1>15. 0 \in 0..n /\ \A k \in 1..n : k \in 0..n /\ k # 0
    BY <1>1
  <1>16. B[0] = <<f>> /\ \A k \in 1..n : B[k] = B[k - 1] \o Kept(names[k], boxes)
                                                        \o CustomLines(names[k])
    BY <1>14, <1>15
  <1>17. QED
    BY <1>12, <1>16 DEF names

\* Every source is in order, whichever boxes are checked, and holds of the
\* boxes' files those of the checked boxes.
LEMMA Generated ==
  ASSUME NEW f \in Files, f # VariablesLess, NEW boxes
  PROVE  /\ SourceInOrder(generateLESS(f, boxes))
         /\ \A x : x \in ToSet(generateLESS(f, boxes)) <=>
                     x = f \/ \E g \in ToSet(includedLessFilenames[f]) : x \in Adds(g, boxes)
  <1> DEFINE names == includedLessFilenames[f]
             n == Len(names)
             Passed(k) == {names[i] : i \in 1..k}
  <1>1. /\ names \in Seq(Files) /\ n \in Nat /\ Distinct(names) /\ Ordered(names)
        /\ \A k \in 1..n : names[k] \in Files
        /\ ToSet(names) = Passed(n)
    BY Included, IncludedOrdered, ToSetFacts
  <1>2. \A k \in 1..n : names[k] # f
    BY <1>1, NotBelowItself
  <1>3. PICK A : /\ A[0] = <<f>>
                 /\ \A k \in 1..n : A[k] = A[k - 1] \o Kept(names[k], boxes)
                                                    \o CustomLines(names[k])
                 /\ generateLESS(f, boxes) = A[n]
    BY GeneratePath
  <1> HIDE DEF names
  <1> DEFINE P(k) == /\ Source(A[k], f, Passed(k)) /\ Followed(A[k])
                     /\ \A x : x \in ToSet(A[k]) <=> x = f \/ \E g \in Passed(k) : x \in Adds(g, boxes)
             Q == {k \in 0..n : P(k)}
  <1>4. P(0)
    <2> DEFINE s == <<f>>
    <2>1. /\ s \in Seq(Lines) /\ Len(s) = 1 /\ s[1] = f /\ DOMAIN s = {1} /\ Passed(0) = {}
      BY LineFacts
    <2>2. ToSet(s) = {f}
      BY <2>1 DEF ToSet
    <2> HIDE DEF s
    <2>3. Distinct(s) /\ AfterImports(s) /\ Followed(s)
      BY <2>1 DEF Distinct, AfterImports, Followed
    <2>4. Source(s, f, {})
      BY <2>1, <2>2, <2>3 DEF Source
    <2>5. QED
      BY <1>3, <2>1, <2>2, <2>3, <2>4 DEF s
  <1>5. ASSUME NEW k \in 1..n, P(k - 1) PROVE P(k)
    <2> DEFINE g == names[k]
               U == Passed(k - 1)
               s == A[k - 1]
    <2>1. U \in SUBSET Files /\ g \in Files /\ g # f
      BY <1>1, <1>2
    <2>2. g \notin U
      <3>1. ASSUME NEW i \in 1..k - 1, names[i] = g PROVE FALSE
        BY <1>1, <3>1 DEF Distinct
      <3>2. QED
        BY <3>1
    <2>3. ASSUME NEW j \in 1..k PROVE ToSet(Imports[names[j]]) \subseteq U
      <3>1. ASSUME NEW h \in ToSet(Imports[names[j]]) PROVE h \in U
        <4>1. j \in 1..n
          BY <1>1
        <4>2. PICK i \in 1..n : i < j /\ names[i] = h
          BY <1>1, <3>1, <4>1 DEF Ordered
        <4>3. i \in 1..k - 1
          BY <1>1, <4>2
        <4>4. QED
          BY <4>2, <4>3
      <3>2. QED
        BY <3>1
    <2>4. \A h \in U : ToSet(Imports[h]) \subseteq U
      <3>1. \A j \in 1..k - 1 : j \in 1..k
        BY <1>1
      <3>2. QED
        BY <2>3, <3>1
    <2>5. ToSet(Imports[g]) \subseteq U
      <3>1. k \in 1..k
        BY <1>1
      <3>2. QED
        BY <2>3, <3>1
    <2>6. /\ Source(s, f, U) /\ Followed(s)
          /\ \A x : x \in ToSet(s) <=> x = f \/ \E h \in U : x \in Adds(h, boxes)
      BY <1>5
    <2>7. Passed(k) = U \cup {g}
      <3>1. 1..k = 1..k - 1 \cup {k}
        BY <1>1
      <3>2. \A y : y \in Passed(k) <=> y \in U \/ y = g
        BY <3>1
      <3>3. QED
        BY <3>2
    <2>8. A[k] = s \o Kept(g, boxes) \o CustomLines(g)
      BY <1>3
    <2> HIDE DEF g, U, s, Passed
    <2>9. CustomLess \in ToSet(s) => VariablesLess \in U
      <3>1. ASSUME CustomLess \in ToSet(s) PROVE VariablesLess \in U
        <4>1. PICK h \in U : CustomLess \in Adds(h, boxes)
          BY <2>6, <3>1, LineFacts
        <4>2. h # CustomLess
          BY <2>1, <4>1, LineFacts
        <4>3. h = VariablesLess
          BY <4>1, <4>2 DEF Adds
        <4>4. QED
          BY <4>1, <4>3
      <3>2. QED
        BY <3>1
    <2>10. /\ Source(A[k], f, U \cup {g}) /\ Followed(A[k])
           /\ ToSet(A[k]) = ToSet(s) \cup Adds(g, boxes)
      <3>1. Source(s, f, U) /\ Followed(s)
        BY <2>6
      <3> DEFINE r == s \o Kept(g, boxes) \o CustomLines(g)
      <3>2. Source(r, f, U \cup {g}) /\ Followed(r) /\ ToSet(r) = ToSet(s) \cup Adds(g, boxes)
        <4>1. IsNextName(g, s, f, U)
          BY <2>1, <2>2, <2>4, <2>5, <2>9, <3>1 DEF IsNextName
        <4>2. QED
          BY <4>1, OneNameMore
      <3>3. A[k] = r
        BY <2>8
      <3> HIDE DEF r
      <3>4. QED
        BY <3>2, <3>3
    <2>11. \A x : x \in ToSet(A[k]) <=> x = f \/ \E h \in Passed(k) : x \in Adds(h, boxes)
      BY <2>6, <2>7, <2>10
    <2>12. QED
      BY <2>7, <2>10, <2>11
  <1> HIDE DEF P
  <1>6. \A k \in 0..n : k \in Q
    <2>1. 0 \in Q
      BY <1>1, <1>4
    <2>2. \A k \in 1..n : k - 1 \in Q => k \in Q
      BY <1>1, <1>5
    <2> HIDE DEF Q
    <2>3. QED
      BY <1>1, <2>1, <2>2, EveryIndex
  <1>7. P(n)
    <2>1. n \in 0..n
      BY <1>1
    <2>2. QED
      BY <1>6, <2>1
  <1>8. SourceInOrder(A[n])
    <2> DEFINE s == A[n]
    <2>1. s \in Seq(Lines) /\ Distinct(s) /\ AfterImports(s) /\ Followed(s)
      BY <1>7 DEF P, Source
    <2> HIDE DEF s
    <2>2. DOMAIN s = 1..Len(s)
      BY <2>1
    <2>3. SourceInOrder(s)
      BY <2>1, <2>2 DEF SourceInOrder, Distinct, AfterImports, Followed
    <2>4. QED
      BY <2>3 DEF s
  <1>9. \A x : x \in ToSet(A[n]) <=> x = f \/ \E g \in ToSet(names) : x \in Adds(g, boxes)
    BY <1>1, <1>7 DEF P
  <1>10. QED
    BY <1>3, <1>8, <1>9 DEF names

\* Of the files with boxes the source of Bootstrap holds those of the checked ones.
LEMMA BoxesInSource ==
  ASSUME NEW boxes \in SUBSET LessBoxes
  PROVE  ToSet(generateLESS(BootstrapLess, boxes)) \cap LessBoxes = boxes
  <1> DEFINE names == ToSet(includedLessFilenames[BootstrapLess])
             source == ToSet(generateLESS(BootstrapLess, boxes))
  <1>1. /\ BootstrapLess \in Files /\ BootstrapLess # VariablesLess
        /\ BootstrapLess \notin LessBoxes /\ LessBoxes \subseteq names
    BY LineFacts
  <1>2. \A x : x \in source <=> x = BootstrapLess \/ \E g \in names : x \in Adds(g, boxes)
    BY <1>1, Generated
  <1>3. names \subseteq Files /\ CustomLess \notin Files
    BY <1>1, Included, ToSetFacts, LineFacts
  <1> HIDE DEF names, source
  <1>4. ASSUME NEW x \in source, x \in LessBoxes PROVE x \in boxes
    <2>1. PICK g \in names : x \in Adds(g, boxes)
      BY <1>1, <1>2, <1>4
    <2>2. x # CustomLess
      BY <1>1, <1>3, <1>4
    <2>3. QED
      BY <1>4, <2>1, <2>2 DEF Adds
  <1>5. ASSUME NEW x \in boxes PROVE x \in source
    <2>1. x \in names /\ x \in Adds(x, boxes)
      BY <1>1 DEF Adds
    <2>2. QED
      BY <1>2, <2>1
  <1>6. QED
    BY <1>4, <1>5 DEF source

\* The equation of generateJS.
IsScript(A, plugins) ==
  A = [k \in 0..Len(PluginOrder) |->
        IF k = 0 THEN <<>>
        ELSE IF PluginOrder[k] \in plugins THEN Append(A[k - 1], PluginOrder[k]) ELSE A[k - 1]]

LEMMA ScriptFacts ==
  ASSUME NEW plugins \in SUBSET PluginBoxes
  PROVE  /\ \E A : IsScript(A, plugins)
         /\ \A A : IsScript(A, plugins) => ToSet(A[Len(PluginOrder)]) = plugins
  <1> DEFINE n == Len(PluginOrder)
             Passed(k) == {PluginOrder[i] : i \in 1..k}
             op == [s \in Seq(PluginBoxes) |-> [p \in PluginBoxes |->
                     IF p \in plugins THEN Append(s, p) ELSE s]]
             E(A, k) == IF k = 0 THEN <<>>
                        ELSE IF PluginOrder[k] \in plugins
                             THEN Append(A[k - 1], PluginOrder[k]) ELSE A[k - 1]
  <1>1. /\ PluginOrder \in Seq(PluginBoxes) /\ n \in Nat
        /\ \A k \in 1..n : PluginOrder[k] \in PluginBoxes
        /\ plugins \subseteq Passed(n)
    <2>1. PluginOrder \in Seq(PluginBoxes) /\ PluginBoxes \subseteq ToSet(PluginOrder)
      BY BoxAssumption
    <2>2. n \in Nat /\ ToSet(PluginOrder) = Passed(n)
      BY <2>1, ToSetFacts
    <2>3. QED
      BY <2>1, <2>2
  <1>2. \A s \in Seq(PluginBoxes), p \in PluginBoxes : Append(s, p) \in Seq(PluginBoxes)
    OBVIOUS
  <1>3. op \in [Seq(PluginBoxes) -> [PluginBoxes -> Seq(PluginBoxes)]]
    BY <1>2
  <1>4. \A s \in Seq(PluginBoxes), p \in PluginBoxes :
          op[s][p] = IF p \in plugins THEN Append(s, p) ELSE s
    OBVIOUS
  <1> HIDE DEF op
  <1>5. PICK A : Folds(A, Seq(PluginBoxes), <<>>, op, PluginOrder)
    <2> DEFINE e == <<>>
    <2>1. e \in Seq(PluginBoxes)
      OBVIOUS
    <2> HIDE DEF e
    <2>2. \E A : Folds(A, Seq(PluginBoxes), e, op, PluginOrder)
      BY <1>1, <1>3, <2>1, FoldExists
    <2>3. QED
      BY <2>2 DEF e
  <1>6. /\ A \in [0..n -> Seq(PluginBoxes)]
        /\ A[0] = <<>> /\ \A k \in 1..n : A[k] = op[A[k - 1]][PluginOrder[k]]
    BY <1>5 DEF Folds
  <1>7. ASSUME NEW k \in 0..n PROVE A[k] = E(A, k)
    <2>1. CASE k = 0
      BY <1>6, <2>1
    <2>2. CASE k # 0
      <3>1. k \in 1..n /\ k - 1 \in 0..n
        BY <1>1, <2>2
      <3>2. A[k - 1] \in Seq(PluginBoxes) /\ PluginOrder[k] \in PluginBoxes
        BY <1>1, <1>6, <3>1
      <3>3. A[k] = op[A[k - 1]][PluginOrder[k]]
        BY <1>6, <3>1
      <3>4. QED
        BY <1>4, <2>2, <3>2, <3>3
    <2>3. QED
      BY <2>1, <2>2
  <1>8. A = [k \in 0..n |-> E(A, k)]
    <2> HIDE DEF E
    <2>1. QED
      BY <1>6, <1>7
  <1>9. IsScript(A, plugins)
    BY <1>8 DEF IsScript
  <1>10. ASSUME NEW B, IsScript(B, plugins) PROVE ToSet(B[n]) = plugins
    <2> DEFINE P(k) == B[k] \in Seq(PluginBoxes) /\ ToSet(B[k]) = plugins \cap Passed(k)
               Q == {k \in 0..n : P(k)}
    <2>1. B = [k \in 0..n |-> E(B, k)]
      BY <1>10 DEF IsScript
    <2>2. \A k \in 0..n : B[k] = E(B, k)
      <3> HIDE DEF E, n
      <3>1. QED
        BY <2>1
    <2>3. P(0)
      <3>1. 0 \in 0..n /\ Passed(0) = {}
        BY <1>1
      <3>2. B[0] = <<>>
        BY <2>2, <3>1
      <3>3. B[0] \in Seq(PluginBoxes) /\ ToSet(B[0]) = {}
        BY <3>2 DEF ToSet
      <3>4. QED
        BY <3>1, <3>3
    <2>4. ASSUME NEW k \in 1..n, P(k - 1) PROVE P(k)
      <3>1. k \in 0..n /\ k # 0
        BY <1>1
      <3>2. B[k] = IF PluginOrder[k] \in plugins THEN Append(B[k - 1], PluginOrder[k])
                   ELSE B[k - 1]
        BY <2>2, <3>1
      <3>3. B[k - 1] \in Seq(PluginBoxes) /\ ToSet(B[k - 1]) = plugins \cap Passed(k - 1)
        BY <2>4
      <3>4. PluginOrder[k] \in PluginBoxes
        BY <1>1
      <3>5. \A y : y \in Passed(k) <=> y \in Passed(k - 1) \/ y = PluginOrder[k]
        <4>1. 1..k = 1..k - 1 \cup {k}
          BY <1>1
        <4>2. QED
          BY <4>1
      <3> HIDE DEF Passed
      <3>6. CASE PluginOrder[k] \in plugins
        <4>1. /\ B[k] \in Seq(PluginBoxes)
              /\ ToSet(B[k]) = ToSet(B[k - 1]) \cup {PluginOrder[k]}
          BY <3>2, <3>3, <3>4, <3>6, ToSetFacts
        <4>2. QED
          BY <3>3, <3>5, <3>6, <4>1
      <3>7. CASE PluginOrder[k] \notin plugins
        BY <3>2, <3>3, <3>5, <3>7
      <3>8. QED
        BY <3>6, <3>7
    <2> HIDE DEF P
    <2>5. \A k \in 0..n : k \in Q
      <3>1. 0 \in Q
        BY <1>1, <2>3
      <3>2. \A k \in 1..n : k - 1 \in Q => k \in Q
        BY <1>1, <2>4
      <3> HIDE DEF Q
      <3>3. QED
        BY <1>1, <3>1, <3>2, EveryIndex
    <2>6. P(n)
      <3>1. n \in 0..n
        BY <1>1
      <3>2. QED
        BY <2>5, <3>1
    <2>7. QED
      BY <1>1, <2>6 DEF P
  <1>11. QED
    BY <1>9, <1>10

\* The script holds the chosen plugins.
LEMMA PluginsInScript ==
  ASSUME js \in SUBSET PluginBoxes
  PROVE  ToSet(generateJS) = js
  <1>1. generateJS = (CHOOSE A : IsScript(A, js))[Len(PluginOrder)]
    BY DEF generateJS, IsScript
  <1>2. \E A : IsScript(A, js)
    BY ScriptFacts
  <1>3. \A A : IsScript(A, js) => ToSet(A[Len(PluginOrder)]) = js
    BY ScriptFacts
  <1>4. QED
    BY <1>1, <1>2, <1>3

-----------------------------------------------------------------------------
(* The download.                                                           *)

\* Only a page opened anew takes the download away, and only the answer to a
\* post makes one.
LEMMA ZipStep ==
  ASSUME [Next]_siteVars
  PROVE  zip' = zip \/ zip' = NoZip \/ \E config : zip' = generateZip(config)
  <1>1. ASSUME NEW id, LoadCustomizer(id) PROVE zip' = NoZip
    BY <1>1 DEF LoadCustomizer
  <1>2. ASSUME NEW i, GistAnswered(i) PROVE zip' = zip \/ \E config : zip' = generateZip(config)
    BY <1>2 DEF GistAnswered, Build
  <1>3. CustomizerUser => zip' = zip
    BY DEF CustomizerUser, ClickBox, EnterVar, ToggleLess, TogglePlugins, ResetVars,
           ChangesForm, PickFile, removeImportAlerts, Compile
  <1>4. CustomizerAnswer => zip' = zip \/ \E i : GistAnswered(i)
    BY DEF CustomizerAnswer, BrowserChecked, FileRead, GistFetched
  <1>5. UNCHANGED customizerVars => zip' = zip
    BY DEF customizerVars
  <1>6. QED
    BY <1>1, <1>2, <1>3, <1>4, <1>5
       DEF Next, OpenCustomizer, CloseCustomizer, OpenPage, ClosePage, Theme, Customize, Answer, siteVars

\* Nothing is in order, and whatever boxes are checked both sources are.
LEMMA ZipInOrder ==
  /\ SourceInOrder(<<>>)
  /\ \A config : /\ SourceInOrder(generateZip(config).bootstrap)
                 /\ SourceInOrder(generateZip(config).theme)
  <1>1. SourceInOrder(<<>>)
    BY DEF SourceInOrder
  <1>2. \A boxes : /\ SourceInOrder(generateLESS(BootstrapLess, boxes))
                   /\ SourceInOrder(generateLESS(ThemeLess, boxes))
    BY Generated, LineFacts
  <1> DEFINE b == generateLESS(BootstrapLess, css)
             t == generateLESS(ThemeLess, css)
  <1>3. generateCSS = IF css = {} THEN <<>> ELSE <<b, t>>
    BY DEF generateCSS
  <1>4. SourceInOrder(b) /\ SourceInOrder(t)
    BY <1>2
  <1> HIDE DEF b, t
  <1>5. css # {} => generateCSS # <<>> /\ generateCSS[1] = b /\ generateCSS[2] = t
    BY <1>3
  <1>6. ASSUME NEW config
        PROVE  /\ generateZip(config).bootstrap = IF css = {} THEN <<>> ELSE b
               /\ generateZip(config).theme = IF css = {} THEN <<>> ELSE t
    BY <1>3, <1>5 DEF generateZip
  <1>7. QED
    BY <1>1, <1>4, <1>6

\* Whatever the Less files import and whichever boxes are checked: in both
\* sources of a download no file is twice, each is behind those it imports,
\* and the user's variables are right behind the defaults.
THEOREM LessInOrderHolds == Spec => []LessInOrder
  <1>1. Init => LessInOrder
    BY ZipInOrder DEF Init, CustomizerInit, NoZip, LessInOrder
  <1>2. LessInOrder /\ [Next]_siteVars => LessInOrder'
    <2> SUFFICES ASSUME LessInOrder, [Next]_siteVars PROVE LessInOrder'
      OBVIOUS
    <2>1. CASE zip' = zip
      BY <2>1 DEF LessInOrder, SourceInOrder
    <2>2. CASE zip' = NoZip
      BY <2>2, ZipInOrder DEF LessInOrder, NoZip
    <2>3. CASE \E config : zip' = generateZip(config)
      BY <2>3, ZipInOrder DEF LessInOrder
    <2>4. QED
      BY <2>1, <2>2, <2>3, ZipStep
  <1>3. QED
    BY <1>1, <1>2, PTL DEF Spec

\* If the form is still what was posted at the click, the download is made of
\* what its config.json says: its plugins, its files, its fonts, its variables.
THEOREM DownloadMatchesConfigHolds == Spec => DownloadMatchesConfig
  <1>1. ASSUME IInv, [Next]_siteVars, zip' # zip, zip' # NoZip, getCustomizerData = zip'.config
        PROVE  Describes(zip')
    <2>1. PICK config : zip' = generateZip(config)
      BY <1>1, ZipStep
    <2>2. css \in SUBSET LessBoxes /\ js \in SUBSET PluginBoxes
      BY <1>1 DEF IInv, CustomizerInv, FormInv
    <2> DEFINE b == generateLESS(BootstrapLess, css)
               t == generateLESS(ThemeLess, css)
    <2>3. generateCSS = IF css = {} THEN <<>> ELSE <<b, t>>
      BY DEF generateCSS
    <2>4. ToSet(b) \cap LessBoxes = css
      BY <2>2, BoxesInSource
    <2> HIDE DEF b, t
    <2>5. css # {} => generateCSS # <<>> /\ generateCSS[1] = b
      BY <2>3
    <2>6. /\ zip'.js = generateJS /\ zip'.fonts = (Glyphicons \in css) /\ zip'.config = config
          /\ zip'.bootstrap = (IF css = {} THEN <<>> ELSE b)
          /\ css # {} => zip'.custom = generateCustomLess(vars)
      BY <2>1, <2>3, <2>5 DEF generateZip, generateFonts
    <2>7. zip'.config.css = css /\ zip'.config.js = js /\ zip'.config.vars = vars
      BY <1>1 DEF getCustomizerData
    <2>8. ToSet(zip'.js) = zip'.config.js
      BY <2>2, <2>6, <2>7, PluginsInScript
    <2>9. ToSet(zip'.bootstrap) \cap LessBoxes = zip'.config.css
      <3>1. CASE css = {}
        BY <2>6, <2>7, <3>1 DEF ToSet
      <3>2. CASE css # {}
        BY <2>4, <2>6, <2>7, <3>2
      <3>3. QED
        BY <3>1, <3>2
    <2>10. zip'.fonts <=> Glyphicons \in zip'.config.css
      BY <2>6, <2>7
    <2>11. zip'.config.css # {} => zip'.custom = generateCustomLess(zip'.config.vars)
      BY <2>6, <2>7
    <2>12. QED
      BY <2>8, <2>9, <2>10, <2>11 DEF Describes
  <1>2. IInv /\ [Next]_siteVars =>
          [zip' # zip /\ zip' # NoZip /\ getCustomizerData = zip'.config
             => Describes(zip')]_customizerVars
    BY <1>1
  <1>3. QED
    BY <1>2, InvariantHolds, PTL DEF Spec, DownloadMatchesConfig
=============================================================================
