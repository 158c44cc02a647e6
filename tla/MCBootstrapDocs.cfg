\* One customizer and one other tab, two gists, five acts of the user.
SPECIFICATION Spec
CONSTANTS
  LessBoxes <- LessSet
  PluginBoxes <- PluginSet
  PluginOrder <- PluginsInOrder
  VarNames = {"@gray"}
  VarValues = {"#000", "{"}
  NoValue = ""
  BrokenValues = {"{"}
  Glyphicons = "glyphicons.less"
  VariablesLess = "variables.less"
  BootstrapLess = "bootstrap.less"
  ThemeLess = "theme.less"
  CustomLess = "custom"
  Imports <- MCImports
  DependenciesOf <- MCDependencies
  DependentsOf <- MCDependents
  ConfigFiles <- MCFiles
  BadFile = BadFile
  MaxGists = 2
  Tabs = {"customizer", "other"}
  CustomizerTab = "customizer"
  Browsers <- SomeBrowsers
  MaxActs = 5
INVARIANTS DepsClosed OneBuildAtATime LessInOrder LastClickDecides WarnsOfEmulation
PROPERTIES DownloadMatchesConfig DeadButtonExplained SavedComesBack
\* The user may do nothing more.
CHECK_DEADLOCK FALSE
