-------------------------- MODULE MCBootstrapDocs --------------------------
(* Two components of which one needs the other, three plugins in a chain,  *)
(* one variable with a good and a broken value, two files to import; the   *)
(* oldest and the newest IE as they are and in an older mode, and Opera.   *)
EXTENDS BootstrapDocs

LessSet == {"glyphicons.less", "navs.less"}
PluginsInOrder == <<"tooltip.js", "popover.js", "transition.js">>
PluginSet == ToSet(PluginsInOrder)

MCDependencies ==
  [b \in LessSet \cup PluginSet |->
    CASE b = "popover.js" -> {"tooltip.js", "transition.js"}
      [] b = "tooltip.js" -> {"transition.js"}
      [] b = "navs.less" -> {"glyphicons.less"}
      [] OTHER -> {}]
MCDependents ==
  [b \in LessSet \cup PluginSet |->
    {a \in LessSet \cup PluginSet : b \in MCDependencies[a]}]

MCImports ==
  [f \in LessSet \cup {"bootstrap.less", "theme.less", "variables.less", "mixins.less",
                       "mixins/clearfix.less"} |->
    CASE f = "bootstrap.less" -> <<"variables.less", "mixins.less", "glyphicons.less", "navs.less">>
      [] f = "theme.less" -> <<"variables.less", "mixins.less">>
      [] f = "mixins.less" -> <<"mixins/clearfix.less">>
      [] OTHER -> <<>>]

Config(c, j, x) == [css |-> c, js |-> j, vars |-> [v \in {"@gray"} |-> x]]
MCFiles ==
  {[keys |-> {"css", "js", "vars"}, config |-> Config({"glyphicons.less"}, {"transition.js"}, "#000")],
   [keys |-> {"css", "js"}, config |-> Config({}, {"transition.js", "tooltip.js"}, "")]}

IE(version, mode) == [ie |-> version, mode |-> mode, opera |-> FALSE]
SomeBrowsers == {IE(8, 8), IE(8, 7), IE(11, 11), IE(11, 9), [IE(8, 7) EXCEPT !.opera = TRUE]}
=============================================================================
