--------------------------- MODULE MCConfigPlugin ---------------------------
\* Templates for the config plugin, of the form that Expo and React Native give them.
EXTENDS MCPluginHook

\* post_install is in a target, or in a target of a target, and has no block whose end
\* could be taken for its own.
IndentedPodfile == {f \in AnyPodfile : Spliceable(f)}

\* What PluginLandsInBlock assumes of the templates is so of these.
ASSUME NestedAssumption == NestedTemplates
=============================================================================
