---------------------------- MODULE MCPluginHook ----------------------------
\* Templates for the config plugin: a Podfile of any form.
EXTENDS ConfigPlugin

CONSTANT MaxLines   \* the length of a Podfile

Lines(kinds) == [i \in DOMAIN kinds |-> Line(kinds[i])]

\* Every Podfile with at most one post_install.
AnyPodfile ==
  {f \in {Lines(k) : k \in SeqOf({"target", "post_install", "do", "end"}, MaxLines)} :
     WellFormed(f) /\ Cardinality(LinesOf(f, "post_install")) <= 1}

\* allprojects has repositories, after those of the build script, or is not there.
MCProjectGradles ==
  {Lines(<<"do", "repositories", "end", "end">> \o rest) :
     rest \in {<<>>, <<"allprojects", "repositories", "line", "end", "end">>,
               <<"allprojects", "do", "end", "repositories", "end", "end", "do", "end">>}}

\* The Android block has compile options of its own or not.
MCAppGradles ==
  {Lines(<<"android", "do", "end">> \o options \o <<"end", "do", "end">>) :
     options \in {<<>>, <<"compileOptions", "line", "end">>}}

\* "just before its closing `end`" (plugin/src/index.ts:80 and :93) is not where the hook
\* goes when post_install has a block that ends four spaces in, as a loop in one of a target
\* does: the end that blockRegex stops at is the loop's, and the hook becomes part of it.
LoopPodfile == Lines(<<"target", "post_install", "do", "line", "end", "end", "end">>)
ASSUME LoopTakesHook ==
  LET end == First(BlockEnds(LoopPodfile))
  IN  Within(LoopPodfile, 3, end - 1) /\ ~Within(LoopPodfile, 3, end) /\ Within(LoopPodfile, 2, end)
=============================================================================
