---------------------------- MODULE ConfigPlugin ----------------------------
(***************************************************************************)
(* The Expo config plugin: what expo prebuild does to the Podfile and to   *)
(* the two Gradle files of an app, over repeated and interrupted prebuilds *)
(* and upgrades of the library.                                            *)
(*                                                                         *)
(* A file is a sequence of lines.  A line is its kind: it opens a block,   *)
(* is an "end", or is neither; what the plugin injects is a line of its    *)
(* own with the version of the library that made it.  Files are indented   *)
(* by two spaces a level, so the indent of an end is known from its depth. *)
(***************************************************************************)
EXTENDS Integers, FiniteSets, SequencesExt

CONSTANTS Podfiles, ProjectGradles, AppGradles, \* the files of an app's template
          MaxVersion                            \* bound of the instance

VARIABLES version,       \* the version of the library that is installed
          podfile, projectGradle, appGradle,
          mods           \* the mods that the prebuild in progress has still to run

files == <<podfile, projectGradle, appGradle>>
vars  == <<version, files, mods>>

Line(kind)          == [kind |-> kind, version |-> 0]
Injected(kind)      == [kind |-> kind, version |-> version]
Includes(f, kind)   == \E i \in DOMAIN f : f[i].kind = kind
Opening             == {"target", "post_install", "do", "allprojects", "subprojects", "repositories",
                        "android", "compileOptions"}
LinesOf(f, kind)    == {i \in DOMAIN f : f[i].kind = kind}
First(S)            == CHOOSE i \in S : \A j \in S : i <= j

\* How many blocks are open after line i.
Depth(f, i) == Cardinality({j \in 1 .. i : f[j].kind \in Opening})
                 - Cardinality({j \in 1 .. i : f[j].kind = "end"})

\* Line i is inside a block of this kind that opens at line o.
Within(f, o, i) == o < i /\ \A j \in o .. i : Depth(f, j) >= Depth(f, o)
Inside(f, kind, i) == \E o \in LinesOf(f, kind) : Within(f, o, i)

\* Line i is the last one in it: the end that follows closes the block.
LastInside(f, kind, i) ==
  \E o \in LinesOf(f, kind) : Within(f, o, i) /\ ~Within(f, o, i + 1)

WellFormed(f) ==
  /\ \A i \in DOMAIN f : Depth(f, i) >= 0
  /\ f # <<>> => Depth(f, Len(f)) = 0

\* The templates are whole files that the plugin has not written to.
Plain == Opening \cup {"end", "line"}
Templates == Podfiles \cup ProjectGradles \cup AppGradles

ASSUME PluginAssumption ==
  \A f \in Templates : f \in Seq({Line(kind) : kind \in Plain}) /\ WellFormed(f)

-----------------------------------------------------------------------------
\* The Podfile.

\* Mutant: the checksum follows the library.
InjectChecksumAgain(f) ==
  IF Includes(f, "checksum")
  THEN [i \in DOMAIN f |-> IF f[i].kind = "checksum" THEN Injected("checksum") ELSE f[i]]
  ELSE <<Injected("checksum")>> \o f

InjectChecksum(f) ==
  IF Includes(f, "checksum") THEN f ELSE <<Injected("checksum")>> \o f

\* Mutant: the marker is looked for with its version.
InjectPodLineOfVersion(f) ==
  LET targets == {i \in LinesOf(f, "target") : Depth(f, i) = 1}
  IN  IF \E i \in LinesOf(f, "pod") : f[i].version = version THEN f
      ELSE IF targets = {} THEN Append(f, Injected("pod"))
      ELSE InsertAt(f, First(targets), Injected("pod"))

\* Before the first target that begins a line, or else at the end.
InjectPodLine(f) ==
  LET targets == {i \in LinesOf(f, "target") : Depth(f, i) = 1}
  IN  IF Includes(f, "pod") THEN f
      ELSE IF targets = {} THEN Append(f, Injected("pod"))
      ELSE InsertAt(f, First(targets), Injected("pod"))

\* What blockRegex matches last: the first end, two to four spaces in, after post_install.
BlockEnds(f) ==
  {i \in LinesOf(f, "end") : /\ 2 * Depth(f, i) \in 2 .. 4
                             /\ \E o \in LinesOf(f, "post_install") : o < i}

\* Mutant: the hook goes after that end.
InjectLdflagsHookAfter(f) ==
  IF Includes(f, "ldflags") THEN f
  ELSE IF BlockEnds(f) = {}
       THEN f \o <<Line("post_install"), Injected("ldflags"), Line("end")>>
       ELSE InsertAt(f, First(BlockEnds(f)) + 1, Injected("ldflags"))

\* Before that end; a file without one gets a block of its own.
InjectLdflagsHook(f) ==
  IF Includes(f, "ldflags") THEN f
  ELSE IF BlockEnds(f) = {}
       THEN f \o <<Line("post_install"), Injected("ldflags"), Line("end")>>
       ELSE InsertAt(f, First(BlockEnds(f)), Injected("ldflags"))

\* The three are applied to what was read, and the file is written once.
WithLibsignalPodfile ==
  /\ "podfile" \in mods
  /\ podfile' = InjectLdflagsHook(InjectPodLine(InjectChecksum(podfile)))
  /\ mods' = mods \ {"podfile"}
  /\ UNCHANGED <<version, projectGradle, appGradle>>

-----------------------------------------------------------------------------
\* The Gradle files.

\* Repositories that open after an allprojects.
Openers(f) ==
  {i \in LinesOf(f, "repositories") : \E o \in LinesOf(f, "allprojects") : o < i}

\* Inside the first of them; a file without them stays as it is.
InjectSignalMaven(f) ==
  IF Includes(f, "maven") \/ Openers(f) = {} THEN f
  ELSE InsertAt(f, First(Openers(f)) + 1, Injected("maven"))

WithLibsignalGradle ==
  /\ "project" \in mods
  /\ projectGradle' = InjectSignalMaven(projectGradle)
  /\ mods' = mods \ {"project"}
  /\ UNCHANGED <<version, podfile, appGradle>>

\* android\s*\{[\s\S]*?compileOptions\s*\{ matches.
HasOptions(f) == \E a \in LinesOf(f, "android"), o \in LinesOf(f, "compileOptions") : a < o

\* In compileOptions if android has one, else in a block that is made for it.
CompileOptions(f) ==
  LET a == First(LinesOf(f, "android"))
  IN  IF HasOptions(f)
      THEN InsertAt(f, First(LinesOf(f, "compileOptions")) + 1, Injected("desugaring"))
      ELSE IF LinesOf(f, "android") = {} THEN f
      ELSE SubSeq(f, 1, a) \o <<Line("compileOptions"), Injected("desugaring"), Line("end")>>
             \o SubSeq(f, a + 1, Len(f))

\* And the dependency at the end.
InjectAppDesugaring(f) ==
  IF Includes(f, "desugaring") \/ Includes(f, "dependency") THEN f
  ELSE Append(CompileOptions(f), Injected("dependency"))

WithLibsignalAppGradle ==
  /\ "app" \in mods
  /\ appGradle' = InjectAppDesugaring(appGradle)
  /\ mods' = mods \ {"app"}
  /\ UNCHANGED <<version, podfile, projectGradle>>

-----------------------------------------------------------------------------
Init ==
  /\ version = 1 /\ mods = {}
  /\ podfile \in Podfiles /\ projectGradle \in ProjectGradles /\ appGradle \in AppGradles

\* expo prebuild, on the files as they are.
WithExpoLibsignal == mods = {} /\ mods' = {"podfile", "project", "app"} /\ UNCHANGED <<version, files>>

\* A mod of this or another plugin throws: the files written so far stay.
Aborted == mods # {} /\ mods' = {} /\ UNCHANGED <<version, files>>

Upgrade ==
  /\ mods = {} /\ version < MaxVersion
  /\ version' = version + 1
  /\ UNCHANGED <<files, mods>>

Next ==
  \/ WithExpoLibsignal \/ WithLibsignalPodfile \/ WithLibsignalGradle \/ WithLibsignalAppGradle
  \/ Aborted \/ Upgrade

Spec == Init /\ [][Next]_vars

-----------------------------------------------------------------------------
\* Nothing is injected twice, by however many prebuilds of whatever versions: the check for
\* a marker survives what the plugin itself has written.
InjectedOnce ==
  /\ \A kind \in {"checksum", "pod", "ldflags"} : Cardinality(LinesOf(podfile, kind)) <= 1
  /\ Cardinality(LinesOf(projectGradle, "maven")) <= 1
  /\ \A kind \in {"desugaring", "dependency"} : Cardinality(LinesOf(appGradle, kind)) <= 1

\* The checksum in a Podfile is that of the pod it names, and is set before it, also after
\* an upgrade without a clean prebuild: either both lines follow the library or neither.
\* (The pin of the podspec does not stay with them: it follows the library at once.)
ChecksumFitsPod ==
  \A i \in LinesOf(podfile, "pod") : \E j \in LinesOf(podfile, "checksum") :
    j < i /\ podfile[j].version = podfile[i].version

\* What is injected lands in the block that gives it its meaning, and the files stay well
\* formed: the hook in post_install itself, "just before its closing `end`"
\* (plugin/src/index.ts:80), the repository in allprojects, the options in android.
LandsInBlock ==
  /\ WellFormed(podfile) /\ WellFormed(projectGradle) /\ WellFormed(appGradle)
  /\ \A i \in LinesOf(podfile, "ldflags") : LastInside(podfile, "post_install", i)
  /\ \A i \in LinesOf(projectGradle, "maven") : Inside(projectGradle, "allprojects", i)
  /\ \A i \in LinesOf(appGradle, "desugaring") :
       Inside(appGradle, "android", i) /\ Inside(appGradle, "compileOptions", i)

-----------------------------------------------------------------------------
(* The inductive invariant of the first two properties, and what the third needs *)

\* A file is the template, or has every line that its mod injects: each mod reads and
\* writes its file once, and Podfile and app/build.gradle get theirs together.
PluginInv ==
  /\ version \in Nat
  /\ podfile \in Podfiles \/ \A kind \in {"checksum", "pod", "ldflags"} : Includes(podfile, kind)
  /\ projectGradle \in ProjectGradles \/ Includes(projectGradle, "maven")
  /\ appGradle \in AppGradles \/ Includes(appGradle, "dependency")
  /\ InjectedOnce
  /\ ChecksumFitsPod

\* post_install is in a target, or in a target of a target, and no block in it ends two to
\* four spaces in: in a target, it has no block at all.
Spliceable(f) ==
  \A o \in LinesOf(f, "post_install") :
    /\ Depth(f, o) \in {2, 3}
    /\ \A i \in LinesOf(f, "end") : Within(f, o, i) => Depth(f, i) > 2

\* Templates in which what the regular expressions find is what they are meant to find: the
\* end of post_install, the repositories of allprojects, the compile options of android.
NestedTemplates ==
  /\ \A f \in Podfiles : Spliceable(f)
  /\ \A f \in ProjectGradles : Openers(f) # {} => Inside(f, "allprojects", First(Openers(f)))
  /\ \A f \in AppGradles : HasOptions(f) =>
       Inside(f, "android", First(LinesOf(f, "compileOptions")))

-----------------------------------------------------------------------------
\* "We splice into the existing post_install instead of creating a second one"
\* (plugin/src/index.ts:38).
OnePostInstall == Cardinality(LinesOf(podfile, "post_install")) <= 1
=============================================================================
