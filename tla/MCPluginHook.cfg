CONSTANTS
  MaxLines = 6
  MaxVersion = 1
  Podfiles <- AnyPodfile
  ProjectGradles <- MCProjectGradles
  AppGradles <- MCAppGradles
SPECIFICATION Spec
INVARIANTS
  OnePostInstall
