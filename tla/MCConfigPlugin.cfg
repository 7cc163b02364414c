CONSTANTS
  MaxLines = 8
  MaxVersion = 2
  Podfiles <- IndentedPodfile
  ProjectGradles <- MCProjectGradles
  AppGradles <- MCAppGradles
SPECIFICATION Spec
INVARIANTS
  InjectedOnce
  ChecksumFitsPod
  LandsInBlock
