CONSTANTS
  Plugins <- MCPlugins
  NoPlugin = NoPlugin
  Repos <- MCRepos
  Repo <- MCRepo
  Builds = {b1, b2}
  MaxRev <- MCMaxRev
  MaxBegun = 3
  Dirs <- MCDirs
  CloneDir <- MCCloneDir
  SourceDir <- MCSourceDir
  BuildDir <- MCBuildDir
  Tree <- MCTree
  ManifestDir <- MCManifestDir
  Below <- MCBelow
  NoVersion = NoVersion
  Torn = Torn
SPECIFICATION Spec
INVARIANTS TypeOK AloneIsOneCommit AloneFindsItsFiles RowNamesItsObject 
SYMMETRY Symmetry
CHECK_DEADLOCK FALSE
