CONSTANTS
  Plugins = {p1}
  NoPlugin = NoPlugin
  Repos <- MCOneRepo
  Names <- MCNames
  RepoName <- MCOneRepoName
  ManifestName <- MCOneManifestName
  Requests = {r1}
  Builds = {b1}
  Faults = {}
SPECIFICATION Spec
INVARIANT DeletedFromBoth
