CONSTANTS
  Plugins = {p1, p2}
  NoPlugin = NoPlugin
  Repos <- MCRepos
  Names <- MCNames
  RepoName <- MCRepoName
  ManifestName <- MCManifestName
  Requests = {r1}
  Builds = {b1, b2}
  Faults = {}
SPECIFICATION Spec
SYMMETRY Symmetry
INVARIANT UniqueNames
PROPERTY ImplementsRegistry
