CONSTANTS
  Plugins = {p1}
  NoPlugin = NoPlugin
  Repos <- MCOneRepo
  Names <- MCNames
  RepoName <- MCOneRepoName
  ManifestName <- MCOneManifestName
  Requests = {r1}
  Builds = {b1, b2}
  Faults = {"db", "s3", "git", "build", "bpf", "crash"}
SPECIFICATION FairSpec
INVARIANTS TypeOK WaitingHasBuild ArtifactForKey ReadyMeansEnabled RemovalIsComplete
PROPERTIES NoResurrection BuildsConclude
