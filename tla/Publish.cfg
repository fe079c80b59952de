SPECIFICATION Spec
CONSTANTS
    s1 = s1
    s2 = s2
    NoImage = NoImage
    Commits <- MCCommits
    Short <- MCSharedShort
    Arches = {amd64, arm64}
    Versions = {v1}
    MaxBuilds = 2
    MaxFailures = 1
INVARIANTS
    TypeOK
    TagsAreGated
    VersionIsItsCommit
    CompleteRelease
PROPERTIES
    DeliveryPromise
    EveryVersionIsPromoted
    LatestCatchesUp
CHECK_DEADLOCK FALSE
