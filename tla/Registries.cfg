SPECIFICATION Safety
CONSTANTS
    s1 = s1
    s2 = s2
    NoImage = NoImage
    Commits <- MCCommits
    Short <- MCOwnShort
    Arches = {amd64, arm64}
    Versions = {v1}
    MaxBuilds = 2
    MaxFailures = 1
INVARIANTS
    RegistriesAgree
CHECK_DEADLOCK FALSE
