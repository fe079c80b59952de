SPECIFICATION MCSpec
CHECK_DEADLOCK FALSE
CONSTANTS
    Versions = {"1.0", "2.0-rc"}
    Prereleases = {"2.0-rc"}
    Headings = {"What's new", "Action required", "Fixed"}
    Texts = {"one", "two"}
    MaxLines = 6
    MaxReasons = 2
INVARIANTS
    NotesAreTheSection
    BlocksAreTidy
    GreenIsTrue
