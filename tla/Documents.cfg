SPECIFICATION Spec
CONSTANTS
    Addresses <- MCAddresses
    Configs <- MCConfigs
    MaxAnswers = 2
INVARIANTS
    TypeOK
    SameServers
    OneProfileEach
