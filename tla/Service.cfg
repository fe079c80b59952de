\* Two requests of every kind that overlap, a limit of one and a store of one
\* client, so that the limiter refuses and evicts; a body may be over the limit.
CONSTANTS
    Clients = {"c1", "c2"}
    Limit = 1
    MaxClients = 1
    Window = 1
    CleanupInterval = 1
    MaxTime = 2
    Names <- MCNames
    NameOf <- MCNameOf
    NoDomain = ""
    PlaceholderDomain = "example.com"
    PlaceholderHost = "mail.example.com"
    ProxyTokens = {}
    ValidTokens = {}
    MaxBodyCeiling = 1
    Requests = {r1, r2}
    Asked <- MCAsked
    Serving <- MCServing
    Malformed = "malformed"
    MaxBody = 2
SPECIFICATION ServiceSpec
INVARIANTS ServiceTypeOK SizeVerdict OwnDomainOnly LogTruth
PROPERTIES RefusedForAReason AnswersAsAlone EveryRequestProgresses
