\* The same sources, for what SECURITY.md says of placeholder values.
CONSTANTS
    Names <- MCNames
    NameOf <- MCNameOf
    NoDomain = ""
    PlaceholderDomain = "example.com"
    PlaceholderHost = "mail.example.com"
    ProxyTokens = {"10.0.0.0/8", "proxy"}
    ValidTokens = {"10.0.0.0/8"}
    MaxBodyCeiling = 1
    Environments <- MCEnvironments
    Files <- MCFiles
SPECIFICATION Spec
INVARIANT NoPlaceholderInProduction
