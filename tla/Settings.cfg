\* Every way to set the environment that validation tells apart, every kind
\* of file, edited at any time.
CONSTANTS
    Names <- MCNames
    NameOf <- MCNameOf
    NoDomain = ""
    PlaceholderDomain = "example.com"
    PlaceholderHost = "mail.example.com"
    ProxyTokens = {"10.0.0.0/8", "proxy"}
    ValidTokens = {"10.0.0.0/8"}
    MaxBodyCeiling = 1
    Environments <- MCEnvironments
    Files <- MCFiles
SPECIFICATION Spec
INVARIANTS TypeOK ReliedOnHolds ValidatedDomainsResolve OneSettingsPerProcess
