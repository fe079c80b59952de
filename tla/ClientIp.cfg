\* Up to two forged parts, up to three proxies, each of which overwrites or
\* appends. A request that is resolved does nothing more.
CONSTANTS
    Addresses <- MCAddresses
    Trusted = {"10.0.0.1", "10.0.0.2"}
    Tokens <- MCTokens
    Parsed <- MCParsed
    NoAddress = "none"
    MaxForged = 2
    MaxHops = 3
SPECIFICATION Spec
INVARIANTS TypeOK NeverForged ClientFound
CHECK_DEADLOCK FALSE
