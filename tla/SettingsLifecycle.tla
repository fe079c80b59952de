------------------------- MODULE SettingsLifecycle -------------------------
(***************************************************************************)
(* When settings are read. create_app (app/main.py) loads them once and    *)
(* hands them to the middleware; every request's handler asks the provider *)
(* again, whose get_settings is cached; the operator may edit the YAML     *)
(* file at any time. The .env file counts as part of the environment and   *)
(* stands for the whole life of a behaviour.                               *)
(***************************************************************************)
EXTENDS Settings

CONSTANTS
    Environments,  \* the environments an operator sets
    Files          \* the contents an operator gives CONFIG_FILE

(* pydantic gives every setting its declared type. *)
ASSUME EnvironmentsAssumption ==
    \A e \in Environments :
        /\ e.rateLimit \in Int
        /\ e.maxClients \in Int
        /\ e.production \in BOOLEAN /\ e.trust \in BOOLEAN
        /\ e.proxiesBlank \in BOOLEAN /\ e.rateEnabled \in BOOLEAN
        /\ e.tokens \subseteq ProxyTokens
        /\ e.proxiesBlank => e.tokens = {}
        /\ e.allowed \subseteq Names
        /\ e.imap # NoDomain   \* an environment with blank hosts is not modelled

(* A file that was not read has no entries; an entry has hosts (NoDomain   *)
(* stands for none in NoMailSettings).                                     *)
ASSUME FilesAssumption ==
    \A f \in Files :
        /\ DOMAIN f.entries = 1..Len(f.entries) /\ Len(f.entries) \in Nat
        /\ f.state # "read" => f.entries = <<>>
        /\ \A i \in DOMAIN f.entries :
              f.entries[i].key \in Names /\ f.entries[i].imap # NoDomain

VARIABLES
    env,         \* the environment of the process
    file,        \* CONFIG_FILE as it is now
    process,     \* "down" or "up"
    cache,       \* the lru_cache of get_settings: at most one Settings
    middleware,  \* the Settings create_app gave SecurityMiddleware
    handler      \* the Settings the last handler was given

vars == <<env, file, process, cache, middleware, handler>>

(* Every call reads the environment and the file. *)
GetSettings_mutant == {Loaded(env, file)}

(* get_settings, once it has returned: the cached settings, or fresh ones. *)
GetSettings == IF cache # {} THEN cache ELSE {Loaded(env, file)}

(* create_app: settings that raise leave no process behind. *)
CreateApp ==
    /\ process = "down"
    /\ Accepted(env, file)
    /\ process' = "up"
    /\ cache' = GetSettings
    /\ middleware' = GetSettings
    /\ handler' = {}
    /\ UNCHANGED <<env, file>>

RefuseToStart ==
    /\ process = "down"
    /\ ~Accepted(env, file)
    /\ UNCHANGED vars

(* A request reaches its handler: Depends(get_settings). *)
Serve ==
    /\ process = "up"
    /\ handler' = GetSettings
    /\ cache' = GetSettings
    /\ UNCHANGED <<env, file, process, middleware>>

(* The process ends, and its cache with it. *)
Stop ==
    /\ process = "up"
    /\ process' = "down"
    /\ cache' = {}
    /\ middleware' = {}
    /\ handler' = {}
    /\ UNCHANGED <<env, file>>

(* The file may change under a running process; its environment is its own. *)
EditFile ==
    /\ file' \in Files
    /\ UNCHANGED <<env, process, cache, middleware, handler>>

Init ==
    /\ env \in Environments
    /\ file \in Files
    /\ process = "down"
    /\ cache = {}
    /\ middleware = {}
    /\ handler = {}

Next == CreateApp \/ RefuseToStart \/ Serve \/ Stop \/ EditFile

Spec == Init /\ [][Next]_vars

-----------------------------------------------------------------------------
(* At most one Settings is held anywhere; it is of this process's          *)
(* environment, and its domain table has normalized, non-empty keys.       *)
TypeOK ==
    /\ process \in {"down", "up"}
    /\ \A held \in {cache, middleware, handler} : \A s \in held :
          held = {s} /\ s.env = env /\ DOMAIN s.configs \subseteq Domains

(* A process that is up runs the rate limiter only on settings for which   *)
(* it is correct: the assumptions of RateLimiter (a limit of zero would    *)
(* insert empty entries on the rejecting path, past the capacity check).   *)
LimiterAssumptionsHold ==
    \A s \in middleware :
        s.env.rateEnabled => s.env.rateLimit > 0 /\ s.env.maxClients > 0

(* In production, forwarded headers are trusted only from a stated set of  *)
(* proxies, of which no entry was silently dropped by                      *)
(* trusted_proxy_networks.                                                 *)
TrustHasProxies ==
    \A s \in middleware :
        s.env.production /\ s.env.trust =>
            TrustedNetworks(s) = s.env.tokens /\ TrustedNetworks(s) # {}

(* What the limiter and the middleware rely on without a check of their    *)
(* own holds of the settings they were given, whatever was edited since.   *)
ReliedOnHolds == LimiterAssumptionsHold /\ TrustHasProxies

(* validate_email's list and domain_settings_for agree, in both modes: an  *)
(* address that passes validation always finds its mail settings, and no   *)
(* other domain does. The handlers' None branch is never taken.            *)
ValidatedDomainsResolve ==
    \A s \in middleware : \A d \in Domains :
        d \in AllowedDomains(s) <=> DomainSettingsFor(s, d) # NoMailSettings

(* A process that is up holds one Settings, which validation accepted, in  *)
(* its cache and in its middleware; one that is down holds none.           *)
OneAccepted ==
    /\ process \in {"down", "up"}
    /\ process = "down" => cache = {} /\ middleware = {} /\ handler = {}
    /\ process = "up" =>
          \E f \in Files :
              Accepted(env, f) /\ cache = {Loaded(env, f)} /\ middleware = cache
    /\ handler # {} => handler = middleware

(* The inductive invariant of the proofs. *)
IInv == env \in Environments /\ file \in Files /\ OneAccepted

(* A request is rate limited, answered and logged under one Settings,      *)
(* whatever was edited since the process started.                          *)
OneSettingsPerProcess == handler # {} => handler = middleware

(* "With APP_ENV=production, the service refuses to start on placeholder   *)
(* values (example.com, mail.example.com, ...)": SECURITY.md.              *)
NoPlaceholderInProduction ==
    \A s \in middleware : s.env.production =>
        /\ PlaceholderDomain \notin AllowedDomains(s)
        /\ \A d \in AllowedDomains(s) :
              PlaceholderHost \notin Range(DomainSettingsFor(s, d))
=============================================================================
