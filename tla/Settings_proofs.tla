-------------------------- MODULE Settings_proofs --------------------------
(***************************************************************************)
(* Proofs of SettingsLifecycle, for every set of environments and of file  *)
(* contents.                                                               *)
(***************************************************************************)
EXTENDS SettingsLifecycle, WellFoundedInduction, TLAPS

(* What Settings() returns without an error has sound limits when rate     *)
(* limiting is enabled.                                                    *)
LEMMA AcceptedLimits ==
    ASSUME NEW e \in Environments, NEW f, Accepted(e, f), e.rateEnabled
    PROVE  e.rateLimit > 0 /\ e.maxClients > 0
<1> DEFINE s == Loaded(e, f)
<1>1. s.env = e
    BY DEF Loaded
<1>2. RateLimitErrors(s) = {}
    <2>1. RateLimitErrors(s) \subseteq ValidationErrors(s)
        BY DEF ValidationErrors
    <2> QED
        BY <2>1 DEF Accepted
<1>3. ~(e.rateLimit <= 0) /\ ~(e.maxClients <= 0)
    <2>1. "rate limit" \notin RateLimitErrors(s) /\ "max clients" \notin RateLimitErrors(s)
        BY <1>2
    <2> HIDE DEF s
    <2> QED
        BY <1>1, <2>1 DEF RateLimitErrors
<1> QED
    BY <1>3, EnvironmentsAssumption

(* What it returns in production with proxy trust has only valid entries,  *)
(* and at least one.                                                       *)
LEMMA AcceptedProxies ==
    ASSUME NEW e \in Environments, NEW f, Accepted(e, f), e.production, e.trust
    PROVE  /\ TrustedNetworks(Loaded(e, f)) = e.tokens
           /\ TrustedNetworks(Loaded(e, f)) # {}
<1> DEFINE s == Loaded(e, f)
<1>1. s.env = e
    BY DEF Loaded
<1>2. ProxyErrors(s) = {}
    <2>1. ProxyErrors(s) \subseteq ValidationErrors(s)
        BY <1>1 DEF ValidationErrors
    <2> QED
        BY <2>1 DEF Accepted
<1>3. /\ ~e.proxiesBlank
      /\ e.tokens \ ValidTokens = {}
      /\ TrustedNetworks(s) # {}
    <2>1. /\ "no proxies" \notin ProxyErrors(s)
          /\ "invalid entry" \notin ProxyErrors(s)
          /\ "no valid proxy" \notin ProxyErrors(s)
        BY <1>2
    <2> HIDE DEF s
    <2>2. ~e.proxiesBlank
        BY <1>1, <2>1 DEF ProxyErrors
    <2> QED
        BY <1>1, <2>1, <2>2 DEF ProxyErrors
<1> QED
    BY <1>1, <1>3 DEF TrustedNetworks

(* The inductive invariant: from the start, and across every edit of the   *)
(* file, every start and every stop.                                       *)
THEOREM SettingsInvariance == Spec => []IInv
<1>1. Init => IInv
    BY DEF Init, IInv, OneAccepted
<1>2. IInv /\ [Next]_vars => IInv'
    <2> SUFFICES ASSUME IInv, [Next]_vars
                 PROVE  IInv'
        OBVIOUS
    <2>1. CASE CreateApp
        <3>1. /\ process' = "up" /\ handler' = {} /\ env' = env
              /\ cache' = {Loaded(env, file)}
              /\ middleware' = {Loaded(env, file)}
              /\ file \in Files /\ file' = file
              /\ Accepted(env, file)
            BY <2>1 DEF CreateApp, GetSettings, IInv, OneAccepted
        <3>2. Accepted(env', file) /\ cache' = {Loaded(env', file)}
            BY <3>1
        <3> QED
            BY <3>1, <3>2 DEF IInv, OneAccepted
    <2>2. CASE RefuseToStart
        BY <2>2 DEF RefuseToStart, vars, IInv, OneAccepted
    <2>3. CASE Serve
        <3>1. cache # {}
            BY <2>3 DEF Serve, IInv, OneAccepted
        <3>2. /\ handler' = cache /\ cache' = cache /\ env' = env
              /\ process' = process /\ middleware' = middleware
            BY <2>3, <3>1 DEF Serve, GetSettings
        <3> QED
            BY <2>3, <3>2 DEF Serve, IInv, OneAccepted
    <2>4. CASE Stop
        BY <2>4 DEF Stop, IInv, OneAccepted
    <2>5. CASE EditFile
        BY <2>5 DEF EditFile, IInv, OneAccepted
    <2>6. CASE UNCHANGED vars
        BY <2>6 DEF vars, IInv, OneAccepted
    <2> QED
        BY <2>1, <2>2, <2>3, <2>4, <2>5, <2>6 DEF Next
<1> QED
    BY <1>1, <1>2, PTL DEF Spec

(* Every request is limited by the middleware and answered by its handler  *)
(* under the same Settings, however the file was edited in between.        *)
THEOREM SettingsNeverSplit == Spec => []OneSettingsPerProcess
<1>1. IInv => OneSettingsPerProcess
    BY DEF IInv, OneAccepted, OneSettingsPerProcess
<1> QED
    BY <1>1, SettingsInvariance, PTL

(* The limiter's assumptions on its settings hold whenever it runs: what   *)
(* RateLimiter assumes is what start-up validation enforces.               *)
THEOREM LimiterIsConfigured == Spec => []LimiterAssumptionsHold
<1>1. IInv => LimiterAssumptionsHold
    <2> SUFFICES ASSUME IInv, NEW s \in middleware, s.env.rateEnabled
                 PROVE  s.env.rateLimit > 0 /\ s.env.maxClients > 0
        BY DEF LimiterAssumptionsHold
    <2>1. PICK f \in Files : Accepted(env, f) /\ middleware = {Loaded(env, f)}
        BY DEF IInv, OneAccepted
    <2>2. s.env = env
        BY <2>1 DEF Loaded
    <2> QED
        BY <2>1, <2>2, AcceptedLimits DEF IInv, OneAccepted
<1> QED
    BY <1>1, SettingsInvariance, PTL

(* Proxy headers are trusted in production only from the whole, non-empty  *)
(* list the operator stated.                                               *)
THEOREM ProxiesAreStated == Spec => []TrustHasProxies
<1>1. IInv => TrustHasProxies
    <2> SUFFICES ASSUME IInv, NEW s \in middleware, s.env.production, s.env.trust
                 PROVE  TrustedNetworks(s) = s.env.tokens /\ TrustedNetworks(s) # {}
        BY DEF TrustHasProxies
    <2>1. PICK f \in Files : Accepted(env, f) /\ middleware = {Loaded(env, f)}
        BY DEF IInv, OneAccepted
    <2>2. s = Loaded(env, f) /\ s.env = env
        BY <2>1 DEF Loaded
    <2> QED
        BY <2>1, <2>2, AcceptedProxies DEF IInv, OneAccepted
<1> QED
    BY <1>1, SettingsInvariance, PTL

(* Both: what limiter and middleware rely on, start-up validation gives    *)
(* them, as ReliedOnHolds puts it.                                         *)
THEOREM ReliedOnStaysTrue == Spec => []ReliedOnHolds
<1>1. LimiterAssumptionsHold /\ TrustHasProxies => ReliedOnHolds
    BY DEF ReliedOnHolds
<1> QED
    BY <1>1, LimiterIsConfigured, ProxiesAreStated, PTL

-----------------------------------------------------------------------------
(* Of some positions of a sequence, one is the last. *)
LEMMA LastPosition ==
    ASSUME NEW n \in Nat, NEW S \in SUBSET (1..n), S # {}
    PROVE  \E i \in S : \A j \in S : j <= i
<1> DEFINE T == {n - i : i \in S}
<1>1. T \subseteq Nat /\ T # {}
    <2>1. \A i \in S : i \in 1..n
        OBVIOUS
    <2>2. \A i \in S : n - i \in Nat
        BY <2>1
    <2>3. PICK i \in S : TRUE
        OBVIOUS
    <2>4. n - i \in T
        BY <2>3
    <2> QED
        BY <2>2, <2>4
<1>2. PICK x \in T : \A y \in T : ~(<<y, x>> \in OpToRel(<, Nat))
    BY <1>1, WFMin, NatLessThanWellFounded
<1>3. PICK i \in S : x = n - i
    OBVIOUS
<1>4. ASSUME NEW j \in S
      PROVE  j <= i
    <2>1. n - j \in T /\ n - j \in Nat /\ x \in Nat
        BY <1>1
    <2>2. ~(n - j < x)
        BY <1>2, <2>1 DEF OpToRel
    <2> QED
        BY <1>3, <2>2
<1> QED
    BY <1>4

(* The domains of a file that is not refused are normalized, non-empty     *)
(* names, and each has the hosts of an entry.                              *)
LEMMA ConfigsOfFile ==
    ASSUME NEW f \in Files, ~FileRefused(f)
    PROVE  /\ DOMAIN DomainConfigs(f) \subseteq Domains
           /\ \A d \in DOMAIN DomainConfigs(f) : DomainConfigs(f)[d] # NoMailSettings
<1> DEFINE names == {NameOf[f.entries[i].key] : i \in DOMAIN f.entries}
<1>1. DOMAIN DomainConfigs(f) = names
    BY DEF DomainConfigs
<1>2. ASSUME NEW i \in DOMAIN f.entries
      PROVE  NameOf[f.entries[i].key] \in Domains
    <2>1. f.entries[i].key \in Names
        BY FilesAssumption
    <2>2. NameOf[f.entries[i].key] \in Range(NameOf)
        BY <2>1, NamesAssumption
    <2>3. f.state = "read"
        BY FilesAssumption
    <2>4. NameOf[f.entries[i].key] # NoDomain
        BY <2>3 DEF FileRefused
    <2> QED
        BY <2>2, <2>4 DEF Domains
<1>3. ASSUME NEW d \in names
      PROVE  DomainConfigs(f)[d] # NoMailSettings
    <2> DEFINE named == {i \in DOMAIN f.entries : NameOf[f.entries[i].key] = d}
               last == CHOOSE i \in named : \A j \in named : j <= i
    <2>1. \E i \in named : \A j \in named : j <= i
        <3>1. named \in SUBSET (1..Len(f.entries)) /\ named # {} /\ Len(f.entries) \in Nat
            BY FilesAssumption
        <3> QED
            BY <3>1, LastPosition
    <2>2. last \in named
        BY <2>1
    <2>3. DomainConfigs(f)[d] = [imap |-> f.entries[last].imap, smtp |-> f.entries[last].smtp]
        BY DEF DomainConfigs
    <2>4. f.entries[last].imap # NoDomain
        BY <2>2, FilesAssumption
    <2> HIDE DEF last
    <2>5. DomainConfigs(f)[d].imap = f.entries[last].imap
        BY <2>3
    <2>6. NoMailSettings.imap = NoDomain
        BY DEF NoMailSettings
    <2> QED
        BY <2>4, <2>5, <2>6
<1> QED
    BY <1>1, <1>2, <1>3

(* What is held anywhere was loaded once, from a file that was accepted.   *)
THEOREM SettingsTypeCorrect == Spec => []TypeOK
<1>1. IInv => TypeOK
    <2> SUFFICES ASSUME IInv
                 PROVE  TypeOK
        OBVIOUS
    <2>1. ASSUME NEW held \in {cache, middleware, handler}, NEW s \in held
          PROVE  held = {s} /\ s.env = env /\ DOMAIN s.configs \subseteq Domains
        <3>1. process = "up"
            <4>1. cache # {} \/ middleware # {} \/ handler # {}
                BY <2>1
            <4> QED
                BY <4>1 DEF IInv, OneAccepted
        <3>2. PICK f \in Files :
                Accepted(env, f) /\ cache = {Loaded(env, f)} /\ middleware = cache
            BY <3>1 DEF IInv, OneAccepted
        <3>3. held = {Loaded(env, f)} /\ s = Loaded(env, f)
            BY <2>1, <3>2 DEF IInv, OneAccepted
        <3>4. s.env = env /\ s.configs = DomainConfigs(f)
            BY <3>3 DEF Loaded
        <3>5. DOMAIN DomainConfigs(f) \subseteq Domains
            BY <3>2, ConfigsOfFile DEF Accepted
        <3> QED
            BY <3>3, <3>4, <3>5
    <2> QED
        BY <2>1 DEF TypeOK, IInv, OneAccepted
<1> QED
    BY <1>1, SettingsInvariance, PTL

(* An address that passes validation always finds mail settings, in both   *)
(* modes, and no other does: allowed_domains_set and domain_settings_for   *)
(* are two readings of the same settings.                                  *)
THEOREM ValidatedAlwaysResolve == Spec => []ValidatedDomainsResolve
<1>1. IInv => ValidatedDomainsResolve
    <2> SUFFICES ASSUME IInv, NEW s \in middleware, NEW d \in Domains
                 PROVE  d \in AllowedDomains(s) <=> DomainSettingsFor(s, d) # NoMailSettings
        BY DEF ValidatedDomainsResolve
    <2>1. PICK f \in Files : Accepted(env, f) /\ middleware = {Loaded(env, f)}
        BY DEF IInv, OneAccepted
    <2>2. s.env = env /\ s.configs = DomainConfigs(f)
        BY <2>1 DEF Loaded
    <2>3. CASE DOMAIN s.configs # {}
        <3>1. \A e \in DOMAIN s.configs : s.configs[e] # NoMailSettings
            BY <2>1, <2>2, ConfigsOfFile DEF Accepted
        <3> QED
            BY <2>3, <3>1 DEF AllowedDomains, DomainSettingsFor
    <2>4. CASE DOMAIN s.configs = {}
        <3>1. [imap |-> s.env.imap, smtp |-> s.env.smtp] # NoMailSettings
            BY <2>2, EnvironmentsAssumption DEF IInv, NoMailSettings
        <3> QED
            BY <2>4, <3>1 DEF DomainSettingsFor
    <2> QED
        BY <2>3, <2>4
<1> QED
    BY <1>1, SettingsInvariance, PTL
=============================================================================
