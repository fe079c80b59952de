------------------------------ MODULE Settings ------------------------------
(***************************************************************************)
(* Settings of app/config.py: how the environment and the YAML file become *)
(* settings, which of them start-up validation refuses, and how a domain's *)
(* mail settings are looked up. Operators only; see SettingsLifecycle.     *)
(*                                                                         *)
(* Settings have two sources: the environment, a record env                *)
(*   production            APP_ENV is "production" in any case             *)
(*   trust                 TRUST_PROXY_HEADERS                             *)
(*   proxiesBlank, tokens  whether TRUSTED_PROXY_IPS is blank, and which   *)
(*                         of ProxyTokens it lists                         *)
(*   localhost, https      what PUBLIC_BASE_URL contains and starts with   *)
(*   rateEnabled, rateLimit, maxClients                                    *)
(*   maxBody               MAX_REQUEST_BODY_BYTES                          *)
(*   allowed               the names listed in ALLOWED_DOMAINS, as written *)
(*   imap, smtp            IMAP_HOST, SMTP_HOST                            *)
(* and CONFIG_FILE, a record file: its state is "absent", "broken"         *)
(* (unreadable, not YAML, empty or of the wrong shape) or "read", and      *)
(* entries are its domains in file order (none unless it is read).         *)
(* Operators whose name ends in _mutant are plausible mistakes in the      *)
(* definition that follows them.                                           *)
(***************************************************************************)
EXTENDS Integers, Sequences, FiniteSets, Functions

CONSTANTS
    Names,             \* domain names as written, in any case, with blanks
    NameOf,            \* name.strip().lower(), for each of Names
    NoDomain,          \* the empty string
    PlaceholderDomain, \* _PLACEHOLDER_DOMAIN, "example.com"
    PlaceholderHost,   \* _PLACEHOLDER_MAIL_HOST, "mail.example.com"
    ProxyTokens,       \* entries of TRUSTED_PROXY_IPS
    ValidTokens,       \* those that parse as an address or a network
    MaxBodyCeiling     \* _MAX_REQUEST_BODY_BYTES

ASSUME NamesAssumption ==
    /\ NameOf \in [Names -> Range(NameOf)]
    /\ PlaceholderDomain \in Range(NameOf)
    /\ PlaceholderDomain # NoDomain
    /\ ValidTokens \subseteq ProxyTokens
    /\ MaxBodyCeiling \in Nat

Domains == Range(NameOf) \ {NoDomain}

-----------------------------------------------------------------------------
(* _load_domain_configs *)

(* A blank key is let through. *)
FileRefused_mutant(file) == file.state = "broken" \/ (file.state = "read" /\ file.entries = <<>>)

(* The file is there and no domain configuration can be made of it. *)
FileRefused(file) ==
    \/ file.state = "broken"
    \/ /\ file.state = "read"
       /\ \/ file.entries = <<>>
          \/ \E i \in DOMAIN file.entries : NameOf[file.entries[i].key] = NoDomain

(* normalized: keys are stripped and lowercased; of two entries whose keys *)
(* become one, the later replaces the earlier.                             *)
DomainConfigs(file) ==
    LET named(d) == {i \in DOMAIN file.entries : NameOf[file.entries[i].key] = d}
    IN  [d \in {NameOf[file.entries[i].key] : i \in DOMAIN file.entries} |->
            LET last == CHOOSE i \in named(d) : \A j \in named(d) : j <= i
            IN  [imap |-> file.entries[last].imap, smtp |-> file.entries[last].smtp]]

(* The Settings object: the environment and the domain_configs. *)
Loaded(env, file) == [env |-> env, configs |-> DomainConfigs(file)]

-----------------------------------------------------------------------------
(* The domains of the environment are allowed beside those of the file. *)
AllowedDomains_mutant(s) == DOMAIN s.configs \cup ({NameOf[n] : n \in s.env.allowed} \ {NoDomain})

(* allowed_domains_set *)
AllowedDomains(s) ==
    IF DOMAIN s.configs # {}
      THEN DOMAIN s.configs
      ELSE {NameOf[n] : n \in s.env.allowed} \ {NoDomain}

(* domain_settings_for; the argument is a normalized domain. None is the   *)
(* pair without hosts: hosts that are configured are never blank here.     *)
NoMailSettings == [imap |-> NoDomain, smtp |-> NoDomain]

DomainSettingsFor(s, d) ==
    IF DOMAIN s.configs # {}
      THEN IF d \in DOMAIN s.configs THEN s.configs[d] ELSE NoMailSettings
      ELSE IF d \in AllowedDomains(s)
             THEN [imap |-> s.env.imap, smtp |-> s.env.smtp]
             ELSE NoMailSettings

(* trusted_proxy_networks: entries that do not parse are left out. *)
TrustedNetworks(s) == s.env.tokens \cap ValidTokens

-----------------------------------------------------------------------------
(* validate_production_settings: the errors that refuse the settings. *)

(* Only a list with no valid entry at all is refused. *)
ProxyErrors_mutant(s) ==
    {e \in {"no proxies", "no valid proxy"} :
        /\ s.env.trust
        /\ IF e = "no proxies" THEN s.env.proxiesBlank
           ELSE ~s.env.proxiesBlank /\ TrustedNetworks(s) = {}}

(* _validate_proxy_settings *)
ProxyErrors(s) ==
    {e \in {"invalid entry", "no proxies", "no valid proxy"} :
        /\ s.env.trust
        /\ CASE e = "invalid entry"  -> ~s.env.proxiesBlank /\ s.env.tokens \ ValidTokens # {}
             [] e = "no proxies"     -> s.env.proxiesBlank
             [] e = "no valid proxy" -> ~s.env.proxiesBlank /\ TrustedNetworks(s) = {}}

(* _validate_public_base_url *)
BaseUrlErrors(s) ==
    {e \in {"localhost", "not https"} :
        IF e = "localhost" THEN s.env.localhost ELSE ~s.env.https}

(* Checked like the proxy settings, in production only. *)
RateLimitErrors_mutant(s) ==
    {e \in {"rate limit", "max clients"} :
        /\ s.env.production /\ s.env.rateEnabled
        /\ IF e = "rate limit" THEN s.env.rateLimit <= 0 ELSE s.env.maxClients <= 0}

(* _validate_rate_limit_settings *)
RateLimitErrors(s) ==
    {e \in {"rate limit", "max clients"} :
        /\ s.env.rateEnabled
        /\ IF e = "rate limit" THEN s.env.rateLimit <= 0 ELSE s.env.maxClients <= 0}

(* _validate_body_limit *)
BodyLimitErrors(s) ==
    {e \in {"body limit"} :
        \/ s.env.maxBody <= 0
        \/ s.env.production /\ s.env.maxBody > MaxBodyCeiling}

(* _validate_env_config *)
EnvErrors(s) ==
    {e \in {"allowed domains", "hosts"} :
        IF e = "allowed domains"
          THEN AllowedDomains(s) \in {{}, {PlaceholderDomain}}
          ELSE s.env.imap = PlaceholderHost /\ s.env.smtp = PlaceholderHost}

(* _validate_domain_config, for a file that gave domains *)
DomainErrors(s) ==
    {e \in {"placeholder key", "hosts"} :
        /\ s.env.production
        /\ IF e = "placeholder key"
             THEN PlaceholderDomain \in DOMAIN s.configs
             ELSE \E d \in DOMAIN s.configs :
                     s.configs[d] = [imap |-> PlaceholderHost, smtp |-> PlaceholderHost]}

(* _shared_validation_errors and the mode's own validation *)
ValidationErrors(s) ==
    (IF s.env.production THEN ProxyErrors(s) \cup BaseUrlErrors(s) ELSE {})
        \cup RateLimitErrors(s)
        \cup BodyLimitErrors(s)
        \cup (IF DOMAIN s.configs # {} THEN DomainErrors(s)
              ELSE IF s.env.production THEN EnvErrors(s) ELSE {})

(* Settings() raises no error. *)
Accepted(env, file) == ~FileRefused(file) /\ ValidationErrors(Loaded(env, file)) = {}
=============================================================================
