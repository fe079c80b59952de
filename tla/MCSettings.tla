----------------------------- MODULE MCSettings -----------------------------
(***************************************************************************)
(* SettingsLifecycle for TLC: every combination of what validation tells   *)
(* apart in the environment, with the file contents that matter.           *)
(***************************************************************************)
EXTENDS SettingsLifecycle, TLC

MCNames == {"a", "A ", "example.com", " "}
MCNameOf == ("a" :> "a") @@ ("A " :> "a") @@ ("example.com" :> "example.com") @@ (" " :> "")

(* TRUST_PROXY_HEADERS and TRUSTED_PROXY_IPS: blank, only commas, an       *)
(* entry that parses, one that does not, both.                             *)
Proxies ==
    {[trust |-> FALSE, proxiesBlank |-> TRUE, tokens |-> {}]} \cup
    {[trust |-> TRUE, proxiesBlank |-> b, tokens |-> t] :
        b \in BOOLEAN, t \in SUBSET {"10.0.0.0/8", "proxy"}}

Limits ==
    {[rateEnabled |-> FALSE, rateLimit |-> 0, maxClients |-> 0],
     [rateEnabled |-> TRUE, rateLimit |-> 0, maxClients |-> 1],
     [rateEnabled |-> TRUE, rateLimit |-> 1, maxClients |-> 0],
     [rateEnabled |-> TRUE, rateLimit |-> 1, maxClients |-> 1]}

MCEnvironments ==
    {[production |-> p, trust |-> x.trust, proxiesBlank |-> x.proxiesBlank,
      tokens |-> x.tokens, localhost |-> l, https |-> h,
      rateEnabled |-> r.rateEnabled, rateLimit |-> r.rateLimit,
      maxClients |-> r.maxClients, maxBody |-> b,
      allowed |-> a, imap |-> i, smtp |-> m] :
        p \in BOOLEAN,
        x \in {x \in Proxies : x.proxiesBlank => x.tokens = {}},
        l \in BOOLEAN, h \in BOOLEAN, r \in Limits, b \in {0, 1, 2},
        a \in {{}, {"A "}, {"example.com"}, {"a", "example.com"}},
        i \in {"mx", "mail.example.com"}, m \in {"mx", "mail.example.com"}}

Entry(k, i, m) == [key |-> k, imap |-> i, smtp |-> m]

MCFiles ==
    {[state |-> "absent", entries |-> <<>>],
     [state |-> "broken", entries |-> <<>>]} \cup
    {[state |-> "read", entries |-> e] :
        e \in {<<>>,
               <<Entry("a", "mx", "mx")>>,
               <<Entry("A ", "mx", "mail.example.com"), Entry("a", "mx2", "mx2")>>,
               <<Entry("a", "mail.example.com", "mail.example.com")>>,
               <<Entry("example.com", "mx", "mx")>>,
               <<Entry("a", "mx", "mx"), Entry(" ", "mx", "mx")>>}}
=============================================================================
