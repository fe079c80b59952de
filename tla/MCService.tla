----------------------------- MODULE MCService -----------------------------
(***************************************************************************)
(* Service for TLC: two clients, requests of every kind, and settings from *)
(* the environment and from a file.                                        *)
(***************************************************************************)
EXTENDS Service

MCNames == {"a", "b", "example.com", ""}
MCNameOf == [n \in MCNames |-> n]

Env(enabled) ==
    [production |-> FALSE, trust |-> FALSE, proxiesBlank |-> TRUE, tokens |-> {},
     localhost |-> FALSE, https |-> TRUE, rateEnabled |-> enabled,
     rateLimit |-> Limit, maxClients |-> MaxClients, maxBody |-> 1,
     allowed |-> {"a"}, imap |-> "mx", smtp |-> "mx"]

NoFile == [state |-> "absent", entries |-> <<>>]
OneDomain == [state |-> "read", entries |-> <<[key |-> "b", imap |-> "mb", smtp |-> "mb"]>>]

Run(s, protocols, hide, logs) ==
    [env |-> s.env, configs |-> s.configs, protocols |-> protocols, hide |-> hide, logs |-> logs]

MCServing ==
    {Run(Loaded(Env(TRUE), NoFile), Protocols, TRUE, Protocols),
     Run(Loaded(Env(TRUE), OneDomain), {"apple", "outlook"}, FALSE, Paths),
     Run(Loaded(Env(FALSE), OneDomain), {"thunderbird"}, TRUE, {"thunderbird"})}

Ask(c, p, e, n) == [client |-> c, path |-> p, email |-> e, size |-> n]

MCAsked ==
    {Ask("c1", "health", "", 0), Ask("c2", "page", "", 0),
     Ask("c1", "apple", "a", 0)} \cup
    {Ask("c1", "thunderbird", e, 0) : e \in {"", "malformed", "a", "b"}} \cup
    {Ask("c2", "outlook", "", 0), Ask("c2", "outlook", "malformed", 1),
     Ask("c2", "outlook", "a", 1), Ask("c2", "outlook", "b", 1), Ask("c2", "outlook", "a", 2)}
=============================================================================
