------------------------------ MODULE ClientIp ------------------------------
(***************************************************************************)
(* get_client_ip of app/security.py: whose request this is, behind a chain *)
(* of trusted proxies. A request leaves a client with whatever headers the *)
(* client wrote, passes the operator's proxies, each of which sets         *)
(* X-Real-IP to the peer it saw and sets X-Forwarded-For to it or appends  *)
(* it (docs/reverse-proxy/nginx.md), and reaches the application, which    *)
(* resolves an address.                                                    *)
(*                                                                         *)
(* A header is the sequence of its comma-separated parts that are not      *)
(* blank; one that is absent, empty or all blanks is the empty sequence.   *)
(* Operators whose name ends in _mutant are plausible mistakes in the      *)
(* definition that follows them.                                           *)
(***************************************************************************)
EXTENDS Integers, Sequences

CONSTANTS
    Addresses,  \* IP addresses in the form ip_address prints
    Trusted,    \* those within trusted_proxy_networks
    Tokens,     \* what a part of a header may be
    Parsed,     \* ip_address(token.strip()), for each of Tokens
    NoAddress,  \* None: the token is no address, there is no peer
    MaxForged,  \* bound: parts of the X-Forwarded-For a client writes
    MaxHops     \* bound: proxies on the way

(* "unknown" is no address; proxies write addresses as ip_address does. *)
Unknown == "unknown"

ASSUME AddressesAssumption ==
    /\ Trusted \subseteq Addresses
    /\ Addresses \subseteq Tokens
    /\ NoAddress \notin Addresses
    /\ Unknown \notin Addresses
    /\ Parsed \in [Tokens -> Addresses \cup {NoAddress}]
    /\ \A a \in Addresses : Parsed[a] = a
    /\ MaxForged \in Nat /\ MaxHops \in Nat

VARIABLES
    trust,      \* trust_proxy_headers
    origin,     \* the address the first to receive the request sees
    hops,       \* how many proxies it has passed
    peer,       \* the address the next to receive it sees
    realIp,     \* X-Real-IP: at most one part
    forwarded,  \* X-Forwarded-For
    exact,      \* history: the last proxy to set X-Forwarded-For, or the
                \* client, left only parts that parse, and proxies have
                \* appended ever since
    resolved    \* what get_client_ip returned, NoAddress before

vars == <<trust, origin, hops, peer, realIp, forwarded, exact, resolved>>

-----------------------------------------------------------------------------
(* _should_trust_forwarded_headers; a peer without an address is in no     *)
(* network, and without networks Trusted is empty.                         *)
ShouldTrust(p) == trust /\ p \in Trusted

(* The first hop that is not trusted, from the left. *)
ForwardedClient_mutant(parts) ==
    LET outside == {i \in DOMAIN parts : Parsed[parts[i]] \notin Trusted}
    IN  IF parts = <<>> \/ \E i \in DOMAIN parts : Parsed[parts[i]] = NoAddress THEN NoAddress
        ELSE IF outside = {} THEN Parsed[parts[1]]
        ELSE Parsed[parts[CHOOSE i \in outside : \A j \in outside : i <= j]]

(* _client_ip_from_forwarded_for: the rightmost hop that is not trusted,   *)
(* the leftmost when all are, none when a part does not parse.             *)
ForwardedClient(parts) ==
    LET outside == {i \in DOMAIN parts : Parsed[parts[i]] \notin Trusted}
    IN  IF parts = <<>> \/ \E i \in DOMAIN parts : Parsed[parts[i]] = NoAddress THEN NoAddress
        ELSE IF outside = {} THEN Parsed[parts[1]]
        ELSE Parsed[parts[CHOOSE i \in outside : \A j \in outside : j <= i]]

(* A proxy's own address is taken for the client's. *)
RealClient_mutant(parts) == IF parts # <<>> THEN Parsed[parts[1]] ELSE NoAddress

(* X-Real-IP when it parses and is not itself a trusted proxy *)
RealClient(parts) ==
    IF parts # <<>> /\ Parsed[parts[1]] \notin Trusted THEN Parsed[parts[1]] ELSE NoAddress

(* The header is taken from any peer, as it is written. *)
GetClientIp_mutant(p, real, parts) ==
    IF trust /\ real # <<>> THEN real[1]
    ELSE IF trust /\ ForwardedClient(parts) # NoAddress THEN ForwardedClient(parts)
    ELSE IF p # NoAddress THEN p
    ELSE Unknown

(* get_client_ip *)
GetClientIp(p, real, parts) ==
    LET headers == IF RealClient(real) # NoAddress THEN RealClient(real) ELSE ForwardedClient(parts)
    IN  IF ShouldTrust(p) /\ headers # NoAddress THEN headers
        ELSE IF p # NoAddress THEN p
        ELSE Unknown

-----------------------------------------------------------------------------
(* A client connects, from an address that is no proxy's. *)
Init ==
    /\ trust \in BOOLEAN
    /\ origin \in Addresses \ Trusted
    /\ hops = 0
    /\ peer = origin
    /\ realIp \in {<<>>} \cup {<<t>> : t \in Tokens}
    /\ forwarded \in UNION {[1..n -> Tokens] : n \in 0..MaxForged}
    /\ exact = (\A i \in DOMAIN forwarded : Parsed[forwarded[i]] # NoAddress)
    /\ resolved = NoAddress

(* A proxy with address p takes the request and passes it on. *)
PassesOn(p) ==
    /\ resolved = NoAddress
    /\ hops < MaxHops
    /\ peer \in Addresses
    /\ hops' = hops + 1
    /\ peer' = p
    /\ realIp' = <<peer>>
    /\ UNCHANGED <<trust, origin, resolved>>

(* proxy_set_header X-Forwarded-For $remote_addr; *)
Overwrite(p) ==
    /\ PassesOn(p)
    /\ forwarded' = <<peer>>
    /\ exact' = (hops = 0)

(* proxy_set_header X-Forwarded-For $proxy_add_x_forwarded_for; *)
AppendPeer(p) ==
    /\ PassesOn(p)
    /\ forwarded' = Append(forwarded, peer)
    /\ UNCHANGED exact

(* The last proxy reaches the application over a socket without addresses: *)
(* request.client is None.                                                 *)
ViaSocket ==
    /\ resolved = NoAddress
    /\ hops > 0
    /\ peer \in Addresses
    /\ peer' = NoAddress
    /\ UNCHANGED <<trust, origin, hops, realIp, forwarded, exact, resolved>>

(* The application receives the request. *)
Resolve ==
    /\ resolved = NoAddress
    /\ resolved' = GetClientIp(peer, realIp, forwarded)
    /\ UNCHANGED <<trust, origin, hops, peer, realIp, forwarded, exact>>

Next ==
    \/ \E p \in Trusted : Overwrite(p) \/ AppendPeer(p)
    \/ ViaSocket
    \/ Resolve

Spec == Init /\ [][Next]_vars

-----------------------------------------------------------------------------
(* Type correctness. *)
TypeOK ==
    /\ trust \in BOOLEAN /\ exact \in BOOLEAN
    /\ origin \in Addresses \ Trusted
    /\ hops \in 0..MaxHops
    /\ peer \in Addresses \cup {NoAddress}
    /\ realIp \in Seq(Tokens) /\ Len(realIp) <= 1
    /\ forwarded \in Seq(Tokens)
    /\ resolved \in Addresses \cup {NoAddress, Unknown}

(* No header a client wrote decides whose request this is: the address is  *)
(* the one the outermost proxy saw, or one of the operator's own proxies,  *)
(* or "unknown" ("Client-IP spoofing via forwarded headers", SECURITY.md). *)
NeverForged == resolved \in {NoAddress, origin, Unknown} \cup Trusted

(* Clients are told apart: a request that came directly is its sender's,   *)
(* one through a single proxy is the client's own whatever its headers     *)
(* said, and so is one through several that append, unless the client put  *)
(* something into the header that does not parse. Otherwise the address    *)
(* may be a proxy's, and the clients behind it share one limit.            *)
ClientFound ==
    resolved # NoAddress =>
        /\ hops = 0 => resolved = origin
        /\ trust /\ peer # NoAddress /\ (hops = 1 \/ exact) => resolved = origin

(* The chain: the part right of which all are proxies, if it parses, is    *)
(* the client's address, or proxies have overwritten it.                   *)
ClientAt(k) ==
    /\ k \in DOMAIN forwarded
    /\ forwarded[k] = origin
    /\ \A j \in DOMAIN forwarded : j > k => forwarded[j] \in Trusted

OnlyProxies ==
    /\ forwarded # <<>>
    /\ \A j \in DOMAIN forwarded : forwarded[j] \in Trusted

(* The inductive invariant of the proofs. *)
IInv ==
    /\ TypeOK
    /\ hops = 0 => peer = origin
    /\ hops > 0 =>
          /\ peer \in Trusted \cup {NoAddress}
          /\ realIp # <<>> /\ realIp[1] \in {origin} \cup Trusted
          /\ hops = 1 => realIp[1] = origin
          /\ OnlyProxies \/ \E k \in DOMAIN forwarded : ClientAt(k)
    /\ exact =>
          /\ \A i \in DOMAIN forwarded : Parsed[forwarded[i]] # NoAddress
          /\ hops > 0 => \E k \in DOMAIN forwarded : ClientAt(k)
    /\ resolved # NoAddress => resolved = GetClientIp(peer, realIp, forwarded)
=============================================================================
