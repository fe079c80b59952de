-------------------------- MODULE ClientIp_proofs --------------------------
(***************************************************************************)
(* Proofs of ClientIp, for any addresses, proxies, tokens and chains.      *)
(***************************************************************************)
EXTENDS ClientIp, TLAPS

USE AddressesAssumption

(* The walk from the right stops at the client's own address when all that *)
(* stands right of it are proxies and every part parses.                   *)
LEMMA WalkFindsClient ==
    ASSUME TypeOK,
           NEW k \in DOMAIN forwarded, ClientAt(k),
           \A i \in DOMAIN forwarded : Parsed[forwarded[i]] # NoAddress
    PROVE  ForwardedClient(forwarded) = origin
<1> DEFINE outside == {i \in DOMAIN forwarded : Parsed[forwarded[i]] \notin Trusted}
           last == CHOOSE i \in outside : \A j \in outside : j <= i
<1>1. DOMAIN forwarded \subseteq Int
    BY DEF TypeOK
<1>2. Parsed[forwarded[k]] = origin /\ origin \notin Trusted
    BY DEF TypeOK, ClientAt
<1>3. k \in outside
    BY <1>2
<1>4. \A j \in outside : j <= k
    <2> SUFFICES ASSUME NEW j \in outside, j > k
                 PROVE  FALSE
        BY <1>1
    <2>1. forwarded[j] \in Trusted
        BY DEF ClientAt
    <2> QED
        BY <2>1
<1>5. last \in outside /\ \A j \in outside : j <= last
    BY <1>3, <1>4
<1>6. last = k
    BY <1>1, <1>3, <1>4, <1>5
<1>7. forwarded # <<>>
    OBVIOUS
<1>8. ForwardedClient(forwarded) = Parsed[forwarded[last]]
    BY <1>3, <1>7 DEF ForwardedClient
<1> QED
    BY <1>2, <1>6, <1>8

(* When all hops are proxies, the walk ends at one. *)
LEMMA WalkOfProxies ==
    ASSUME OnlyProxies, forwarded \in Seq(Tokens)
    PROVE  ForwardedClient(forwarded) \in Trusted
<1>1. \A j \in DOMAIN forwarded : Parsed[forwarded[j]] = forwarded[j]
    BY DEF OnlyProxies
<1>2. 1 \in DOMAIN forwarded
    BY DEF OnlyProxies
<1>3. forwarded[1] \in Trusted
    BY <1>2 DEF OnlyProxies
<1> QED
    BY <1>1, <1>2, <1>3 DEF ForwardedClient, OnlyProxies

(* The walk never leaves what proxies wrote. *)
LEMMA WalkIsHonest ==
    ASSUME IInv, hops > 0
    PROVE  ForwardedClient(forwarded) \in {NoAddress, origin} \cup Trusted
<1>1. CASE OnlyProxies
    BY <1>1, WalkOfProxies DEF IInv, TypeOK
<1>2. CASE \E k \in DOMAIN forwarded : ClientAt(k)
    <2>1. PICK k \in DOMAIN forwarded : ClientAt(k)
        BY <1>2
    <2>2. CASE \A i \in DOMAIN forwarded : Parsed[forwarded[i]] # NoAddress
        BY <2>1, <2>2, WalkFindsClient DEF IInv
    <2>3. CASE \E i \in DOMAIN forwarded : Parsed[forwarded[i]] = NoAddress
        BY <2>3 DEF ForwardedClient
    <2> QED
        BY <2>2, <2>3
<1> QED
    BY <1>1, <1>2 DEF IInv

(* X-Real-IP was set by the last proxy. *)
LEMMA RealIsHonest ==
    ASSUME IInv, hops > 0
    PROVE  /\ RealClient(realIp) \in {NoAddress, origin}
           /\ hops = 1 => RealClient(realIp) = origin
<1>1. Parsed[realIp[1]] = realIp[1] /\ origin \notin Trusted
    BY DEF IInv, TypeOK
<1> QED
    BY <1>1 DEF IInv, RealClient

(* What the application resolves, on any chain. *)
LEMMA ResolvedIsHonest ==
    ASSUME IInv
    PROVE  LET ip == GetClientIp(peer, realIp, forwarded)
           IN  /\ ip \in {origin, Unknown} \cup Trusted
               /\ hops = 0 => ip = origin
               /\ trust /\ peer # NoAddress /\ (hops = 1 \/ exact) => ip = origin
<1> DEFINE ip == GetClientIp(peer, realIp, forwarded)
<1>1. CASE hops = 0
    <2>1. peer = origin /\ origin \in Addresses \ Trusted
        BY <1>1 DEF IInv, TypeOK
    <2>2. ip = origin
        BY <2>1 DEF GetClientIp, ShouldTrust
    <2> QED
        BY <2>2
<1>2. CASE hops # 0
    <2>1. hops > 0
        BY <1>2 DEF IInv, TypeOK
    <2>2. /\ peer \in Trusted \cup {NoAddress}
          /\ origin \in Addresses \ Trusted
        BY <2>1 DEF IInv, TypeOK
    <2>3. ip \in {origin, Unknown} \cup Trusted
        BY <2>1, <2>2, WalkIsHonest, RealIsHonest DEF GetClientIp, ShouldTrust
    <2>4. ASSUME trust, peer # NoAddress, hops = 1 \/ exact
          PROVE  ip = origin
        <3>1. ShouldTrust(peer)
            BY <2>2, <2>4 DEF ShouldTrust
        <3>2. CASE RealClient(realIp) = origin
            BY <2>2, <3>1, <3>2 DEF GetClientIp
        <3>3. CASE RealClient(realIp) = NoAddress
            <4>1. exact
                BY <2>1, <2>2, <2>4, <3>3, RealIsHonest
            <4>2. ForwardedClient(forwarded) = origin
                BY <2>1, <4>1, WalkFindsClient DEF IInv
            <4> QED
                BY <2>2, <3>1, <3>3, <4>2 DEF GetClientIp
        <3> QED
            BY <2>1, <3>2, <3>3, RealIsHonest
    <2> QED
        BY <1>2, <2>3, <2>4
<1> QED
    BY <1>1, <1>2

(* A client's own request. *)
LEMMA InitIsHonest == Init => IInv
<1> SUFFICES ASSUME Init PROVE IInv
    OBVIOUS
<1>1. PICK n \in 0..MaxForged : forwarded \in [1..n -> Tokens]
    BY DEF Init
<1>2. forwarded \in Seq(Tokens)
    BY <1>1
<1>3. realIp \in Seq(Tokens) /\ Len(realIp) <= 1
    <2>1. CASE realIp = <<>>
        BY <2>1
    <2>2. CASE \E t \in Tokens : realIp = <<t>>
        BY <2>2
    <2> QED
        BY <2>1, <2>2 DEF Init
<1>4. TypeOK
    BY <1>2, <1>3 DEF Init, TypeOK
<1> QED
    BY <1>4 DEF Init, IInv

(* A proxy that throws the header away and writes its peer. *)
LEMMA OverwriteIsHonest ==
    ASSUME IInv, NEW p \in Trusted, Overwrite(p)
    PROVE  IInv'
<1>1. /\ peer \in Addresses /\ hops \in Nat /\ hops' = hops + 1 /\ hops' > 0
      /\ hops < MaxHops /\ peer' = p /\ realIp' = <<peer>> /\ forwarded' = <<peer>>
      /\ exact' = (hops = 0) /\ origin' = origin /\ trust' = trust
      /\ resolved' = resolved /\ resolved = NoAddress
    BY DEF Overwrite, PassesOn, IInv, TypeOK
<1>2. hops = 0 => peer = origin
    BY DEF IInv
<1>3. hops # 0 => peer \in Trusted
    BY <1>1 DEF IInv, TypeOK
<1>4. TypeOK'
    BY <1>1 DEF IInv, TypeOK
<1>5. /\ DOMAIN forwarded' = {1} /\ forwarded'[1] = peer /\ forwarded' # <<>>
      /\ realIp' # <<>> /\ realIp'[1] = peer
    BY <1>1
<1>6. hops = 0 => ClientAt(1)'
    BY <1>1, <1>2, <1>5 DEF ClientAt
<1>7. hops # 0 => OnlyProxies'
    BY <1>3, <1>5 DEF OnlyProxies
<1>8. \A i \in DOMAIN forwarded' : Parsed[forwarded'[i]] # NoAddress
    BY <1>1, <1>5
<1>9. hops = 0 => \E k \in DOMAIN forwarded' : ClientAt(k)'
    BY <1>5, <1>6
<1>10. OnlyProxies' \/ \E k \in DOMAIN forwarded' : ClientAt(k)'
    BY <1>7, <1>9
<1>11. realIp'[1] \in {origin'} \cup Trusted /\ (hops' = 1 => realIp'[1] = origin')
    BY <1>1, <1>2, <1>3, <1>5
<1>12. exact' => \E k \in DOMAIN forwarded' : ClientAt(k)'
    BY <1>1, <1>9
<1> QED
    BY <1>1, <1>4, <1>5, <1>8, <1>10, <1>11, <1>12 DEF IInv

(* A proxy that appends its peer. *)
LEMMA AppendIsHonest ==
    ASSUME IInv, NEW p \in Trusted, AppendPeer(p)
    PROVE  IInv'
<1>1. /\ peer \in Addresses /\ hops \in Nat /\ hops' = hops + 1 /\ hops' > 0
      /\ hops < MaxHops /\ peer' = p /\ realIp' = <<peer>>
      /\ forwarded' = Append(forwarded, peer)
      /\ exact' = exact /\ origin' = origin /\ trust' = trust
      /\ resolved' = resolved /\ resolved = NoAddress /\ forwarded \in Seq(Tokens)
    BY DEF AppendPeer, PassesOn, IInv, TypeOK
<1>2. hops = 0 => peer = origin
    BY DEF IInv
<1>3. hops # 0 => peer \in Trusted
    BY <1>1 DEF IInv, TypeOK
<1>n. PICK n \in Nat : n = Len(forwarded) + 1
    BY <1>1
<1>4. /\ forwarded' \in Seq(Tokens)
      /\ DOMAIN forwarded = 1..Len(forwarded) /\ DOMAIN forwarded' = 1..n
      /\ forwarded'[n] = peer
      /\ \A i \in DOMAIN forwarded : forwarded'[i] = forwarded[i]
      /\ \A i \in DOMAIN forwarded' : i = n \/ i \in DOMAIN forwarded
      /\ \A i \in DOMAIN forwarded' : i <= n
      /\ n \in DOMAIN forwarded' /\ forwarded' # <<>>
      /\ DOMAIN forwarded \subseteq DOMAIN forwarded'
    BY <1>1, <1>n
<1>5. TypeOK'
    BY <1>1, <1>4 DEF IInv, TypeOK
<1>6. realIp' # <<>> /\ realIp'[1] = peer
    BY <1>1
<1>7. hops = 0 => ClientAt(n)'
    BY <1>1, <1>2, <1>4 DEF ClientAt
<1>8. ASSUME hops # 0, OnlyProxies
      PROVE  OnlyProxies'
    <2>1. \A j \in DOMAIN forwarded' : forwarded'[j] \in Trusted
        <3> SUFFICES ASSUME NEW j \in DOMAIN forwarded'
                     PROVE  forwarded'[j] \in Trusted
            OBVIOUS
        <3>1. j = n \/ j \in DOMAIN forwarded
            BY <1>4
        <3> QED
            BY <1>3, <1>4, <1>8, <3>1 DEF OnlyProxies
    <2>2. forwarded' # <<>>
        BY <1>4
    <2> QED
        BY <2>1, <2>2 DEF OnlyProxies
<1>9. ASSUME hops # 0, NEW k \in DOMAIN forwarded, ClientAt(k)
      PROVE  k \in DOMAIN forwarded' /\ ClientAt(k)'
    <2>1. k \in DOMAIN forwarded'
        BY <1>4
    <2>2. \A j \in DOMAIN forwarded' : j > k => forwarded'[j] \in Trusted
        <3> SUFFICES ASSUME NEW j \in DOMAIN forwarded', j > k
                     PROVE  forwarded'[j] \in Trusted
            OBVIOUS
        <3>1. j = n \/ j \in DOMAIN forwarded
            BY <1>4
        <3> QED
            BY <1>3, <1>4, <1>9, <3>1 DEF ClientAt
    <2> QED
        BY <1>1, <1>4, <1>9, <2>1, <2>2 DEF ClientAt
<1>10. OnlyProxies' \/ \E k \in DOMAIN forwarded' : ClientAt(k)'
    <2>1. CASE hops = 0
        <3>1. n \in DOMAIN forwarded'
            BY <1>4
        <3> QED
            BY <1>7, <2>1, <3>1
    <2>2. CASE hops # 0
        <3>1. OnlyProxies \/ \E k \in DOMAIN forwarded : ClientAt(k)
            BY <1>1, <2>2 DEF IInv
        <3> QED
            BY <1>8, <1>9, <2>2, <3>1
    <2> QED
        BY <2>1, <2>2
<1>11. ASSUME exact'
       PROVE  /\ \A i \in DOMAIN forwarded' : Parsed[forwarded'[i]] # NoAddress
              /\ \E k \in DOMAIN forwarded' : ClientAt(k)'
    <2>1. \A i \in DOMAIN forwarded' : Parsed[forwarded'[i]] # NoAddress
        <3> SUFFICES ASSUME NEW i \in DOMAIN forwarded'
                     PROVE  Parsed[forwarded'[i]] # NoAddress
            OBVIOUS
        <3>1. i = n \/ i \in DOMAIN forwarded
            BY <1>4
        <3> QED
            BY <1>1, <1>4, <1>11, <3>1 DEF IInv
    <2>2. CASE hops = 0
        <3>1. n \in DOMAIN forwarded'
            BY <1>4
        <3> QED
            BY <1>7, <2>1, <2>2, <3>1
    <2>3. CASE hops # 0
        <3>1. PICK k \in DOMAIN forwarded : ClientAt(k)
            BY <1>1, <1>11, <2>3 DEF IInv
        <3> QED
            BY <1>9, <2>1, <2>3, <3>1
    <2> QED
        BY <2>2, <2>3
<1> QED
    BY <1>1, <1>2, <1>3, <1>5, <1>6, <1>10, <1>11 DEF IInv

(* The inductive invariant: what a chain of proxies makes of the headers.  *)
THEOREM ChainInvariance == Spec => []IInv
<1>1. IInv /\ [Next]_vars => IInv'
    <2> SUFFICES ASSUME IInv, [Next]_vars PROVE IInv'
        OBVIOUS
    <2>1. CASE \E p \in Trusted : Overwrite(p)
        BY <2>1, OverwriteIsHonest
    <2>2. CASE \E p \in Trusted : AppendPeer(p)
        BY <2>2, AppendIsHonest
    <2>3. CASE ViaSocket
        <3>1. TypeOK'
            BY <2>3 DEF ViaSocket, IInv, TypeOK
        <3> QED
            BY <2>3, <3>1 DEF ViaSocket, IInv, TypeOK, OnlyProxies, ClientAt
    <2>4. CASE Resolve
        <3>1. resolved' \in Addresses \cup {Unknown}
            BY <2>4, ResolvedIsHonest DEF Resolve, IInv, TypeOK
        <3>2. TypeOK'
            BY <2>4, <3>1 DEF Resolve, IInv, TypeOK
        <3>3. resolved' = GetClientIp(peer, realIp, forwarded)'
            BY <2>4 DEF Resolve, GetClientIp, ShouldTrust
        <3> QED
            BY <2>4, <3>2, <3>3 DEF Resolve, IInv, OnlyProxies, ClientAt
    <2>5. CASE UNCHANGED vars
        BY <2>5 DEF vars, IInv, TypeOK, OnlyProxies, ClientAt, GetClientIp, ShouldTrust
    <2> QED
        BY <2>1, <2>2, <2>3, <2>4, <2>5 DEF Next
<1> QED
    BY <1>1, InitIsHonest, PTL DEF Spec

(* The variables keep their types. *)
THEOREM ChainTypeCorrect == Spec => []TypeOK
<1>1. IInv => TypeOK
    BY DEF IInv
<1> QED
    BY <1>1, ChainInvariance, PTL

(* No header a client wrote ever becomes the address a request is limited  *)
(* and logged under, behind any number of proxies of either kind.          *)
THEOREM HeadersNeverForge == Spec => []NeverForged
<1>1. IInv => NeverForged
    BY ResolvedIsHonest DEF IInv, NeverForged
<1> QED
    BY <1>1, ChainInvariance, PTL

(* Behind proxies that append, the address is the client's own.            *)
THEOREM ClientsToldApart == Spec => []ClientFound
<1>1. IInv => ClientFound
    BY ResolvedIsHonest DEF IInv, ClientFound
<1> QED
    BY <1>1, ChainInvariance, PTL
=============================================================================
