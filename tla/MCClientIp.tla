----------------------------- MODULE MCClientIp -----------------------------
(***************************************************************************)
(* ClientIp for TLC: two outside addresses, two proxies, a token that is   *)
(* no address and one that is an address in another spelling.              *)
(***************************************************************************)
EXTENDS ClientIp, TLC

MCAddresses == {"192.0.2.1", "2001:db8::1", "10.0.0.1", "10.0.0.2"}
MCTokens == MCAddresses \cup {"2001:DB8::1", "garbage"}
MCParsed ==
    [t \in MCTokens |->
        CASE t = "garbage"     -> NoAddress
          [] t = "2001:DB8::1" -> "2001:db8::1"
          [] OTHER             -> t]
=============================================================================
