---------------------------- MODULE MCDocuments ----------------------------
(* Two mailboxes of one domain, the first also typed with capitals in its  *)
(* domain, and one of the same name in another domain; settings that       *)
(* differ in the servers' hosts and in every socket type.                  *)
EXTENDS Documents

SomeServer(h, p, t) == [host |-> h, port |-> p, socket_type |-> t]

MCAddresses ==
    {[local |-> "ann", domain |-> "one", typed |-> "one"],
     [local |-> "ann", domain |-> "one", typed |-> "ONE"],
     [local |-> "bob", domain |-> "one", typed |-> "one"],
     [local |-> "ann", domain |-> "two", typed |-> "two"]}

Mail1 == [imap |-> SomeServer("h1", 993, "SSL"),
          smtp |-> SomeServer("h1", 587, "STARTTLS"), pop3 |-> {}]
Mail2 == [imap |-> SomeServer("h2", 143, "plain"), smtp |-> SomeServer("h1", 465, "SSL"),
          pop3 |-> {[host |-> "h2", port |-> 995, socket_type |-> "SSL", enabled |-> TRUE]}]

MCConfigs ==
    {[format |-> "email", mail |-> [d \in Domains |-> Mail1]],
     [format |-> "localpart", mail |-> [d \in Domains |-> IF d = "one" THEN Mail2 ELSE Mail1]],
     [format |-> "email", mail |-> [d \in Domains |-> IF d = "one" THEN Mail1 ELSE Mail2]]}
=============================================================================
