------------------------------ MODULE Documents ------------------------------
(***************************************************************************)
(* What the three protocols answer for a validated mailbox (templates.py,  *)
(* mobileconfig.py), and what Apple profiles become on the device of one   *)
(* who installs them, while the operator changes the settings and restarts *)
(* the service. An address keeps the way its owner typed the domain, which *)
(* only "domain" lower-cases; a username or an identifier is the tuple of  *)
(* what it is made of (uuid5 is taken to tell different names apart).      *)
(* Operators whose name ends in _mutant are plausible mistakes in the      *)
(* definition that follows them.                                           *)
(***************************************************************************)
EXTENDS Naturals, FiniteSets

CONSTANTS
    Addresses,   \* [local, domain, typed]: the mailboxes, as their owners type them
    Configs,     \* [mail, format]: the Settings a process may be started with
    MaxAnswers   \* bound: the answers looked at together

SocketTypes == {"SSL", "STARTTLS", "plain"}

Domains == {a.domain : a \in Addresses}

Formats == {"email", "localpart"}

(* What the generators need of the Settings: DomainMailSettings for every  *)
(* domain with known socket types, and a USERNAME_FORMAT.                  *)
ASSUME DocumentsAssumption ==
    /\ MaxAnswers \in Nat
    /\ \A c \in Configs :
          /\ c.format \in Formats
          /\ \A d \in Domains :
                {c.mail[d].imap.socket_type, c.mail[d].smtp.socket_type} \subseteq SocketTypes

VARIABLES
    settings,   \* the Settings of this process
    answers,    \* what this process has answered: [protocol, to, document]
    device,     \* the profiles on the device
    installed   \* history: the profile last installed for each address, {} for none

vars == <<settings, answers, device, installed>>

-----------------------------------------------------------------------------
(* Responses *)

Email(a) == <<a.local, a.domain, a.typed>>

ASSUME AddressesAssumption ==
    \A a \in Addresses, b \in Addresses : Email(a) = Email(b) => a = b

BuildUsername(a, f) == IF f = "localpart" THEN <<a.local>> ELSE Email(a)

(* What a protocol is told of a server; how it secures it is its own. *)
Server(s, secured, username) ==
    [host |-> s.host, port |-> s.port, secured |-> secured, username |-> username]

(* The socket type by its own name; POP3 is listed when it is enabled. *)
ThunderbirdAutoconfig(a, m, f) ==
    LET ByName(s) == Server(s, s.socket_type, BuildUsername(a, f))
    IN  [domain |-> a.domain,
         imap |-> ByName(m.imap),
         smtp |-> ByName(m.smtp),
         pop3 |-> {ByName(s) : s \in {p \in m.pop3 : p.enabled}}]

(* STARTTLS is not TLS from the start, so it is "off". *)
OutlookSslOn_mutant(t) == IF t = "SSL" THEN "on" ELSE "off"

OutlookSslOn(t) == IF t \in {"SSL", "STARTTLS"} THEN "on" ELSE "off"

OutlookAutodiscover(a, m, f) ==
    LET OnOff(s) == Server(s, OutlookSslOn(s.socket_type), BuildUsername(a, f))
    IN  [imap |-> OnOff(m.imap), smtp |-> OnOff(m.smtp)]

UseSsl(t) == t \in {"SSL", "STARTTLS"}

(* One account for a domain *)
AccountId_mutant(a) == <<a.domain>>

AccountId(a) == Email(a)

AppleMailMobileconfig(a, m, f) ==
    LET Ssl(s) == Server(s, UseSsl(s.socket_type), BuildUsername(a, f))
    IN  [identifier |-> <<"profile", a.domain, AccountId(a)>>,
         mail_identifier |-> <<"mail", a.domain, AccountId(a)>>,
         uuid |-> <<"profile", Email(a), m.imap.host>>,
         mail_uuid |-> <<Email(a), m.imap.host, m.smtp.host>>,
         address |-> Email(a),
         imap |-> Ssl(m.imap),
         smtp |-> Ssl(m.smtp)]

Protocols == {"thunderbird", "outlook", "apple"}

Document(p, a, c) ==
    CASE p = "thunderbird" -> ThunderbirdAutoconfig(a, c.mail[a.domain], c.format)
      [] p = "outlook" -> OutlookAutodiscover(a, c.mail[a.domain], c.format)
      [] p = "apple" -> AppleMailMobileconfig(a, c.mail[a.domain], c.format)

-----------------------------------------------------------------------------
(* The handler does not pass the username format, and the default is used. *)
Ask_mutant(p, a) ==
    /\ Cardinality(answers) < MaxAnswers
    /\ answers' = answers \cup
          {[protocol |-> p, to |-> a,
            document |-> Document(p, a, [settings EXCEPT !.format = "email"])]}
    /\ UNCHANGED <<settings, device, installed>>

(* A client of protocol p asks for the settings of address a. *)
Ask(p, a) ==
    /\ Cardinality(answers) < MaxAnswers
    /\ answers' = answers \cup
          {[protocol |-> p, to |-> a, document |-> Document(p, a, settings)]}
    /\ UNCHANGED <<settings, device, installed>>

(* A profile this process gave, or one that ran earlier with Settings c,   *)
(* is installed: it replaces the one that has its identifier.              *)
Install(a, c) ==
    LET profile == Document("apple", a, c)
    IN  /\ device' = {q \in device : q.identifier # profile.identifier} \cup {profile}
        /\ installed' = [installed EXCEPT ![a] = {profile}]
        /\ UNCHANGED <<settings, answers>>

(* A new process, with the Settings the operator wrote meanwhile. *)
Restart(c) ==
    /\ settings' = c
    /\ answers' = {}
    /\ UNCHANGED <<device, installed>>

Init ==
    /\ settings \in Configs
    /\ answers = {}
    /\ device = {}
    /\ installed = [a \in Addresses |-> {}]

Next ==
    \/ \E p \in Protocols, a \in Addresses : Ask(p, a)
    \/ \E a \in Addresses, c \in Configs : Install(a, c)
    \/ \E c \in Configs : Restart(c)

Spec == Init /\ [][Next]_vars

-----------------------------------------------------------------------------
(* Properties *)

Profiles == {Document("apple", a, c) : a \in Addresses, c \in Configs}

(* The state has its type: an answer is what its protocol gives to its     *)
(* address under the Settings this process runs with.                      *)
TypeOK ==
    /\ settings \in Configs
    /\ \A r \in answers : \E p \in Protocols, a \in Addresses :
          r = [protocol |-> p, to |-> a, document |-> Document(p, a, settings)]
    /\ device \subseteq Profiles
    /\ installed \in [Addresses -> SUBSET Profiles]

(* How each protocol says that a connection is not encrypted. *)
Unencrypted(r, s) ==
    s.secured = CASE r.protocol = "thunderbird" -> "plain"
                  [] r.protocol = "outlook" -> "off"
                  [] r.protocol = "apple" -> FALSE

(* The three generators, each written for itself, tell a mailbox's clients *)
(* the same thing: two answers of one process about one domain name the    *)
(* same IMAP and SMTP servers and ports and agree on which of them are not *)
(* encrypted, and two about one address agree on the username, whatever    *)
(* the protocols that asked and the case in which the domain was typed.    *)
SameServers ==
    \A r1 \in answers, r2 \in answers : r1.to.domain = r2.to.domain =>
        \A proto \in {"imap", "smtp"} :
            LET s1 == r1.document[proto]
                s2 == r2.document[proto]
            IN  /\ <<s1.host, s1.port>> = <<s2.host, s2.port>>
                /\ Unencrypted(r1, s1) <=> Unencrypted(r2, s2)
                /\ r1.to = r2.to => s1.username = s2.username

(* A device holds, for each address whose profile was installed, that      *)
(* profile and no other of the address: installing again after the         *)
(* settings changed replaces the old one, and installing another           *)
(* mailbox's profile leaves it alone, because the identifier depends on    *)
(* the address and on nothing else.                                        *)
OneProfileEach ==
    \A a \in Addresses : {q \in device : q.address = Email(a)} = installed[a]
=============================================================================
