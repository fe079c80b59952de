-------------------------- MODULE Documents_proofs --------------------------
(***************************************************************************)
(* What is written for others to read: the answers of the service          *)
(* (Documents), the release notes (ReleaseNotes) and the declaration of a  *)
(* pull request (DocsImpact). The three share nothing; each is held to its *)
(* own specification, for any addresses and Settings, any CHANGELOG and    *)
(* any number of ticked lines.                                             *)
(*                                                                         *)
(* Documents: TypeOK says what each answer is, and SameServers follows     *)
(* from it and from what each generator means (AnswersMean);               *)
(* OneProfileEach needs to know whose the profiles on the device are       *)
(* (DeviceInv). ReleaseNotes: the lines of a section (SectionIs), of its   *)
(* body (BodyIs), under a heading of it (ParsedSections, by induction over *)
(* the body, and TextsOfBody), in a block (ContentIs, BlocksAre).          *)
(***************************************************************************)
EXTENDS Documents, ReleaseNotes, DocsImpact, FilterLemmas, TLAPS

(* The answers, the Settings and the device are always ones that the code  *)
(* can give: no answer of this process is left from other Settings.        *)
THEOREM DocumentsTypeCorrect == Spec => []TypeOK
<1>1. Init => TypeOK
  BY DEF Init, TypeOK
<1>2. TypeOK /\ [Next]_vars => TypeOK'
  <2> SUFFICES ASSUME TypeOK, [Next]_vars PROVE TypeOK'
    OBVIOUS
  <2>1. ASSUME NEW p \in Protocols, NEW a \in Addresses, Ask(p, a) PROVE TypeOK'
    BY <2>1 DEF TypeOK, Ask
  <2>2. ASSUME NEW a \in Addresses, NEW c \in Configs, Install(a, c) PROVE TypeOK'
    <3>1. Document("apple", a, c) \in Profiles
      BY DEF Profiles
    <3> QED
      BY <2>2, <3>1 DEF TypeOK, Install
  <2>3. ASSUME NEW c \in Configs, Restart(c) PROVE TypeOK'
    BY <2>3 DEF TypeOK, Restart
  <2>4. CASE UNCHANGED vars
    BY <2>4 DEF TypeOK, vars
  <2> QED
    BY <2>1, <2>2, <2>3, <2>4 DEF Next
<1> QED
  BY <1>1, <1>2, PTL DEF Spec

(* What an answer of any protocol says of a server, in terms of the        *)
(* settings of its domain: each generator is held to the same meaning.     *)
LEMMA AnswersMean ==
    ASSUME NEW p \in Protocols, NEW a \in Addresses, NEW c \in Configs,
           NEW proto \in {"imap", "smtp"}
    PROVE  LET s == Document(p, a, c)[proto]
               m == c.mail[a.domain][proto]
               r == [protocol |-> p, to |-> a, document |-> Document(p, a, c)]
           IN  /\ s.host = m.host
               /\ s.port = m.port
               /\ s.username = BuildUsername(a, c.format)
               /\ Unencrypted(r, s) <=> m.socket_type = "plain"
<1> DEFINE m == c.mail[a.domain]
<1>1. m.imap.socket_type \in SocketTypes /\ m.smtp.socket_type \in SocketTypes
  BY DocumentsAssumption DEF Domains
<1>2. CASE p = "thunderbird"
  BY <1>1, <1>2 DEF Document, ThunderbirdAutoconfig, Server, Unencrypted, SocketTypes
<1>3. CASE p = "outlook"
  BY <1>1, <1>3 DEF Document, OutlookAutodiscover, OutlookSslOn, Server, Unencrypted, SocketTypes
<1>4. CASE p = "apple"
  <2> DEFINE s == Document(p, a, c)[proto]
             r == [protocol |-> p, to |-> a, document |-> Document(p, a, c)]
             t == m[proto].socket_type
  <2>1. Document(p, a, c) = AppleMailMobileconfig(a, m, c.format)
    BY <1>4 DEF Document
  <2>2. s = Server(m[proto], UseSsl(t), BuildUsername(a, c.format))
    BY <2>1 DEF AppleMailMobileconfig
  <2>3. /\ s.host = m[proto].host
        /\ s.port = m[proto].port
        /\ s.username = BuildUsername(a, c.format)
        /\ s.secured = UseSsl(t)
    BY <2>2 DEF Server
  <2>4. UseSsl(t) = FALSE <=> t = "plain"
    BY <1>1 DEF UseSsl, SocketTypes
  <2>5. Unencrypted(r, s) <=> s.secured = FALSE
    BY <1>4 DEF Unencrypted
  <2> QED
    BY <2>3, <2>4, <2>5
<1> QED
  BY <1>2, <1>3, <1>4 DEF Protocols

(* Whatever clients ask and whatever Settings the process has, the         *)
(* protocols name the same servers, usernames and need of encryption.      *)
THEOREM ProtocolsAgree == Spec => []SameServers
<1>1. TypeOK => SameServers
  <2> SUFFICES ASSUME TypeOK, NEW r1 \in answers, NEW r2 \in answers,
                      r1.to.domain = r2.to.domain, NEW proto \in {"imap", "smtp"}
               PROVE  LET s1 == r1.document[proto]
                          s2 == r2.document[proto]
                      IN  /\ <<s1.host, s1.port>> = <<s2.host, s2.port>>
                          /\ Unencrypted(r1, s1) <=> Unencrypted(r2, s2)
                          /\ r1.to = r2.to => s1.username = s2.username
    BY DEF SameServers
  <2>1. PICK p1 \in Protocols, a1 \in Addresses :
          r1 = [protocol |-> p1, to |-> a1, document |-> Document(p1, a1, settings)]
    BY DEF TypeOK
  <2>2. PICK p2 \in Protocols, a2 \in Addresses :
          r2 = [protocol |-> p2, to |-> a2, document |-> Document(p2, a2, settings)]
    BY DEF TypeOK
  <2>3. settings \in Configs
    BY DEF TypeOK
  <2>4. a1.domain = a2.domain
    BY <2>1, <2>2
  <2> QED
    BY <2>1, <2>2, <2>3, <2>4, AnswersMean
<1> QED
  BY <1>1, DocumentsTypeCorrect, PTL

(* A profile has the identifier of its address. *)
IsProfile(q) ==
    \E a \in Addresses :
        /\ q.identifier = <<"profile", a.domain, Email(a)>>
        /\ q.address = Email(a)

DeviceInv ==
    /\ \A q \in device : IsProfile(q)
    /\ DOMAIN installed = Addresses
    /\ OneProfileEach

(* However profiles are downloaded, kept and installed, a device has for   *)
(* each address the profile last installed for it, and no other.           *)
THEOREM DevicesHaveOneEach == Spec => []OneProfileEach
<1>1. Init => DeviceInv
  BY DEF Init, DeviceInv, OneProfileEach
<1>2. DeviceInv /\ [Next]_vars => DeviceInv'
  <2> SUFFICES ASSUME DeviceInv, [Next]_vars PROVE DeviceInv'
    OBVIOUS
  <2>1. ASSUME NEW p \in Protocols, NEW a \in Addresses, Ask(p, a) PROVE DeviceInv'
    BY <2>1 DEF DeviceInv, OneProfileEach, IsProfile, Ask
  <2>2. ASSUME NEW a \in Addresses, NEW c \in Configs, Install(a, c) PROVE DeviceInv'
    <3> DEFINE profile == Document("apple", a, c)
    <3>1. /\ profile.identifier = <<"profile", a.domain, Email(a)>>
          /\ profile.address = Email(a)
      BY DEF Document, AppleMailMobileconfig, AccountId
    <3>2. device' = {q \in device : q.identifier # profile.identifier} \cup {profile}
      BY <2>2 DEF Install
    <3>3. installed' = [installed EXCEPT ![a] = {profile}]
      BY <2>2 DEF Install
    <3>4. \A q \in device' : IsProfile(q)
      BY <3>1, <3>2 DEF DeviceInv, IsProfile
    <3>5. \A q \in device : q.identifier = profile.identifier <=> q.address = Email(a)
      BY <3>1 DEF DeviceInv, IsProfile, Email
    <3>6. \A b \in Addresses : Email(b) = Email(a) => b = a
      BY AddressesAssumption
    <3>7. ASSUME NEW b \in Addresses
          PROVE  {q \in device' : q.address = Email(b)} = installed'[b]
      <4>1. CASE b = a
        <5>1. {q \in device' : q.address = Email(a)} = {profile}
          BY <3>1, <3>2, <3>5
        <5> QED
          BY <4>1, <5>1, <3>3 DEF DeviceInv, OneProfileEach
      <4>2. CASE b # a
        <5>1. Email(b) # Email(a)
          BY <4>2, <3>6
        <5>2. {q \in device' : q.address = Email(b)} = {q \in device : q.address = Email(b)}
          BY <5>1, <3>1, <3>2, <3>5
        <5> QED
          BY <4>2, <5>2, <3>3 DEF DeviceInv, OneProfileEach
      <4> QED
        BY <4>1, <4>2
    <3> QED
      BY <3>3, <3>4, <3>7 DEF DeviceInv, OneProfileEach, IsProfile
  <2>3. ASSUME NEW c \in Configs, Restart(c) PROVE DeviceInv'
    BY <2>3 DEF DeviceInv, OneProfileEach, IsProfile, Restart
  <2>4. CASE UNCHANGED vars
    BY <2>4 DEF DeviceInv, OneProfileEach, IsProfile, vars
  <2> QED
    BY <2>1, <2>2, <2>3, <2>4 DEF Next
<1>3. DeviceInv => OneProfileEach
  BY DEF DeviceInv
<1> QED
  BY <1>1, <1>2, <1>3, PTL DEF Spec

-----------------------------------------------------------------------------
(* The section of a version. *)

(* The least of a set of numbers. *)
LEMMA MinOf ==
    ASSUME NEW K \in SUBSET Nat, K # {}
    PROVE  Min(K) \in K /\ \A k \in K : Min(K) <= k
BY Least DEF Min

(* A line of a CHANGELOG is one of four kinds. *)
LEMMA LineKinds ==
    ASSUME NEW l \in Lines
    PROVE  /\ l.kind \in {"version", "heading", "text", "link", "blank"}
           /\ l.kind = "version" => l.is \in Versions /\ l = [kind |-> "version", is |-> l.is]
           /\ l.kind = "heading" => l.is \in Headings
           /\ l.kind = "text" => l.is \in Texts
BY DEF Lines

(* The section starts after the first heading of its version. *)
LEMMA StartOf ==
    ASSUME NEW log \in Seq(Lines), NEW v, NEW s, s = SectionStart(log, v), s # 0
    PROVE  /\ s \in 1..Len(log)
           /\ IsVersion(log[s]) /\ log[s].is = v
           /\ \A k \in 1..Len(log) : IsVersion(log[k]) /\ log[k].is = v => s <= k
<1> DEFINE I == {i \in 1..Len(log) : IsVersion(log[i]) /\ log[i].is = v}
<1>1. s = IF I # {} THEN Min(I) ELSE 0
    BY DEF SectionStart, SelectInSeq
<1>2. I \in SUBSET Nat
    OBVIOUS
<1>3. I # {} /\ s = Min(I)
    BY <1>1
<1>4. s \in I /\ \A k \in I : s <= k
    <2> HIDE DEF I
    <2> QED
        BY <1>2, <1>3, MinOf
<1> QED
    BY <1>4

(* It ends before the next heading of any version. *)
LEMMA EndOf ==
    ASSUME NEW log \in Seq(Lines), NEW v, NEW s, s = SectionStart(log, v), s # 0,
           NEW e, e = SectionEnd(log, v)
    PROVE  /\ e \in s..Len(log)
           /\ \A k \in (s + 1)..e : ~IsVersion(log[k])
           /\ e # Len(log) => IsVersion(log[e + 1])
<1> DEFINE I == {i \in (s + 1)..Len(log) : IsVersion(log[i])}
           next == IF I # {} THEN Min(I) ELSE 0
<1>1. e = IF next = 0 THEN Len(log) ELSE next - 1
    BY DEF SectionEnd, SelectInSubSeq
<1>2. s \in 1..Len(log) /\ Len(log) \in Nat
    BY StartOf
<1>3. I \in SUBSET Nat /\ \A i \in I : i # 0
    BY <1>2
<1>4. CASE I = {}
    BY <1>1, <1>2, <1>4
<1>5. CASE I # {}
    <2>1. next = Min(I)
        BY <1>5
    <2>2. next \in I /\ \A k \in I : next <= k
        <3> HIDE DEF I
        <3> QED
            BY <1>3, <1>5, <2>1, MinOf
    <2> DEFINE n == next
    <2>3. n \in (s + 1)..Len(log) /\ IsVersion(log[n]) /\ n # 0
        BY <1>3, <2>2
    <2>4. \A k \in (s + 1)..Len(log) : IsVersion(log[k]) => n <= k
        BY <2>2
    <2>5. e = n - 1
        BY <1>1, <2>3
    <2> HIDE DEF n
    <2>6. e \in s..Len(log) /\ e + 1 = n
        BY <1>2, <2>3, <2>5
    <2>7. ASSUME NEW k \in (s + 1)..e
          PROVE  ~IsVersion(log[k])
        <3>1. k \in (s + 1)..Len(log) /\ ~(n <= k)
            BY <1>2, <2>3, <2>5
        <3> QED
            BY <3>1, <2>4
    <2> QED
        BY <2>3, <2>6, <2>7
<1> QED
    BY <1>4, <1>5

(* It is what the properties take it for. *)
LEMMA SectionIs ==
    ASSUME changelog \in Seq(Lines), NEW v \in Versions,
           NEW s, s = SectionStart(changelog, v), s # 0,
           NEW e, e = SectionEnd(changelog, v),
           NEW i \in DOMAIN changelog
    PROVE  InSection(v, i) <=> i \in (s + 1)..e
<1>1. Len(changelog) \in Nat /\ DOMAIN changelog = 1..Len(changelog)
    OBVIOUS
<1>2. /\ s \in 1..Len(changelog)
      /\ IsVersion(changelog[s]) /\ changelog[s].is = v
      /\ \A k \in 1..Len(changelog) : IsVersion(changelog[k]) /\ changelog[k].is = v => s <= k
    BY StartOf
<1>3. /\ e \in s..Len(changelog)
      /\ \A k \in (s + 1)..e : ~IsVersion(changelog[k])
      /\ e # Len(changelog) => IsVersion(changelog[e + 1])
    BY EndOf
<1>4. \A j \in 1..Len(changelog) :
          changelog[j] = [kind |-> "version", is |-> v] <=> IsVersion(changelog[j]) /\ changelog[j].is = v
    <2> SUFFICES ASSUME NEW j \in 1..Len(changelog)
                 PROVE  changelog[j] = [kind |-> "version", is |-> v]
                        <=> IsVersion(changelog[j]) /\ changelog[j].is = v
        OBVIOUS
    <2>1. changelog[j] \in Lines
        BY <1>1
    <2> QED
        BY <2>1, LineKinds DEF IsVersion
<1>5. ASSUME InSection(v, i)
      PROVE  i \in (s + 1)..e
    <2>1. PICK j \in 1..(i - 1) :
              /\ changelog[j] = [kind |-> "version", is |-> v]
              /\ \A k \in 1..(j - 1) : changelog[k] # changelog[j]
              /\ \A k \in (j + 1)..i : ~IsVersion(changelog[k])
        BY <1>5 DEF InSection
    <2>2. j \in 1..Len(changelog) /\ j < i /\ i \in 1..Len(changelog)
        BY <1>1
    <2>3. s <= j
        BY <1>2, <1>4, <2>1, <2>2
    <2>4. s = j
        <3> SUFFICES ASSUME s # j PROVE FALSE
            OBVIOUS
        <3>1. s \in 1..(j - 1)
            BY <1>2, <2>2, <2>3
        <3> QED
            BY <1>2, <1>4, <2>1, <3>1
    <2>5. i <= e
        <3> SUFFICES ASSUME ~(i <= e) PROVE FALSE
            OBVIOUS
        <3>1. e # Len(changelog) /\ e + 1 \in (j + 1)..i
            BY <1>1, <1>3, <2>2, <2>4
        <3> QED
            BY <1>3, <2>1, <3>1
    <2> QED
        BY <1>2, <1>3, <2>2, <2>4, <2>5
<1>6. ASSUME i \in (s + 1)..e
      PROVE  InSection(v, i)
    <2>1. s \in 1..(i - 1) /\ changelog[s] = [kind |-> "version", is |-> v]
        BY <1>2, <1>3, <1>4, <1>6
    <2>2. ASSUME NEW k \in 1..(s - 1)
          PROVE  changelog[k] # changelog[s]
        <3>1. k \in 1..Len(changelog) /\ ~(s <= k)
            BY <1>1, <1>2
        <3> QED
            BY <3>1, <1>2, <1>4, <2>1
    <2>3. ASSUME NEW k \in (s + 1)..i
          PROVE  ~IsVersion(changelog[k])
        <3>1. k \in (s + 1)..e
            BY <1>2, <1>3, <1>6
        <3> QED
            BY <3>1, <1>3
    <2> QED
        BY <2>1, <2>2, <2>3 DEF InSection
<1> QED
    BY <1>5, <1>6

-----------------------------------------------------------------------------
(* The body of a section: what is left of it when links and the blank      *)
(* lines around it are taken out.                                          *)

(* Normalising keeps all that is not blank, and ends where that ends. *)
LEMMA Normalized ==
    ASSUME NEW lines \in Seq(Lines), NEW t, t = NormalizeLines(lines)
    PROVE  /\ t \in Seq(Lines)
           /\ (t = <<>>) <=> \A i \in DOMAIN lines : IsBlank(lines[i])
           /\ t # <<>> => ~IsBlank(Head(t)) /\ ~IsBlank(Last(t))
           /\ \E M \in SUBSET DOMAIN lines :
                 t = Keep(lines, M) /\ \A i \in DOMAIN lines : ~IsBlank(lines[i]) => i \in M
<1> DEFINE M == {i \in DOMAIN lines :
                        /\ \E j \in 1..i : ~IsBlank(lines[j])
                        /\ \E j \in i..Len(lines) : ~IsBlank(lines[j])}
           c == Cardinality(M)
<1>1. t = Keep(lines, M)
    BY DEF NormalizeLines
<1>2. Len(lines) \in Nat /\ DOMAIN lines = 1..Len(lines)
    OBVIOUS
<1>3. \A i \in DOMAIN lines : ~IsBlank(lines[i]) => i \in M
    BY <1>2
<1>4. M \in SUBSET DOMAIN lines
    OBVIOUS
<1>5. \A i \in M : /\ \E j \in 1..i : ~IsBlank(lines[j])
                   /\ \E j \in i..Len(lines) : ~IsBlank(lines[j])
    OBVIOUS
<1> HIDE DEF M
<1>6. /\ t \in Seq(Lines) /\ Len(t) = c /\ c \in 0..Len(lines)
      /\ \A j \in 1..c : Nth(M, j) \in M /\ t[j] = lines[Nth(M, j)]
      /\ \A i \in M : \E j \in 1..c : Nth(M, j) = i
    BY <1>1, <1>4, KeepProperties
<1>7. \A k \in M : c \in Nat \ {0} /\ Nth(M, 1) <= k /\ k <= Nth(M, c)
    BY <1>4, NthEnds
<1>8. c \in Nat /\ (t = <<>> <=> c = 0)
    BY <1>2, <1>6
<1> HIDE DEF c
<1>9. (t = <<>>) <=> \A i \in DOMAIN lines : IsBlank(lines[i])
    <2>1. ASSUME t = <<>>, NEW i \in DOMAIN lines
          PROVE  IsBlank(lines[i])
        BY <1>3, <1>7, <1>8, <2>1
    <2>2. ASSUME t # <<>>
          PROVE  \E i \in DOMAIN lines : ~IsBlank(lines[i])
        <3>1. 1 \in 1..c
            BY <1>8, <2>2
        <3>2. Nth(M, 1) \in M
            BY <1>6, <3>1
        <3>3. PICK j \in 1..Nth(M, 1) : ~IsBlank(lines[j])
            BY <1>5, <3>2
        <3>4. Nth(M, 1) \in 1..Len(lines)
            BY <1>2, <1>4, <3>2
        <3>5. j \in 1..Len(lines)
            BY <1>2, <3>4
        <3> QED
            BY <1>2, <3>3, <3>5
    <2> QED
        BY <2>1, <2>2
<1>10. ASSUME t # <<>>
       PROVE  ~IsBlank(Head(t)) /\ ~IsBlank(Last(t))
    <2>1. 1 \in 1..c /\ c \in 1..c
        BY <1>8, <1>10
    <2> DEFINE a == Nth(M, 1)
               z == Nth(M, c)
    <2>2. a \in M /\ z \in M /\ t[1] = lines[a] /\ t[c] = lines[z]
        BY <1>6, <2>1
    <2>3. \A k \in M : a <= k /\ k <= z
        BY <1>7
    <2> HIDE DEF a, z
    <2>4. a \in 1..Len(lines) /\ z \in 1..Len(lines)
        BY <1>2, <1>4, <2>2
    <2>5. ~IsBlank(lines[a])
        <3>1. PICK j \in 1..a : ~IsBlank(lines[j])
            BY <1>5, <2>2
        <3>2. j \in M
            BY <1>2, <1>3, <2>4, <3>1
        <3>3. j = a
            BY <2>3, <2>4, <3>2
        <3> QED
            BY <3>1, <3>3
    <2>6. ~IsBlank(lines[z])
        <3>1. PICK j \in z..Len(lines) : ~IsBlank(lines[j])
            BY <1>5, <2>2
        <3>2. j \in M
            BY <1>2, <1>3, <2>4, <3>1
        <3>3. j = z
            BY <1>2, <2>3, <2>4, <3>2
        <3> QED
            BY <3>1, <3>3
    <2>7. Head(t) = t[1] /\ Last(t) = t[c]
        BY <1>6, <1>10 DEF Last
    <2> QED
        BY <2>2, <2>5, <2>6, <2>7
<1> QED
    BY <1>1, <1>3, <1>4, <1>6, <1>9, <1>10

(* What is first after filtering was first before. *)
LEMMA FirstStaysFirst ==
    ASSUME NEW S, NEW s \in Seq(S), NEW K \in SUBSET DOMAIN s, NEW j \in DOMAIN Keep(s, K),
           Nth(K, j) = 1
    PROVE  j = 1
<1>1. Len(s) \in Nat /\ DOMAIN s = 1..Len(s)
    OBVIOUS
<1>2. /\ DOMAIN Keep(s, K) = 1..Cardinality(K) /\ Cardinality(K) \in 0..Len(s)
      /\ \A i \in 1..Cardinality(K) : Nth(K, i) \in K
      /\ \A i, k \in 1..Cardinality(K) : i < k => Nth(K, i) < Nth(K, k)
    BY KeepProperties
<1> SUFFICES ASSUME j # 1 PROVE FALSE
    OBVIOUS
<1>3. 1 \in 1..Cardinality(K) /\ j \in 1..Cardinality(K) /\ 1 < j
    BY <1>1, <1>2
<1>4. Nth(K, 1) < 1 /\ Nth(K, 1) \in 1..Len(s)
    BY <1>1, <1>2, <1>3
<1> QED
    BY <1>1, <1>4

(* The lines that the notes are made of. *)
Words == {l \in Lines : l.kind \in {"heading", "text"}}

(* The body lists lines of the section in their order, all the headings    *)
(* and texts of it among them; a link can only be its first line.          *)
LEMMA BodyIs ==
    ASSUME NEW log \in Seq(Lines), NEW v, NEW s, s = SectionStart(log, v), s # 0,
           NEW e, e = SectionEnd(log, v), NEW text, text = ExtractSection(log, v)
    PROVE  \E B \in SUBSET ((s + 1)..e) :
              /\ B \in SUBSET DOMAIN log
              /\ text = Keep(log, B) /\ text \in Seq(Lines)
              /\ \A i \in (s + 1)..e : log[i] \in Words => i \in B
              /\ \A j \in DOMAIN text : text[j].kind = "link" => j = 1
<1> DEFINE A == (s + 1)..e
           section == Keep(log, A)
           first == NormalizeLines(section)
           second == WithoutLinks(first)
<1>1. s \in 1..Len(log) /\ e \in s..Len(log) /\ Len(log) \in Nat /\ DOMAIN log = 1..Len(log)
    BY StartOf, EndOf
<1>2. text = NormalizeLines(second)
    BY DEF ExtractSection
<1>3. A \in SUBSET DOMAIN log
    BY <1>1
<1> HIDE DEF A
<1>4. section \in Seq(Lines)
    BY <1>3, KeepProperties
<1>5. PICK M1 \in SUBSET DOMAIN section :
          /\ first = Keep(section, M1) /\ first \in Seq(Lines)
          /\ \A i \in DOMAIN section : ~IsBlank(section[i]) => i \in M1
    <2> HIDE DEF section
    <2> QED
        BY <1>4, Normalized
<1>6. \A j \in DOMAIN section : section[j] \in Words => j \in M1
    <2> HIDE DEF section
    <2> QED
        BY <1>5 DEF Words, IsBlank
<1>7. PICK L1 \in SUBSET A : first = Keep(log, L1) /\ \A i \in A : log[i] \in Words => i \in L1
    <2> HIDE DEF first
    <2>1. section = Keep(log, A) /\ first = Keep(section, M1)
        BY <1>5
    <2> HIDE DEF section
    <2> QED
        BY <1>3, <1>6, <2>1, KeepSome
<1> HIDE DEF section, first
<1> DEFINE M2 == {i \in DOMAIN first : i = 1 \/ first[i].kind # "link"}
<1>8. second = Keep(first, M2)
    BY DEF WithoutLinks
<1>9. M2 \in SUBSET DOMAIN first /\ \A j \in DOMAIN first : first[j] \in Words => j \in M2
    BY DEF Words
<1>10. \A i \in M2 : first[i].kind = "link" => i = 1
    OBVIOUS
<1>11. L1 \in SUBSET DOMAIN log
    BY <1>3, <1>7
<1> HIDE DEF M2, second
<1>12. PICK L2 \in SUBSET L1 : second = Keep(log, L2) /\ \A i \in L1 : log[i] \in Words => i \in L2
    BY <1>7, <1>8, <1>9, <1>11, KeepSome
<1>13. second \in Seq(Lines) /\ \A j \in DOMAIN second : second[j].kind = "link" => j = 1
    <2>1. /\ second \in Seq(Lines) /\ DOMAIN second = 1..Cardinality(M2)
          /\ \A j \in 1..Cardinality(M2) : Nth(M2, j) \in M2 /\ second[j] = first[Nth(M2, j)]
        BY <1>5, <1>8, <1>9, KeepProperties
    <2>2. ASSUME NEW j \in DOMAIN second, second[j].kind = "link"
          PROVE  j = 1
        <3>1. Nth(M2, j) = 1
            BY <1>10, <2>1, <2>2
        <3> QED
            BY <1>5, <1>8, <1>9, <3>1, FirstStaysFirst
    <2> QED
        BY <2>1, <2>2
<1>14. L2 \in SUBSET DOMAIN log
    BY <1>11, <1>12
<1>15. PICK M3 \in SUBSET DOMAIN second :
          /\ text = Keep(second, M3) /\ text \in Seq(Lines)
          /\ \A i \in DOMAIN second : ~IsBlank(second[i]) => i \in M3
    BY <1>2, <1>13, Normalized
<1>16. PICK L3 \in SUBSET L2 : text = Keep(log, L3) /\ \A i \in L2 : log[i] \in Words => i \in L3
    <2>1. \A j \in DOMAIN second : second[j] \in Words => j \in M3
        BY <1>15 DEF Words, IsBlank
    <2>2. second = Keep(log, L2) /\ text = Keep(second, M3)
        BY <1>12, <1>15
    <2> QED
        BY <1>14, <2>1, <2>2, KeepSome
<1>17. \A j \in DOMAIN text : text[j].kind = "link" => j = 1
    <2>1. /\ DOMAIN text = 1..Cardinality(M3)
          /\ \A j \in 1..Cardinality(M3) : Nth(M3, j) \in M3 /\ text[j] = second[Nth(M3, j)]
        BY <1>13, <1>15, KeepProperties
    <2>2. ASSUME NEW j \in DOMAIN text, text[j].kind = "link"
          PROVE  j = 1
        <3>1. Nth(M3, j) = 1
            BY <1>13, <2>1, <2>2
        <3> QED
            BY <1>13, <1>15, <3>1, FirstStaysFirst
    <2> QED
        BY <2>2
<1>18. /\ L3 \in SUBSET A /\ L3 \in SUBSET DOMAIN log
       /\ \A i \in A : log[i] \in Words => i \in L3
    BY <1>7, <1>12, <1>14, <1>16
<1> QED
    BY <1>15, <1>16, <1>17, <1>18 DEF A

-----------------------------------------------------------------------------
(* The sections of a body: where each line of it goes. *)

(* Line j of a body is the heading h. *)
HeadingAt(text, j, h) == text[j].kind = "heading" /\ text[j].is = h

(* Of the headings up to line n, h is the last. *)
LastHeading(text, n, h) ==
    \E j \in 1..n : HeadingAt(text, j, h) /\ \A k \in (j + 1)..n : text[k].kind # "heading"

(* The lines up to n that stand under h and are not lost by its repetition. *)
Standing(text, n, h) ==
    {i \in 1..n : /\ text[i].kind # "heading" /\ LastHeading(text, i, h)
                  /\ \A k \in (i + 1)..n : ~HeadingAt(text, k, h)}

(* What the parser carries along. *)
Sections ==
    [current : SUBSET Headings, order : Seq(Headings), content : [Headings -> Seq(Lines)]]

(* The sections p are those of the first n lines. *)
SectionsOf(text, n, p) ==
    /\ p \in Sections
    /\ \A h \in Headings : h \in p.current <=> LastHeading(text, n, h)
    /\ \A h \in Headings : Contains(p.order, h) <=> \E j \in 1..n : HeadingAt(text, j, h)
    /\ \A i, k \in DOMAIN p.order : p.order[i] = p.order[k] => i = k
    /\ \A h \in Headings : p.content[h] = Keep(text, Standing(text, n, h))

(* A heading is the last one and has nothing under it yet; the others      *)
(* keep what they have.                                                    *)
LEMMA AfterHeading ==
    ASSUME NEW text, NEW n \in Nat, NEW g, HeadingAt(text, n + 1, g), NEW h
    PROVE  /\ LastHeading(text, n + 1, h) <=> h = g
           /\ Standing(text, n + 1, h) = IF h = g THEN {} ELSE Standing(text, n, h)
<1>1. text[n + 1].kind = "heading" /\ text[n + 1].is = g
    BY DEF HeadingAt
<1>2. n + 1 \in 1..(n + 1) /\ (n + 2)..(n + 1) = {} /\ 1..(n + 1) = 1..n \cup {n + 1}
    OBVIOUS
<1>3. LastHeading(text, n + 1, h) <=> h = g
    <2>1. ASSUME h = g
          PROVE  LastHeading(text, n + 1, h)
        BY <1>2, <2>1 DEF LastHeading
    <2>2. ASSUME LastHeading(text, n + 1, h)
          PROVE  h = g
        <3>1. PICK j \in 1..(n + 1) :
                 HeadingAt(text, j, h) /\ \A k \in (j + 1)..(n + 1) : text[k].kind # "heading"
            BY <2>2 DEF LastHeading
        <3>2. j = n + 1
            <4> SUFFICES ASSUME j # n + 1 PROVE FALSE
                OBVIOUS
            <4>1. n + 1 \in (j + 1)..(n + 1)
                OBVIOUS
            <4> QED
                BY <1>1, <3>1, <4>1
        <3> QED
            BY <1>1, <3>1, <3>2 DEF HeadingAt
    <2> QED
        BY <2>1, <2>2
<1>4. ASSUME h = g
      PROVE  Standing(text, n + 1, h) = {}
    <2> SUFFICES ASSUME NEW i \in Standing(text, n + 1, h) PROVE FALSE
        OBVIOUS
    <2>1. i \in 1..(n + 1) /\ text[i].kind # "heading" /\ \A k \in (i + 1)..(n + 1) : ~HeadingAt(text, k, h)
        BY DEF Standing
    <2>2. i # n + 1
        BY <1>1, <2>1
    <2>3. n + 1 \in (i + 1)..(n + 1)
        BY <2>1, <2>2
    <2> QED
        BY <1>4, <2>1, <2>3
<1>5. ASSUME h # g
      PROVE  Standing(text, n + 1, h) = Standing(text, n, h)
    <2>1. ~HeadingAt(text, n + 1, h)
        BY <1>1, <1>5 DEF HeadingAt
    <2>2. ASSUME NEW i \in Standing(text, n + 1, h)
          PROVE  i \in Standing(text, n, h)
        <3>1. /\ i \in 1..(n + 1) /\ text[i].kind # "heading" /\ LastHeading(text, i, h)
              /\ \A k \in (i + 1)..(n + 1) : ~HeadingAt(text, k, h)
            BY DEF Standing
        <3>2. i \in 1..n
            BY <1>1, <3>1
        <3>3. \A k \in (i + 1)..n : k \in (i + 1)..(n + 1)
            OBVIOUS
        <3> QED
            BY <3>1, <3>2, <3>3 DEF Standing
    <2>3. ASSUME NEW i \in Standing(text, n, h)
          PROVE  i \in Standing(text, n + 1, h)
        <3>1. /\ i \in 1..n /\ text[i].kind # "heading" /\ LastHeading(text, i, h)
              /\ \A k \in (i + 1)..n : ~HeadingAt(text, k, h)
            BY DEF Standing
        <3>2. i \in 1..(n + 1) /\ \A k \in (i + 1)..(n + 1) : k = n + 1 \/ k \in (i + 1)..n
            BY <3>1
        <3> QED
            BY <2>1, <3>1, <3>2 DEF Standing
    <2> QED
        BY <2>2, <2>3
<1> QED
    BY <1>3, <1>4, <1>5

(* Another line stands under the last heading. *)
LEMMA AfterLine ==
    ASSUME NEW text, NEW n \in Nat, text[n + 1].kind # "heading", NEW h
    PROVE  /\ LastHeading(text, n + 1, h) <=> LastHeading(text, n, h)
           /\ Standing(text, n + 1, h) = Standing(text, n, h) \cup
                 (IF LastHeading(text, n, h) THEN {n + 1} ELSE {})
<1>1. ~HeadingAt(text, n + 1, h)
    BY DEF HeadingAt
<1>2. LastHeading(text, n + 1, h) <=> LastHeading(text, n, h)
    <2>1. ASSUME LastHeading(text, n + 1, h)
          PROVE  LastHeading(text, n, h)
        <3>1. PICK j \in 1..(n + 1) :
                 HeadingAt(text, j, h) /\ \A k \in (j + 1)..(n + 1) : text[k].kind # "heading"
            BY <2>1 DEF LastHeading
        <3>2. j \in 1..n /\ \A k \in (j + 1)..n : k \in (j + 1)..(n + 1)
            BY <1>1, <3>1
        <3> QED
            BY <3>1, <3>2 DEF LastHeading
    <2>2. ASSUME LastHeading(text, n, h)
          PROVE  LastHeading(text, n + 1, h)
        <3>1. PICK j \in 1..n :
                 HeadingAt(text, j, h) /\ \A k \in (j + 1)..n : text[k].kind # "heading"
            BY <2>2 DEF LastHeading
        <3>2. j \in 1..(n + 1) /\ \A k \in (j + 1)..(n + 1) : k = n + 1 \/ k \in (j + 1)..n
            OBVIOUS
        <3> QED
            BY <3>1, <3>2 DEF LastHeading
    <2> QED
        BY <2>1, <2>2
<1>3. ASSUME NEW i \in Standing(text, n + 1, h)
      PROVE  i \in Standing(text, n, h) \/ (i = n + 1 /\ LastHeading(text, n, h))
    <2>1. /\ i \in 1..(n + 1) /\ text[i].kind # "heading" /\ LastHeading(text, i, h)
          /\ \A k \in (i + 1)..(n + 1) : ~HeadingAt(text, k, h)
        BY DEF Standing
    <2>2. CASE i = n + 1
        BY <1>2, <2>1, <2>2
    <2>3. CASE i # n + 1
        <3>1. i \in 1..n /\ \A k \in (i + 1)..n : k \in (i + 1)..(n + 1)
            BY <2>1, <2>3
        <3> QED
            BY <2>1, <3>1 DEF Standing
    <2> QED
        BY <2>2, <2>3
<1>4. ASSUME NEW i \in Standing(text, n, h)
      PROVE  i \in Standing(text, n + 1, h)
    <2>1. /\ i \in 1..n /\ text[i].kind # "heading" /\ LastHeading(text, i, h)
          /\ \A k \in (i + 1)..n : ~HeadingAt(text, k, h)
        BY DEF Standing
    <2>2. i \in 1..(n + 1) /\ \A k \in (i + 1)..(n + 1) : k = n + 1 \/ k \in (i + 1)..n
        BY <2>1
    <2> QED
        BY <1>1, <2>1, <2>2 DEF Standing
<1>5. ASSUME LastHeading(text, n, h)
      PROVE  n + 1 \in Standing(text, n + 1, h)
    <2>1. n + 1 \in 1..(n + 1) /\ ((n + 1) + 1)..(n + 1) = {}
        OBVIOUS
    <2> QED
        BY <1>2, <1>5, <2>1 DEF Standing
<1> QED
    BY <1>2, <1>3, <1>4, <1>5

(* So TakeLine goes from the sections of n lines to those of one more. *)
LEMMA OneMoreLine ==
    ASSUME NEW text \in Seq(Lines), NEW n \in Nat, n + 1 \in DOMAIN text,
           NEW p, SectionsOf(text, n, p), NEW q, q = TakeLine(p, text[n + 1])
    PROVE  SectionsOf(text, n + 1, q)
<1> DEFINE l == text[n + 1]
<1>1. /\ p \in Sections
      /\ \A h \in Headings : h \in p.current <=> LastHeading(text, n, h)
      /\ \A h \in Headings : Contains(p.order, h) <=> \E j \in 1..n : HeadingAt(text, j, h)
      /\ \A i, k \in DOMAIN p.order : p.order[i] = p.order[k] => i = k
      /\ \A h \in Headings : p.content[h] = Keep(text, Standing(text, n, h))
    BY DEF SectionsOf
<1>2. p.current \in SUBSET Headings /\ p.order \in Seq(Headings) /\ p.content \in [Headings -> Seq(Lines)]
    BY <1>1 DEF Sections
<1>3. l \in Lines
    OBVIOUS
<1>4. 1..(n + 1) = 1..n \cup {n + 1}
    OBVIOUS
<1>5. CASE l.kind = "heading"
    <2> DEFINE g == l.is
    <2>1. g \in Headings
        BY <1>3, <1>5, LineKinds
    <2>2. HeadingAt(text, n + 1, g)
        BY <1>5 DEF HeadingAt
    <2>3. q = [current |-> {g},
               order |-> IF Contains(p.order, g) THEN p.order ELSE Append(p.order, g),
               content |-> [p.content EXCEPT ![g] = <<>>]]
        BY <1>5 DEF TakeLine
    <2> HIDE DEF g, l
    <2>4. q.order = IF Contains(p.order, g) THEN p.order ELSE Append(p.order, g)
        BY <2>3
    <2>5. q \in Sections
        BY <1>2, <2>1, <2>3 DEF Sections
    <2>6. \A h \in Headings : h \in q.current <=> LastHeading(text, n + 1, h)
        <3> SUFFICES ASSUME NEW h \in Headings
                     PROVE  h \in q.current <=> LastHeading(text, n + 1, h)
            OBVIOUS
        <3>1. q.current = {g}
            BY <2>3
        <3>2. LastHeading(text, n + 1, h) <=> h = g
            BY <2>2, AfterHeading
        <3> QED
            BY <3>1, <3>2
    <2>7. \A h \in Headings : q.content[h] = Keep(text, Standing(text, n + 1, h))
        <3> SUFFICES ASSUME NEW h \in Headings
                     PROVE  q.content[h] = Keep(text, Standing(text, n + 1, h))
            OBVIOUS
        <3>1. q.content[h] = IF h = g THEN <<>> ELSE p.content[h]
            BY <1>2, <2>1, <2>3
        <3>2. Standing(text, n + 1, h) = IF h = g THEN {} ELSE Standing(text, n, h)
            BY <2>2, AfterHeading
        <3> QED
            BY <1>1, <3>1, <3>2, KeepEmpty
    <2>8. \A h \in Headings : Contains(q.order, h) <=> Contains(p.order, h) \/ h = g
        <3>1. CASE Contains(p.order, g)
            BY <2>4, <3>1
        <3>2. CASE ~Contains(p.order, g)
            <4>1. q.order = Append(p.order, g)
                BY <2>4, <3>2
            <4>2. /\ Len(q.order) = Len(p.order) + 1 /\ Len(p.order) \in Nat
                  /\ \A i \in 1..Len(p.order) : q.order[i] = p.order[i]
                  /\ q.order[Len(p.order) + 1] = g
                BY <1>2, <2>1, <4>1
            <4>3. \A i \in 1..Len(q.order) : i \in 1..Len(p.order) \/ i = Len(p.order) + 1
                BY <4>2
            <4>4. \A i \in 1..Len(p.order) : i \in 1..Len(q.order)
                BY <4>2
            <4>5. Len(p.order) + 1 \in 1..Len(q.order)
                BY <4>2
            <4> QED
                BY <4>2, <4>3, <4>4, <4>5 DEF Contains
        <3> QED
            BY <3>1, <3>2
    <2>9. \A h \in Headings : Contains(q.order, h) <=> \E j \in 1..(n + 1) : HeadingAt(text, j, h)
        <3>1. \A h : HeadingAt(text, n + 1, h) <=> h = g
            BY <2>2 DEF HeadingAt
        <3> QED
            BY <1>1, <1>4, <2>8, <3>1
    <2>10. \A i, k \in DOMAIN q.order : q.order[i] = q.order[k] => i = k
        <3>1. CASE Contains(p.order, g)
            BY <1>1, <2>4, <3>1
        <3>2. CASE ~Contains(p.order, g)
            <4>1. q.order = Append(p.order, g)
                BY <2>4, <3>2
            <4>2. /\ DOMAIN q.order = 1..(Len(p.order) + 1) /\ Len(p.order) \in Nat
                  /\ DOMAIN p.order = 1..Len(p.order)
                  /\ \A i \in 1..Len(p.order) : q.order[i] = p.order[i]
                  /\ q.order[Len(p.order) + 1] = g
                BY <1>2, <2>1, <4>1
            <4>3. \A i \in DOMAIN q.order : i \in 1..Len(p.order) \/ i = Len(p.order) + 1
                BY <4>2
            <4>4. \A i \in 1..Len(p.order) : q.order[i] # g
                BY <3>2, <4>2 DEF Contains
            <4> QED
                BY <1>1, <4>2, <4>3, <4>4
        <3> QED
            BY <3>1, <3>2
    <2> QED
        BY <2>5, <2>6, <2>7, <2>9, <2>10 DEF SectionsOf
<1>6. CASE l.kind # "heading"
    <2> DEFINE c == [h \in Headings |-> IF h \in p.current THEN Append(p.content[h], l) ELSE p.content[h]]
    <2>1. q = [p EXCEPT !.content = c]
        BY <1>6 DEF TakeLine
    <2>2. c \in [Headings -> Seq(Lines)]
        BY <1>2, <1>3
    <2>3. q.current = p.current /\ q.order = p.order /\ q.content = c /\ q \in Sections
        <3> HIDE DEF c
        <3> QED
            BY <1>1, <2>1, <2>2 DEF Sections
    <2>4. \A h \in Headings : h \in q.current <=> LastHeading(text, n + 1, h)
        BY <1>1, <1>6, <2>3, AfterLine
    <2>5. \A h \in Headings : Contains(q.order, h) <=> \E j \in 1..(n + 1) : HeadingAt(text, j, h)
        <3>1. \A h : ~HeadingAt(text, n + 1, h)
            BY <1>6 DEF HeadingAt
        <3> QED
            BY <1>1, <1>4, <2>3, <3>1
    <2>6. \A h \in Headings : q.content[h] = Keep(text, Standing(text, n + 1, h))
        <3> SUFFICES ASSUME NEW h \in Headings
                     PROVE  q.content[h] = Keep(text, Standing(text, n + 1, h))
            OBVIOUS
        <3>1. Standing(text, n + 1, h) = Standing(text, n, h) \cup
                 (IF LastHeading(text, n, h) THEN {n + 1} ELSE {})
            BY <1>6, AfterLine
        <3> DEFINE K == Standing(text, n, h)
        <3>2. K \in SUBSET DOMAIN text /\ \A k \in K : k <= n
            <4>1. DOMAIN text = 1..Len(text) /\ Len(text) \in Nat
                OBVIOUS
            <4>2. \A k \in K : k \in 1..n
                BY DEF Standing
            <4> HIDE DEF K
            <4> QED
                BY <4>1, <4>2
        <3>3. CASE LastHeading(text, n, h)
            <4>1. q.content[h] = Append(p.content[h], l)
                BY <1>1, <2>3, <3>3
            <4>2. Keep(text, K \cup {n + 1}) = Append(Keep(text, K), text[n + 1])
                <5> HIDE DEF K
                <5> QED
                    BY <3>2, KeepAppend
            <4> QED
                BY <1>1, <3>1, <3>3, <4>1, <4>2
        <3>4. CASE ~LastHeading(text, n, h)
            <4>1. q.content[h] = p.content[h]
                BY <1>1, <2>3, <3>4
            <4> QED
                BY <1>1, <3>1, <3>4, <4>1
        <3> QED
            BY <3>3, <3>4
    <2> QED
        BY <1>1, <2>3, <2>4, <2>5, <2>6 DEF SectionsOf
<1> QED
    BY <1>5, <1>6

(* And the parser computes those of the whole body. *)
LEMMA ParsedSections ==
    ASSUME NEW text \in Seq(Lines)
    PROVE  SectionsOf(text, Len(text), ParseSubsections(text))
<1> DEFINE N == Len(text)
           P == CHOOSE p : p = [n \in 0..N |-> IF n = 0 THEN NoSections ELSE TakeLine(p[n - 1], text[n])]
           step == [n \in 1..N |-> [p \in Sections |-> TakeLine(p, text[n])]]
           Upto == {n \in Nat : n <= N => SectionsOf(text, n, P[n])}
<1>1. N \in Nat /\ DOMAIN text = 1..N
    OBVIOUS
<1>2. ParseSubsections(text) = P[N]
    BY DEF ParseSubsections
<1>3. NoSections \in Sections
    BY DEF NoSections, Sections
<1>4. ASSUME NEW p \in Sections, NEW n \in 1..N
      PROVE  TakeLine(p, text[n]) \in Sections
    <2> DEFINE l == text[n]
    <2>1. l \in Lines
        BY <1>1
    <2>2. p.current \in SUBSET Headings /\ p.order \in Seq(Headings) /\ p.content \in [Headings -> Seq(Lines)]
        BY DEF Sections
    <2> HIDE DEF l
    <2>3. CASE l.kind = "heading"
        <3>1. l.is \in Headings
            BY <2>1, <2>3, LineKinds
        <3> QED
            BY <2>2, <2>3, <3>1 DEF TakeLine, Sections, l
    <2>4. CASE l.kind # "heading"
        <3> DEFINE c == [h \in Headings |-> IF h \in p.current THEN Append(p.content[h], l) ELSE p.content[h]]
        <3>1. TakeLine(p, l) = [p EXCEPT !.content = c]
            BY <2>4 DEF TakeLine
        <3>2. c \in [Headings -> Seq(Lines)]
            BY <2>1, <2>2
        <3> HIDE DEF c
        <3> QED
            BY <3>1, <3>2 DEF Sections, l
    <2> QED
        BY <2>3, <2>4
<1>5. step \in [1..N -> [Sections -> Sections]]
    BY <1>4
<1>6. PICK f \in [0..N -> Sections] :
          f[0] = NoSections /\ \A n \in 1..N : f[n] = step[n][f[n - 1]]
    <2> HIDE DEF step, N
    <2>1. N \in Nat
        BY <1>1
    <2> QED
        BY <2>1, <1>3, <1>5, Recursion
<1>7. ASSUME NEW n \in 0..N, n # 0
      PROVE  f[n] = TakeLine(f[n - 1], text[n])
    <2>1. n \in 1..N /\ n - 1 \in 0..N
        BY <1>1, <1>7
    <2>2. f[n - 1] \in Sections
        BY <2>1
    <2>3. step[n][f[n - 1]] = TakeLine(f[n - 1], text[n])
        BY <2>1, <2>2
    <2> HIDE DEF step
    <2> QED
        BY <1>6, <2>1, <2>3
<1>8. f = [n \in 0..N |-> IF n = 0 THEN NoSections ELSE TakeLine(f[n - 1], text[n])]
    <2> HIDE DEF step, N
    <2>1. \A n \in 0..N : f[n] = IF n = 0 THEN NoSections ELSE TakeLine(f[n - 1], text[n])
        BY <1>6, <1>7
    <2>2. f = [n \in 0..N |-> f[n]]
        OBVIOUS
    <2> QED
        BY <2>1, <2>2
<1>9. P = [n \in 0..N |-> IF n = 0 THEN NoSections ELSE TakeLine(P[n - 1], text[n])]
    <2> HIDE DEF N
    <2> QED
        BY <1>8
<1> HIDE DEF P
<1>10. \A n \in 0..N : P[n] = IF n = 0 THEN NoSections ELSE TakeLine(P[n - 1], text[n])
    <2> HIDE DEF N
    <2> QED
        BY <1>9
<1>11. SectionsOf(text, 0, P[0])
    <2>1. P[0] = NoSections
        BY <1>1, <1>10
    <2>2. \A h : ~LastHeading(text, 0, h) /\ Standing(text, 0, h) = {}
        BY DEF LastHeading, Standing
    <2>3. ~\E j \in 1..0 : TRUE
        OBVIOUS
    <2>4. \A h : ~Contains(<<>>, h)
        BY DEF Contains
    <2>5. \A h \in Headings : NoSections.content[h] = Keep(text, Standing(text, 0, h))
        BY <2>2, KeepEmpty DEF NoSections
    <2>6. NoSections.current = {} /\ NoSections.order = <<>>
        BY DEF NoSections
    <2> QED
        BY <1>3, <2>1, <2>2, <2>3, <2>4, <2>5, <2>6 DEF SectionsOf
<1>12. ASSUME NEW n \in Nat, n \in Upto, n + 1 <= N
       PROVE  SectionsOf(text, n + 1, P[n + 1])
    <2>1. n <= N /\ n + 1 \in 0..N /\ n + 1 # 0 /\ (n + 1) - 1 = n /\ n + 1 \in DOMAIN text
        BY <1>1, <1>12
    <2>2. P[n + 1] = TakeLine(P[n], text[n + 1]) /\ SectionsOf(text, n, P[n])
        BY <1>10, <1>12, <2>1
    <2> QED
        BY <2>1, <2>2, OneMoreLine
<1>13. \A n \in Nat : n \in Upto
    <2>1. 0 \in Upto
        BY <1>11
    <2>2. \A n \in Nat : n \in Upto => n + 1 \in Upto
        BY <1>12
    <2> HIDE DEF Upto
    <2> QED
        BY <2>1, <2>2, Induction
<1>14. N <= N
    BY <1>1
<1> QED
    BY <1>1, <1>2, <1>13, <1>14

-----------------------------------------------------------------------------
(* Headings and what stands under them. *)

(* What stands under a heading in the body is what stands under it in the  *)
(* section.                                                                *)
LEMMA TextsOfBody ==
    ASSUME changelog \in Seq(Lines), NEW v \in Versions,
           NEW s, s = SectionStart(changelog, v), s # 0,
           NEW text, text = ExtractSection(changelog, v), NEW h \in Headings
    PROVE  Keep(text, {i \in Standing(text, Len(text), h) : IsText(text[i])}) = TextsUnder(v, h)
<1> DEFINE e == SectionEnd(changelog, v)
           A == (s + 1)..e
           N == Len(text)
<1>0. e = SectionEnd(changelog, v)
    OBVIOUS
<1> HIDE DEF e
<1>1. PICK B \in SUBSET A :
          /\ B \in SUBSET DOMAIN changelog
          /\ text = Keep(changelog, B) /\ text \in Seq(Lines)
          /\ \A i \in A : changelog[i] \in Words => i \in B
          /\ \A j \in DOMAIN text : text[j].kind = "link" => j = 1
    BY <1>0, BodyIs
<1> DEFINE P(j) == Nth(B, j)
           Heading(k) == InSection(v, k) /\ changelog[k].kind = "heading"
           M == {i \in Standing(text, N, h) : IsText(text[i])}
           T == {i \in DOMAIN changelog : IsText(changelog[i]) /\ Under(v, h, i)}
<1>2. Len(changelog) \in Nat /\ DOMAIN changelog = 1..Len(changelog)
    OBVIOUS
<1>3. N \in Nat /\ DOMAIN text = 1..N
    BY <1>1
<1>4. /\ N = Cardinality(B)
      /\ \A j \in 1..N : P(j) \in B /\ text[j] = changelog[P(j)]
      /\ \A j, k \in 1..N : j < k => P(j) < P(k)
      /\ \A i \in B : \E j \in 1..N : P(j) = i
    <2>1. B \in SUBSET DOMAIN changelog /\ text = Keep(changelog, B)
        BY <1>1
    <2>2. Len(text) = Cardinality(B)
        BY <2>1, KeepProperties
    <2>3. /\ \A j \in 1..Cardinality(B) : Nth(B, j) \in B /\ text[j] = changelog[Nth(B, j)]
          /\ \A j, k \in 1..Cardinality(B) : j < k => Nth(B, j) < Nth(B, k)
          /\ \A i \in B : \E j \in 1..Cardinality(B) : Nth(B, j) = i
        BY <2>1, KeepProperties
    <2> QED
        BY <2>2, <2>3
<1>5. \A j \in 1..N : P(j) \in 1..Len(changelog)
    BY <1>1, <1>2, <1>4
<1>6. \A i \in DOMAIN changelog : InSection(v, i) <=> i \in A
    BY <1>0, SectionIs
<1>7. /\ \A j \in 1..N : InSection(v, P(j))
      /\ \A i \in DOMAIN changelog : InSection(v, i) /\ changelog[i].kind \in {"heading", "text"} => i \in B
    <2>1. \A j \in 1..N : P(j) \in A /\ P(j) \in DOMAIN changelog
        BY <1>1, <1>4
    <2>2. ASSUME NEW i \in DOMAIN changelog, InSection(v, i), changelog[i].kind \in {"heading", "text"}
          PROVE  i \in B
        <3>1. changelog[i] \in Words /\ i \in A
            BY <1>6, <2>2 DEF Words
        <3> QED
            BY <1>1, <3>1
    <2> QED
        BY <1>6, <2>1, <2>2
<1> HIDE DEF A, P, N
<1>8. \A j, k \in 1..N : P(j) < P(k) => j < k
    <2> SUFFICES ASSUME NEW j \in 1..N, NEW k \in 1..N, P(j) < P(k), ~(j < k) PROVE FALSE
        OBVIOUS
    <2>1. P(j) \in Nat /\ P(k) \in Nat
        BY <1>5
    <2>2. CASE j = k
        BY <2>1, <2>2
    <2>3. CASE k < j
        <3>1. P(k) < P(j)
            BY <1>4, <2>3
        <3> QED
            BY <2>1, <3>1
    <2> QED
        BY <1>3, <2>2, <2>3
<1>9. \A j \in 1..N, k \in 1..Len(changelog) :
          Heading(k) => \E c \in 1..N : P(c) = k /\ text[c].kind = "heading" /\ text[c].is = changelog[k].is
    BY <1>2, <1>4, <1>7
<1>10. ASSUME NEW j \in M
       PROVE  P(j) \in T
    <2> DEFINE i == P(j)
    <2>1. /\ j \in 1..N /\ IsText(text[j]) /\ LastHeading(text, j, h)
          /\ \A k \in (j + 1)..N : ~HeadingAt(text, k, h)
        BY DEF Standing
    <2>2. PICK a \in 1..j : HeadingAt(text, a, h) /\ \A k \in (a + 1)..j : text[k].kind # "heading"
        BY <2>1 DEF LastHeading
    <2>3. a \in 1..N /\ a < j
        <3>1. a # j
            BY <2>1, <2>2 DEF HeadingAt, IsText
        <3> QED
            BY <1>3, <2>1, <3>1
    <2>4. P(a) < i /\ P(a) \in 1..Len(changelog) /\ i \in 1..Len(changelog)
        BY <1>4, <1>5, <2>1, <2>3
    <2>5. InSection(v, i) /\ Heading(P(a)) /\ changelog[P(a)].is = h /\ IsText(changelog[i])
        BY <1>4, <1>7, <2>1, <2>2, <2>3 DEF HeadingAt
    <2> HIDE DEF Heading
    <2>6. ASSUME NEW k \in (P(a) + 1)..i, Heading(k)
          PROVE  FALSE
        <3>1. k \in 1..Len(changelog)
            BY <1>2, <2>4
        <3>2. PICK c \in 1..N : P(c) = k /\ text[c].kind = "heading"
            BY <1>9, <2>1, <2>6, <3>1
        <3>3. a < c
            BY <1>8, <2>3, <2>4, <3>1, <3>2
        <3>4. c <= j
            <4> SUFFICES ASSUME j < c PROVE FALSE
                BY <1>3, <2>1
            <4>1. i < k
                BY <1>4, <2>1, <3>2
            <4> QED
                BY <2>4, <3>1, <4>1
        <3> QED
            BY <1>3, <2>2, <3>2, <3>3, <3>4
    <2>7. ASSUME NEW k \in (i + 1)..Len(changelog), Heading(k), changelog[k].is = h
          PROVE  FALSE
        <3>1. k \in 1..Len(changelog) /\ i < k
            BY <1>2, <2>4
        <3>2. PICK c \in 1..N : P(c) = k /\ text[c].kind = "heading" /\ text[c].is = h
            BY <1>9, <2>1, <2>7, <3>1
        <3>3. j < c
            BY <1>8, <2>1, <3>1, <3>2
        <3> QED
            BY <1>3, <2>1, <3>2, <3>3 DEF HeadingAt
    <2>8. P(a) \in 1..(i - 1)
        BY <2>4
    <2> HIDE DEF i
    <2>9. Under(v, h, i)
        BY <2>5, <2>6, <2>7, <2>8 DEF Under, Heading
    <2> QED
        BY <1>2, <2>4, <2>5, <2>9 DEF i
<1>11. ASSUME NEW i \in T
       PROVE  \E j \in M : P(j) = i
    <2> HIDE DEF Heading
    <2>1. i \in 1..Len(changelog) /\ IsText(changelog[i]) /\ InSection(v, i)
        BY <1>2 DEF Under
    <2>2. PICK b \in 1..(i - 1) :
             /\ Heading(b) /\ changelog[b].is = h
             /\ \A k \in (b + 1)..i : ~Heading(k)
        BY DEF Under, Heading
    <2>3. \A k \in (i + 1)..Len(changelog) : ~(Heading(k) /\ changelog[k].is = h)
        BY DEF Under, Heading
    <2>4. i \in B
        BY <1>2, <1>7, <2>1 DEF IsText
    <2>5. PICK j \in 1..N : P(j) = i
        BY <1>4, <2>4
    <2>6. b \in 1..Len(changelog) /\ b < i
        BY <1>2, <2>1
    <2>7. PICK a \in 1..N : P(a) = b /\ text[a].kind = "heading" /\ text[a].is = h
        BY <1>9, <2>2, <2>5, <2>6
    <2>8. a < j
        BY <1>8, <2>5, <2>6, <2>7
    <2>9. text[j] = changelog[i] /\ text[j].kind = "text"
        BY <1>4, <2>1, <2>5 DEF IsText
    <2>10. ASSUME NEW k \in (a + 1)..j, text[k].kind = "heading"
           PROVE  FALSE
        <3>1. k \in 1..N /\ a < k /\ k # j
            BY <1>3, <2>9, <2>10
        <3>2. k < j
            BY <1>3, <3>1
        <3>3. b < P(k) /\ P(k) < i
            BY <1>4, <2>5, <2>7, <3>1, <3>2
        <3>4. P(k) \in (b + 1)..i
            BY <1>5, <2>1, <2>6, <3>1, <3>3
        <3>5. Heading(P(k))
            BY <1>4, <1>7, <2>10, <3>1 DEF Heading
        <3> QED
            BY <2>2, <3>4, <3>5
    <2>11. ASSUME NEW k \in (j + 1)..N, HeadingAt(text, k, h)
           PROVE  FALSE
        <3>1. k \in 1..N /\ j < k
            BY <1>3
        <3>2. i < P(k)
            BY <1>4, <2>5, <3>1
        <3>3. P(k) \in (i + 1)..Len(changelog)
            BY <1>5, <2>1, <3>1, <3>2
        <3>4. Heading(P(k)) /\ changelog[P(k)].is = h
            BY <1>4, <1>7, <2>11, <3>1 DEF Heading, HeadingAt
        <3> QED
            BY <2>3, <3>3, <3>4
    <2>12. LastHeading(text, j, h)
        <3>1. a \in 1..j /\ HeadingAt(text, a, h)
            BY <1>3, <2>7, <2>8 DEF HeadingAt
        <3> QED
            BY <2>10, <3>1 DEF LastHeading
    <2>13. j \in M
        BY <2>9, <2>11, <2>12 DEF Standing, IsText
    <2> QED
        BY <2>5, <2>13
<1>12. M \in SUBSET DOMAIN Keep(changelog, B)
    <2>1. M \in SUBSET (1..N)
        BY DEF Standing
    <2> QED
        BY <1>1, <1>3, <2>1
<1> HIDE DEF M, T
<1>13. {P(j) : j \in M} = T
    BY <1>10, <1>11
<1>14. Keep(Keep(changelog, B), M) = Keep(changelog, {Nth(B, j) : j \in M})
    BY <1>1, <1>12, KeepKeep
<1>15. Keep(text, M) = Keep(changelog, T)
    BY <1>1, <1>13, <1>14 DEF P
<1> QED
    BY <1>15 DEF M, T, N, TextsUnder

-----------------------------------------------------------------------------
(* The blocks of the notes. *)

(* The content of a heading has the texts that stand under it, no line but *)
(* texts and blank ones between them, and is empty only without any text.  *)
ContentOf(c, texts) ==
    /\ c \in Seq(Lines)
    /\ \A i \in DOMAIN c : c[i].kind \in {"text", "blank"}
    /\ c # <<>> => ~IsBlank(Head(c)) /\ ~IsBlank(Last(c))
    /\ Keep(c, {i \in DOMAIN c : IsText(c[i])}) = texts
    /\ c = <<>> <=> texts = <<>>

(* Nothing is no content of no text. *)
LEMMA NoContent == ContentOf(<<>>, <<>>)
<1>1. DOMAIN <<>> = {} /\ <<>> \in Seq(Lines)
    OBVIOUS
<1>2. {i \in DOMAIN <<>> : IsText(<<>>[i])} = {}
    BY <1>1
<1>3. Keep(<<>>, {i \in DOMAIN <<>> : IsText(<<>>[i])}) = <<>>
    BY <1>2, KeepEmpty
<1> QED
    BY <1>1, <1>3 DEF ContentOf

(* So the content that is formatted is that of the section. *)
LEMMA ContentIs ==
    ASSUME changelog \in Seq(Lines), NEW v \in Versions, SectionStart(changelog, v) # 0,
           NEW sections, sections = ParseSubsections(ExtractSection(changelog, v)), NEW h
    PROVE  /\ ContentOf(Content(sections, h), TextsUnder(v, h))
           /\ ~Contains(sections.order, h) => Content(sections, h) = <<>>
<1>1. CASE h \notin Headings
    <2>1. Content(sections, h) = <<>>
        BY <1>1 DEF Content
    <2>2. ASSUME NEW i \in DOMAIN changelog
          PROVE  ~Under(v, h, i)
        <3> SUFFICES ASSUME Under(v, h, i) PROVE FALSE
            OBVIOUS
        <3>1. PICK j \in 1..(i - 1) : changelog[j].kind = "heading" /\ changelog[j].is = h
            BY DEF Under
        <3>2. DOMAIN changelog = 1..Len(changelog) /\ Len(changelog) \in Nat
            OBVIOUS
        <3>3. changelog[j] \in Lines
            BY <3>2
        <3> QED
            BY <1>1, <3>1, <3>3, LineKinds
    <2>3. {i \in DOMAIN changelog : IsText(changelog[i]) /\ Under(v, h, i)} = {}
        BY <2>2
    <2>4. TextsUnder(v, h) = <<>>
        BY <2>3, KeepEmpty DEF TextsUnder
    <2> QED
        BY <2>1, <2>4, NoContent
<1>2. CASE h \in Headings
    <2> DEFINE text == ExtractSection(changelog, v)
               N == Len(text)
               K == Standing(text, N, h)
               lines == Keep(text, K)
               c == NormalizeLines(lines)
               G == {l \in Lines : IsText(l)}
    <2>1. text \in Seq(Lines) /\ \A j \in DOMAIN text : text[j].kind = "link" => j = 1
        BY BodyIs
    <2>2. \A j \in DOMAIN text : text[j].kind # "version"
        <3> DEFINE s == SectionStart(changelog, v)
                   e == SectionEnd(changelog, v)
        <3>1. s = SectionStart(changelog, v) /\ e = SectionEnd(changelog, v) /\ s # 0
            OBVIOUS
        <3> HIDE DEF s, e
        <3>2. PICK B \in SUBSET ((s + 1)..e) : B \in SUBSET DOMAIN changelog /\ text = Keep(changelog, B)
            BY <3>1, BodyIs
        <3>3. \A k \in (s + 1)..e : ~IsVersion(changelog[k])
            BY <3>1, EndOf
        <3>4. /\ DOMAIN text = 1..Cardinality(B)
              /\ \A j \in 1..Cardinality(B) : Nth(B, j) \in B /\ text[j] = changelog[Nth(B, j)]
            BY <3>2, KeepProperties
        <3> HIDE DEF text
        <3> QED
            BY <3>2, <3>3, <3>4 DEF IsVersion
    <2>3. Keep(text, {i \in K : IsText(text[i])}) = TextsUnder(v, h)
        BY <1>2, TextsOfBody
    <2>4. SectionsOf(text, N, sections)
        BY <2>1, ParsedSections
    <2> HIDE DEF text
    <2>5. sections.content[h] = lines /\ (Contains(sections.order, h) <=> \E j \in 1..N : HeadingAt(text, j, h))
        BY <1>2, <2>4 DEF SectionsOf
    <2>6. Content(sections, h) = c
        BY <1>2, <2>5 DEF Content
    <2>7. N \in Nat /\ DOMAIN text = 1..N /\ \A i \in DOMAIN text : text[i] \in Lines
        BY <2>1
    <2>8. ASSUME NEW i \in K
          PROVE  /\ i \in DOMAIN text /\ text[i].kind \in {"text", "blank"}
                 /\ \E j \in 1..N : HeadingAt(text, j, h)
        <3>1. i \in 1..N /\ text[i].kind # "heading" /\ LastHeading(text, i, h)
            BY DEF Standing
        <3>2. PICK j \in 1..i : HeadingAt(text, j, h)
            BY <3>1 DEF LastHeading
        <3>3. j # i
            BY <3>1, <3>2 DEF HeadingAt
        <3>4. text[i].kind # "link"
            BY <2>1, <2>7, <3>1, <3>3
        <3>5. text[i] \in Lines /\ text[i].kind # "version"
            BY <2>2, <2>7, <3>1
        <3>6. j \in 1..N
            BY <2>7, <3>1
        <3> QED
            BY <2>7, <3>1, <3>2, <3>4, <3>5, <3>6, LineKinds
    <2>9. K \in SUBSET DOMAIN text
        BY <2>8
    <2> HIDE DEF K, N
    <2>10. lines \in Seq(Lines)
        BY <2>1, <2>9, KeepProperties
    <2> HIDE DEF lines
    <2>11. PICK M \in SUBSET DOMAIN lines :
              c = Keep(lines, M) /\ \A i \in DOMAIN lines : ~IsBlank(lines[i]) => i \in M
        BY <2>10, Normalized
    <2>12. /\ c \in Seq(Lines)
           /\ c # <<>> => ~IsBlank(Head(c)) /\ ~IsBlank(Last(c))
           /\ (c = <<>>) <=> \A i \in DOMAIN lines : IsBlank(lines[i])
        BY <2>10, Normalized
    <2>13. PICK L \in SUBSET K : c = Keep(text, L) /\ \A i \in K : text[i] \in G => i \in L
        <3>1. lines = Keep(text, K)
            BY DEF lines
        <3>2. \A j \in DOMAIN lines : lines[j] \in G => j \in M
            BY <2>11 DEF IsText, IsBlank
        <3>3. c = Keep(lines, M) /\ text \in Seq(Lines)
            BY <2>1, <2>11
        <3> HIDE DEF G, c
        <3> QED
            BY <2>9, <3>1, <3>2, <3>3, KeepSome
    <2> HIDE DEF c
    <2>14. L \in SUBSET DOMAIN text
        BY <2>9, <2>13
    <2>15. Keep(c, {j \in DOMAIN c : IsText(c[j])}) = TextsUnder(v, h)
        <3> DEFINE J == {j \in DOMAIN c : c[j] \in G}
                   T == {i \in L : text[i] \in G}
        <3>1. J \in SUBSET DOMAIN c /\ \A j \in DOMAIN c : j \in J <=> c[j] \in G
            OBVIOUS
        <3>2. T \in SUBSET L /\ \A i \in L : i \in T <=> text[i] \in G
            OBVIOUS
        <3>3. Keep(c, J) = Keep(text, T)
            <4>1. c = Keep(text, L)
                BY <2>13
            <4>2. text \in Seq(Lines)
                BY <2>1
            <4> HIDE DEF G, J, T
            <4>3. /\ DOMAIN c = 1..Cardinality(L)
                  /\ \A j \in 1..Cardinality(L) : Nth(L, j) \in L /\ c[j] = text[Nth(L, j)]
                BY <2>14, <4>1, <4>2, KeepProperties
            <4>4. \A j \in 1..Cardinality(L) : j \in J <=> Nth(L, j) \in T
                BY <3>1, <3>2, <4>3
            <4>5. J \in SUBSET DOMAIN Keep(text, L)
                BY <3>1, <4>1
            <4>6. T \in SUBSET L
                BY <3>2
            <4>7. Keep(Keep(text, L), J) = Keep(text, T)
                BY <2>14, <4>2, <4>4, <4>5, <4>6, KeepPart
            <4> QED
                BY <4>1, <4>7
        <3>4. T = {i \in K : IsText(text[i])}
            <4>1. \A i \in K : text[i] \in G <=> IsText(text[i])
                BY <2>7, <2>9
            <4> HIDE DEF G
            <4> QED
                BY <2>13, <4>1
        <3>5. J = {j \in DOMAIN c : IsText(c[j])}
            <4>1. \A j \in DOMAIN c : c[j] \in Lines
                BY <2>12
            <4> QED
                BY <4>1
        <3> HIDE DEF G, J, T
        <3> QED
            BY <2>3, <3>3, <3>4, <3>5
    <2>16. \A j \in DOMAIN c : c[j].kind \in {"text", "blank"}
        <3>1. /\ DOMAIN c = 1..Cardinality(L)
              /\ \A j \in 1..Cardinality(L) : Nth(L, j) \in L /\ c[j] = text[Nth(L, j)]
            BY <2>1, <2>13, <2>14, KeepProperties
        <3> QED
            BY <2>8, <2>13, <3>1
    <2> DEFINE F == {j \in DOMAIN c : IsText(c[j])}
    <2>17. c = <<>> <=> TextsUnder(v, h) = <<>>
        <3>1. ASSUME c = <<>>
              PROVE  Keep(c, F) = <<>>
            <4>1. F = {}
                BY <3>1
            <4> QED
                BY <4>1, KeepEmpty
        <3>2. ASSUME c # <<>>
              PROVE  Keep(c, F) # <<>>
            <4>1. 1 \in DOMAIN c /\ Head(c) = c[1]
                BY <2>12, <3>2
            <4>2. 1 \in F
                BY <2>12, <2>16, <3>2, <4>1 DEF IsText, IsBlank
            <4>3. F \in SUBSET DOMAIN c
                OBVIOUS
            <4> HIDE DEF F
            <4>4. Cardinality(F) \in Nat \ {0} /\ Len(Keep(c, F)) = Cardinality(F)
                BY <2>12, <4>2, <4>3, NthEnds, KeepProperties
            <4>5. Keep(c, F) = <<>> => Len(Keep(c, F)) = 0
                OBVIOUS
            <4> QED
                BY <4>4, <4>5
        <3> QED
            BY <2>15, <3>1, <3>2
    <2>18. ASSUME ~Contains(sections.order, h)
           PROVE  c = <<>>
        <3>1. K = {}
            BY <2>5, <2>8, <2>18
        <3>2. lines = <<>>
            BY <3>1, KeepEmpty DEF lines
        <3> QED
            BY <2>12, <3>2
    <2> QED
        BY <2>6, <2>12, <2>15, <2>16, <2>17, <2>18 DEF ContentOf
<1> QED
    BY <1>1, <1>2

(* The blocks that are not empty, each under its own heading. *)
LEMMA NotEmptyIs ==
    ASSUME NEW S, NEW blocks \in Seq(S), NEW t, t = NotEmpty(blocks),
           \A i, j \in DOMAIN blocks : blocks[i].heading = blocks[j].heading => i = j
    PROVE  /\ t \in Seq(S)
           /\ \A i \in DOMAIN t : t[i].lines # <<>> /\ \E j \in DOMAIN blocks : t[i] = blocks[j]
           /\ \A j \in DOMAIN blocks : blocks[j].lines # <<>> => \E i \in DOMAIN t : t[i] = blocks[j]
           /\ \A i, k \in DOMAIN t : t[i].heading = t[k].heading => i = k
<1> DEFINE K == {i \in DOMAIN blocks : blocks[i].lines # <<>>}
           c == Cardinality(K)
<1>1. t = Keep(blocks, K)
    BY DEF NotEmpty
<1>2. K \in SUBSET DOMAIN blocks /\ \A i \in K : blocks[i].lines # <<>>
    OBVIOUS
<1>3. \A j \in DOMAIN blocks : blocks[j].lines # <<>> => j \in K
    OBVIOUS
<1> HIDE DEF K
<1>4. /\ t \in Seq(S) /\ DOMAIN t = 1..c /\ c \in 0..Len(blocks)
      /\ \A j \in 1..c : Nth(K, j) \in K /\ t[j] = blocks[Nth(K, j)]
      /\ \A j, k \in 1..c : j < k => Nth(K, j) < Nth(K, k)
      /\ \A i \in K : \E j \in 1..c : Nth(K, j) = i
    BY <1>1, <1>2, KeepProperties
<1>5. Len(blocks) \in Nat /\ DOMAIN blocks = 1..Len(blocks)
    OBVIOUS
<1> HIDE DEF c
<1>6. ASSUME NEW i \in DOMAIN t
      PROVE  t[i].lines # <<>> /\ \E j \in DOMAIN blocks : t[i] = blocks[j]
    BY <1>2, <1>4
<1>7. ASSUME NEW j \in DOMAIN blocks, blocks[j].lines # <<>>
      PROVE  \E i \in DOMAIN t : t[i] = blocks[j]
    <2>1. PICK i \in 1..c : Nth(K, i) = j
        BY <1>3, <1>4, <1>7
    <2> QED
        BY <1>4, <2>1
<1>8. ASSUME NEW i \in DOMAIN t, NEW k \in DOMAIN t, t[i].heading = t[k].heading
      PROVE  i = k
    <2>1. Nth(K, i) = Nth(K, k) /\ Nth(K, i) \in 1..Len(blocks)
        BY <1>2, <1>4, <1>5, <1>8
    <2>2. i \in 1..c /\ k \in 1..c /\ c \in Nat
        BY <1>4, <1>5
    <2>3. ~(i < k)
        <3> SUFFICES ASSUME i < k PROVE FALSE
            OBVIOUS
        <3>1. Nth(K, i) < Nth(K, k)
            BY <1>4, <2>2
        <3> QED
            BY <2>1, <3>1
    <2>4. ~(k < i)
        <3> SUFFICES ASSUME k < i PROVE FALSE
            OBVIOUS
        <3>1. Nth(K, k) < Nth(K, i)
            BY <1>4, <2>2
        <3> QED
            BY <2>1, <3>1
    <2> QED
        BY <2>2, <2>3, <2>4
<1> QED
    BY <1>4, <1>6, <1>7, <1>8

NoActionLine == [kind |-> "text", is |-> NoAction]

(* What the notes say under heading h. *)
LinesFor(sections, h) ==
    IF Content(sections, h) = <<>> /\ h = Action THEN <<NoActionLine>> ELSE Content(sections, h)

(* Every heading of the summary and of the section has its block, unless   *)
(* there is nothing to say under it.                                       *)
LEMMA BlocksAre ==
    ASSUME NEW sections \in Sections,
           \A i, k \in DOMAIN sections.order : sections.order[i] = sections.order[k] => i = k,
           \A h : Content(sections, h) \in Seq(Lines),
           NEW blocks, blocks = FormatSummary(sections) \o FormatTechnical(sections)
    PROVE  /\ DOMAIN blocks = 1..Len(blocks)
           /\ \A i \in DOMAIN blocks : /\ blocks[i].lines = LinesFor(sections, blocks[i].heading)
                                       /\ blocks[i].lines # <<>>
           /\ \A i, k \in DOMAIN blocks : blocks[i].heading = blocks[k].heading => i = k
           /\ \A h : /\ LinesFor(sections, h) # <<>>
                     /\ Contains(SummarySections, h) \/ Contains(sections.order, h)
                     => \E i \in DOMAIN blocks : blocks[i].heading = h
<1> DEFINE Named == {SummarySections[i] : i \in 1..3}
           T == [heading : Named \cup Headings, lines : Seq(Lines \cup {NoActionLine})]
           first == [i \in 1..3 |-> Block(SummarySections[i], LinesFor(sections, SummarySections[i]))]
           J == {i \in DOMAIN sections.order : ~Contains(SummarySections, sections.order[i])}
           technical == Keep(sections.order, J)
           second == [i \in 1..Len(technical) |-> Block(technical[i], Content(sections, technical[i]))]
           a == NotEmpty(first)
           b == NotEmpty(second)
<1>1. Len(SummarySections) = 3
    BY DEF SummarySections
<1>2. \A h : Contains(SummarySections, h) <=> h \in Named
    BY <1>1 DEF Contains
<1>3. FormatSummary(sections) = a
    BY <1>1 DEF FormatSummary, LinesFor, NoActionLine
<1>4. FormatTechnical(sections) = b
    BY DEF FormatTechnical
<1>5. \A h : LinesFor(sections, h) \in Seq(Lines \cup {NoActionLine})
    <2> SUFFICES ASSUME NEW h
                 PROVE  LinesFor(sections, h) \in Seq(Lines \cup {NoActionLine})
        OBVIOUS
    <2>1. CASE Content(sections, h) = <<>> /\ h = Action
        BY <2>1 DEF LinesFor
    <2>2. CASE ~(Content(sections, h) = <<>> /\ h = Action)
        <3>1. LinesFor(sections, h) = Content(sections, h)
            BY <2>2 DEF LinesFor
        <3>2. Content(sections, h) \in Seq(Lines)
            OBVIOUS
        <3> DEFINE c == Content(sections, h)
        <3>3. c \in Seq(Lines)
            BY <3>2
        <3> HIDE DEF c
        <3>4. c \in Seq(Lines \cup {NoActionLine})
            BY <3>3
        <3> QED
            BY <3>1, <3>4 DEF c
    <2> QED
        BY <2>1, <2>2
<1>6. /\ \A i \in 1..3 : first[i].heading = SummarySections[i] /\ first[i].lines = LinesFor(sections, SummarySections[i])
      /\ \A i \in 1..3 : first[i] \in T
    <2> HIDE DEF Named
    <2>1. \A i \in 1..3 : SummarySections[i] \in Named
        BY DEF Named
    <2> QED
        BY <1>5, <2>1 DEF Block
<1>7. first \in Seq(T) /\ DOMAIN first = 1..3
    <2> DEFINE f == first
    <2>1. f = [i \in 1..3 |-> f[i]] /\ \A i \in 1..3 : f[i] \in T
        BY <1>6
    <2> HIDE DEF f, T
    <2>2. f \in [1..3 -> T]
        BY <2>1
    <2> QED
        BY <2>2 DEF f
<1>8. \A i, j \in 1..3 : SummarySections[i] = SummarySections[j] => i = j
    <2>1. \A i \in 1..3 : i = 1 \/ i = 2 \/ i = 3
        OBVIOUS
    <2>2. /\ SummarySections[1] = "What's new" /\ SummarySections[2] = "What this means"
          /\ SummarySections[3] = "Action required"
        BY DEF SummarySections, Action
    <2> QED
        BY <2>1, <2>2
<1>9. sections.order \in Seq(Headings)
    BY DEF Sections
<1>10. /\ technical \in Seq(Headings)
       /\ \A i \in 1..Len(technical) : /\ technical[i] \in Headings
                                       /\ Contains(sections.order, technical[i])
                                       /\ technical[i] \notin Named
       /\ \A h : Contains(sections.order, h) /\ h \notin Named => \E i \in 1..Len(technical) : technical[i] = h
       /\ \A i, k \in 1..Len(technical) : technical[i] = technical[k] => i = k
    <2> DEFINE c == Cardinality(J)
               o == sections.order
    <2>1. J \in SUBSET DOMAIN o /\ \A j \in DOMAIN o : j \in J <=> ~Contains(SummarySections, o[j])
        OBVIOUS
    <2>2. o \in Seq(Headings) /\ \A i, k \in DOMAIN o : o[i] = o[k] => i = k
        BY <1>9
    <2>3. DOMAIN o = 1..Len(o) /\ Len(o) \in Nat /\ \A i \in DOMAIN o : o[i] \in Headings
        BY <2>2
    <2>9. technical = Keep(o, J)
        OBVIOUS
    <2> HIDE DEF J, o, technical
    <2>4. /\ technical \in Seq(Headings) /\ Len(technical) = c /\ c \in 0..Len(o)
          /\ \A j \in 1..c : Nth(J, j) \in J /\ technical[j] = o[Nth(J, j)]
          /\ \A j, k \in 1..c : j < k => Nth(J, j) < Nth(J, k)
          /\ \A i \in J : \E j \in 1..c : Nth(J, j) = i
        BY <2>1, <2>2, <2>9, KeepProperties
    <2> HIDE DEF c
    <2>5. ASSUME NEW i \in 1..c
          PROVE  /\ technical[i] \in Headings /\ Contains(o, technical[i])
                 /\ technical[i] \notin Named
        <3>1. Nth(J, i) \in DOMAIN o /\ technical[i] = o[Nth(J, i)]
            BY <2>1, <2>4
        <3> QED
            BY <1>2, <2>1, <2>3, <2>4, <3>1 DEF Contains
    <2>6. ASSUME NEW h, Contains(o, h), h \notin Named
          PROVE  \E i \in 1..c : technical[i] = h
        <3>1. PICK j \in DOMAIN o : o[j] = h
            BY <2>3, <2>6 DEF Contains
        <3>2. j \in J
            BY <1>2, <2>1, <2>6, <3>1
        <3> QED
            BY <2>4, <3>1, <3>2
    <2>7. ASSUME NEW i \in 1..c, NEW k \in 1..c, technical[i] = technical[k]
          PROVE  i = k
        <3>1. Nth(J, i) = Nth(J, k) /\ Nth(J, i) \in 1..Len(o)
            BY <2>1, <2>2, <2>3, <2>4, <2>7
        <3>2. c \in Nat
            BY <2>3, <2>4
        <3>3. ~(i < k)
            <4> SUFFICES ASSUME i < k PROVE FALSE
                OBVIOUS
            <4>1. Nth(J, i) < Nth(J, k)
                BY <2>4
            <4> QED
                BY <3>1, <4>1
        <3>4. ~(k < i)
            <4> SUFFICES ASSUME k < i PROVE FALSE
                OBVIOUS
            <4>1. Nth(J, k) < Nth(J, i)
                BY <2>4
            <4> QED
                BY <3>1, <4>1
        <3> QED
            BY <3>2, <3>3, <3>4
    <2> QED
        BY <2>4, <2>5, <2>6, <2>7 DEF o
<1> HIDE DEF technical, Named
<1>11. Len(technical) \in Nat
    BY <1>10
<1>12. Action \in Named
    <2>1. SummarySections[3] = Action /\ 3 \in 1..3
        BY DEF SummarySections
    <2> QED
        BY <2>1 DEF Named
<1>13. \A i \in 1..Len(technical) :
           /\ second[i].heading = technical[i]
           /\ second[i].lines = LinesFor(sections, technical[i])
           /\ second[i] \in T
    <2> SUFFICES ASSUME NEW i \in 1..Len(technical)
                 PROVE  /\ second[i].heading = technical[i]
                        /\ second[i].lines = LinesFor(sections, technical[i])
                        /\ second[i] \in T
        OBVIOUS
    <2>1. technical[i] \in Headings /\ technical[i] # Action
        BY <1>10, <1>12
    <2>2. second[i] = Block(technical[i], LinesFor(sections, technical[i]))
        BY <2>1 DEF LinesFor
    <2> HIDE DEF second
    <2> QED
        BY <1>5, <2>1, <2>2 DEF Block
<1>14. second \in Seq(T) /\ DOMAIN second = 1..Len(technical)
    <2> DEFINE f == second
               n == Len(technical)
    <2>1. f = [i \in 1..n |-> f[i]] /\ \A i \in 1..n : f[i] \in T
        BY <1>13
    <2>2. n \in Nat
        BY <1>11
    <2> HIDE DEF f, T, n
    <2>3. f \in [1..n -> T]
        BY <2>1
    <2>4. f \in Seq(T) /\ DOMAIN f = 1..n
        BY <2>2, <2>3
    <2> QED
        BY <2>4 DEF f, n
<1> HIDE DEF first, second, T
<1>15. /\ a \in Seq(T)
       /\ \A i \in DOMAIN a : a[i].lines # <<>> /\ \E j \in DOMAIN first : a[i] = first[j]
       /\ \A j \in DOMAIN first : first[j].lines # <<>> => \E i \in DOMAIN a : a[i] = first[j]
       /\ \A i, k \in DOMAIN a : a[i].heading = a[k].heading => i = k
    <2>1. \A i, j \in DOMAIN first : first[i].heading = first[j].heading => i = j
        BY <1>6, <1>7, <1>8
    <2> QED
        BY <1>7, <2>1, NotEmptyIs
<1>16. /\ b \in Seq(T)
       /\ \A i \in DOMAIN b : b[i].lines # <<>> /\ \E j \in DOMAIN second : b[i] = second[j]
       /\ \A j \in DOMAIN second : second[j].lines # <<>> => \E i \in DOMAIN b : b[i] = second[j]
       /\ \A i, k \in DOMAIN b : b[i].heading = b[k].heading => i = k
    <2>1. \A i, j \in DOMAIN second : second[i].heading = second[j].heading => i = j
        BY <1>10, <1>13, <1>14
    <2> QED
        BY <1>14, <2>1, NotEmptyIs
<1> HIDE DEF a, b
<1>17. blocks = a \o b
    BY <1>3, <1>4
<1>18. \A i \in DOMAIN a : /\ a[i].lines = LinesFor(sections, a[i].heading)
                           /\ a[i].lines # <<>> /\ a[i].heading \in Named
    BY <1>6, <1>7, <1>15 DEF Named
<1>19. \A i \in DOMAIN b : /\ b[i].lines = LinesFor(sections, b[i].heading)
                           /\ b[i].lines # <<>> /\ b[i].heading \notin Named
    <2> SUFFICES ASSUME NEW i \in DOMAIN b
                 PROVE  /\ b[i].lines = LinesFor(sections, b[i].heading)
                        /\ b[i].lines # <<>> /\ b[i].heading \notin Named
        OBVIOUS
    <2>1. PICK j \in 1..Len(technical) : b[i] = second[j]
        BY <1>14, <1>16
    <2>2. b[i].heading = technical[j] /\ b[i].lines = LinesFor(sections, technical[j])
        BY <1>13, <2>1
    <2> QED
        BY <1>10, <1>16, <2>2
<1>20. ASSUME NEW h, LinesFor(sections, h) # <<>>,
              Contains(SummarySections, h) \/ Contains(sections.order, h)
       PROVE  (\E i \in DOMAIN a : a[i].heading = h) \/ (\E i \in DOMAIN b : b[i].heading = h)
    <2>1. CASE h \in Named
        <3>1. PICK j \in 1..3 : SummarySections[j] = h
            BY <2>1 DEF Named
        <3> QED
            BY <1>6, <1>7, <1>15, <1>20, <3>1
    <2>2. CASE h \notin Named
        <3>1. PICK j \in 1..Len(technical) : technical[j] = h
            BY <1>2, <1>10, <1>20, <2>2
        <3> QED
            BY <1>13, <1>14, <1>16, <1>20, <3>1
    <2> QED
        BY <2>1, <2>2
<1> DEFINE m == Len(a)
           n == Len(b)
<1>21. /\ m \in Nat /\ n \in Nat /\ DOMAIN a = 1..m /\ DOMAIN b = 1..n
       /\ Len(blocks) = m + n /\ DOMAIN blocks = 1..(m + n)
       /\ \A i \in 1..(m + n) : blocks[i] = IF i <= m THEN a[i] ELSE b[i - m]
    BY <1>15, <1>16, <1>17
<1> HIDE DEF m, n
<1>22. \A i \in 1..(m + n) : IF i <= m THEN i \in 1..m ELSE i - m \in 1..n
    BY <1>21
<1>23. \A i \in DOMAIN blocks : /\ blocks[i].lines = LinesFor(sections, blocks[i].heading)
                                /\ blocks[i].lines # <<>>
                                /\ blocks[i].heading \in Named <=> i <= m
    <2> SUFFICES ASSUME NEW i \in 1..(m + n)
                 PROVE  /\ blocks[i].lines = LinesFor(sections, blocks[i].heading)
                        /\ blocks[i].lines # <<>>
                        /\ blocks[i].heading \in Named <=> i <= m
        BY <1>21
    <2>1. CASE i <= m
        <3>1. blocks[i] = a[i] /\ i \in DOMAIN a
            BY <1>21, <1>22, <2>1
        <3> QED
            BY <1>18, <2>1, <3>1
    <2>2. CASE ~(i <= m)
        <3>1. blocks[i] = b[i - m] /\ i - m \in DOMAIN b
            BY <1>21, <1>22, <2>2
        <3> QED
            BY <1>19, <2>2, <3>1
    <2> QED
        BY <2>1, <2>2
<1>24. ASSUME NEW i \in DOMAIN blocks, NEW k \in DOMAIN blocks, blocks[i].heading = blocks[k].heading
       PROVE  i = k
    <2>1. i <= m <=> k <= m
        BY <1>23, <1>24
    <2>2. CASE i <= m
        BY <1>15, <1>21, <1>22, <1>24, <2>1, <2>2
    <2>3. CASE ~(i <= m)
        <3>1. /\ i - m \in 1..n /\ k - m \in 1..n
              /\ blocks[i] = b[i - m] /\ blocks[k] = b[k - m]
            BY <1>21, <1>22, <2>1, <2>3
        <3>2. i - m = k - m
            BY <1>16, <1>21, <1>24, <3>1
        <3> QED
            BY <1>21, <3>2
    <2> QED
        BY <2>2, <2>3
<1>25. ASSUME NEW h, LinesFor(sections, h) # <<>>,
              Contains(SummarySections, h) \/ Contains(sections.order, h)
       PROVE  \E i \in DOMAIN blocks : blocks[i].heading = h
    <2>1. CASE \E i \in DOMAIN a : a[i].heading = h
        <3>1. PICK i \in 1..m : a[i].heading = h
            BY <1>21, <2>1
        <3>2. i \in 1..(m + n) /\ i <= m
            BY <1>21
        <3> QED
            BY <1>21, <3>1, <3>2
    <2>2. CASE \E i \in DOMAIN b : b[i].heading = h
        <3>1. PICK i \in 1..n : b[i].heading = h
            BY <1>21, <2>2
        <3>2. m + i \in 1..(m + n) /\ ~(m + i <= m) /\ (m + i) - m = i
            BY <1>21
        <3>3. blocks[m + i] = b[i]
            BY <1>21, <3>2
        <3> QED
            BY <1>21, <3>1, <3>2, <3>3
    <2> QED
        BY <1>20, <1>25, <2>1, <2>2
<1> QED
    BY <1>21, <1>23, <1>24, <1>25

-----------------------------------------------------------------------------
(* The theorems. *)

(* The notes are those that the script computes of the CHANGELOG that is   *)
(* there, which has a section of the version.                              *)
NotesInv ==
    /\ changelog \in Seq(Lines)
    /\ outcome.result = "notes" =>
          \E v \in Versions : /\ SectionStart(changelog, v) # 0
                              /\ outcome.notes = BuildReleaseNotes(changelog, v)

(* Nothing changes the CHANGELOG, and only a run without notes writes them. *)
LEMMA NotesInvHolds == NotesSpec => []NotesInv
<1>1. NotesInit => NotesInv
    <2> SUFFICES ASSUME NotesInit PROVE NotesInv
        OBVIOUS
    <2>1. changelog \in Seq(Lines)
        BY DEF NotesInit, BoundedSeq, SeqOf
    <2> QED
        BY <2>1 DEF NotesInit, NotesInv
<1>2. NotesInv /\ [NotesNext]_notesVars => NotesInv'
    <2> SUFFICES ASSUME NotesInv, [NotesNext]_notesVars PROVE NotesInv'
        OBVIOUS
    <2>1. ASSUME NEW v \in Versions, Format(v)
          PROVE  NotesInv'
        <3>1. changelog' = changelog /\ changelog' \in Seq(Lines)
            BY <2>1 DEF Format, NotesInv
        <3>2. CASE SectionStart(changelog, v) = 0
            <4>1. outcome' = [result |-> "failed"]
                BY <2>1, <3>2 DEF Format
            <4>2. outcome'.result # "notes"
                BY <4>1
            <4> QED
                BY <3>1, <4>2 DEF NotesInv
        <3>3. CASE SectionStart(changelog, v) # 0
            <4>1. outcome' = [result |-> "notes", notes |-> BuildReleaseNotes(changelog, v)]
                BY <2>1, <3>3 DEF Format
            <4>2. outcome'.notes = BuildReleaseNotes(changelog', v)
                BY <3>1, <4>1
            <4>3. SectionStart(changelog', v) # 0
                BY <3>1, <3>3
            <4> QED
                BY <3>1, <4>2, <4>3 DEF NotesInv
        <3> QED
            BY <3>2, <3>3
    <2>2. CASE UNCHANGED notesVars
        <3>1. changelog' = changelog /\ outcome' = outcome
            BY <2>2 DEF notesVars
        <3> QED
            BY <3>1 DEF NotesInv
    <2> QED
        BY <2>1, <2>2 DEF NotesNext
<1> QED
    BY <1>1, <1>2, PTL DEF NotesSpec

(* The blocks of the notes, by heading. *)
LEMMA BlocksByHeading ==
    ASSUME changelog \in Seq(Lines), NEW v \in Versions, SectionStart(changelog, v) # 0,
           NEW sections, sections = ParseSubsections(ExtractSection(changelog, v)),
           NEW notes, notes = BuildReleaseNotes(changelog, v),
           NEW blocks, blocks = Blocks(notes)
    PROVE  /\ notes.version = v
           /\ \A h : ContentOf(Content(sections, h), TextsUnder(v, h))
           /\ DOMAIN blocks = 1..Len(blocks)
           /\ \A i \in DOMAIN blocks : /\ blocks[i].lines = LinesFor(sections, blocks[i].heading)
                                       /\ blocks[i].lines # <<>>
           /\ \A i, k \in DOMAIN blocks : blocks[i].heading = blocks[k].heading => i = k
           /\ \A h : LinesFor(sections, h) # <<>> => \E i \in DOMAIN blocks : blocks[i].heading = h
<1>1. notes = [version |-> v, summary |-> FormatSummary(sections),
               technical |-> FormatTechnical(sections), tags |-> DockerTags(v)]
    BY DEF BuildReleaseNotes
<1>2. notes.version = v /\ blocks = FormatSummary(sections) \o FormatTechnical(sections)
    BY <1>1 DEF Blocks
<1>3. /\ sections \in Sections
      /\ \A i, k \in DOMAIN sections.order : sections.order[i] = sections.order[k] => i = k
    <2> DEFINE text == ExtractSection(changelog, v)
    <2>1. text \in Seq(Lines)
        BY BodyIs
    <2> HIDE DEF text
    <2>2. SectionsOf(text, Len(text), ParseSubsections(text))
        BY <2>1, ParsedSections
    <2> QED
        BY <2>2 DEF SectionsOf, text
<1>4. \A h : /\ ContentOf(Content(sections, h), TextsUnder(v, h))
             /\ ~Contains(sections.order, h) => Content(sections, h) = <<>>
    BY ContentIs
<1>5. \A h : Content(sections, h) \in Seq(Lines)
    BY <1>4 DEF ContentOf
<1>6. /\ DOMAIN blocks = 1..Len(blocks)
      /\ \A i \in DOMAIN blocks : /\ blocks[i].lines = LinesFor(sections, blocks[i].heading)
                                  /\ blocks[i].lines # <<>>
      /\ \A i, k \in DOMAIN blocks : blocks[i].heading = blocks[k].heading => i = k
      /\ \A h : /\ LinesFor(sections, h) # <<>>
                /\ Contains(SummarySections, h) \/ Contains(sections.order, h)
                => \E i \in DOMAIN blocks : blocks[i].heading = h
    BY <1>2, <1>3, <1>5, BlocksAre
<1>7. ASSUME NEW h, LinesFor(sections, h) # <<>>
      PROVE  Contains(SummarySections, h) \/ Contains(sections.order, h)
    <2>1. CASE h = Action
        <3>1. Len(SummarySections) = 3 /\ SummarySections[3] = Action /\ 3 \in 1..3
            BY DEF SummarySections
        <3> QED
            BY <2>1, <3>1 DEF Contains
    <2>2. CASE h # Action
        BY <1>4, <1>7, <2>2 DEF LinesFor
    <2> QED
        BY <2>1, <2>2
<1> QED
    BY <1>2, <1>4, <1>6, <1>7

(* The notes of a version say what the CHANGELOG's section of it says,     *)
(* whatever the CHANGELOG and however long it is.                          *)
THEOREM NotesFollowTheSection == NotesSpec => []NotesAreTheSection
<1>1. NotesInv => NotesAreTheSection
    <2> SUFFICES ASSUME NotesInv, outcome.result = "notes",
                        NEW h \in Headings \cup {Action}
                 PROVE  LET blocks == Blocks(outcome.notes)
                            at == {i \in DOMAIN blocks : blocks[i].heading = h}
                            expected == Expected(outcome.notes.version, h)
                        IN  IF expected = <<>> THEN at = {}
                            ELSE \E i \in at : at = {i} /\ TextsOf(blocks[i]) = expected
        BY DEF NotesAreTheSection
    <2>1. PICK v \in Versions : SectionStart(changelog, v) # 0 /\ outcome.notes = BuildReleaseNotes(changelog, v)
        BY DEF NotesInv
    <2> DEFINE blocks == Blocks(outcome.notes)
               sections == ParseSubsections(ExtractSection(changelog, v))
               at == {i \in DOMAIN blocks : blocks[i].heading = h}
               c == Content(sections, h)
               texts == TextsUnder(v, h)
               expected == Expected(v, h)
    <2>2. /\ outcome.notes.version = v
          /\ ContentOf(c, texts)
          /\ \A i \in DOMAIN blocks : /\ blocks[i].lines = LinesFor(sections, blocks[i].heading)
                                      /\ blocks[i].lines # <<>>
          /\ \A i, k \in DOMAIN blocks : blocks[i].heading = blocks[k].heading => i = k
          /\ LinesFor(sections, h) # <<>> => \E i \in DOMAIN blocks : blocks[i].heading = h
        BY <2>1, BlocksByHeading DEF NotesInv
    <2> HIDE DEF blocks, sections, texts, c
    <2>3. expected = IF h = Action /\ texts = <<>> THEN <<NoActionLine>> ELSE texts
        BY DEF Expected, texts, NoActionLine
    <2>4. LinesFor(sections, h) = IF c = <<>> /\ h = Action THEN <<NoActionLine>> ELSE c
        BY DEF LinesFor, c
    <2> HIDE DEF expected
    <2>5. (c = <<>> <=> texts = <<>>) /\ Keep(c, {i \in DOMAIN c : IsText(c[i])}) = texts
        BY <2>2 DEF ContentOf
    <2>6. <<NoActionLine>> # <<>>
        OBVIOUS
    <2>7. CASE expected = <<>>
        <3>1. LinesFor(sections, h) = <<>>
            BY <2>3, <2>4, <2>5, <2>6, <2>7
        <3>2. at = {}
            BY <2>2, <3>1
        <3> QED
            BY <2>2, <2>7, <3>2 DEF blocks, expected
    <2>8. CASE expected # <<>>
        <3>1. LinesFor(sections, h) # <<>>
            BY <2>3, <2>4, <2>5, <2>6, <2>8
        <3>2. PICK i \in DOMAIN blocks : blocks[i].heading = h
            BY <2>2, <3>1
        <3>3. at = {i} /\ i \in at
            BY <2>2, <3>2
        <3>4. blocks[i].lines = LinesFor(sections, h)
            BY <2>2, <3>2
        <3>5. TextsOf(blocks[i]) = expected
            <4>1. CASE c = <<>> /\ h = Action
                <5> DEFINE n == <<NoActionLine>>
                <5>1. blocks[i].lines = n /\ expected = n
                    BY <2>3, <2>4, <2>5, <3>4, <4>1
                <5>2. n \in Seq({NoActionLine}) /\ DOMAIN n = {1} /\ n[1] = NoActionLine
                    OBVIOUS
                <5>3. {j \in DOMAIN n : IsText(n[j])} = DOMAIN n
                    BY <5>2 DEF IsText, NoActionLine
                <5> HIDE DEF n
                <5>4. Keep(n, DOMAIN n) = n
                    BY <5>2, KeepAll
                <5> QED
                    BY <5>1, <5>3, <5>4 DEF TextsOf
            <4>2. CASE ~(c = <<>> /\ h = Action)
                <5>1. blocks[i].lines = c /\ expected = texts
                    BY <2>3, <2>4, <2>5, <3>4, <4>2
                <5> QED
                    BY <2>5, <5>1 DEF TextsOf
            <4> QED
                BY <4>1, <4>2
        <3>6. \E k \in at : at = {k} /\ TextsOf(blocks[k]) = expected
            BY <3>3, <3>5
        <3> QED
            BY <2>2, <2>8, <3>6 DEF blocks, expected
    <2> QED
        BY <2>7, <2>8
<1> QED
    BY <1>1, NotesInvHolds, PTL

(* No block of the notes begins or ends with a blank line or has a link    *)
(* definition.                                                             *)
THEOREM BlocksStayTidy == NotesSpec => []BlocksAreTidy
<1>1. NotesInv => BlocksAreTidy
    <2> SUFFICES ASSUME NotesInv, outcome.result = "notes",
                        NEW b \in ToSet(Blocks(outcome.notes))
                 PROVE  /\ \A l \in ToSet(b.lines) : l.kind \in {"text", "blank"}
                        /\ ~IsBlank(Head(b.lines)) /\ ~IsBlank(Last(b.lines))
        BY DEF BlocksAreTidy
    <2>1. PICK v \in Versions : SectionStart(changelog, v) # 0 /\ outcome.notes = BuildReleaseNotes(changelog, v)
        BY DEF NotesInv
    <2> DEFINE blocks == Blocks(outcome.notes)
               sections == ParseSubsections(ExtractSection(changelog, v))
    <2>2. /\ \A h : ContentOf(Content(sections, h), TextsUnder(v, h))
          /\ \A i \in DOMAIN blocks : /\ blocks[i].lines = LinesFor(sections, blocks[i].heading)
                                      /\ blocks[i].lines # <<>>
        BY <2>1, BlocksByHeading DEF NotesInv
    <2>3. PICK i \in DOMAIN blocks : b = blocks[i]
        BY DEF ToSet
    <2> HIDE DEF blocks, sections
    <2> DEFINE h == b.heading
               c == Content(sections, h)
    <2>4. b.lines = LinesFor(sections, h) /\ b.lines # <<>> /\ ContentOf(c, TextsUnder(v, h))
        BY <2>2, <2>3
    <2>5. CASE c = <<>> /\ h = Action
        <3>1. b.lines = <<NoActionLine>>
            BY <2>4, <2>5 DEF LinesFor
        <3>2. NoActionLine.kind = "text"
            BY DEF NoActionLine
        <3> DEFINE n == <<NoActionLine>>
        <3>3. /\ DOMAIN n = {1} /\ n[1] = NoActionLine /\ Len(n) = 1 /\ Head(n) = NoActionLine
            OBVIOUS
        <3> HIDE DEF n
        <3>4. b.lines = n
            BY <3>1 DEF n
        <3> QED
            BY <3>2, <3>3, <3>4 DEF ToSet, Last, IsBlank
    <2>6. CASE ~(c = <<>> /\ h = Action)
        <3>1. b.lines = c
            BY <2>4, <2>6 DEF LinesFor
        <3> HIDE DEF c
        <3>2. /\ \A j \in DOMAIN c : c[j].kind \in {"text", "blank"}
              /\ ~IsBlank(Head(c)) /\ ~IsBlank(Last(c))
            BY <2>4, <3>1 DEF ContentOf
        <3> QED
            BY <3>1, <3>2 DEF ToSet
    <2> QED
        BY <2>5, <2>6
<1> QED
    BY <1>1, NotesInvHolds, PTL

-----------------------------------------------------------------------------
(* The check of a pull request. *)

(* Without an edit the event carries the body as it is, and a finished     *)
(* check gave the verdict on the event and the branch as they are now.     *)
DocsInv ==
    /\ exempt \in BOOLEAN /\ docs \in BOOLEAN /\ edited \in BOOLEAN
    /\ body \in Bodies /\ event \in Bodies
    /\ ~edited => event = body
    /\ check = "passed" => Verdict(event, docs, mainDocs)
    /\ check = "failed" => ~Verdict(event, docs, mainDocs)

(* A body declares what is true of the branch exactly when the script says *)
(* so: of both lines, ticked, exactly one counts, and the true one.        *)
LEMMA VerdictMeans ==
    ASSUME NEW b \in Bodies, NEW own \in BOOLEAN, NEW main
    PROVE  Verdict(b, own, main) <=> exempt \/ Declares(b, own)
<1>1. b.docs_updated \in BOOLEAN /\ \E n \in 0..MaxReasons : b.no_docs \in [1..n -> Reasons]
    BY DEF Bodies
<1>2. b.no_docs \in Seq(Reasons)
    BY <1>1, DocsImpactAssumption
<1>3. b.no_docs # <<>> => Head(b.no_docs) = b.no_docs[1]
    BY <1>2
<1> QED
    BY <1>1, <1>3 DEF Verdict, Declares, NoDocsUpdate, DocsChanged

(* Until the body is edited, a finished check tells the truth about the    *)
(* pull request as it is, for any number of ticked lines.                  *)
THEOREM GreenStaysTrue == DocsSpec => []GreenIsTrue
<1>1. DocsInit => DocsInv
    BY DEF DocsInit, DocsInv
<1>2. DocsInv /\ [DocsNext]_docsVars => DocsInv'
    <2> SUFFICES ASSUME DocsInv, [DocsNext]_docsVars PROVE DocsInv'
        OBVIOUS
    <2> USE DEF DocsInv
    <2>1. CASE Open
        BY <2>1 DEF Open
    <2>2. CASE RunCheck
        BY <2>2 DEF RunCheck, Verdict, DocsChanged
    <2>3. ASSUME NEW changed \in BOOLEAN, PushCommit(changed)
          PROVE  DocsInv'
        BY <2>3 DEF PushCommit
    <2>4. ASSUME NEW b \in Bodies, EditBody(b)
          PROVE  DocsInv'
        BY <2>4 DEF EditBody, Verdict, DocsChanged
    <2>5. CASE Rerun
        BY <2>5 DEF Rerun
    <2>6. CASE MainChanges
        BY <2>6 DEF MainChanges, Verdict, DocsChanged
    <2>7. CASE UNCHANGED docsVars
        BY <2>7 DEF docsVars, Verdict, DocsChanged
    <2> QED
        BY <2>1, <2>2, <2>3, <2>4, <2>5, <2>6, <2>7 DEF DocsNext
<1>3. DocsInv => GreenIsTrue
    <2> SUFFICES ASSUME DocsInv, ~edited
                 PROVE  /\ check = "passed" => exempt \/ Declares(body, docs)
                        /\ check = "failed" => ~exempt /\ ~Declares(body, docs)
        BY DEF GreenIsTrue
    <2>1. Verdict(body, docs, mainDocs) <=> exempt \/ Declares(body, docs)
        BY VerdictMeans DEF DocsInv
    <2> QED
        BY <2>1 DEF DocsInv
<1> QED
    BY <1>1, <1>2, <1>3, PTL DEF DocsSpec
=============================================================================
