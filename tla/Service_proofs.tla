--------------------------- MODULE Service_proofs ---------------------------
(***************************************************************************)
(* Proofs of Service, for any number of requests, clients and settings.    *)
(* The limiter's theorems carry over, because the service takes no step of *)
(* the store that RateLimiter does not have. The last theorem is that the  *)
(* service implements Replies: requests do not touch each other's answers. *)
(***************************************************************************)
EXTENDS Service, RateLimiter_proofs

(* A request has a client, a path, an address and a size. *)
LEMMA RequestTyped ==
    ASSUME Given, NEW r \in Requests
    PROVE  /\ request[r].client \in Clients
           /\ request[r].path \in Paths
           /\ request[r].email \in Domains \cup {NoDomain, Malformed}
           /\ request[r].size \in 0..MaxBody
<1>1. request[r] \in Request
    BY ServiceAssumption DEF Given
<1> QED
    BY <1>1 DEF Request

(* An answer without mail settings and other than 200 over a protocol. *)
LEMMA PlainHonest ==
    ASSUME NEW q, NEW s, NEW status, NEW allowed, allowed # "true",
           status # "200" \/ q.path \notin Protocols
    PROVE  Honest(q, s, Plain(status, allowed))
BY DEF Honest, SettingsDue, Plain

(* _domain_error_response *)
LEMMA DomainErrorHonest ==
    ASSUME NEW q, NEW s
    PROVE  /\ Honest(q, s, DomainError(s))
           /\ DomainError(s).status \in {"400", "404"}
           /\ DomainError(s).mail = NoMailSettings
           /\ DomainError(s).allowed = "false"
<1>1. DomainError(s).status \in {"400", "404"} /\ DomainError(s).allowed = "false"
      /\ DomainError(s).mail = NoMailSettings
    BY DEF DomainError, Plain
<1> QED
    BY <1>1 DEF Honest, SettingsDue

(* An address of an allowed domain, over an enabled protocol. *)
LEMMA ConfiguredHonest ==
    ASSUME NEW q, NEW s, q.path \in s.protocols, q.email \in AllowedDomains(s)
    PROVE  /\ Honest(q, s, Configured(s, q.email))
           /\ Configured(s, q.email).status \in {"200", "400", "404"}
<1>1. CASE DomainSettingsFor(s, q.email) = NoMailSettings
    BY <1>1, DomainErrorHonest DEF Configured
<1>2. CASE DomainSettingsFor(s, q.email) # NoMailSettings
    BY <1>2 DEF Configured, Honest, SettingsDue
<1> QED
    BY <1>1, <1>2

(* validate_email knows four cases, and "valid" is an allowed domain. *)
LEMMA EmailCases ==
    ASSUME NEW s, NEW e \in Domains \cup {NoDomain, Malformed}
    PROVE  /\ EmailError(e, s) \in {"empty", "invalid_format", "domain_not_allowed", "valid"}
           /\ EmailError(e, s) = "valid" => e \in AllowedDomains(s)
<1>1. NoDomain \notin Domains /\ Malformed \notin Domains /\ Malformed # NoDomain
    BY ServiceAssumption DEF Domains
<1>2. CASE e = NoDomain
    BY <1>1, <1>2 DEF EmailError
<1>3. CASE e = Malformed
    BY <1>1, <1>3 DEF EmailError
<1>4. CASE e \in Domains
    BY <1>1, <1>4 DEF EmailError
<1> QED
    BY <1>2, <1>3, <1>4

(* Thunderbird and Apple *)
LEMMA QueryHonest ==
    ASSUME NEW q, NEW s, q.email \in Domains \cup {NoDomain, Malformed}
    PROVE  /\ Honest(q, s, QueryAnswer(q, s))
           /\ QueryAnswer(q, s).status \in {"200", "400", "404"}
<1> DEFINE error == EmailError(q.email, s)
<1>1. CASE q.path \notin s.protocols
    <2>1. QueryAnswer(q, s) = Plain("404", "unknown")
        BY <1>1 DEF QueryAnswer
    <2> QED
        BY <2>1, PlainHonest DEF Plain
<1>2. CASE q.path \in s.protocols /\ error = "empty"
    <2>1. QueryAnswer(q, s) = Plain("400", "unknown")
        BY <1>2 DEF QueryAnswer
    <2> QED
        BY <2>1, PlainHonest DEF Plain
<1>3. CASE q.path \in s.protocols /\ error \in {"invalid_format", "domain_not_allowed"}
    <2>1. QueryAnswer(q, s) = DomainError(s)
        BY <1>3 DEF QueryAnswer
    <2> QED
        BY <2>1, DomainErrorHonest
<1>4. CASE q.path \in s.protocols /\ error = "valid"
    <2>1. QueryAnswer(q, s) = Configured(s, q.email)
        BY <1>4 DEF QueryAnswer
    <2> QED
        BY <1>4, <2>1, ConfiguredHonest, EmailCases
<1> QED
    BY <1>1, <1>2, <1>3, <1>4, EmailCases

(* Outlook, once enabled and read *)
LEMMA BodyHonest ==
    ASSUME NEW q, NEW s, q.email \in Domains \cup {NoDomain, Malformed},
           q.path \in s.protocols
    PROVE  /\ Honest(q, s, BodyAnswer(q, s))
           /\ BodyAnswer(q, s).status \in {"200", "400", "404"}
<1> DEFINE error == EmailError(q.email, s)
<1>1. CASE error = "empty"
    <2>1. BodyAnswer(q, s) = Plain("400", "unknown")
        BY <1>1 DEF BodyAnswer
    <2> QED
        BY <2>1, PlainHonest DEF Plain
<1>2. CASE error = "invalid_format"
    <2>1. BodyAnswer(q, s) = Plain("400", "false")
        BY <1>2 DEF BodyAnswer
    <2> QED
        BY <2>1, PlainHonest DEF Plain
<1>3. CASE error = "domain_not_allowed"
    <2>1. BodyAnswer(q, s) = DomainError(s)
        BY <1>3 DEF BodyAnswer
    <2> QED
        BY <2>1, DomainErrorHonest
<1>4. CASE error = "valid"
    <2>1. BodyAnswer(q, s) = Configured(s, q.email)
        BY <1>4 DEF BodyAnswer
    <2> QED
        BY <1>4, <2>1, ConfiguredHonest, EmailCases
<1> QED
    BY <1>1, <1>2, <1>3, <1>4, EmailCases

-----------------------------------------------------------------------------
(* A limit that start-up validation accepted is a positive number. *)
LEMMA BodyLimit ==
    ASSUME NEW s \in Serving
    PROVE  s.env.maxBody \in Nat \ {0}
<1>1. ValidationErrors(s) = {} /\ s.env.maxBody \in Int
    BY ServiceAssumption
<1>2. BodyLimitErrors(s) = {}
    BY <1>1 DEF ValidationErrors
<1>3. ~(s.env.maxBody <= 0)
    BY <1>2 DEF BodyLimitErrors
<1> QED
    BY <1>1, <1>3

(* A step that ends request r with an honest answer keeps the invariant. *)
LEMMA FinishLemma ==
    ASSUME ServiceIInv, NEW r \in Requests, NEW a, Finish(r, a),
           UNCHANGED <<settings, request, buffered>>,
           Honest(request[r], settings, a),
           a.mail # NoMailSettings /\ request[r].path = "outlook" =>
               buffered[r] = request[r].size,
           a.status = "413" => request[r].size > settings.env.maxBody
    PROVE  ServiceIInv'
<1>1. /\ phase' = [phase EXCEPT ![r] = "done"]
      /\ answer' = [answer EXCEPT ![r] = a]
      /\ logged' = [logged EXCEPT ![r] =
                       IF a.status = "429" \/ request[r].path \notin settings.logs
                         THEN "none" ELSE a.allowed]
      /\ settings' = settings /\ request' = request /\ buffered' = buffered
    BY DEF Finish
<1>2. /\ phase' = [q \in Requests |-> phase'[q]]
      /\ answer' = [q \in Requests |-> answer'[q]]
      /\ logged' = [q \in Requests |-> logged'[q]]
      /\ phase'[r] = "done" /\ answer'[r] = a
      /\ logged'[r] \in {"none", a.allowed}
      /\ \A q \in Requests \ {r} :
            phase'[q] = phase[q] /\ answer'[q] = answer[q] /\ logged'[q] = logged[q]
    BY <1>1 DEF ServiceIInv
<1>3. ASSUME NEW q \in Requests
      PROVE  Sound(q)'
    <2>1. CASE q = r
        <3>1. Sound(r)
            BY DEF ServiceIInv
        <3>2. Honest(request'[r], settings', answer'[r])
            BY <1>1, <1>2
        <3> QED
            BY <1>1, <1>2, <2>1, <3>1, <3>2 DEF Sound, Honest
    <2>2. CASE q # r
        <3>1. Sound(q)
            BY DEF ServiceIInv
        <3> QED
            BY <1>1, <1>2, <2>2, <3>1 DEF Sound, Honest
    <2> QED
        BY <2>1, <2>2
<1> QED
    BY <1>1, <1>2, <1>3 DEF ServiceIInv, Given

(* A step that answers nobody, and brings only enabled Outlook requests to *)
(* their body, keeps the invariant.                                        *)
LEMMA MoveOnLemma ==
    ASSUME ServiceIInv,
           UNCHANGED <<settings, request, buffered, answer, logged>>,
           phase' = [q \in Requests |-> phase'[q]],
           \A q \in Requests :
               /\ phase[q] = "done" => phase'[q] = "done"
               /\ phase'[q] = "reading" =>
                     \/ phase[q] = "reading"
                     \/ request[q].path = "outlook" /\ "outlook" \in settings.protocols
    PROVE  ServiceIInv'
<1>1. ASSUME NEW q \in Requests
      PROVE  Sound(q)'
    <2>1. Sound(q)
        BY DEF ServiceIInv
    <2> QED
        BY <2>1 DEF Sound, Honest
<1> QED
    BY <1>1 DEF ServiceIInv, Given

(* A chunk that is kept leaves the body within the limit. *)
LEMMA KeepChunkLemma ==
    ASSUME ServiceIInv, NEW r \in Requests, NEW n \in 1..MaxBody,
           phase[r] = "reading", ~TooLarge(buffered[r] + n),
           buffered' = [buffered EXCEPT ![r] = @ + n],
           UNCHANGED <<settings, request, phase, answer, logged>>
    PROVE  ServiceIInv'
<1>1. MaxBody \in Nat /\ settings.env.maxBody \in Nat /\ buffered[r] \in Nat
    BY ServiceAssumption, BodyLimit DEF ServiceIInv, Given
<1>2. buffered[r] + n \in Nat /\ buffered[r] + n <= settings.env.maxBody
    BY <1>1 DEF TooLarge
<1>3. /\ buffered' \in [Requests -> Nat]
      /\ buffered'[r] = buffered[r] + n
      /\ \A q \in Requests \ {r} : buffered'[q] = buffered[q]
    BY <1>2 DEF ServiceIInv
<1>4. ASSUME NEW q \in Requests
      PROVE  Sound(q)'
    <2>1. Sound(q)
        BY DEF ServiceIInv
    <2>2. CASE q = r
        BY <1>2, <1>3, <2>1, <2>2 DEF Sound, Honest
    <2>3. CASE q # r
        BY <1>3, <2>1, <2>3 DEF Sound, Honest
    <2> QED
        BY <2>2, <2>3
<1> QED
    BY <1>3, <1>4 DEF ServiceIInv, Given

-----------------------------------------------------------------------------
(* The inductive invariant: the answers, the log and the buffers of all    *)
(* requests, across every interleaving of their steps and across crashes.  *)
THEOREM ServiceInvariance == ServiceSpec => []ServiceIInv
<1>1. ServiceInit => ServiceIInv
    <2> SUFFICES ASSUME ServiceInit
                 PROVE  ServiceIInv
        OBVIOUS
    <2>1. Given
        BY DEF ServiceInit, Given
    <2>2. settings.env.maxBody \in Nat
        BY <2>1, BodyLimit DEF Given
    <2>3. ASSUME NEW r \in Requests
          PROVE  Sound(r)
        <3>1. /\ answer[r] = Plain("none", "unknown") /\ logged[r] = "none"
              /\ buffered[r] = 0 /\ phase[r] = "idle"
            BY DEF ServiceInit, NoAnswer
        <3>2. Honest(request[r], settings, Plain("none", "unknown"))
            BY PlainHonest
        <3> QED
            BY <2>2, <3>1, <3>2 DEF Sound, Plain
    <2>4. /\ buffered \in [Requests -> Nat]
          /\ phase = [r \in Requests |-> phase[r]]
          /\ answer = [r \in Requests |-> answer[r]]
          /\ logged = [r \in Requests |-> logged[r]]
        BY DEF ServiceInit
    <2> QED
        BY <2>1, <2>3, <2>4 DEF ServiceIInv
<1>2. ServiceIInv /\ [ServiceNext]_all => ServiceIInv'
    <2> SUFFICES ASSUME ServiceIInv, [ServiceNext]_all
                 PROVE  ServiceIInv'
        OBVIOUS
    <2>1. CASE Passes
        <3>1. /\ UNCHANGED <<settings, request, buffered, answer, logged>>
              /\ phase' = phase
            BY <2>1 DEF Passes, local
        <3> QED
            BY <3>1, MoveOnLemma DEF ServiceIInv
    <2>2. CASE Crash
        <3>1. /\ UNCHANGED <<settings, request, buffered, answer, logged>>
              /\ phase' = [r \in Requests |-> IF phase[r] = "idle" THEN "idle" ELSE "done"]
            BY <2>2 DEF Crash
        <3> QED
            BY <3>1, MoveOnLemma
    <2>3. ASSUME NEW r \in Requests,
                 Arrive(r) \/ Exempted(r) \/ Admitted(r) \/ StartReading(r) \/ Disconnect(r)
          PROVE  ServiceIInv'
        <3>1. \E p \in {"arrived", "called", "reading", "done"} :
                 /\ phase' = [phase EXCEPT ![r] = p]
                 /\ phase[r] # "done"
                 /\ p = "reading" =>
                       request[r].path = "outlook" /\ "outlook" \in settings.protocols
            BY <2>3 DEF Arrive, Exempted, Admitted, StartReading, Disconnect
        <3>2. UNCHANGED <<settings, request, buffered, answer, logged>>
            BY <2>3 DEF Arrive, Exempted, Admitted, StartReading, Disconnect
        <3>3. PICK p \in {"arrived", "called", "reading", "done"} :
                 /\ phase' = [phase EXCEPT ![r] = p]
                 /\ phase[r] # "done"
                 /\ p = "reading" =>
                       request[r].path = "outlook" /\ "outlook" \in settings.protocols
            BY <3>1
        <3>4. /\ phase' = [q \in Requests |-> phase'[q]]
              /\ phase'[r] = p
              /\ \A q \in Requests \ {r} : phase'[q] = phase[q]
            BY <3>3 DEF ServiceIInv
        <3>5. \A q \in Requests :
                 /\ phase[q] = "done" => phase'[q] = "done"
                 /\ phase'[q] = "reading" =>
                       \/ phase[q] = "reading"
                       \/ request[q].path = "outlook" /\ "outlook" \in settings.protocols
            BY <3>3, <3>4
        <3> QED
            BY <3>2, <3>4, <3>5, MoveOnLemma
    <2>4. ASSUME NEW r \in Requests, Limited(r)
          PROVE  ServiceIInv'
        <3>1. /\ Finish(r, Plain("429", "unknown"))
              /\ UNCHANGED <<settings, request, buffered>>
            BY <2>4 DEF Limited
        <3>2. Honest(request[r], settings, Plain("429", "unknown"))
            BY PlainHonest
        <3> QED
            BY <3>1, <3>2, FinishLemma DEF Plain
    <2>5. ASSUME NEW r \in Requests, OutlookDisabled(r)
          PROVE  ServiceIInv'
        <3>1. /\ Finish(r, Plain("404", "unknown"))
              /\ UNCHANGED <<settings, request, buffered>>
            BY <2>5 DEF OutlookDisabled
        <3>2. Honest(request[r], settings, Plain("404", "unknown"))
            BY PlainHonest
        <3> QED
            BY <3>1, <3>2, FinishLemma DEF Plain
    <2>6. ASSUME NEW r \in Requests, Handle(r)
          PROVE  ServiceIInv'
        <3>1. request[r].path # "outlook" /\ UNCHANGED <<settings, request, buffered>>
            BY <2>6 DEF Handle
        <3>2. CASE request[r].path \in Protocols
            <4>1. Finish(r, QueryAnswer(request[r], settings))
                BY <2>6, <3>2 DEF Handle
            <4>2. /\ Honest(request[r], settings, QueryAnswer(request[r], settings))
                  /\ QueryAnswer(request[r], settings).status \in {"200", "400", "404"}
                BY QueryHonest, RequestTyped DEF ServiceIInv
            <4> QED
                BY <3>1, <4>1, <4>2, FinishLemma
        <3>3. CASE request[r].path \notin Protocols
            <4>1. Finish(r, Plain("200", "unknown"))
                BY <2>6, <3>3 DEF Handle
            <4>2. Honest(request[r], settings, Plain("200", "unknown"))
                BY <3>3, PlainHonest
            <4> QED
                BY <3>1, <4>1, <4>2, FinishLemma DEF Plain
        <3> QED
            BY <3>2, <3>3
    <2>7. ASSUME NEW r \in Requests, EndOfBody(r)
          PROVE  ServiceIInv'
        <3>1. /\ Finish(r, BodyAnswer(request[r], settings))
              /\ UNCHANGED <<settings, request, buffered>>
              /\ buffered[r] = request[r].size
              /\ phase[r] = "reading"
            BY <2>7 DEF EndOfBody
        <3>2. request[r].path \in settings.protocols
            BY <3>1 DEF ServiceIInv, Sound
        <3>3. /\ Honest(request[r], settings, BodyAnswer(request[r], settings))
              /\ BodyAnswer(request[r], settings).status \in {"200", "400", "404"}
            BY <3>2, BodyHonest, RequestTyped DEF ServiceIInv
        <3> QED
            BY <3>1, <3>3, FinishLemma
    <2>8. ASSUME NEW r \in Requests, NEW n \in 1..MaxBody, ReadChunk(r, n)
          PROVE  ServiceIInv'
        <3>1. /\ phase[r] = "reading" /\ buffered[r] + n <= request[r].size
              /\ UNCHANGED <<settings, request>>
            BY <2>8 DEF ReadChunk
        <3>2. CASE TooLarge(buffered[r] + n)
            <4>1. Finish(r, Plain("413", "unknown")) /\ UNCHANGED buffered
                BY <2>8, <3>2 DEF ReadChunk
            <4>2. Honest(request[r], settings, Plain("413", "unknown"))
                BY PlainHonest
            <4>3. request[r].size > settings.env.maxBody
                <5>1. /\ MaxBody \in Nat /\ settings.env.maxBody \in Nat
                      /\ buffered[r] \in Nat /\ request[r].size \in 0..MaxBody
                    BY ServiceAssumption, BodyLimit, RequestTyped DEF ServiceIInv, Given
                <5> QED
                    BY <3>1, <3>2, <5>1 DEF TooLarge
            <4> QED
                BY <3>1, <4>1, <4>2, <4>3, FinishLemma DEF Plain
        <3>3. CASE ~TooLarge(buffered[r] + n)
            <4>1. /\ buffered' = [buffered EXCEPT ![r] = @ + n]
                  /\ UNCHANGED <<phase, answer, logged>>
                BY <2>8, <3>3 DEF ReadChunk
            <4> QED
                BY <3>1, <3>3, <4>1, KeepChunkLemma
        <3> QED
            BY <3>2, <3>3
    <2>9. CASE UNCHANGED all
        <3>1. UNCHANGED <<settings, request, buffered, answer, logged>> /\ phase' = phase
            BY <2>9 DEF all, local
        <3> QED
            BY <3>1, MoveOnLemma DEF ServiceIInv
    <2> QED
        BY <2>1, <2>2, <2>3, <2>4, <2>5, <2>6, <2>7, <2>8, <2>9 DEF ServiceNext, Step
<1> QED
    BY <1>1, <1>2, PTL DEF ServiceSpec, ServiceSafety

(* No request ever holds more than the limit in memory, whatever chunks    *)
(* its client sends.                                                       *)
THEOREM BufferNeverExceeded == ServiceSpec => []BufferBounded
<1>1. ServiceIInv => BufferBounded
    BY DEF ServiceIInv, Sound, BufferBounded
<1> QED
    BY <1>1, ServiceInvariance, PTL

(* 413 and the answers made from a body depend on its size alone. *)
THEOREM SizeDecides == ServiceSpec => []SizeVerdict
<1>1. ServiceIInv => SizeVerdict
    BY DEF ServiceIInv, Sound, BufferBounded, SizeVerdict
<1> QED
    BY <1>1, ServiceInvariance, PTL

(* Mail settings go only to addresses of configured domains, over enabled  *)
(* protocols, and are that domain's own; no other answer, an error of any  *)
(* handler, has any.                                                       *)
THEOREM NoOtherDomain == ServiceSpec => []OwnDomainOnly
<1>1. ServiceIInv => OwnDomainOnly
    BY DEF ServiceIInv, Sound, Honest, OwnDomainOnly
<1> QED
    BY <1>1, ServiceInvariance, PTL

(* The access log says domain_allowed=true of exactly the requests that    *)
(* were sent mail settings.                                                *)
THEOREM LogIsTrue == ServiceSpec => []LogTruth
<1>1. ServiceIInv => LogTruth
    BY DEF ServiceIInv, Sound, Honest, LogTruth
<1> QED
    BY <1>1, ServiceInvariance, PTL

-----------------------------------------------------------------------------
(* The service moves the store only as RateLimiter says: every request     *)
(* calls is_rate_limited to its end, or not at all.                        *)
THEOREM LimiterInside == ServiceSpec => Spec
<1>1. ServiceInit => Init
    BY DEF ServiceInit
<1>2. ServiceIInv /\ [ServiceNext]_all => [Next]_vars
    <2> SUFFICES ASSUME ServiceIInv, ServiceNext
                 PROVE  Next \/ UNCHANGED vars
        BY DEF all
    <2>1. CASE Passes
        BY <2>1 DEF Passes, Next
    <2>2. CASE Crash
        BY <2>2 DEF Crash, Next
    <2>3. ASSUME NEW r \in Requests, Admitted(r) \/ Limited(r)
          PROVE  Next
        <3>1. Accept(request[r].client) \/ Reject(request[r].client)
            BY <2>3 DEF Admitted, Limited
        <3>2. request[r].client \in Clients
            BY RequestTyped DEF ServiceIInv
        <3> QED
            BY <3>1, <3>2 DEF Next
    <2>4. ASSUME NEW r \in Requests,
                 \/ Arrive(r) \/ Exempted(r) \/ Handle(r) \/ OutlookDisabled(r)
                 \/ StartReading(r) \/ EndOfBody(r) \/ Disconnect(r)
                 \/ \E n \in 1..MaxBody : ReadChunk(r, n)
          PROVE  UNCHANGED vars
        BY <2>4 DEF Arrive, Exempted, Handle, OutlookDisabled, StartReading, EndOfBody,
                    Disconnect, ReadChunk
    <2> QED
        BY <2>1, <2>2, <2>3, <2>4 DEF ServiceNext, Step
<1> QED
    BY <1>1, <1>2, ServiceInvariance, PTL DEF ServiceSpec, ServiceSafety, Spec

(* So the running service, with its overlapping requests, keeps the        *)
(* sliding window's promise.                                               *)
THEOREM ServiceKeepsPromise == ServiceSpec => SlidingWindowPromise
BY LimiterInside, Refinement, PTL

-----------------------------------------------------------------------------
(* What the phase of a request allows it to have: ServiceTypeOK's last part. *)
InPhase(r) ==
    /\ phase[r] \in {"idle", "arrived", "called", "reading", "done"}
    /\ buffered[r] > 0 => phase[r] \in {"reading", "done"}
    /\ answer[r] # NoAnswer => phase[r] = "done"
    /\ admitted[r] # Never => phase[r] \in {"called", "reading", "done"}

PhaseInv ==
    /\ admitted = [r \in Requests |-> admitted[r]]
    /\ \A r \in Requests : InPhase(r)

(* One request takes a step that leaves the others alone. *)
LEMMA OneMoves ==
    ASSUME PhaseInv, NEW r \in Requests, InPhase(r)',
           admitted' = [q \in Requests |-> admitted'[q]],
           \A q \in Requests \ {r} :
               /\ phase'[q] = phase[q] /\ buffered'[q] = buffered[q]
               /\ answer'[q] = answer[q] /\ admitted'[q] = admitted[q]
    PROVE  PhaseInv'
<1>1. ASSUME NEW q \in Requests, q # r
      PROVE  InPhase(q)'
    BY <1>1 DEF PhaseInv, InPhase, NoAnswer, Plain, NoMailSettings, Never
<1> QED
    BY <1>1 DEF PhaseInv

(* An answered request is done. *)
LEMMA FinishMoves ==
    ASSUME ServiceIInv, PhaseInv, NEW r \in Requests, NEW a,
           Finish(r, a), UNCHANGED <<buffered, admitted>>
    PROVE  PhaseInv'
<1>1. /\ phase' = [phase EXCEPT ![r] = "done"]
      /\ answer' = [answer EXCEPT ![r] = a]
    BY DEF Finish
<1>2. /\ phase'[r] = "done"
      /\ \A q \in Requests \ {r} : phase'[q] = phase[q] /\ answer'[q] = answer[q]
    BY <1>1 DEF ServiceIInv
<1>3. InPhase(r)'
    BY <1>2 DEF InPhase
<1> QED
    BY <1>2, <1>3, OneMoves DEF PhaseInv

(* The phases, and what only the later ones have, across every step of     *)
(* every request.                                                          *)
LEMMA PhasesKept == ServiceIInv /\ PhaseInv /\ [ServiceNext]_all => PhaseInv'
<1> SUFFICES ASSUME ServiceIInv, PhaseInv, [ServiceNext]_all
             PROVE  PhaseInv'
    OBVIOUS
<1>1. CASE Passes \/ UNCHANGED all
    BY <1>1 DEF Passes, all, local, PhaseInv, InPhase
<1>2. CASE Crash
    <2>1. /\ UNCHANGED <<buffered, answer, admitted>>
          /\ \A r \in Requests : phase'[r] = IF phase[r] = "idle" THEN "idle" ELSE "done"
        BY <1>2 DEF Crash
    <2> QED
        BY <2>1 DEF PhaseInv, InPhase
<1>3. ASSUME NEW r \in Requests,
             Arrive(r) \/ Exempted(r) \/ StartReading(r) \/ Disconnect(r)
      PROVE  PhaseInv'
    <2>1. /\ UNCHANGED <<buffered, answer, admitted>>
          /\ \/ phase[r] = "idle" /\ phase' = [phase EXCEPT ![r] = "arrived"]
             \/ phase[r] = "arrived" /\ phase' = [phase EXCEPT ![r] = "called"]
             \/ phase[r] = "called" /\ phase' = [phase EXCEPT ![r] = "reading"]
             \/ phase[r] = "reading" /\ phase' = [phase EXCEPT ![r] = "done"]
        BY <1>3 DEF Arrive, Exempted, StartReading, Disconnect
    <2>2. \A q \in Requests \ {r} : phase'[q] = phase[q]
        BY <2>1 DEF ServiceIInv
    <2>3. InPhase(r)'
        BY <2>1 DEF ServiceIInv, PhaseInv, InPhase
    <2> QED
        BY <2>1, <2>2, <2>3, OneMoves DEF PhaseInv
<1>4. ASSUME NEW r \in Requests, Admitted(r)
      PROVE  PhaseInv'
    <2>1. /\ UNCHANGED <<buffered, answer>>
          /\ phase[r] = "arrived" /\ phase' = [phase EXCEPT ![r] = "called"]
          /\ admitted' = [admitted EXCEPT ![r] = clock]
        BY <1>4 DEF Admitted
    <2>2. /\ phase'[r] = "called"
          /\ \A q \in Requests \ {r} : phase'[q] = phase[q] /\ admitted'[q] = admitted[q]
          /\ admitted' = [q \in Requests |-> admitted'[q]]
        BY <2>1 DEF ServiceIInv, PhaseInv
    <2>3. InPhase(r)'
        BY <2>1, <2>2 DEF PhaseInv, InPhase
    <2> QED
        BY <2>1, <2>2, <2>3, OneMoves
<1>5. ASSUME NEW r \in Requests,
             Limited(r) \/ OutlookDisabled(r) \/ Handle(r) \/ EndOfBody(r)
      PROVE  PhaseInv'
    <2>1. /\ UNCHANGED <<buffered, admitted>>
          /\ \E a : Finish(r, a)
        BY <1>5 DEF Limited, OutlookDisabled, Handle, EndOfBody
    <2> QED
        BY <2>1, FinishMoves
<1>6. ASSUME NEW r \in Requests, NEW n \in 1..MaxBody, ReadChunk(r, n)
      PROVE  PhaseInv'
    <2>1. CASE TooLarge(buffered[r] + n)
        <3>1. Finish(r, Plain("413", "unknown")) /\ UNCHANGED <<buffered, admitted>>
            BY <1>6, <2>1 DEF ReadChunk
        <3> QED
            BY <3>1, FinishMoves
    <2>2. CASE ~TooLarge(buffered[r] + n)
        <3>1. /\ phase[r] = "reading"
              /\ buffered' = [buffered EXCEPT ![r] = @ + n]
              /\ UNCHANGED <<phase, answer, admitted>>
            BY <1>6, <2>2 DEF ReadChunk
        <3>2. \A q \in Requests \ {r} : buffered'[q] = buffered[q]
            BY <3>1 DEF ServiceIInv
        <3>3. InPhase(r)'
            BY <3>1 DEF PhaseInv, InPhase
        <3> QED
            BY <3>1, <3>2, <3>3, OneMoves DEF PhaseInv
    <2> QED
        BY <2>1, <2>2
<1> QED
    BY <1>1, <1>2, <1>3, <1>4, <1>5, <1>6 DEF ServiceNext, Step

(* Types, the limiter's included: bytes, answers and charges belong to     *)
(* requests that are far enough.                                           *)
THEOREM ServiceTypeCorrect == ServiceSpec => []ServiceTypeOK
<1>1. ServiceInit => PhaseInv
    BY DEF ServiceInit, PhaseInv, InPhase
<1>2. TypeOK /\ ServiceIInv /\ PhaseInv => ServiceTypeOK
    BY DEF ServiceIInv, Given, PhaseInv, InPhase, ServiceTypeOK
<1> QED
    BY <1>1, <1>2, PhasesKept, ServiceInvariance, LimiterInside, TypeCorrect, PTL
       DEF ServiceSpec, ServiceSafety
-----------------------------------------------------------------------------
(* The reply of Replies that is due to r. *)
DueReply(r) ==
    LET a == Due(request[r], settings)
    IN  WithLog(a, IF request[r].path \in settings.logs THEN a.allowed ELSE "none")

(* What a request ends with is a reply, when it is the one due or a        *)
(* refusal: no one else's answer or log event changes.                     *)
LEMMA FinishReplies ==
    ASSUME ServiceIInv, NEW r \in Requests, NEW a, Finish(r, a), phase[r] # "done",
           UNCHANGED <<settings, request>>,
           \/ a = Plain("429", "unknown")
           \/ a = Due(request[r], settings) /\ a.status # "429"
    PROVE  Alone!Next
<1> DEFINE event == IF a.status = "429" \/ request[r].path \notin settings.logs
                      THEN "none" ELSE a.allowed
           x == WithLog(a, event)
<1>1. /\ phase' = [phase EXCEPT ![r] = "done"]
      /\ answer' = [answer EXCEPT ![r] = a]
      /\ logged' = [logged EXCEPT ![r] = event]
    BY DEF Finish
<1>2. /\ phase'[r] = "done" /\ answer'[r] = a /\ logged'[r] = event
      /\ \A q \in Requests \ {r} :
            phase'[q] = phase[q] /\ answer'[q] = answer[q] /\ logged'[q] = logged[q]
    BY <1>1 DEF ServiceIInv
<1>3. x \in {DueReply(r), WithLog(Plain("429", "unknown"), "none")}
    BY DEF DueReply, Plain
<1> HIDE DEF x
<1>4. x = WithLog(answer'[r], logged'[r])
    BY <1>2 DEF x
<1>5. {q \in Requests : phase'[q] = "done"} = {q \in Requests : phase[q] = "done"} \cup {r}
    BY <1>2
<1>6. {r} \cap {q \in Requests : phase[q] = "done"} = {}
    OBVIOUS
<1>7. [q \in Requests |-> WithLog(answer'[q], logged'[q])]
        = [[q \in Requests |-> WithLog(answer[q], logged[q])] EXCEPT ![r] = x]
    BY <1>2, <1>4
<1>8. Alone!Reply(r)
    BY <1>3, <1>5, <1>6, <1>7 DEF Alone!Reply, Alone!Ends, DueReply
<1> QED
    BY <1>8 DEF Alone!Next

(* A step that answers nobody ends no request, or loses some. *)
LEMMA OthersLose ==
    ASSUME ServiceIInv, UNCHANGED <<settings, request, answer, logged>>,
           \A q \in Requests : phase[q] = "done" => phase'[q] = "done"
    PROVE  Alone!Next
<1> DEFINE lost == {q \in Requests : phase[q] # "done" /\ phase'[q] = "done"}
<1>1. lost \in SUBSET Requests /\ lost \cap {q \in Requests : phase[q] = "done"} = {}
    OBVIOUS
<1>2. {q \in Requests : phase'[q] = "done"} = {q \in Requests : phase[q] = "done"} \cup lost
    OBVIOUS
<1> HIDE DEF lost
<1>3. \E R \in SUBSET Requests : Alone!Lose(R)
    BY <1>1, <1>2 DEF Alone!Lose, Alone!Ends
<1> QED
    BY <1>3 DEF Alone!Next

(* The reply due to a request of a body of at most the limit, and of more. *)
LEMMA DueIs ==
    ASSUME ServiceIInv, NEW r \in Requests
    PROVE  LET q == request[r]
               d == Due(q, settings)
               reads == q.path = "outlook" /\ "outlook" \in settings.protocols
           IN  /\ q.path \notin Protocols => d = Plain("200", "unknown")
               /\ q.path \in Protocols /\ ~reads => d = QueryAnswer(q, settings)
               /\ reads /\ q.size > settings.env.maxBody => d = Plain("413", "unknown")
               /\ reads /\ ~(q.size > settings.env.maxBody) => d = BodyAnswer(q, settings)
BY DEF Due, Protocols

(* The service is one of Replies: each request gets at most one answer     *)
(* and log event, and those are due to it alone, or it is refused.         *)
THEOREM EachAsAlone == ServiceSpec => AnswersAsAlone
<1>1. ServiceInit => Alone!Init
    BY DEF ServiceInit, Alone!Init
<1>2. ServiceIInv /\ [ServiceNext]_all => [Alone!Next]_(Alone!vars)
    <2> SUFFICES ASSUME ServiceIInv, ServiceNext
                 PROVE  Alone!Next
        BY DEF all, local, Alone!vars
    <2>1. CASE Passes
        BY <2>1, OthersLose DEF Passes, local
    <2>2. CASE Crash
        <3>1. /\ UNCHANGED <<settings, request, answer, logged>>
              /\ \A q \in Requests : phase[q] = "done" => phase'[q] = "done"
            BY <2>2 DEF Crash
        <3> QED
            BY <3>1, OthersLose
    <2>3. ASSUME NEW r \in Requests,
                 Arrive(r) \/ Exempted(r) \/ Admitted(r) \/ StartReading(r) \/ Disconnect(r)
          PROVE  Alone!Next
        <3>1. /\ UNCHANGED <<settings, request, answer, logged>>
              /\ \E p : phase' = [phase EXCEPT ![r] = p]
              /\ phase[r] # "done"
            BY <2>3 DEF Arrive, Exempted, Admitted, StartReading, Disconnect
        <3>2. \A q \in Requests : phase[q] = "done" => phase'[q] = "done"
            BY <3>1 DEF ServiceIInv
        <3> QED
            BY <3>1, <3>2, OthersLose
    <2>4. ASSUME NEW r \in Requests, Limited(r)
          PROVE  Alone!Next
        BY <2>4, FinishReplies DEF Limited
    <2>5. ASSUME NEW r \in Requests, OutlookDisabled(r)
          PROVE  Alone!Next
        <3>1. Due(request[r], settings) = QueryAnswer(request[r], settings)
            BY <2>5, DueIs DEF OutlookDisabled, Protocols
        <3>2. QueryAnswer(request[r], settings) = Plain("404", "unknown")
            BY <2>5 DEF OutlookDisabled, QueryAnswer
        <3>3. Plain("404", "unknown").status # "429"
            BY DEF Plain
        <3> QED
            BY <2>5, <3>1, <3>2, <3>3, FinishReplies DEF OutlookDisabled
    <2>6. ASSUME NEW r \in Requests, Handle(r)
          PROVE  Alone!Next
        <3>1. CASE request[r].path \in Protocols
            <4>1. Due(request[r], settings) = QueryAnswer(request[r], settings)
                BY <2>6, <3>1, DueIs DEF Handle
            <4>2. QueryAnswer(request[r], settings).status # "429"
                BY QueryHonest, RequestTyped DEF ServiceIInv
            <4> QED
                BY <2>6, <3>1, <4>1, <4>2, FinishReplies DEF Handle
        <3>2. CASE request[r].path \notin Protocols
            <4>1. Due(request[r], settings) = Plain("200", "unknown")
                BY <3>2, DueIs
            <4>2. Plain("200", "unknown").status # "429"
                BY DEF Plain
            <4> QED
                BY <2>6, <3>2, <4>1, <4>2, FinishReplies DEF Handle
        <3> QED
            BY <3>1, <3>2
    <2>7. ASSUME NEW r \in Requests, EndOfBody(r)
          PROVE  Alone!Next
        <3>1. /\ request[r].path = "outlook" /\ "outlook" \in settings.protocols
              /\ buffered[r] <= settings.env.maxBody /\ buffered[r] = request[r].size
            BY <2>7 DEF EndOfBody, ServiceIInv, Sound
        <3>2. request[r].size \in Nat /\ settings.env.maxBody \in Nat
            BY ServiceAssumption, RequestTyped, BodyLimit DEF ServiceIInv, Given
        <3>3. Due(request[r], settings) = BodyAnswer(request[r], settings)
            BY <3>1, <3>2, DueIs
        <3>4. BodyAnswer(request[r], settings).status # "429"
            BY <3>1, BodyHonest, RequestTyped DEF ServiceIInv
        <3> QED
            BY <2>7, <3>3, <3>4, FinishReplies DEF EndOfBody
    <2>8. ASSUME NEW r \in Requests, NEW n \in 1..MaxBody, ReadChunk(r, n)
          PROVE  Alone!Next
        <3>1. CASE TooLarge(buffered[r] + n)
            <4>1. request[r].path = "outlook" /\ "outlook" \in settings.protocols
                BY <2>8 DEF ReadChunk, ServiceIInv, Sound
            <4>2. request[r].size > settings.env.maxBody
                <5>1. /\ MaxBody \in Nat /\ settings.env.maxBody \in Nat
                      /\ buffered[r] \in Nat /\ request[r].size \in 0..MaxBody
                    BY ServiceAssumption, BodyLimit, RequestTyped DEF ServiceIInv, Given
                <5> QED
                    BY <2>8, <3>1, <5>1 DEF ReadChunk, TooLarge
            <4>3. Due(request[r], settings) = Plain("413", "unknown")
                BY <4>1, <4>2, DueIs
            <4>4. Plain("413", "unknown").status # "429"
                BY DEF Plain
            <4> QED
                BY <2>8, <3>1, <4>3, <4>4, FinishReplies DEF ReadChunk
        <3>2. CASE ~TooLarge(buffered[r] + n)
            BY <2>8, <3>2, OthersLose DEF ReadChunk
        <3> QED
            BY <3>1, <3>2
    <2> QED
        BY <2>1, <2>2, <2>3, <2>4, <2>5, <2>6, <2>7, <2>8 DEF ServiceNext, Step
<1> QED
    BY <1>1, <1>2, ServiceInvariance, PTL
       DEF ServiceSpec, ServiceSafety, AnswersAsAlone, Alone!Spec
-----------------------------------------------------------------------------
(* Why a request is refused: every time that the limiter holds against a   *)
(* client is that of a request of its own, and of one request only.        *)

(* q was charged to c at time t. *)
ChargedAt(q, c, t) ==
    /\ request[q].client = c
    /\ request[q].path # "health"
    /\ admitted[q] = t

(* f tells c's history in requests: one for each time, and none twice. *)
Tells(f, c) ==
    /\ f \in [DOMAIN served[c] -> Requests]
    /\ \A i, j \in DOMAIN served[c] : f[i] = f[j] => i = j
    /\ \A i \in DOMAIN served[c] : ChargedAt(f[i], c, served[c][i])

(* Every history can be told in requests, and few were charged at all.     *)
ChargeInv ==
    /\ IsFiniteSet({q \in Requests : admitted[q] # Never})
    /\ \A c \in Clients : \E f : Tells(f, c)

(* A client without a history. *)
LEMMA NothingToTell ==
    ASSUME NEW c, served'[c] = <<>>
    PROVE  \E f : Tells(f, c)'
<1> DEFINE f == [i \in {} |-> {}]
<1>1. DOMAIN <<>> = {}
    OBVIOUS
<1>2. f \in [DOMAIN served'[c] -> Requests]
    BY <1>1
<1>3. Tells(f, c)'
    BY <1>1, <1>2 DEF Tells
<1> QED
    BY <1>3

(* A client whose history, and whose requests, a step leaves alone. *)
LEMMA TellingStays ==
    ASSUME NEW c, NEW f, Tells(f, c), served'[c] = served[c], request' = request,
           \A i \in DOMAIN served[c] : admitted'[f[i]] = admitted[f[i]]
    PROVE  Tells(f, c)'
BY DEF Tells, ChargedAt

(* A step that charges nobody and forgets at most everybody. *)
LEMMA NobodyCharged ==
    ASSUME ChargeInv, UNCHANGED <<request, admitted>>,
           \A c \in Clients : served'[c] = served[c] \/ served'[c] = <<>>
    PROVE  ChargeInv'
<1>1. IsFiniteSet({q \in Requests : admitted[q] # Never})'
    BY DEF ChargeInv, Never
<1>2. ASSUME NEW c \in Clients
      PROVE  \E f : Tells(f, c)'
    <2>1. CASE served'[c] = <<>>
        BY <2>1, NothingToTell
    <2>2. CASE served'[c] = served[c]
        <3>1. PICK f : Tells(f, c)
            BY DEF ChargeInv
        <3>2. Tells(f, c)'
            BY <2>2, <3>1 DEF Tells, ChargedAt
        <3> QED
            BY <3>2
    <2> QED
        BY <1>2, <2>1, <2>2
<1> QED
    BY <1>1, <1>2 DEF ChargeInv

(* The one step that charges: the request is new to every history.         *)
LEMMA OneCharged ==
    ASSUME TypeOK, ServiceIInv, PhaseInv, ChargeInv, NEW r \in Requests, Admitted(r)
    PROVE  ChargeInv'
<1> DEFINE c == request[r].client
           ks == MovedToEnd(Assigned(KeysAfterCleanup(clock), c), c)
<1>1. /\ c \in Clients
      /\ request[r].path # "health"
      /\ admitted[r] = Never
      /\ admitted' = [admitted EXCEPT ![r] = clock]
      /\ request' = request
      /\ served' = [d \in Clients |->
                       IF d \in Evicted(ks) THEN <<>>
                       ELSE IF d = c THEN Append(served[d], clock)
                       ELSE served[d]]
    BY RequestTyped DEF ServiceIInv, Admitted, Accept, SkipsLimiter, PhaseInv, InPhase
<1> HIDE DEF ks
<1>2. /\ clock \in Nat
      /\ served \in [Clients -> Seq(Nat)]
      /\ Never \notin Nat
    BY DEF TypeOK, Never
<1>3. admitted'[r] = clock /\ \A q \in Requests \ {r} : admitted'[q] = admitted[q]
    BY <1>1 DEF PhaseInv
<1>4. IsFiniteSet({q \in Requests : admitted[q] # Never})'
    <2> DEFINE S == {q \in Requests : admitted[q] # Never}
    <2>1. S' = S \cup {r}
        BY <1>1, <1>2, <1>3 DEF Never
    <2>2. IsFiniteSet(S)
        BY DEF ChargeInv
    <2> HIDE DEF S
    <2>3. IsFiniteSet(S \cup {r})
        BY <2>2, FS_AddElement
    <2>4. IsFiniteSet(S')
        BY <2>1, <2>3
    <2> QED
        BY <2>4 DEF S
<1>5. ASSUME NEW d \in Clients
      PROVE  \E f : Tells(f, d)'
    <2>1. PICK f : Tells(f, d)
        BY DEF ChargeInv
    <2>2. \A i \in DOMAIN served[d] : f[i] \in Requests /\ f[i] # r
        <3> SUFFICES ASSUME NEW i \in DOMAIN served[d]
                     PROVE  f[i] \in Requests /\ f[i] # r
            OBVIOUS
        <3>1. served[d][i] \in Nat
            BY <1>2
        <3>2. f[i] \in Requests /\ admitted[f[i]] = served[d][i]
            BY <2>1 DEF Tells, ChargedAt
        <3> QED
            BY <1>1, <1>2, <3>1, <3>2
    <2>3. CASE served'[d] = <<>>
        BY <2>3, NothingToTell
    <2>4. CASE served'[d] = served[d]
        <3>1. \A i \in DOMAIN served[d] : admitted'[f[i]] = admitted[f[i]]
            BY <1>3, <2>2
        <3>2. Tells(f, d)'
            BY <1>1, <2>1, <2>4, <3>1, TellingStays
        <3> QED
            BY <3>2
    <2>5. CASE d = c /\ served'[d] = Append(served[d], clock)
        <3> DEFINE n == Len(served[d])
                   h == served[d]
        <3>1. n \in Nat /\ DOMAIN h = 1..n
            BY <1>2
        <3>2. /\ DOMAIN served'[d] = 1..(n + 1)
              /\ \A i \in 1..n : served'[d][i] = h[i]
              /\ served'[d][n + 1] = clock
            BY <1>2, <2>5
        <3>3. /\ f \in [1..n -> Requests]
              /\ \A i, j \in 1..n : f[i] = f[j] => i = j
              /\ \A i \in 1..n : ChargedAt(f[i], d, h[i])
              /\ \A i \in 1..n : f[i] # r
            BY <2>1, <2>2, <3>1 DEF Tells
        <3> HIDE DEF n, h
        <3>4. \A i \in 1..(n + 1) : i # n + 1 => i \in 1..n
            BY <3>1
        <3>5. PICK g : g = [i \in 1..(n + 1) |-> IF i = n + 1 THEN r ELSE f[i]]
            OBVIOUS
        <3>6. g \in [1..(n + 1) -> Requests]
            BY <3>3, <3>4, <3>5
        <3>7. ASSUME NEW i \in 1..(n + 1), NEW j \in 1..(n + 1), g[i] = g[j]
              PROVE  i = j
            BY <3>3, <3>4, <3>5, <3>7
        <3>8. ASSUME NEW i \in 1..(n + 1)
              PROVE  ChargedAt(g[i], d, served[d][i])'
            <4>1. CASE i = n + 1
                BY <4>1, <1>1, <1>3, <2>5, <3>2, <3>5 DEF ChargedAt
            <4>2. CASE i # n + 1
                <5>1. i \in 1..n /\ g[i] = f[i] /\ served'[d][i] = h[i]
                    BY <4>2, <3>2, <3>4, <3>5
                <5>2. ChargedAt(f[i], d, h[i]) /\ f[i] \in Requests /\ f[i] # r
                    BY <3>3, <5>1
                <5>3. admitted'[f[i]] = admitted[f[i]]
                    BY <1>3, <5>2
                <5> QED
                    BY <1>1, <5>1, <5>2, <5>3 DEF ChargedAt
            <4> QED
                BY <4>1, <4>2
        <3>9. Tells(g, d)'
            BY <3>2, <3>6, <3>7, <3>8 DEF Tells
        <3> QED
            BY <3>9
    <2> QED
        BY <1>1, <2>3, <2>4, <2>5
<1> QED
    BY <1>4, <1>5 DEF ChargeInv

(* Every step of the service keeps the charges apart. *)
LEMMA ChargesKept ==
    TypeOK /\ ServiceIInv /\ PhaseInv /\ ChargeInv /\ [ServiceNext]_all => ChargeInv'
<1> SUFFICES ASSUME TypeOK, ServiceIInv, PhaseInv, ChargeInv, [ServiceNext]_all
             PROVE  ChargeInv'
    OBVIOUS
<1>1. ASSUME UNCHANGED <<request, admitted, served>>
      PROVE  ChargeInv'
    BY <1>1, NobodyCharged
<1>2. CASE Passes \/ UNCHANGED all
    BY <1>1, <1>2 DEF Passes, Tick, all, local, vars
<1>3. CASE Crash
    BY <1>3, NobodyCharged DEF Crash, Restart
<1>4. ASSUME NEW r \in Requests, Admitted(r)
      PROVE  ChargeInv'
    BY <1>4, OneCharged
<1>5. ASSUME NEW r \in Requests,
             \/ Arrive(r) \/ Exempted(r) \/ Limited(r) \/ Handle(r) \/ OutlookDisabled(r)
             \/ StartReading(r) \/ EndOfBody(r) \/ Disconnect(r)
             \/ \E n \in 1..MaxBody : ReadChunk(r, n)
      PROVE  ChargeInv'
    <2>1. UNCHANGED <<request, admitted, served>>
        BY <1>5 DEF Arrive, Exempted, Limited, Reject, Handle, OutlookDisabled,
                    StartReading, EndOfBody, Disconnect, ReadChunk, vars
    <2> QED
        BY <1>1, <2>1
<1> QED
    BY <1>2, <1>3, <1>4, <1>5 DEF ServiceNext, Step

(* A full window is full of requests that the client is charged for.       *)
LEMMA FullOfItsOwn ==
    ASSUME IInv, ServiceIInv, ChargeInv, NEW r \in Requests, Limited(r)
    PROVE  Cardinality(Charged(r)) >= Limit
<1> DEFINE c == request[r].client
           W == Promise!InWindow(c)
<1>1. c \in Clients
    BY RequestTyped DEF ServiceIInv
<1>2. Reject(c)
    BY DEF Limited
<1> HIDE DEF c
<1>3. /\ Len(Pruned(StampsAfterCleanup(clock)[c], clock)) >= Limit
      /\ Cardinality(W) = Len(Pruned(StampsAfterCleanup(clock)[c], clock))
    BY <1>1, <1>2, CountLemma DEF Reject
<1>4. PICK f : Tells(f, c)
    BY <1>1 DEF ChargeInv
<1>5. W = {i \in DOMAIN served[c] : clock - served[c][i] < Window}
    BY DEF Promise!InWindow
<1>6. \A i \in DOMAIN served[c] : served[c][i] \in Nat
    BY <1>1 DEF IInv, TypeOK
<1> HIDE DEF W
<1> DEFINE g == [i \in W |-> f[i]]
<1>7. ASSUME NEW i \in W
      PROVE  f[i] \in Charged(r)
    <2>1. i \in DOMAIN served[c] /\ clock - served[c][i] < Window
        BY <1>5
    <2>2. /\ f[i] \in Requests
          /\ request[f[i]].client = c
          /\ request[f[i]].path # "health"
          /\ admitted[f[i]] = served[c][i]
        BY <1>4, <2>1 DEF Tells, ChargedAt
    <2>3. admitted[f[i]] # Never
        BY <1>6, <2>1, <2>2 DEF Never
    <2> QED
        BY <2>1, <2>2, <2>3 DEF Charged, c
<1>8. g \in [W -> Charged(r)]
    BY <1>7
<1>9. \A i, j \in W : g[i] = g[j] => i = j
    BY <1>4, <1>5 DEF Tells
<1> HIDE DEF g
<1>10. IsFiniteSet(Charged(r))
    <2>1. Charged(r) \subseteq {q \in Requests : admitted[q] # Never}
        BY DEF Charged
    <2> QED
        BY <2>1, FS_Subset DEF ChargeInv
<1>11. g \in Injection(W, Charged(r))
    BY ONLY <1>8, <1>9, Fun_IsInj
<1>12. IsFiniteSet(W) /\ Cardinality(W) <= Cardinality(Charged(r))
    BY ONLY <1>10, <1>11, FS_Injection
<1>13. Cardinality(W) \in Nat /\ Cardinality(Charged(r)) \in Nat /\ Limit \in Nat
    BY <1>10, <1>12, FS_CardinalityType, SettingsAssumption
<1> QED
    BY <1>3, <1>12, <1>13

(* Only the limiter answers 429. *)
LEMMA OnlyLimited ==
    ASSUME ServiceIInv, ServiceNext, NEW r \in Requests,
           answer'[r].status = "429", answer[r].status # "429"
    PROVE  Limited(r)
<1>1. ASSUME NEW q \in Requests, NEW a, Finish(q, a), a.status # "429"
      PROVE  FALSE
    <2>1. answer' = [answer EXCEPT ![q] = a]
        BY <1>1 DEF Finish
    <2>2. answer'[r] = IF r = q THEN a ELSE answer[r]
        BY <2>1 DEF ServiceIInv
    <2> QED
        BY <1>1, <2>2
<1>2. answer' # answer
    OBVIOUS
<1>3. \A status, allowed : Plain(status, allowed).status = status
    BY DEF Plain
<1>4. ASSUME NEW q \in Requests, Handle(q)
      PROVE  FALSE
    <2>1. CASE request[q].path \in Protocols
        <3>1. Finish(q, QueryAnswer(request[q], settings))
            BY <1>4, <2>1 DEF Handle
        <3>2. QueryAnswer(request[q], settings).status # "429"
            BY QueryHonest, RequestTyped DEF ServiceIInv
        <3> QED
            BY <1>1, <3>1, <3>2
    <2>2. CASE request[q].path \notin Protocols
        <3>1. Finish(q, Plain("200", "unknown"))
            BY <1>4, <2>2 DEF Handle
        <3> QED
            BY <1>1, <1>3, <3>1
    <2> QED
        BY <2>1, <2>2
<1>5. ASSUME NEW q \in Requests, OutlookDisabled(q)
      PROVE  FALSE
    <2>1. Finish(q, Plain("404", "unknown"))
        BY <1>5 DEF OutlookDisabled
    <2> QED
        BY <1>1, <1>3, <2>1
<1>6. ASSUME NEW q \in Requests, EndOfBody(q)
      PROVE  FALSE
    <2>1. Finish(q, BodyAnswer(request[q], settings)) /\ phase[q] = "reading"
        BY <1>6 DEF EndOfBody
    <2>2. request[q].path \in settings.protocols
        BY <2>1 DEF ServiceIInv, Sound
    <2>3. BodyAnswer(request[q], settings).status # "429"
        BY <2>2, BodyHonest, RequestTyped DEF ServiceIInv
    <2> QED
        BY <1>1, <2>1, <2>3
<1>7. ASSUME NEW q \in Requests, NEW n \in 1..MaxBody, ReadChunk(q, n)
      PROVE  FALSE
    <2>1. Finish(q, Plain("413", "unknown")) \/ answer' = answer
        BY <1>7 DEF ReadChunk
    <2> QED
        BY <1>1, <1>2, <1>3, <2>1
<1>8. ASSUME NEW q \in Requests, Limited(q)
      PROVE  q = r
    <2>1. answer' = [answer EXCEPT ![q] = Plain("429", "unknown")]
        BY <1>8 DEF Limited, Finish
    <2>2. q # r => answer'[r] = answer[r]
        BY <2>1 DEF ServiceIInv
    <2> QED
        BY <2>2
<1>9. ~ Passes /\ ~ Crash
    BY <1>2 DEF Passes, Crash, local
<1>10. ASSUME NEW q \in Requests,
              \/ Arrive(q) \/ Exempted(q) \/ Admitted(q) \/ StartReading(q) \/ Disconnect(q)
       PROVE  FALSE
    BY <1>2, <1>10 DEF Arrive, Exempted, Admitted, StartReading, Disconnect
<1> QED
    BY <1>4, <1>5, <1>6, <1>7, <1>8, <1>9, <1>10 DEF ServiceNext, Step

(* No request is refused but for Limit others of its own client, each      *)
(* charged once and within the window.                                     *)
THEOREM RefusalsHaveReasons == ServiceSpec => RefusedForAReason
<1>1. ServiceInit => PhaseInv /\ ChargeInv
    <2> SUFFICES ASSUME ServiceInit
                 PROVE  PhaseInv /\ ChargeInv
        OBVIOUS
    <2>1. PhaseInv
        BY DEF ServiceInit, PhaseInv, InPhase
    <2>2. {q \in Requests : admitted[q] # Never} = {}
        BY DEF ServiceInit
    <2>3. ASSUME NEW c \in Clients
          PROVE  \E f : Tells(f, c)
        <3> DEFINE f == [i \in {} |-> {}]
        <3>1. DOMAIN served[c] = {}
            BY DEF ServiceInit, Init
        <3>2. f \in [DOMAIN served[c] -> Requests]
            BY <3>1
        <3>3. Tells(f, c)
            BY <3>1, <3>2 DEF Tells
        <3> QED
            BY <3>3
    <2> QED
        BY <2>1, <2>2, <2>3, FS_EmptySet DEF ChargeInv
<1>2. IInv /\ ServiceIInv /\ ChargeInv /\ [ServiceNext]_all =>
          [\A r \in Requests :
              answer'[r].status = "429" /\ answer[r].status # "429" =>
                  Cardinality(Charged(r)) >= Limit]_all
    BY OnlyLimited, FullOfItsOwn
<1>3. IInv => TypeOK
    BY DEF IInv
<1> QED
    BY <1>1, <1>2, <1>3, PhasesKept, ChargesKept, ServiceInvariance, LimiterInside,
       Invariance, PTL DEF ServiceSpec, ServiceSafety, RefusedForAReason
=============================================================================
