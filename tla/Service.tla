------------------------------ MODULE Service ------------------------------
(***************************************************************************)
(* The running service: SecurityMiddleware.dispatch (app/security.py) and  *)
(* the handlers of app/main.py, for requests that overlap. One event loop  *)
(* runs them; a request gives way to others where its coroutine awaits:    *)
(* between the middleware and its handler, whose dependencies run in a     *)
(* thread, and at every chunk of an Outlook body. The rate limiter is      *)
(* RateLimiter, the settings are those that Settings accepts.              *)
(***************************************************************************)
EXTENDS RateLimiter, Settings

(* Operators whose name ends in _mutant are plausible mistakes in the      *)
(* definition that follows them, as in RateLimiter.                        *)

CONSTANTS
    Requests,  \* the requests of a behaviour
    Asked,     \* what a request may be: see Request below
    Serving,   \* the settings the service may run with
    Malformed, \* an address that _EMAIL_PATTERN does not match
    MaxBody    \* bound: the largest body a client sends

(* thunderbird and apple are GET with ?emailaddress=, outlook is POST, a   *)
(* page is any other route: landing page, robots.txt, icons, Outlook GET.  *)
Protocols == {"thunderbird", "apple", "outlook"}
Paths == Protocols \cup {"health", "page"}

(* The address is NoDomain when it is missing or blank, or the body does   *)
(* not parse; else malformed, or of some domain.                           *)
Request ==
    [client : Clients, path : Paths, email : Domains \cup {NoDomain, Malformed},
     size : 0..MaxBody]

(* Settings of Settings.tla, with what the handlers and the log look at.   *)
ASSUME ServiceAssumption ==
    /\ Asked \subseteq Request
    /\ MaxBody \in Nat
    /\ Malformed \notin Domains \cup {NoDomain}
    /\ \A s \in Serving :
          /\ ValidationErrors(s) = {}
          /\ s.env.rateEnabled => s.env.rateLimit = Limit /\ s.env.maxClients = MaxClients
          /\ s.env.maxBody \in Int
          /\ s.protocols \subseteq Protocols
          /\ s.hide \in BOOLEAN
          /\ s.logs \subseteq Paths

VARIABLES
    settings,  \* the settings the process runs with
    request,   \* what each request asks
    phase,     \* how far it is: "idle", "arrived", "called", "reading", "done"
    buffered,  \* bytes of its body held in chunks
    answer,    \* what it was answered
    logged,    \* domain_allowed in its access log event, "none" without one
    admitted   \* history: when the limiter let it through, or Never

local == <<settings, request, phase, buffered, answer, logged, admitted>>
all == <<vars, local>>

Never == -1

-----------------------------------------------------------------------------
(* The answers. "none" stands for a connection that ended without one.     *)

Plain(status, allowed) ==
    [status |-> status, mail |-> NoMailSettings, allowed |-> allowed]

NoAnswer == Plain("none", "unknown")

(* _domain_error_response, with request.state.domain_allowed = False *)
DomainError(s) == Plain(IF s.hide THEN "404" ELSE "400", "false")

(* validate_email *)
EmailError(e, s) ==
    CASE e = NoDomain  -> "empty"
      [] e = Malformed -> "invalid_format"
      [] e \in Domains -> IF e \in AllowedDomains(s) THEN "valid" ELSE "domain_not_allowed"

(* What a handler does of an address that validate_email let through. *)
Configured(s, d) ==
    IF DomainSettingsFor(s, d) = NoMailSettings THEN DomainError(s)
    ELSE [status |-> "200", mail |-> DomainSettingsFor(s, d), allowed |-> "true"]

(* The flag is set before the address is looked at. *)
QueryAnswer_mutant(q, s) ==
    CASE q.path \notin s.protocols                      -> Plain("404", "unknown")
      [] q.path \in s.protocols /\ q.email = NoDomain   -> Plain("400", "true")
      [] q.path \in s.protocols /\ q.email = Malformed  -> [DomainError(s) EXCEPT !.allowed = "true"]
      [] q.path \in s.protocols /\ q.email \in Domains  -> Configured(s, q.email)

(* _thunderbird_config and _apple_mobileconfig *)
QueryAnswer(q, s) ==
    LET error == EmailError(q.email, s)
    IN  CASE q.path \notin s.protocols -> Plain("404", "unknown")
          [] q.path \in s.protocols /\ error = "empty" -> Plain("400", "unknown")
          [] q.path \in s.protocols /\ error \in {"invalid_format", "domain_not_allowed"} ->
                DomainError(s)
          [] q.path \in s.protocols /\ error = "valid" -> Configured(s, q.email)

(* The refusal of a domain falls back to the environment's hosts. *)
BodyAnswer_mutant(q, s) ==
    IF q.email \in AllowedDomains(s) THEN Configured(s, q.email)
    ELSE [DomainError(s) EXCEPT !.mail = [imap |-> s.env.imap, smtp |-> s.env.smtp]]

(* _handle_outlook_autodiscover_post, once the body is read *)
BodyAnswer(q, s) ==
    LET error == EmailError(q.email, s)
    IN  CASE error = "empty"              -> Plain("400", "unknown")
          [] error = "invalid_format"     -> Plain("400", "false")
          [] error = "domain_not_allowed" -> DomainError(s)
          [] error = "valid"              -> Configured(s, q.email)

-----------------------------------------------------------------------------
(* dispatch, to its call_next *)

(* Every path is charged. *)
SkipsLimiter_mutant(r) == ~settings.env.rateEnabled

(* should_skip_rate_limit, and is_rate_limited when it is disabled *)
SkipsLimiter(r) == request[r].path = "health" \/ ~settings.env.rateEnabled

(* The answer goes out and, but for a 429, dispatch writes its log event. *)
Finish(r, a) ==
    /\ phase' = [phase EXCEPT ![r] = "done"]
    /\ answer' = [answer EXCEPT ![r] = a]
    /\ logged' = [logged EXCEPT ![r] =
                     IF a.status = "429" \/ request[r].path \notin settings.logs
                       THEN "none" ELSE a.allowed]

Arrive(r) ==
    /\ phase[r] = "idle"
    /\ phase' = [phase EXCEPT ![r] = "arrived"]
    /\ UNCHANGED <<vars, settings, request, buffered, answer, logged, admitted>>

Exempted(r) ==
    /\ phase[r] = "arrived"
    /\ SkipsLimiter(r)
    /\ phase' = [phase EXCEPT ![r] = "called"]
    /\ UNCHANGED <<vars, settings, request, buffered, answer, logged, admitted>>

Admitted(r) ==
    /\ phase[r] = "arrived"
    /\ ~SkipsLimiter(r)
    /\ Accept(request[r].client)
    /\ phase' = [phase EXCEPT ![r] = "called"]
    /\ admitted' = [admitted EXCEPT ![r] = clock]
    /\ UNCHANGED <<settings, request, buffered, answer, logged>>

Limited(r) ==
    /\ phase[r] = "arrived"
    /\ ~SkipsLimiter(r)
    /\ Reject(request[r].client)
    /\ Finish(r, Plain("429", "unknown"))
    /\ UNCHANGED <<settings, request, buffered, admitted>>

-----------------------------------------------------------------------------
(* The handlers *)

Handle(r) ==
    LET q == request[r]
    IN  /\ phase[r] = "called"
        /\ q.path # "outlook"
        /\ Finish(r, IF q.path \in Protocols THEN QueryAnswer(q, settings)
                     ELSE Plain("200", "unknown"))
        /\ UNCHANGED <<vars, settings, request, buffered, admitted>>

OutlookDisabled(r) ==
    /\ phase[r] = "called"
    /\ request[r].path = "outlook"
    /\ "outlook" \notin settings.protocols
    /\ Finish(r, Plain("404", "unknown"))
    /\ UNCHANGED <<vars, settings, request, buffered, admitted>>

StartReading(r) ==
    /\ phase[r] = "called"
    /\ request[r].path = "outlook"
    /\ "outlook" \in settings.protocols
    /\ phase' = [phase EXCEPT ![r] = "reading"]
    /\ UNCHANGED <<vars, settings, request, buffered, answer, logged, admitted>>

(* A body of exactly the limit is refused. *)
TooLarge_mutant(total) == total >= settings.env.maxBody

(* total > settings.max_request_body_bytes *)
TooLarge(total) == total > settings.env.maxBody

(* The 413 is made and the loop goes on. *)
ReadOn_mutant(r, n) ==
    /\ phase[r] = "reading"
    /\ buffered[r] + n <= request[r].size
    /\ IF TooLarge(buffered[r] + n)
         THEN answer' = [answer EXCEPT ![r] = Plain("413", "unknown")] /\ UNCHANGED buffered
         ELSE buffered' = [buffered EXCEPT ![r] = @ + n] /\ UNCHANGED answer
    /\ UNCHANGED <<vars, settings, request, phase, logged, admitted>>

(* async for chunk in request.stream(): the network cuts the body as it likes. *)
ReadChunk(r, n) ==
    /\ phase[r] = "reading"
    /\ buffered[r] + n <= request[r].size
    /\ IF TooLarge(buffered[r] + n)
         THEN Finish(r, Plain("413", "unknown")) /\ UNCHANGED buffered
         ELSE /\ buffered' = [buffered EXCEPT ![r] = @ + n]
              /\ UNCHANGED <<phase, answer, logged>>
    /\ UNCHANGED <<vars, settings, request, admitted>>

(* The last request still reading goes first. *)
EndOfBody_mutant(r) ==
    /\ phase[r] = "reading"
    /\ buffered[r] = request[r].size
    /\ \A q \in Requests \ {r} : phase[q] # "reading"
    /\ Finish(r, BodyAnswer(request[r], settings))
    /\ UNCHANGED <<vars, settings, request, buffered, admitted>>

(* The stream ends: the body is whole. *)
EndOfBody(r) ==
    /\ phase[r] = "reading"
    /\ buffered[r] = request[r].size
    /\ Finish(r, BodyAnswer(request[r], settings))
    /\ UNCHANGED <<vars, settings, request, buffered, admitted>>

(* The client goes away before its body is read: stream() raises, dispatch *)
(* ends without a response and without a log event.                        *)
Disconnect(r) ==
    /\ phase[r] = "reading"
    /\ buffered[r] < request[r].size
    /\ phase' = [phase EXCEPT ![r] = "done"]
    /\ UNCHANGED <<vars, settings, request, buffered, answer, logged, admitted>>

-----------------------------------------------------------------------------
Passes == Tick /\ UNCHANGED local

(* The process restarts: requests in flight are lost with the store. *)
Crash ==
    /\ Restart
    /\ phase' = [r \in Requests |-> IF phase[r] = "idle" THEN "idle" ELSE "done"]
    /\ UNCHANGED <<settings, request, buffered, answer, logged, admitted>>

ServiceInit ==
    /\ Init
    /\ settings \in Serving
    /\ request \in [Requests -> Asked]
    /\ phase = [r \in Requests |-> "idle"]
    /\ buffered = [r \in Requests |-> 0]
    /\ answer = [r \in Requests |-> NoAnswer]
    /\ logged = [r \in Requests |-> "none"]
    /\ admitted = [r \in Requests |-> Never]

(* The steps the event loop takes of itself, once a request is there. *)
Step(r) ==
    \/ Exempted(r) \/ Admitted(r) \/ Limited(r)
    \/ Handle(r) \/ OutlookDisabled(r) \/ StartReading(r) \/ EndOfBody(r)

ServiceNext ==
    \/ Passes
    \/ Crash
    \/ \E r \in Requests :
          \/ Arrive(r)
          \/ Step(r)
          \/ \E n \in 1..MaxBody : ReadChunk(r, n)
          \/ Disconnect(r)

ServiceSafety == ServiceInit /\ [][ServiceNext]_all

(* asyncio's ready queue is first in, first out: a coroutine that can run  *)
(* does. Clients promise nothing: a body may stop in the middle for ever.  *)
Fairness == \A r \in Requests : WF_all(Step(r))

ServiceSpec == ServiceSafety /\ Fairness

-----------------------------------------------------------------------------
(* Type correctness: what each variable holds, and that only requests in   *)
(* their later phases have an answer or bytes.                             *)
ServiceTypeOK ==
    /\ TypeOK
    /\ settings \in Serving
    /\ request \in [Requests -> Asked]
    /\ \A r \in Requests :
          /\ phase[r] \in {"idle", "arrived", "called", "reading", "done"}
          /\ buffered[r] > 0 => phase[r] \in {"reading", "done"}
          /\ answer[r] # NoAnswer => phase[r] = "done"
          /\ admitted[r] # Never => phase[r] \in {"called", "reading", "done"}

(* A request holds at most max_request_body_bytes in memory at any moment, *)
(* whatever the sizes and the order of its chunks: the comment in          *)
(* _handle_outlook_autodiscover_post ("Enforce the limit while reading").  *)
BufferBounded == \A r \in Requests : buffered[r] <= settings.env.maxBody

(* The verdict on a body depends on its size alone, not on how the network *)
(* cut it: 413 exactly when it exceeds the limit, and an answer made from  *)
(* an address only from the whole body, of which no more than the limit    *)
(* was ever held.                                                          *)
SizeVerdict ==
    /\ BufferBounded
    /\ \A r \in Requests :
        /\ answer[r].status = "413" => request[r].size > settings.env.maxBody
        /\ request[r].path = "outlook" /\ answer[r].mail # NoMailSettings =>
              buffered[r] = request[r].size /\ request[r].size <= settings.env.maxBody
        /\ phase[r] = "reading" /\ buffered[r] = request[r].size =>
              request[r].size <= settings.env.maxBody

(* An answer that carries mail settings, says that it does, or is a        *)
(* protocol's success, is due: the success of an enabled protocol, for an  *)
(* address of a configured domain, with that domain's own settings.        *)
SettingsDue(q, s, a) ==
    (a.mail # NoMailSettings \/ a.allowed = "true" \/ (a.status = "200" /\ q.path \in Protocols))
        => /\ a.status = "200"
           /\ q.path \in s.protocols
           /\ q.email \in AllowedDomains(s)
           /\ a.mail = DomainSettingsFor(s, q.email)

(* Mail settings are sent only over an enabled protocol, only for an       *)
(* address of a configured domain, and they are that domain's own; every   *)
(* other answer, on every error path of every handler, carries none.       *)
OwnDomainOnly == \A r \in Requests : SettingsDue(request[r], settings, answer[r])

(* The access log tells the truth of what was sent: domain_allowed is true *)
(* for the requests that were sent mail settings and for no other, though  *)
(* the flag travels from the handler to the middleware on request.state.   *)
LogTruth ==
    \A r \in Requests :
        logged[r] # "none" =>
            (logged[r] = "true" <=> answer[r].mail # NoMailSettings)

(* The answer of a server that has the whole request and no other.         *)
Due(q, s) ==
    IF q.path = "outlook" /\ "outlook" \in s.protocols
      THEN IF q.size > s.env.maxBody THEN Plain("413", "unknown") ELSE BodyAnswer(q, s)
      ELSE IF q.path \in Protocols THEN QueryAnswer(q, s) ELSE Plain("200", "unknown")

WithLog(a, event) == [answer |-> a, event |-> event]

(* However requests overlap, each gets one answer and one log event at     *)
(* most, and these are its own: what it would have got alone, whether its  *)
(* body came in one piece or many, or the limiter's refusal.               *)
Alone == INSTANCE Replies WITH
    due <- [r \in Requests |->
               LET a == Due(request[r], settings)
               IN  WithLog(a, IF request[r].path \in settings.logs THEN a.allowed ELSE "none")],
    given <- [r \in Requests |-> WithLog(answer[r], logged[r])],
    ended <- {r \in Requests : phase[r] = "done"},
    Nothing <- WithLog(NoAnswer, "none"),
    Refusal <- WithLog(Plain("429", "unknown"), "none")

AnswersAsAlone == Alone!Spec

(* What the proofs carry of an answer, beside its type. *)
Honest(q, s, a) ==
    /\ a.allowed = "true" <=> a.mail # NoMailSettings
    /\ SettingsDue(q, s, a)

(* One request: only an enabled Outlook reads a body, what is logged is    *)
(* the flag of the answer, mail settings end the request, a body that was  *)
(* answered is whole, and 413 is for bodies over the limit.                *)
Sound(r) ==
    /\ Honest(request[r], settings, answer[r])
    /\ logged[r] \in {"none", answer[r].allowed}
    /\ buffered[r] <= settings.env.maxBody
    /\ phase[r] = "reading" =>
          request[r].path = "outlook" /\ "outlook" \in settings.protocols
    /\ answer[r].mail # NoMailSettings =>
          /\ phase[r] = "done"
          /\ request[r].path = "outlook" => buffered[r] = request[r].size
    /\ answer[r].status = "413" => request[r].size > settings.env.maxBody

(* What no step changes: the settings and the requests. *)
Given == settings \in Serving /\ request \in [Requests -> Asked]

(* The inductive invariant of the proofs. *)
ServiceIInv ==
    /\ Given
    /\ buffered \in [Requests -> Nat]
    /\ phase = [r \in Requests |-> phase[r]]
    /\ answer = [r \in Requests |-> answer[r]]
    /\ logged = [r \in Requests |-> logged[r]]
    /\ \A r \in Requests : Sound(r)

(* Requests of the client of r that count against its limit now. *)
Charged(r) ==
    {q \in Requests :
        /\ request[q].path # "health"
        /\ request[q].client = request[r].client
        /\ admitted[q] # Never
        /\ clock - admitted[q] < Window}

(* No request is refused but for Limit earlier ones of its own client,     *)
(* each charged once within the window: health checks, requests of others, *)
(* refused requests and uploads that are still being read do not use up a  *)
(* client's share twice.                                                   *)
RefusedForAReason ==
    [][\A r \in Requests :
          answer'[r].status = "429" /\ answer[r].status # "429" =>
              Cardinality(Charged(r)) >= Limit]_all

(* A request the service can go on with is gone on with: a stalled upload, *)
(* a full limiter or other requests never hold it up for ever, and it ends *)
(* or waits for its own client.                                            *)
Runnable(r) ==
    \/ phase[r] \in {"arrived", "called"}
    \/ phase[r] = "reading" /\ buffered[r] = request[r].size

EveryRequestProgresses == \A r \in Requests : Runnable(r) ~> ~Runnable(r)
=============================================================================
