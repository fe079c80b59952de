# TLA+ verification of mail-autodiscover

A formal model of the autodiscovery service in `app/`, a small FastAPI
application that tells mail clients (Thunderbird, Apple Mail, Outlook) which
IMAP and SMTP servers serve their domain, and of the workflows and scripts that
release it. The modules are checked with TLC on small instances and the main
results are proved with TLAPS for all values of the constants. `PROJECT.json`
lists components, runs, findings, hazards, theorems, and for every definition
the source lines it models.

## The system

| Component | State | Operations | Talks to |
|---|---|---|---|
| Rate limiter (`app/security.py` 24-30, 147-218) | `_rate_limit_store` (an `OrderedDict` from client to times), `_last_rate_limit_cleanup` | `is_rate_limited`, `_cleanup_rate_limit_store`, `_enforce_rate_limit_capacity`, `reset_rate_limit_store` | called by `dispatch` for every request but health checks |
| Client address (`app/security.py` 65-144) | none; the headers a chain of proxies builds | `get_client_ip` | settings; its result is the limiter's key |
| Settings (`app/config.py`) | the environment, `CONFIG_FILE`, the `lru_cache` of `get_settings` | `Settings()` with its validation, `allowed_domains_set`, `domain_settings_for`, `trusted_proxy_networks` | read by `create_app` and by every handler's dependency |
| Dispatch (`app/security.py` 310-356) | `request.state` | limit, call the handler, set headers, log | limiter, handlers |
| Handlers (`app/main.py` 66-167, routes 195-260) | the chunks of a body being read | answer a Thunderbird, Apple or Outlook request | settings, e-mail validation, generators |
| E-mail validation (`app/email_utils.py`) | none | `validate_email`, `build_username` | settings |
| Generators (`app/templates.py`, `mobileconfig.py`, `landing.py`) | none; Apple devices keep installed profiles | XML, plist, HTML | settings |
| Release (`.github/workflows/release.yml`) | tags, releases, milestones, one run per push | detect, look up, release, dispatch, close | changelog, publishing by dispatch |
| Publishing (`.github/workflows/docker-publish.yml`) | two registries, digests in artifacts, one run per commit or tag | build and scan by digest, tag, copy, promote, attach the SBOM | release by tag and release |
| Release tooling (`scripts/`) | none | release notes, docs-impact check of a pull request | workflows |

What is hard here: one event loop interleaves requests at every `await` (between
the middleware and its handler, and at each chunk of an Outlook body); the
limiter keeps four views of time in agreement (pruning, cleanup, key order,
eviction) in a bounded store; settings are cached while their file may change;
two configuration modes answer the same question in different functions; the
client's address is read out of headers that the client, too, may write; three
generators say the same thing in three languages; and the workflows of different
commits run side by side, write to several places one after the other, may fail
between any two of them and are run again long after. The `hazards` of
`PROJECT.json` name each of these at its line.

What makes each component correct:

- Limiter: never one request too many in any window, memory bounded, refusals
  only for a full window, a client forgotten only behind a full store of clients
  that were accepted later.
- Client address: never decided by what a client wrote; the client's own wherever
  the chain of proxies lets it be known.
- Settings: a process that starts has settings that its other parts may rely on,
  and everybody in it sees the same ones.
- Dispatch and handlers: mail settings only for a configured domain over an
  enabled protocol, a body's verdict depends on its size only, what a request
  holds is bounded, the log agrees with the answer, a refusal has its reason, and
  no request holds up another.
- Generators: the clients of a mailbox are told the same, and a device keeps one
  profile per address.
- Release: a tag is on the push that made its version releasable, a run that ends
  well has left nothing undone, and one that failed can be completed.
- Publishing: only scanned images get a tag, a version is its own commit's image,
  `latest` goes back only by a job that a push overtook, and everything is published in
  the end.
- Tooling: release notes say what the changelog's section says; a green check
  means a true declaration.

## Modules

| Module | Contents |
|---|---|
| `Filters` | Python's list comprehension `[x for x in s if test(x)]`, without recursion |
| `SlidingWindow` | what the limiter promises: a log per client, no store, no order, no cleanup |
| `Replies` | what the service promises: one reply to each request, the one it would get alone |
| `Lifecycle` | what `release.yml` promises: tagged once, released, dispatched, closed, in this order |
| `Delivery` | what `docker-publish.yml` promises: approved, published, copied, promoted, `latest` taken back by no job but one that a push overtook |
| `RateLimiter` | the store as the code keeps it; `Promise` maps it to `SlidingWindow` |
| `TouchOrder` | the limiter with the time of each client's last call, for a comment's claim |
| `Settings` | settings from their two sources, validation, lookups (operators only) |
| `SettingsLifecycle` | start, refusal to start, requests, stop, edits of the file |
| `Service` | requests in flight: dispatch, handlers, chunked bodies, disconnects, crashes; EXTENDS `RateLimiter` and `Settings`; `Alone` maps it to `Replies` |
| `ClientIp` | a request on its way through proxies, and `get_client_ip` at its end |
| `Documents` | the three documents as records, answers of one process, profiles on a device, restarts |
| `Release` | the runs of `release.yml`, tags, releases, milestones, the maintainer's hand; `Promise` maps them to `Lifecycle` |
| `Publish` | the jobs of `docker-publish.yml`, both registries, version tags and SBOMs; `Promise` maps them to `Delivery` |
| `ReleaseNotes` | `format_release_notes.py` on a changelog of lines |
| `DocsImpact` | `check_pr_docs_impact.py` through a pull request's life |
| `MCRateLimiter`, `MCSettings`, `MCService`, `MCClientIp`, `MCDocuments`, `MCRelease`, `MCPublish`, `MCTooling` | constants and symmetry for TLC |
| `FilterLemmas`, `RateLimiter_proofs`, `Settings_proofs`, `Service_proofs`, `ClientIp_proofs`, `Documents_proofs`, `Release_proofs`, `Publish_proofs` | lemmas, theorems and their proofs |

### How the state corresponds to the code

`RateLimiter`: `keys` is the key order of the `OrderedDict`, `stamps` the lists it
holds; a client without an entry has the empty list, as `store.get(ip, [])`
gives. `is_rate_limited` holds its lock from beginning to end and is called only
from the event loop, so one call is one action: `Accept(c)` or `Reject(c)`,
each with the cleanup, the pruning and the assignment that come before its
decision, and `Accept` with `move_to_end` and the eviction after it. Both
evaluate the clock once, as the code does. `Tick` advances the clock, `Restart`
is a new process (`reset_rate_limit_store` has the same effect). `served` and
`verdict` are history: the accepted requests of each client since it was last
lost, and the last answer.

`Settings`: an environment is a record of what validation and lookups look at; a
proxy list is a set of tokens of which some parse; `PUBLIC_BASE_URL` is what is
asked of it (contains localhost, starts with https). A name is a member of a
small set and `NameOf` is `strip().lower()`. Validation errors are sets, one
operator per `_validate_*` method, and settings are accepted when their union is
empty.

`Service`: `phase` says how far a request is: `arrived` (in `dispatch`), `called`
(past the limiter, its dependencies running), `reading` (in
`async for chunk in request.stream()`), `done`. One action per stretch between two
awaits. `buffered` is what `chunks` holds. The network cuts a body as it likes
(`ReadChunk(r, n)` for any `n`). `Finish` makes the answer and, in the same step,
the log event that `dispatch` writes after `call_next`; nothing else can touch
that request's state in between. `admitted` is history. `Due` is the answer to a
request that a server has whole and alone; `AnswersAsAlone` compares with it what the
phases, the chunks and the other requests have led to.

`ClientIp`: a header is the sequence of its parts that are not blank, `Parsed` is
`_parse_ip`. The proxies are the surroundings: each sets `X-Real-IP` to the peer
it saw, as the nginx guide has it, and overwrites or appends `X-Forwarded-For`;
the last one may be connected over a socket without addresses. `Resolve` is the
one step of the code. `exact` is history: nobody left a part that does not parse.

`Documents`: a document is a record of what the generator puts into it from the
settings and the address; encryption stays in each generator's own language
(socket type, `on`/`off`, a boolean), and `SameServers` compares them.
A username, an identifier or a UUID is the tuple of what it is computed from.
`Install` is the device's side: a profile replaces the one of the same identifier,
and may have been downloaded from any process that ran before.

`Release`: a push is its version and the versions with a heading; `run[c]` is how
far the run of push `c` is, one action per request to GitHub. `Fail` ends a run
before a step, or after it took effect but before its answer arrived; `View` may
fail in a way that the step cannot tell from "no release". `ReleaseByHand` and
`DispatchByHand` are the commands of `CONTRIBUTING.md`, `TagByHand` the `git push` that
`docker-publish.yml` 475 names beside them. A tag that no workflow's token made triggers
the publishing (`docker-publish.yml` 6), whether it was pushed or made with a release.

`Publish`: `leg[c][a]`, `manifest[c]`, `promote[v]` are the jobs' states, one
action per step that reads or writes something shared. An image is the builds it
was composed of, so two builds of one commit differ, as their digests do. `ghcr`
and `hub` map tags to images. A job may fail with any subset of its tags written
(`FailManifest`). `RerunFailed` and `RebuildAll` are GitHub's two kinds of re-run;
`RerunPromote` also stands for another dispatch. `isTip[c]` is what a manifest job was
told of the tip, until it ends. Concurrency groups are per commit, so nothing holds a push
or another job back meanwhile: `latest` may be written by a job that is no longer the
tip's. `gated`, `published` and `overtaken` are history, the last of the jobs that were
told "yes" and had not ended when the next commit was pushed.

`ReleaseNotes`: a line of the changelog is what the script's patterns see in it.
`DocsImpact`: `event` is the body the check is given, `body` the one the pull
request has now.

## Runs

| Run | Constants | Shows |
|---|---|---|
| `rate_limiter` | 3 clients, store of 2, limit 2, window 2, cleanup interval 3, clock to 5 | six invariants and `SlidingWindowPromise` (refinement of `SlidingWindow`). Three clients and a store of two are the fewest that evict a client while another stays; the interval is longer than the window, so entries are stale for a while; five ticks hold two cleanups and more than two windows |
| `settings` | every combination of what validation tells apart, eight file contents | start-up validation gives limiter, proxy trust and lookups what they rely on, whatever is edited later. The file contents include an absent and a broken file, two keys that become one, a blank key and placeholders |
| `service` | 2 requests out of 12 kinds, 2 clients, limit 1, store 1, window 1, body limit 1, bodies to 2, three settings | overlapping requests; every early return of every handler, a body at, below and above the limit; with one place in the store the second client evicts the first; `AnswersAsAlone` (refinement of `Replies`) and one liveness property |
| `client_ip` | 2 outside addresses, 2 proxies, a token that does not parse and one in another spelling, up to 2 forged parts, up to 3 proxies | `NeverForged`, `ClientFound`. Three proxies give every mixture of overwriting before, between and after appending; two forged parts are one that helps and one that hides |
| `documents` | 4 mailboxes (one typed in two ways, one name in two domains), 3 settings, 2 answers kept | `SameServers` compares two answers, so two are enough; settings differ in host, port, every socket type, POP3 and username format |
| `publish` | 2 commits with one short SHA, 2 platforms, 1 version, 2 builds, 1 failure | seven properties, among them `DeliveryPromise` (refinement of `Delivery`, which lets only a job that a push overtook take `latest` back) and two of liveness. Two commits overlap in every way; one failure is one re-run or one rebuild at every step of every job |
| `release` | 2 pushes of 2 versions with any headings, 2 failures, 1 action by hand | invariants, `WrongTagStops`, `LifecyclePromise` (refinement of `Lifecycle`), and that releases get completed; two failures fail a run and its re-run |
| `tooling` | changelogs to 6 lines, 2 versions (one a pre-release), 3 headings, 2 texts; bodies with 2 ticked reasons | six lines hold a repeated version or heading with text before and after it |
| `touch_order` (violation) | 2 clients, limit 1 | finding 1 |
| `placeholders` (violation) | as `settings` | finding 2 |
| `registries` (violation) | as `publish`, with a short SHA of its own for each commit | finding 3 |
| `release_race` (violation) | 3 pushes, no failure, nothing by hand | finding 4 |

The bounds `MaxTime`, `MaxBody`, `MaxForged`, `MaxHops`, `MaxAnswers`, `MaxBuilds`,
`MaxFailures`, `MaxByHand`, `MaxLines` and `MaxReasons` are constants of the
specifications, and the proofs hold for every value of those they mention. Symmetry
is used where there is no liveness property (`rate_limiter`, `touch_order`).
`RebuildAll` leaves as many builds as failures may still cost, so that the bound on
builds never makes a re-run impossible that the code would allow. `tooling` puts two
scripts that share nothing into one run and varies one at a time.

Deadlock is not checked where a system may have nothing left to do: a request that
is resolved, a changelog that is formatted, a publishing or release history at its
bounds.

### Fairness

- `Service`: weak fairness of `Step(r)` for every request, that is of dispatch,
  handlers and the end of a body that has arrived whole. asyncio's ready queue is
  first in, first out, and the dependencies that run in threads never block, so a
  coroutine that can go on does. Nothing is assumed of clients: a body may stop
  for ever (`ReadChunk` and `Disconnect` have no fairness), nor of crashes and
  arrivals. `EveryRequestProgresses` says accordingly that a request the service
  can go on with is gone on with.
- `Publish` and `Release`: runners take the steps of a job that was started, and
  the operator runs a failed job again, which the error messages of the workflows
  ask for; in `Publish` also that the release promote waits for is made, which its
  message asks for too. Failures have no fairness and are bounded: a step that
  fails for ever is never completed. Nothing is assumed of pushes, tags and rebuilds.

No assumption is made on timing. `LatestCatchesUp` says what remains without one: the last
commit's job ends well, and `latest` is its image in both registries unless a job that the
push overtook wrote it.

### Findings

1. The comment at `_rate_limit_store` says that every touch moves a client to the
   end. A refused request touches the store and moves nothing; the comment inside
   `is_rate_limited` says so and why. The order that does hold is `LruOrder`, by
   last accepted request.
2. `SECURITY.md` (deployment requirement 7) says that a production service refuses
   to start on placeholder values. It starts with `IMAP_HOST` at its placeholder when
   `SMTP_HOST` is not, and with `example.com` among other allowed domains.
3. `CHANGELOG.md` says that both registries always carry the same image. The manifest
   job of a commit that failed after GHCR and before Docker Hub, and is run again when
   main has moved on, ends well without writing `latest` at all: GHCR has it and Docker
   Hub does not, until the newer commit's job ends well. For versions the claim holds
   (`CompleteRelease`).
4. `release.yml` looks the tag up first and says that this closes the gap to a tag of
   another commit. Two pushes that introduce the same version may both look it up
   before either creates it; the slower one then takes the faster one's release for its
   own and dispatches and closes for it. No wrong tag results
   (`TagIsAtIntroduction`), and once the tag is there no run gets past the step
   (`WrongTagStops`).

Smaller disagreements between words and code that no run is about:

- "Stable per mailbox" (`SECURITY.md` 149, `README.md` 187, `docs/clients/apple-mail.md`
  20): identifiers are computed from the address as typed, so a domain typed in
  another case gives the same mailbox another profile. `Documents` keeps the two
  apart, and `OneProfileEach` speaks of addresses as typed.
- `CONTRIBUTING.md` 148-150 says that a push without a version change is a no-op and
  that an existing release is skipped; a push that adds the missing heading releases,
  and an existing tag elsewhere fails the run (`IsRelease`, `Lookup`).
- `docker-publish.yml` 214-215 calls `sha-<short>` always safe to publish; 390-403
  explain why it is not unique.
- The docstring of `check_pr_docs_impact.py` says that a stale declaration fails the
  check; an edit of the body starts no check (`EditBody`), and a re-run is given the
  old body.
- The comment on the tip check of `docker-publish.yml` (212-221) puts the window in which
  a push may leave `latest` at the older commit at the few seconds before the write. The
  same answer also decides the copy to Docker Hub, a step later, in a job that may take ten
  minutes: a push after the GHCR write is enough, if the newer commit's job gets to its
  copy first. Both runs end well, Docker Hub's `latest` is the older commit's, and nothing
  repairs it before the next commit's job. `Publish` has these behaviours; what holds is
  that only a job a push overtook takes `latest` back (`OnlyOvertakenTakeBack`, of which
  `DeliveryPromise` is the checked form).
- `docker_block` lists `latest` for every stable version, while `latest` follows the
  tip of main.

## Proofs

All theorems hold for every number of clients, requests, commits, pushes, failures,
proxies, every limit, window, interval and all settings that meet the named
assumptions of the modules: `SettingsAssumption` (what `_validate_rate_limit_settings`
enforces; that it does is theorem `LimiterIsConfigured`), `ClientsAssumption` (finitely
many addresses), `NamesAssumption`, `EnvironmentsAssumption` and `FilesAssumption`
(settings have their declared types, hosts are not blank), `ServiceAssumption` (the
service runs with settings that validation accepts), `AddressesAssumption` of
`ClientIp` (an address parses to itself), `DocumentsAssumption` and
`AddressesAssumption` of `Documents` (declared types; different mailboxes have
different addresses), `PublishAssumption` and `ReleaseAssumption` (commits in the
order of their pushes; tags of different kinds differ), `ReleaseNotesAssumption` and
`DocsImpactAssumption` (bounds are numbers; pre-releases are versions).

**Limiter.** `Invariance` proves `IInv` inductive; every listed invariant is one of
its parts. `WindowLimit` is not inductive: accepting a request looks at the stored
list only, so the list must be known to be the end of the client's history, and
what it left out to be out of the window for good. That is `HistoryKept`; with
`TimeOrder` (times run forward) and the fact that the list had fewer than `Limit`
entries, the request `Limit` places back is a window old. `StoreBounded` needs to
know that a present entry is never empty, or the refusing path could add one past
the capacity check. `LruOrder` needs `TimeOrder` for the newly moved client.
`Refinement` shows every step to be one of `SlidingWindow`: `CountLemma`, that the
stored list counts the log's entries within the window, and `EvictionLemma`, that
an evicted client has `MaxClients` others at or after it, which is where key order
and capacity meet. `FilterLemmas` holds what `Keep` does to a sequence.

**Settings.** `IInv` of `SettingsLifecycle`: a running process holds one `Settings`,
accepted by validation, in both its cache and its middleware. From it follow
`SettingsNeverSplit`, `LimiterIsConfigured`, `ProxiesAreStated` and, of the two
together, `ReliedOnStaysTrue`.
`ValidatedAlwaysResolve` needs in addition what a file's entries become
(`ConfigsOfFile`): of several keys that normalise to one name the last one counts,
in the domain set and in the lookup alike.

**Service.** `ServiceIInv` adds to the types one condition per request (`Sound`): the
answer is honest (mail settings, a flag of "true" or a protocol's success are in it only
where `SettingsDue` has them, so an error answer has none), the log is the answer's flag, the bytes are within the limit, only an enabled Outlook request
reads, and what was answered from a body had all of it. Every action is either a
step that ends one request (`FinishLemma`), a kept chunk (`KeepChunkLemma`) or a
step that answers nobody (`MoveOnLemma`). `LimiterInside` shows that the service
takes only the limiter's steps on the store, so `ServiceKeepsPromise` follows from
`Refinement`. `ServiceTypeCorrect` needs `PhaseInv`, which phases have an answer.
`RefusalsHaveReasons` needs `ChargeInv`: every client's history can be told in requests
of its own, a different one for each time. Only a request that was never charged is
added to it; `CountLemma` says how much of it is in the window, and the injection from
those times to requests says that as many requests are to blame.
`EachAsAlone` shows the service to implement `Replies`. A step that ends a request
gives it what is due (`FinishReplies`, with `DueIs` on which handler's answer that is);
for an Outlook request the verdict on a body that came in pieces is that on its whole
size, which is what `Sound` keeps. A disconnect and a crash are `Lose`, of one request
and of all; every other step leaves the answers alone (`OthersLose`).

**Client address.** `IInv`: after the first proxy the header has a part that is the
client's address with only proxies to the right of it, or nothing but proxies. Each
proxy keeps that, whether it overwrites or appends; the walk from the right then
stops at the client's part or, if a forged part left of it does not parse, gives
nothing. `NeverForged` and `ClientFound` follow from what `Resolve` does with such a
header.

**Documents.** `TypeOK` says of each answer whose document it is, so `SameServers` is
a comparison of three definitions. `OneProfileEach` needs that every profile on the
device carries the identifier of its own address, and that identifiers of different
addresses differ.

**Release.** `TypeOK` and `DoneIsComplete` are inductive once it is known what a run
past a step has behind it (`RunInv`): a run that is `created` or further has a
release, one that is `dispatched` a dispatch. `TagsAreWhereVersionsCame` needs that a
run past its detection is of a push that introduces its version (`OriginInv`).
`NeverPastAWrongTag` carries `Stopped`: a run that has found its version tagged
elsewhere is before the step or failed, and stays so because a tag does not move.
`RunsKeepLifecycle` shows the runs to implement `Lifecycle`, where there are no runs:
`RunInv` says that a run which dispatches has a release before it and one that closes a
dispatch, and `OriginInv` that what it releases its push introduced, which no later
push takes back (`IntroducedGrows`). A request that took effect but whose run
failed is the same step of `Lifecycle` as one that was answered. The race of finding 4 is
within this promise: it moves no tag.

**Publish.** `OnlyGatedImages` needs `JobInv`: a running manifest job's legs are saved
and what they saved has passed the gate; and that a digest promote holds was under a
tag (`SourceScanned`). `VersionsAreTheirCommits` rests on `SourceInv`: what is past
`verified` is the tag's commit's. `LatestGoesBackOnlyOvertaken` rests on `LatestInv`: a
job that holds a "yes, tip" is the tip's or has been overtaken, and what `latest` means is
never newer than the tip.
`PromotionsAreComplete` carries `Promotion`, what each state of a promote job has left
in the registries and the SBOM, on top of `ShaTagsInv`: what is found under a short
SHA was published by main, though later pushes may have taken that tag over.
`PublishDelivers` shows the jobs to implement `Delivery`. A manifest job
that fails with some of its tags written is a `Publish` or a `Copy` of those
(`MainDelivers`, with `TagsOfFit`: a job that writes `latest` is the tip's or one of
`Delivery`'s late ones); only a push makes a job late, and its end makes it late no more
(`LateExpires`). `PushedInv` says that a
job at its copy has an image GHCR has had; for versions (`VersionsDelivered`) `Promotion`
and `SourceInv` say that what is copied or attached is what is under the tag now.

**Release notes.** `parse_subsections` is a loop, so `NotesFollowTheSection` and
`BlocksStayTidy` are about what a recursive function computes for a changelog of any
length. The library's induction theorems take an operator and cannot be used;
`FilterLemmas` obtains both principles from sets instead: a set of numbers that is not
empty has a least member (`Least`), hence a set that contains the first number and the
successor of each of its numbers contains all of them (`Induction`), and a function
defined step by step exists and obeys its equation (`Recursion`). The argument
goes through the script in its order: `SectionIs` (what `extract_section` returns are the lines
after the first heading of the version up to the next version, but for links), `BodyIs`,
then by induction `ParsedSections` (after n lines, each subsection holds the lines since
its last heading, and the order lists the headings seen, each once), `Normalized` (trimming
loses blank lines only), and `ContentIs` and `BlocksAre` for the blocks. The lemmas
about `Keep` (`KeepKeep`, `KeepSome`, `KeepPart`) are needed because each stage filters what
the stage before it filtered, while the property speaks of positions in the changelog.

**Pull-request check.** `GreenStaysTrue` carries `DocsInv`: until the body is edited a
finished check was given the body there is, and its verdict was computed from the files
that differ from main now. `VerdictMeans` says what a green verdict says of the two.

Only model-checked: `EveryRequestProgresses`, `EveryVersionIsPromoted`,
`LatestCatchesUp` and `EveryReleaseIsCompleted`: liveness under fairness is out of the
prover's reach. Every other property of the passing runs is a theorem.

## Abstractions

- Time is counted in ticks; the window of 60 seconds is `Window` ticks.
- The client address in `Service` is a parameter of a request: what `ClientIp` resolves.
- Proxies set `X-Real-IP` themselves, as `docs/reverse-proxy/nginx.md` configures it and
  `nginx-proxy-manager.md` asks for; `caddy.md` and `cloudflare-tunnel.md` say nothing of
  it. The theorems about the client address say nothing of a chain in which a proxy passes
  a client's own `X-Real-IP` on: the code prefers that header, and would believe it.
- An address in `Service` is missing, malformed or of a domain; the local part decides
  nothing. In `Documents` it has a local part, a domain and the way it was typed.
- `uuid5` is taken to give different names different values; display names, the
  authentication name and the layout of documents are left out.
- `.env` counts as environment and is not edited under a running process.
- Hosts that are configured are never the empty string.
- `/health` and `/ready` are one path, as are the routes without parameters.
- Which paths are logged is a set; `DISABLE_ACCESS_LOG` is the empty set.
- One process, as the image runs it (`uvicorn` without `--workers`). Workers share
  nothing: with several, every theorem about the limiter holds of each.
- In `Publish`, a dispatch on main for a commit that is built already counts as
  `RebuildAll`; the two files of an SBOM are attached in one step; artifacts do not
  expire (their retention is a day) between a job and its re-run.
- In `Release`, a version is well formed, and the notes of a push can be formatted
  when it has the heading; the run that cannot is a `Fail`.
- In `DocsImpact`, a reason that consists of blanks is a reason, as for the script.

## Not modelled

- Log sanitising and request ids: string replacement without state.
- The landing page, `robots.txt` and the neutral Outlook answer: fixed text.
- Response headers: constants.
- Packaging (`Dockerfile`, compose files): declarative; taken from it that one process runs.
- `scripts/check.sh`, and the CI workflows but for the triggers of the docs-impact check:
  sequences of commands and independent jobs without shared state.
- The lapse of a request whose client stays connected and sends nothing: the code has no
  timeout to model.
