---------------------------- MODULE RateLimiter ----------------------------
(***************************************************************************)
(* The in-memory per-client rate limiter of app/security.py: one process,  *)
(* whose event loop calls is_rate_limited to its end for every request.    *)
(* The OrderedDict _rate_limit_store is its key order (keys) and, for      *)
(* every key, the list of its accepted requests' times (stamps; an absent  *)
(* key has the empty list, as store.get(client_ip, []) gives).             *)
(*                                                                         *)
(* Operators whose name ends in _mutant are plausible mistakes in the      *)
(* definition that follows them: they are used by nothing, and each shows  *)
(* that a property of the module can fail.                                 *)
(***************************************************************************)
EXTENDS Filters, Functions

CONSTANTS
    Clients,          \* the client addresses get_client_ip can return
    Limit,            \* rate_limit_per_minute
    MaxClients,       \* rate_limit_max_clients
    Window,           \* the 60 seconds of the sliding window, in ticks
    CleanupInterval,  \* rate_limit_cleanup_interval_seconds, in ticks
    MaxTime           \* bound: the last tick of the monotonic clock

(* Settings._validate_rate_limit_settings refuses limit <= 0 and           *)
(* max_clients <= 0; nothing in the code bounds the cleanup interval.      *)
ASSUME SettingsAssumption ==
    /\ Limit \in Nat \ {0}
    /\ MaxClients \in Nat \ {0}
    /\ Window \in Nat \ {0}
    /\ CleanupInterval \in Nat
    /\ MaxTime \in Nat

(* There are finitely many addresses. *)
ASSUME ClientsAssumption == IsFiniteSet(Clients)

VARIABLES
    clock,        \* time.monotonic()
    keys,         \* key order of _rate_limit_store, front first
    stamps,       \* the list stored for each client
    lastCleanup,  \* _last_rate_limit_cleanup
    verdict,      \* the last answer of is_rate_limited, and for whom
    served        \* history: accepted requests of a client, from its last
                  \* loss by eviction (or by a restart) on

vars == <<clock, keys, stamps, lastCleanup, verdict, served>>

NoVerdict == [client |-> "nobody", limited |-> FALSE]

Latest(ts) == ts[Len(ts)]

-----------------------------------------------------------------------------
(* _cleanup_rate_limit_store *)

CleanupDue(now) == now - lastCleanup >= CleanupInterval

(* The age of the oldest request of the list, not of its last one. *)
IsStale_mutant(ts, now) == ts = <<>> \/ now - ts[1] >= Window

(* An entry exactly a window old is kept. *)
IsStaleLate_mutant(ts, now) == ts = <<>> \/ now - Latest(ts) > Window

IsStale(ts, now) == ts = <<>> \/ now - Latest(ts) >= Window

KeysAfterCleanup(now) ==
    IF CleanupDue(now)
      THEN Keep(keys, {i \in DOMAIN keys : ~IsStale(stamps[keys[i]], now)})
      ELSE keys

StampsAfterCleanup(now) ==
    [c \in Clients |->
        IF CleanupDue(now) /\ IsStale(stamps[c], now) THEN <<>> ELSE stamps[c]]

(* The operands swapped: the time since the last cleanup, negated. *)
LastCleanupAfter_mutant(now) == IF CleanupDue(now) THEN lastCleanup - now ELSE lastCleanup

LastCleanupAfter(now) == IF CleanupDue(now) THEN now ELSE lastCleanup

-----------------------------------------------------------------------------
(* is_rate_limited *)

(* A request exactly a window old still counts. *)
PrunedLate_mutant(ts, now) == Keep(ts, {i \in DOMAIN ts : now - ts[i] <= Window})

(* The window is one tick short. *)
PrunedEarly_mutant(ts, now) == Keep(ts, {i \in DOMAIN ts : now - ts[i] < Window - 1})

(* timestamps = [t for t in store.get(client_ip, []) if now - t < window] *)
Pruned(ts, now) == Keep(ts, {i \in DOMAIN ts : now - ts[i] < Window})

(* store[c] = ... : a new key goes to the end, a known one stays put. *)
Assigned(ks, c) == IF c \in Range(ks) THEN ks ELSE Append(ks, c)

(* A known key keeps its place. *)
MovedToEnd_mutant(ks, c) == ks

(* store.move_to_end(c) *)
MovedToEnd(ks, c) == Append(Keep(ks, {i \in DOMAIN ks : ks[i] # c}), c)

(* Evicts only while over capacity by more than one. *)
Surplus_mutant(ks) == IF Len(ks) > MaxClients THEN Len(ks) - MaxClients - 1 ELSE 0

(* _enforce_rate_limit_capacity: popitem(last=False) while over capacity *)
Surplus(ks) == IF Len(ks) > MaxClients THEN Len(ks) - MaxClients ELSE 0

Enforced(ks) == SubSeq(ks, Surplus(ks) + 1, Len(ks))

Evicted(ks) == {ks[i] : i \in 1..Surplus(ks)}

(* The list is full: the entry is pruned and left where it is. *)
Reject(c) ==
    LET now == clock
        ts  == Pruned(StampsAfterCleanup(now)[c], now)
    IN  /\ Len(ts) >= Limit
        /\ keys' = Assigned(KeysAfterCleanup(now), c)
        /\ stamps' = [StampsAfterCleanup(now) EXCEPT ![c] = ts]
        /\ lastCleanup' = LastCleanupAfter(now)
        /\ verdict' = [client |-> c, limited |-> TRUE]
        /\ UNCHANGED <<clock, served>>

(* There is room: record the request, make c the most recent, evict. *)
Accept(c) ==
    LET now == clock
        ts  == Pruned(StampsAfterCleanup(now)[c], now)
        ks  == MovedToEnd(Assigned(KeysAfterCleanup(now), c), c)
    IN  /\ Len(ts) < Limit
        /\ keys' = Enforced(ks)
        /\ stamps' = [d \in Clients |->
                         IF d \in Evicted(ks) THEN <<>>
                         ELSE IF d = c THEN Append(ts, now)
                         ELSE StampsAfterCleanup(now)[d]]
        /\ lastCleanup' = LastCleanupAfter(now)
        /\ verdict' = [client |-> c, limited |-> FALSE]
        /\ served' = [d \in Clients |->
                         IF d \in Evicted(ks) THEN <<>>
                         ELSE IF d = c THEN Append(served[d], now)
                         ELSE served[d]]
        /\ UNCHANGED clock

-----------------------------------------------------------------------------
(* time.monotonic() moves on. *)
Tick ==
    /\ clock < MaxTime
    /\ clock' = clock + 1
    /\ UNCHANGED <<keys, stamps, lastCleanup, verdict, served>>

(* The process restarts (reset_rate_limit_store has the same effect): the  *)
(* module's globals take their initial values, the host's clock goes on.   *)
Restart ==
    /\ keys' = <<>>
    /\ stamps' = [c \in Clients |-> <<>>]
    /\ lastCleanup' = 0
    /\ verdict' = NoVerdict
    /\ served' = [c \in Clients |-> <<>>]
    /\ UNCHANGED clock

Init ==
    /\ clock \in 0..CleanupInterval
    /\ keys = <<>>
    /\ stamps = [c \in Clients |-> <<>>]
    /\ lastCleanup = 0
    /\ verdict = NoVerdict
    /\ served = [c \in Clients |-> <<>>]

Next == Tick \/ Restart \/ \E c \in Clients : Accept(c) \/ Reject(c)

Spec == Init /\ [][Next]_vars
-----------------------------------------------------------------------------
(* Type correctness of the store (app/security.py 28-30) and its history. *)
TypeOK ==
    /\ clock \in Nat
    /\ keys \in Seq(Clients)
    /\ stamps \in [Clients -> Seq(Nat)]
    /\ lastCleanup \in Nat
    /\ verdict \in [client : Clients \cup {"nobody"}, limited : BOOLEAN]
    /\ served \in [Clients -> Seq(Nat)]

(* The keys of the dict are distinct and are the clients with a list. *)
KeysMatch(ks, st) ==
    /\ \A i, j \in DOMAIN ks : ks[i] = ks[j] => i = j
    /\ \A c \in Clients : c \in Range(ks) <=> st[c] # <<>>

(* The store stays within its memory: at most MaxClients keys, each once,  *)
(* and a key is present exactly when its list is not empty, of at most     *)
(* Limit times. is_rate_limited also assigns an entry on the path that     *)
(* returns before _enforce_rate_limit_capacity runs.                       *)
StoreBounded ==
    /\ Len(keys) <= MaxClients
    /\ KeysMatch(keys, stamps)
    /\ \A c \in Clients : Len(stamps[c]) <= Limit

Ordered(ks, st) ==
    \A i, j \in DOMAIN ks : i < j => Latest(st[ks[i]]) <= Latest(st[ks[j]])

(* The key order is by last accepted request, oldest first: what the       *)
(* comment in is_rate_limited asks of move_to_end, so that                 *)
(* _enforce_rate_limit_capacity may evict from the front.                  *)
LruOrder == Ordered(keys, stamps)

(* Nothing outlives a cleanup: every entry present was within the window   *)
(* at the last cleanup or was accepted since, so an idle client's address  *)
(* is not retained beyond it.                                              *)
NoDeadEntry ==
    \A c \in Range(keys) : lastCleanup - Latest(stamps[c]) < Window

(* Any Limit + 1 consecutive accepted requests of a client span at least   *)
(* a Window, whatever cleanups, prunings and evictions of others happened  *)
(* between them: the sliding window never admits one request too many to   *)
(* a client the store has not lost.                                        *)
WindowLimit ==
    \A c \in Clients : \A i \in DOMAIN served[c] :
        i + Limit <= Len(served[c]) => served[c][i + Limit] - served[c][i] >= Window

(* ts is the end of c's history, and what it left out is out of the window. *)
Recorded(ts, c) ==
    LET old == Len(served[c]) - Len(ts)
    IN  /\ old >= 0
        /\ \A i \in DOMAIN ts : ts[i] = served[c][old + i]
        /\ \A i \in 1..old : clock - served[c][i] >= Window

(* The stored list is the end of the client's history and lacks nothing    *)
(* that is still within the window: pruning, cleanup and the early return  *)
(* of a rejection drop only what can no longer matter.                     *)
HistoryKept == \A c \in Clients : Recorded(stamps[c], c)

(* Times run forward. *)
TimeOrder ==
    /\ lastCleanup <= clock
    /\ \A c \in Clients : \A i, j \in DOMAIN served[c] :
          i <= j => served[c][i] <= served[c][j] /\ served[c][j] <= clock

(* The inductive invariant of the proofs. *)
IInv ==
    /\ TypeOK
    /\ StoreBounded
    /\ LruOrder
    /\ NoDeadEntry
    /\ WindowLimit
    /\ HistoryKept
    /\ TimeOrder

(* The limiter implements the abstract sliding window, whose log is the    *)
(* history of accepted requests.                                           *)
Promise == INSTANCE SlidingWindow WITH log <- served

SlidingWindowPromise == Promise!Spec
=============================================================================
